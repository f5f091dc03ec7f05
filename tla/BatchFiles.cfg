CONSTANTS
  ExecutionThreads = 3
  FullBatch = 9
  MaxLines = 20
SPECIFICATION Spec
INVARIANTS
  TypeOK
  NoLineLost
  FilesMatchCounts
  DataSetsStayApart
