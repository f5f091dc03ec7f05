CONSTANTS
  Specs = {s1, s2}
  Words = {1, 2, 3, 4, 5}
  StopWords = {3}
  Buckets = 1
  Hash <- OneBucket
  Capacity = 1
  MaxText = 3
  MaxBuffer = 1
  ImpWords = 3
  Scale = 6
  Log10 <- Logarithms
SPECIFICATION FairSpec
INVARIANTS
  TypeOK
  DictionaryMatchesVectors
  NumbersAreOfTexts
  AveragesStayWithWords
  CallsAreApart
  PivotIsLargest
  LargestAreKept
  FeaturesBelongToSpecs
  NaNNeverSelected
PROPERTIES
  SortEnds
  SortsAdvance
