------------------------------ MODULE BagOfWords ------------------------------
(***************************************************************************)
(* parser of parse.c and what it fills: the hash map of the specs, the     *)
(* dictionary (a binary search tree), the bag of words (a vector of counts *)
(* for every text, all growing together) and the vector of document        *)
(* frequencies.                                                            *)
(*                                                                         *)
(* A word is its rank in the order of strcmp, and a node of the tree is    *)
(* its word.  A buffer of the parser is the sequence of its words, in the  *)
(* order bow_it meets them; how characters make words is left out, and so  *)
(* are the attributes, which nothing reads.                                *)
(***************************************************************************)
EXTENDS Integers, SequencesExt

CONSTANTS Specs,            \* the JSON files of all sites, by the id of their node
          Words, StopWords, \* ranks
          Buckets,          \* BUCKETS
          Hash,             \* hash_function, of the ids
          Capacity,         \* CAPACITY
          MaxText,          \* bound: words in a text
          MaxBuffer         \* bound: words in a buffer

FILES == Cardinality(Specs) \* also TFVECTORS; VECTORS is one more (Makefile:8)

ASSUME WordsAssumption ==
  /\ IsFiniteSet(Specs) /\ Specs # {}
  /\ IsFiniteSet(Words) /\ Words \subseteq Nat \ {0} /\ StopWords \subseteq Words
  /\ Buckets \in Nat \ {0} /\ Hash \in [Specs -> 0 .. Buckets - 1]
  /\ Capacity \in Nat \ {0} /\ MaxText \in Nat /\ MaxBuffer \in Nat

NoWord == 0                 \* an empty subtree
NoNode == [id |-> "none"]

VARIABLES map,              \* each bucket: its list of nodes
          bag,              \* vectors[0 .. FILES]
          idf_vec, dict, word_counter, text_counter,
          pseudonode,       \* the node of the file that is read
          pc,               \* where parser is
          occurs            \* history: how often each word is in each text

parseVars == <<map, bag, idf_vec, dict, word_counter, text_counter, pseudonode, pc, occurs>>

-----------------------------------------------------------------------------
(* Vectors.  Elements are numbered from 0. *)

create_vector == [name |-> "none", word_count |-> 0, size |-> 0, capacity |-> Capacity,
                  elements |-> [k \in 0 .. Capacity - 1 |-> 0]]
create_idf_vector == [size |-> 0, capacity |-> Capacity,
                      elements |-> [k \in 0 .. Capacity - 1 |-> 0]]

resize_vector(vec) ==
  [vec EXCEPT !.capacity = 2 * @,
              !.elements = [k \in 0 .. 2 * vec.capacity - 1 |->
                              IF k < vec.size THEN vec.elements[k] ELSE 0]]
resize_idf_vector(vec) == resize_vector(vec)

new_word(vec) ==
  LET grown == IF vec.size = vec.capacity THEN resize_vector(vec) ELSE vec
  IN [grown EXCEPT !.elements[vec.size] = vec.size, !.size = @ + 1]

\* The word is new to the text.
idf_incr(vec, pos) == vec.elements[pos] = 0

update_element(vec, pos) ==
  [vec EXCEPT !.elements[pos] = @ + 1,
              !.word_count = IF idf_incr(vec, pos) THEN @ + 1 ELSE @]

update_idf_vector(vec, pos) == [vec EXCEPT !.elements[pos] = @ + 1]

-----------------------------------------------------------------------------
(* The dictionary *)

Child(tree, node, word) == IF word < node THEN tree.left[node] ELSE tree.right[node]

\* The node a search for the word ends at.
Place(tree, word) ==
  LET end[node \in Words] ==
        IF node = word \/ Child(tree, node, word) = NoWord THEN node
        ELSE end[Child(tree, node, word)]
  IN IF tree.root = NoWord THEN NoWord ELSE end[tree.root]

\* The link that the new node is put in.
AttachMirrored(tree, leaf, word) ==                 \* mutant: the comparisons swapped
  IF leaf = NoWord THEN [tree EXCEPT !.root = word]
  ELSE IF word > leaf THEN [tree EXCEPT !.left[leaf] = word]
  ELSE [tree EXCEPT !.right[leaf] = word]
Attach(tree, leaf, word) ==
  IF leaf = NoWord THEN [tree EXCEPT !.root = word]
  ELSE IF word < leaf THEN [tree EXCEPT !.left[leaf] = word]
  ELSE [tree EXCEPT !.right[leaf] = word]

insert_tree(tree, word, payload) ==
  IF Place(tree, word) = word THEN tree
  ELSE [Attach(tree, Place(tree, word), word) EXCEPT !.payload[word] = payload]

search_tree(tree, word) == IF Place(tree, word) = word THEN tree.payload[word] ELSE -1

-----------------------------------------------------------------------------
(* The bag of words.  s holds the structures bow_it is handed, k is the   *)
(* vector of the text.                                                     *)

new_word_in_bag(s, k) ==
  LET resizing == s.bag[0].size = s.bag[0].capacity
      Grown(vec) == [(IF resizing THEN resize_vector(vec) ELSE vec) EXCEPT !.size = @ + 1]
      vectors == [i \in 0 .. FILES |-> IF i = 0 THEN new_word(s.bag[0]) ELSE Grown(s.bag[i])]
      pos == vectors[0].size - 1
      idf == [(IF resizing THEN resize_idf_vector(s.idf_vec) ELSE s.idf_vec)
                EXCEPT !.size = @ + 1]
  IN [s EXCEPT !.bag = [vectors EXCEPT ![k] = update_element(@, pos)],
               !.idf_vec = IF idf_incr(vectors[k], pos)
                             THEN update_idf_vector(idf, idf.size - 1) ELSE idf]

old_word(s, k, word_no) ==
  [s EXCEPT !.bag[k] = update_element(@, word_no),
            !.idf_vec = IF idf_incr(s.bag[k], word_no)
                          THEN update_idf_vector(@, word_no) ELSE @]

is_stopword(word) == word \in StopWords

insert_in_structures(s, k, word) ==
  IF is_stopword(word) THEN s
  ELSE IF Place(s.dict, word) = word THEN old_word(s, k, search_tree(s.dict, word))
  ELSE new_word_in_bag([s EXCEPT !.dict = insert_tree(@, word, s.word_counter),
                                 !.word_counter = @ + 1], k)

structures == [bag |-> bag, idf_vec |-> idf_vec, dict |-> dict, word_counter |-> word_counter]

\* The words of a buffer, one after the other, into the current text.
bow_it(buffer) ==
  LET s == FoldLeft(LAMBDA acc, word : insert_in_structures(acc, text_counter, word),
                    structures, buffer)
      Times(word) == Cardinality({n \in DOMAIN buffer : buffer[n] = word})
  IN /\ bag' = s.bag /\ idf_vec' = s.idf_vec
     /\ dict' = s.dict /\ word_counter' = s.word_counter
     /\ occurs' = [occurs EXCEPT ![pseudonode.id] = [w \in Words |-> @[w] + Times(w)]]

-----------------------------------------------------------------------------
(* The parser.  Folders and their files are listed in any order. *)

find_node(id) == SelectInSeq(map[Hash[id]], LAMBDA n : n.id = id)
Found(id) == find_node(id) # 0
NodeOf(id) == map[Hash[id]][find_node(id)]

add_to_bucket(b, n) == [map EXCEPT ![b] = Append(@, n)]

create_map == [b \in 0 .. Buckets - 1 |-> <<>>]
create_bow == [i \in 0 .. FILES |-> create_vector]
create_tree == [root |-> NoWord, left |-> [w \in Words |-> NoWord],
                right |-> [w \in Words |-> NoWord], payload |-> [w \in Words |-> -1]]

ParseInit ==
  /\ map = create_map /\ bag = create_bow
  /\ idf_vec = create_idf_vector /\ dict = create_tree
  /\ word_counter = 0 /\ text_counter = 0
  /\ pseudonode = NoNode /\ pc = "folder"
  /\ occurs = [s \in Specs |-> [w \in Words |-> 0]]

\* The node takes the number before the counter goes on, the vector the one after.
NumberedAfter(s) == [id |-> s, vec_num |-> text_counter + 1]  \* mutant: line 109 after 113
create_node(s) == [id |-> s, vec_num |-> text_counter]
new_text_file(vectors, k, s) == [vectors EXCEPT ![k].name = s]
OpenFile(s) ==
  /\ pc = "folder" /\ ~Found(s)
  /\ pseudonode' = create_node(s)
  /\ text_counter' = text_counter + 1
  /\ bag' = new_text_file(bag, text_counter', s)
  /\ pc' = "name"
  /\ UNCHANGED <<map, idf_vec, dict, word_counter, occurs>>

Buffers == SeqOf(Words, MaxBuffer)
Fits(buffer) == SumFunction(occurs[pseudonode.id]) + Len(buffer) <= MaxText

\* The name of an attribute; the closing brace ends the file instead.
ReadName ==
  /\ pc = "name"
  /\ \E buffer \in Buffers : Fits(buffer) /\ bow_it(buffer)
  /\ pc' = "value"
  /\ UNCHANGED <<map, text_counter, pseudonode>>

\* A plain value.
ReadValue ==
  /\ pc = "value"
  /\ \E buffer \in Buffers : Fits(buffer) /\ bow_it(buffer)
  /\ pc' = "name"
  /\ UNCHANGED <<map, text_counter, pseudonode>>

\* An array: its lines, each indented, are joined and handed over as one buffer.
ReadArray ==
  /\ pc = "value"
  /\ \E lines \in SeqOf(Buffers, 2) :
       Fits(FlattenSeq(lines)) /\ bow_it(FlattenSeq(lines))
  /\ pc' = "name"
  /\ UNCHANGED <<map, text_counter, pseudonode>>

\* add_to_bucket: the node comes into the map when its file has been read.
CloseFile ==
  /\ pc = "name"
  /\ map' = add_to_bucket(Hash[pseudonode.id], pseudonode)
  /\ pseudonode' = NoNode
  /\ pc' = "folder"
  /\ UNCHANGED <<bag, idf_vec, dict, word_counter, text_counter, occurs>>

EndOfFolders ==
  /\ pc = "folder" /\ \A s \in Specs : Found(s)
  /\ pc' = "parsed"
  /\ UNCHANGED <<map, bag, idf_vec, dict, word_counter, text_counter, pseudonode, occurs>>

ParseNext ==
  \/ \E s \in Specs : OpenFile(s)
  \/ ReadName \/ ReadValue \/ ReadArray \/ CloseFile \/ EndOfFolders

-----------------------------------------------------------------------------
(* Properties *)

Vectors == {bag[i] : i \in 0 .. FILES}
Counted == Words \ StopWords
InText(s) == {w \in Counted : occurs[s][w] > 0}
Seen == UNION {InText(s) : s \in Specs}

\* Types, and elements wherever the size says there are some.
ParseTypeOK ==
  /\ map \in [0 .. Buckets - 1 -> Seq([id : Specs, vec_num : 0 .. FILES - 1])]
  /\ \A i \in 0 .. FILES :
       /\ bag[i].name \in Specs \cup {"none"}
       /\ bag[i].size \in 0 .. bag[i].capacity
       /\ bag[i].elements \in [0 .. bag[i].capacity - 1 -> Nat]
       /\ bag[i].word_count \in 0 .. bag[i].size
  /\ idf_vec.size \in 0 .. idf_vec.capacity
  /\ idf_vec.elements \in [0 .. idf_vec.capacity - 1 -> Nat]
  /\ dict \in [root : Words \cup {NoWord}, left : [Words -> Words \cup {NoWord}],
               right : [Words -> Words \cup {NoWord}], payload : [Words -> Nat \cup {-1}]]
  /\ word_counter \in 0 .. Cardinality(Words) /\ text_counter \in 0 .. FILES
  /\ pseudonode \in [id : Specs, vec_num : 0 .. FILES - 1] \cup {NoNode}
  /\ pc \in {"folder", "name", "value", "parsed"}
  /\ occurs \in [Specs -> [Words -> Nat]]

\* bow.c:25-37: the vectors of all texts and the frequencies have room for the same
\* words, have the same number of them, and are zero past it, so that a word new to
\* the dictionary starts without occurrences in every text.
VectorsGrowTogether ==
  /\ \A vec \in Vectors \cup {idf_vec} :
       /\ vec.size = word_counter /\ vec.capacity = idf_vec.capacity
       /\ \A k \in vec.size .. vec.capacity - 1 : vec.elements[k] = 0
  /\ \A k \in 0 .. word_counter - 1 : bag[0].elements[k] = k

\* stringOps.c:54-68: the dictionary finds exactly the words met so far, stop words
\* excepted, each at a position of its own in the vectors.
DictionaryFindsPositions ==
  LET position == [w \in Seen |-> search_tree(dict, w)]
  IN /\ \A w \in Words \ Seen : search_tree(dict, w) = -1
     /\ IsInjective(position) /\ Range(position) = 0 .. word_counter - 1

\* The dictionary and the vectors agree: the number of a new word is a counter of the
\* dictionary's (stringOps.c:59), the position it is counted at the size of a vector.
DictionaryMatchesVectors == VectorsGrowTogether /\ DictionaryFindsPositions

\* What the parser promises conflict_resolution, train and test (routines.c:39-42):
\* a spec is found in the map once its file has been read, and only then, and the
\* vector of its number, which is one further in the bag, has its name and holds
\* how often each word is in its text.
SpecsFindTheirCounts ==
  \A s \in Specs : Found(s) =>
    LET vec == bag[NodeOf(s).vec_num + 1]
    IN /\ vec.name = s
       /\ \A w \in Seen : vec.elements[search_tree(dict, w)] = occurs[s][w]
       /\ vec.word_count = Cardinality(InText(s))

\* bow.c:38, 48: a frequency counts the texts a word is in, not its occurrences.
FrequencyCountsTexts ==
  \A w \in Seen :
    idf_vec.elements[search_tree(dict, w)] = Cardinality({s \in Specs : w \in InText(s)})

\* The numbers tf.c:43-53 computes with, of spec and word, are those of the texts.
NumbersAreOfTexts == SpecsFindTheirCounts /\ FrequencyCountsTexts
=============================================================================
