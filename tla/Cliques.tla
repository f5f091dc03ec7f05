------------------------------- MODULE Cliques ------------------------------
(***************************************************************************)
(* The cliques kept in the nodes of the hash map (datatypes.h, set.c,      *)
(* negcl.c): a forest of disjoint sets with union by size, in which every  *)
(* set is also a linked list that starts at its root; the list of the      *)
(* representatives of the sets of two or more nodes; and, for each root,   *)
(* the list of the roots known to describe something else.                 *)
(*                                                                         *)
(* The operations are actions; Labels (csvparser) and ConflictResolution   *)
(* (conflict_resolution) are the programs that take them.  A pointer is    *)
(* the node it points to.  A negative list is made just before something   *)
(* is added to it, so an absent list and an empty one are the same.        *)
(***************************************************************************)
EXTENDS Integers, Sequences, FiniteSets, SequencesExt

CONSTANTS Nodes,            \* the nodes of the hash map
          NoNode            \* NULL

ASSUME NodesAssumption == IsFiniteSet(Nodes) /\ NoNode \notin Nodes

VARIABLES parent, next_in_clique, amount, ngl,   \* fields of list_node
          cliques                                \* the clique_list

setVars == <<parent, next_in_clique, amount, cliques>>
cliqueVars == <<parent, next_in_clique, amount, cliques, ngl>>

\* create_node, create_clique_list: every node is a clique of its own.
CliquesInit ==
  /\ parent = [x \in Nodes |-> NoNode]
  /\ next_in_clique = [x \in Nodes |-> NoNode]
  /\ amount = [x \in Nodes |-> 1]
  /\ ngl = [x \in Nodes |-> <<>>]
  /\ cliques = <<>>

-----------------------------------------------------------------------------
(* Disjoint sets *)

FindRoot(a) ==
  LET root[x \in Nodes] == IF parent[x] = NoNode THEN x ELSE root[parent[x]]
  IN root[a]

\* The linked list that starts at a.
Chain(a) ==
  LET chain[x \in Nodes] ==
        IF next_in_clique[x] = NoNode THEN <<x>>
                                      ELSE <<x>> \o chain[next_in_clique[x]]
  IN chain[a]

\* The representatives, without duplicates and in the order they came in.
InsertMaster(list, a) == IF Contains(list, a) THEN list ELSE Append(list, a)
MasterKept(list, a) == list            \* mutant: the absorbed root stays
RemoveMaster(list, a) == RemoveFirst(list, a)

\* The larger clique absorbs the smaller one, the first of two equal ones.
AlwaysFirst(a, b) == a                 \* mutant: sizes are not compared
NewRoot(a, b) == IF amount[b] > amount[a] THEN b ELSE a

\* Size of the clique of `new' after it has absorbed the clique of `old'.
AddedTooLate(new, old) ==              \* mutant: lines 83 and 84 swapped
  [amount EXCEPT ![new] = @ - 1, ![old] = -1]
AmountsAfter(new, old) == [amount EXCEPT ![new] = @ + amount[old], ![old] = -1]

\* join_sets, under the clique list in use.
JoinSets(a, b) ==
  LET root_a == FindRoot(a)
      root_b == FindRoot(b)
      new == NewRoot(root_a, root_b)
      old == IF new = root_a THEN root_b ELSE root_a
  IN IF root_a = root_b
       THEN UNCHANGED setVars
       ELSE /\ parent' = [parent EXCEPT ![old] = new]
            /\ amount' = AmountsAfter(new, old)
            /\ next_in_clique' = [next_in_clique EXCEPT ![Last(Chain(new))] = old]
            /\ cliques' = InsertMaster(RemoveMaster(cliques, old), new)

-----------------------------------------------------------------------------
(* Negative lists *)

NegNode(a) == [neg_clique |-> a, printed |-> 1]
InNeglist(a, b) == \E k \in DOMAIN ngl[a] : ngl[a][k].neg_clique = b

OneSided(list, a, b) == list                       \* mutant: only a learns of b
BothSides(list, a, b) == [list EXCEPT ![b] = Append(@, NegNode(a))]

\* neglist_add: only the list of a is searched.
NeglistAdd(a, b) ==
  ngl' = IF InNeglist(a, b)
           THEN ngl
           ELSE BothSides([ngl EXCEPT ![a] = Append(@, NegNode(b))], a, b)

-----------------------------------------------------------------------------
\* Mutant: lines 81 and 82 of datatypes.c are missing.
ParentsKept ==
  /\ UNCHANGED <<parent, next_in_clique>>
  /\ amount' = [x \in Nodes |-> 1] /\ ngl' = [x \in Nodes |-> <<>>]

\* reinitialize_all_cliques: all but the clique list.
Reinitialize ==
  /\ parent' = [x \in Nodes |-> NoNode]
  /\ next_in_clique' = [x \in Nodes |-> NoNode]
  /\ amount' = [x \in Nodes |-> 1]
  /\ ngl' = [x \in Nodes |-> <<>>]

-----------------------------------------------------------------------------
(* Properties *)

IsRoot(x) == parent[x] = NoNode
Roots == {x \in Nodes : IsRoot(x)}
Members(r) == {x \in Nodes : FindRoot(x) = r}

\* Every pointer is a node or NULL, and every size is possible.
CliquesTypeOK ==
  /\ parent \in [Nodes -> Nodes \cup {NoNode}]
  /\ next_in_clique \in [Nodes -> Nodes \cup {NoNode}]
  /\ amount \in [Nodes -> {-1} \cup 1 .. Cardinality(Nodes)]
  /\ ngl \in [Nodes -> Seq([neg_clique : Nodes, printed : {0, 1}])]
  /\ cliques \in Seq(Nodes)

\* The three views of a clique agree: the nodes whose root is r are exactly the
\* nodes of the list that starts at r, each once, and amount[r] is their number;
\* a node that is no root has amount -1; and the representatives listed are the
\* roots of the cliques of two or more nodes, each once.
ViewsAgree ==
  /\ \A x \in Nodes :
       IF IsRoot(x)
         THEN /\ ToSet(Chain(x)) = Members(x)
              /\ Len(Chain(x)) = Cardinality(Members(x))
              /\ amount[x] = Cardinality(Members(x))
         ELSE amount[x] = -1
  /\ ToSet(cliques) = {r \in Roots : amount[r] > 1}
  /\ Cardinality(ToSet(cliques)) = Len(cliques)

\* Union by size keeps the trees shallow although nothing compresses a path:
\* find_root takes at most log2 of the size of the clique steps.
Depth(a) ==
  LET depth[x \in Nodes] == IF IsRoot(x) THEN 0 ELSE 1 + depth[parent[x]]
  IN depth[a]
TwoTo(n) == LET power[k \in Nat] == IF k = 0 THEN 1 ELSE 2 * power[k - 1] IN power[n]
ShallowTrees == \A x \in Nodes : TwoTo(Depth(x)) <= Cardinality(Members(FindRoot(x)))

\* The cliques, and the ordered pairs of cliques known to be different.
Partition == {Members(r) : r \in Roots}
Apart ==
  UNION {{<<Members(r), Members(ngl[r][k].neg_clique)>> : k \in DOMAIN ngl[r]} : r \in Roots}
=============================================================================
