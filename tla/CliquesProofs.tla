---------------------------- MODULE CliquesProofs ----------------------------
(***************************************************************************)
(* Facts about the disjoint sets of Cliques, for any set of nodes: the     *)
(* walk of find_root ends, at a root, and join_sets moves the members of   *)
(* one root to the other and nobody else.  Pointers are a parameter here,  *)
(* so that the facts hold of the pointers before and after a step.         *)
(***************************************************************************)
EXTENDS Cliques, FiniteSetTheorems, SequenceTheorems, WellFoundedInduction, TLAPS

\* What find_root returns by the pointers p.
RootBy(p, a) ==
  LET root[x \in Nodes] == IF p[x] = NoNode THEN x ELSE root[p[x]]
  IN root[a]

\* The functions that the walk may compute, and pointers without a cycle: every pointer
\* goes down, and there is such a function.
Climbs(p, root) ==
  /\ root \in [Nodes -> Nodes]
  /\ \A x \in Nodes : root[x] = IF p[x] = NoNode THEN x ELSE root[p[x]]
Forest(p) ==
  /\ p \in [Nodes -> Nodes \cup {NoNode}]
  /\ \E depth \in [Nodes -> Nat] :
       \A x \in Nodes : p[x] # NoNode => depth[p[x]] < depth[x]
  /\ \E root : Climbs(p, root)

-----------------------------------------------------------------------------
(* Least numbers, for induction. *)

Below == {pair \in Nat \X Nat : pair[1] < pair[2]}

\* A non-empty set of numbers has a least one.
LEMMA Least ==
  ASSUME NEW T \in SUBSET Nat, T # {}
  PROVE  \E m \in T : \A n \in T : m <= n
<1>1. IsWellFoundedOn(Below, Nat)
  <2>1. OpToRel(<, Nat) = Below
    BY Zenon DEF OpToRel, Below
  <2> QED
    BY <2>1, NatLessThanWellFounded
<1>2. PICK m \in T : \A n \in T : ~(<<n, m>> \in Below)
  BY <1>1, WFMin
<1>3. ASSUME NEW n \in T PROVE m <= n
  <2>1. m \in Nat /\ n \in Nat
    OBVIOUS
  <2>2. <<n, m>> \in Nat \X Nat /\ <<n, m>>[1] = n /\ <<n, m>>[2] = m
    BY <2>1
  <2>3. ~(n < m)
    BY <1>2, <2>2 DEF Below
  <2> QED
    BY <2>1, <2>3
<1> QED
  BY <1>3

\* What fails somewhere fails at a place from which the pointer, if any, leads to a place
\* where it does not.
LEMMA FailsFirst ==
  ASSUME NEW p, Forest(p), NEW Fails \in SUBSET Nodes, Fails # {}
  PROVE  \E x \in Fails : p[x] # NoNode => p[x] \notin Fails
<1>1. PICK depth \in [Nodes -> Nat] :
        \A x \in Nodes : p[x] # NoNode => depth[p[x]] < depth[x]
  BY DEF Forest
<1> DEFINE depths == {depth[x] : x \in Fails}
<1>2. depths \in SUBSET Nat /\ depths # {}
  OBVIOUS
<1>3. PICK m \in depths : \A n \in depths : m <= n
  <2> HIDE DEF depths
  <2> QED
    BY <1>2, Least
<1>4. PICK x \in Fails : m = depth[x]
  BY <1>3
<1>5. ASSUME p[x] # NoNode, p[x] \in Fails PROVE FALSE
  <2>1. depth[p[x]] \in Nat /\ depth[x] \in Nat /\ depth[p[x]] < depth[x]
    BY <1>1, <1>5
  <2>2. depth[x] <= depth[p[x]]
    BY <1>3, <1>4, <1>5
  <2> QED
    BY <2>1, <2>2
<1> QED
  BY <1>5

-----------------------------------------------------------------------------
(* find_root *)

\* Only one function climbs to the roots.
LEMMA ClimbsUnique ==
  ASSUME NEW p, Forest(p), NEW r, Climbs(p, r), NEW s, Climbs(p, s)
  PROVE  r = s
<1> DEFINE Differ == {x \in Nodes : r[x] # s[x]}
<1>1. ASSUME Differ # {} PROVE FALSE
  <2>1. PICK x \in Differ : p[x] # NoNode => p[x] \notin Differ
    <3>1. Differ \in SUBSET Nodes
      OBVIOUS
    <3> HIDE DEF Differ
    <3> QED
      BY <1>1, <3>1, FailsFirst
  <2>2. x \in Nodes /\ r[x] # s[x]
    BY <2>1
  <2>3. p[x] # NoNode
    BY <2>2 DEF Climbs
  <2>4. p[x] \in Nodes /\ r[p[x]] = s[p[x]]
    BY <2>1, <2>2, <2>3 DEF Forest
  <2> QED
    BY <2>2, <2>3, <2>4 DEF Climbs
<1> QED
  BY <1>1 DEF Climbs

\* find_root computes it.
LEMMA RootByClimbs ==
  ASSUME NEW p, NEW root, Climbs(p, root), Forest(p), NEW a \in Nodes
  PROVE  RootBy(p, a) = root[a]
<1> DEFINE Defines(f) == f = [x \in Nodes |-> IF p[x] = NoNode THEN x ELSE f[p[x]]]
           walk == CHOOSE f : Defines(f)
<1>1. Defines(root)
  BY DEF Climbs
<1>2. Defines(walk)
  BY <1>1
<1>3. RootBy(p, a) = walk[a]
  BY DEF RootBy
<1>4. walk = root
  <2> DEFINE Differ == {x \in Nodes : walk[x] # root[x]}
  <2>1. /\ walk = [x \in Nodes |-> walk[x]] /\ root = [x \in Nodes |-> root[x]]
        /\ \A x \in Nodes : walk[x] = IF p[x] = NoNode THEN x ELSE walk[p[x]]
    <3> HIDE DEF walk
    <3> QED
      BY <1>2 DEF Climbs
  <2> HIDE DEF walk, Defines
  <2>2. ASSUME Differ # {} PROVE FALSE
    <3>1. PICK x \in Differ : p[x] # NoNode => p[x] \notin Differ
      <4>1. Differ \in SUBSET Nodes
        OBVIOUS
      <4> HIDE DEF Differ
      <4> QED
        BY <2>2, <4>1, FailsFirst
    <3>2. x \in Nodes /\ walk[x] # root[x]
      BY <3>1
    <3>3. p[x] # NoNode
      BY <2>1, <3>2 DEF Climbs
    <3>4. p[x] \in Nodes /\ walk[p[x]] = root[p[x]]
      BY <3>1, <3>2, <3>3 DEF Forest
    <3> QED
      BY <2>1, <3>2, <3>3, <3>4 DEF Climbs
  <2> QED
    BY <2>1, <2>2
<1> QED
  BY <1>3, <1>4

\* The walk ends at a root, and goes by the pointers.
LEMMA RootByFacts ==
  ASSUME NEW p, Forest(p), NEW a \in Nodes
  PROVE  /\ RootBy(p, a) \in Nodes /\ p[RootBy(p, a)] = NoNode
         /\ RootBy(p, RootBy(p, a)) = RootBy(p, a)
         /\ p[a] = NoNode => RootBy(p, a) = a
<1>1. PICK root : Climbs(p, root)
  BY DEF Forest
<1>2. \A x \in Nodes : RootBy(p, x) = root[x] /\ root[x] \in Nodes
  BY <1>1, RootByClimbs DEF Climbs
<1> DEFINE Fails == {x \in Nodes : p[root[x]] # NoNode}
<1>3. ASSUME Fails # {} PROVE FALSE
  <2>1. PICK x \in Fails : p[x] # NoNode => p[x] \notin Fails
    <3>1. Fails \in SUBSET Nodes
      OBVIOUS
    <3> HIDE DEF Fails
    <3> QED
      BY <1>3, <3>1, FailsFirst
  <2>2. x \in Nodes /\ p[root[x]] # NoNode
    BY <2>1
  <2>3. p[x] # NoNode
    BY <1>1, <2>2 DEF Climbs
  <2>4. p[x] \in Nodes /\ p[root[p[x]]] = NoNode
    BY <2>1, <2>2, <2>3 DEF Forest
  <2> QED
    BY <1>1, <2>2, <2>3, <2>4 DEF Climbs
<1>4. p[root[a]] = NoNode
  BY <1>3
<1> QED
  BY <1>1, <1>2, <1>4 DEF Climbs

-----------------------------------------------------------------------------
(* The operations *)

\* Single nodes.
LEMMA SinglesForest ==
  ASSUME NEW p, p = [x \in Nodes |-> NoNode]
  PROVE  Forest(p) /\ \A x \in Nodes : RootBy(p, x) = x
<1>1. p \in [Nodes -> Nodes \cup {NoNode}]
  OBVIOUS
<1>2. \E depth \in [Nodes -> Nat] :
        \A x \in Nodes : p[x] # NoNode => depth[p[x]] < depth[x]
  <2>1. [x \in Nodes |-> 0] \in [Nodes -> Nat]
    OBVIOUS
  <2> QED
    BY <2>1
<1>3. Climbs(p, [x \in Nodes |-> x])
  BY DEF Climbs
<1>4. Forest(p)
  BY <1>1, <1>2, <1>3 DEF Forest
<1> QED
  BY <1>3, <1>4, RootByClimbs

\* One root is put under another: those that led to it lead to the other one.
Hung(p, old, new) == [p EXCEPT ![old] = new]
LEMMA HangRoot ==
  ASSUME NEW p, Forest(p), NEW old \in Nodes, NEW new \in Nodes, old # new,
         p[old] = NoNode, p[new] = NoNode
  PROVE  /\ Forest(Hung(p, old, new))
         /\ \A x \in Nodes :
              RootBy(Hung(p, old, new), x) = IF RootBy(p, x) = old THEN new ELSE RootBy(p, x)
<1> DEFINE q == Hung(p, old, new)
<1>1. PICK root : Climbs(p, root)
  BY DEF Forest
<1>2. \A x \in Nodes : RootBy(p, x) = root[x] /\ root[x] \in Nodes
  BY <1>1, RootByClimbs DEF Climbs
<1>3. PICK depth \in [Nodes -> Nat] :
        \A x \in Nodes : p[x] # NoNode => depth[p[x]] < depth[x]
  BY DEF Forest
<1>4. /\ p \in [Nodes -> Nodes \cup {NoNode}] /\ q \in [Nodes -> Nodes \cup {NoNode}]
      /\ q[old] = new /\ \A x \in Nodes : x # old => q[x] = p[x]
  BY DEF Forest, Hung
<1> HIDE DEF q
<1>5. new # NoNode /\ root[old] = old /\ root[new] = new
  BY <1>1, NodesAssumption DEF Climbs
<1> DEFINE after == [x \in Nodes |-> IF root[x] = old THEN new ELSE root[x]]
           deeper == [x \in Nodes |-> IF root[x] = old THEN depth[x] + depth[new] + 1
                                      ELSE depth[x]]
<1>6. Climbs(q, after)
  <2>1. after \in [Nodes -> Nodes]
    BY <1>2
  <2>2. ASSUME NEW x \in Nodes PROVE after[x] = IF q[x] = NoNode THEN x ELSE after[q[x]]
    <3>1. CASE x = old
      BY <1>4, <1>5, <3>1
    <3>2. CASE x # old /\ p[x] = NoNode
      <4>1. q[x] = NoNode /\ root[x] = x
        BY <1>1, <1>4, <3>2 DEF Climbs
      <4> QED
        BY <3>2, <4>1
    <3>3. CASE x # old /\ p[x] # NoNode
      <4>1. q[x] = p[x] /\ p[x] \in Nodes /\ root[x] = root[p[x]]
        BY <1>1, <1>4, <3>3 DEF Climbs
      <4> QED
        BY <3>3, <4>1
    <3> QED
      BY <3>1, <3>2, <3>3
  <2> QED
    BY <2>1, <2>2 DEF Climbs
<1>7. /\ deeper \in [Nodes -> Nat]
      /\ \A x \in Nodes : q[x] # NoNode => deeper[q[x]] < deeper[x]
  <2>1. deeper \in [Nodes -> Nat]
    OBVIOUS
  <2>2. ASSUME NEW x \in Nodes, q[x] # NoNode PROVE deeper[q[x]] < deeper[x]
    <3>1. CASE x = old
      <4>1. q[x] = new /\ deeper[new] = depth[new] /\ deeper[x] = depth[x] + depth[new] + 1
        BY <1>4, <1>5, <3>1
      <4>2. PICK d \in Nat, e \in Nat : d = depth[new] /\ e = depth[x]
        OBVIOUS
      <4>3. d < e + d + 1
        OBVIOUS
      <4> QED
        BY <4>1, <4>2, <4>3
    <3>2. CASE x # old
      <4>1. q[x] = p[x] /\ p[x] \in Nodes /\ root[x] = root[p[x]] /\ depth[p[x]] < depth[x]
        BY <1>1, <1>3, <1>4, <2>2, <3>2 DEF Climbs
      <4>2. PICK d \in Nat, e \in Nat, f \in Nat :
              d = depth[p[x]] /\ e = depth[x] /\ f = depth[new]
        BY <4>1
      <4>3. d < e /\ d + f + 1 < e + f + 1
        BY <4>1, <4>2
      <4>4. CASE root[x] = old
        <5>1. deeper[q[x]] = d + f + 1 /\ deeper[x] = e + f + 1
          BY <4>1, <4>2, <4>4
        <5> QED
          BY <4>3, <5>1
      <4>5. CASE root[x] # old
        <5>1. deeper[q[x]] = d /\ deeper[x] = e
          BY <4>1, <4>2, <4>5
        <5> QED
          BY <4>3, <5>1
      <4> QED
        BY <4>4, <4>5
    <3> QED
      BY <3>1, <3>2
  <2> HIDE DEF deeper
  <2> QED
    BY <2>1, <2>2
<1>8. Forest(q)
  <2> HIDE DEF after, deeper
  <2> QED
    BY <1>4, <1>6, <1>7 DEF Forest
<1>9. ASSUME NEW x \in Nodes PROVE RootBy(q, x) = after[x]
  <2> HIDE DEF after
  <2> QED
    BY <1>6, <1>8, RootByClimbs
<1> QED
  BY <1>2, <1>8, <1>9 DEF q

\* FindRoot, the operator of Cliques, is RootBy of the parents there are.
LEMMA FindRootBy == \A a \in Nodes : FindRoot(a) = RootBy(parent, a)
BY DEF FindRoot, RootBy

\* join_sets of two cliques puts the root of one of them under that of the other, links their
\* lists and replaces the representative.
LEMMA JoinTakesRoots ==
  ASSUME Forest(parent), NEW a \in Nodes, NEW b \in Nodes, JoinSets(a, b),
         RootBy(parent, a) # RootBy(parent, b)
  PROVE  \E old, new \in {RootBy(parent, a), RootBy(parent, b)} :
           /\ old # new /\ old \in Nodes /\ new \in Nodes
           /\ new = NewRoot(RootBy(parent, a), RootBy(parent, b))
           /\ parent[old] = NoNode /\ parent[new] = NoNode
           /\ parent' = [parent EXCEPT ![old] = new]
           /\ amount' = [amount EXCEPT ![new] = @ + amount[old], ![old] = -1]
           /\ next_in_clique' = [next_in_clique EXCEPT ![Last(Chain(new))] = old]
           /\ cliques' = InsertMaster(RemoveMaster(cliques, old), new)
<1>1. PICK ra, rb : ra = RootBy(parent, a) /\ rb = RootBy(parent, b)
  OBVIOUS
<1>2. /\ ra \in Nodes /\ rb \in Nodes /\ ra # rb /\ parent[ra] = NoNode /\ parent[rb] = NoNode
  BY <1>1, RootByFacts
<1>3. FindRoot(a) = ra /\ FindRoot(b) = rb
  BY <1>1, FindRootBy
<1>4. NewRoot(ra, rb) \in {ra, rb}
  BY DEF NewRoot
<1>5. PICK new \in {ra, rb} : new = NewRoot(ra, rb)
  BY <1>4
<1>6. PICK old \in {ra, rb} : old = IF new = ra THEN rb ELSE ra
  OBVIOUS
<1>7. old # new
  BY <1>2, <1>5, <1>6
<1>8. /\ parent' = [parent EXCEPT ![old] = new]
      /\ amount' = AmountsAfter(new, old)
      /\ next_in_clique' = [next_in_clique EXCEPT ![Last(Chain(new))] = old]
      /\ cliques' = InsertMaster(RemoveMaster(cliques, old), new)
  BY <1>2, <1>3, <1>5, <1>6 DEF JoinSets
<1> QED
  BY <1>1, <1>2, <1>5, <1>6, <1>7, <1>8 DEF AmountsAfter

\* join_sets of two nodes of one clique does nothing.
LEMMA JoinKeeps ==
  ASSUME Forest(parent), NEW a \in Nodes, NEW b \in Nodes, JoinSets(a, b),
         RootBy(parent, a) = RootBy(parent, b)
  PROVE  UNCHANGED setVars
BY FindRootBy DEF JoinSets

\* Afterwards two nodes have one root if they had one, or if theirs were the two joined.
LEMMA JoinMerges ==
  ASSUME Forest(parent), NEW a \in Nodes, NEW b \in Nodes, JoinSets(a, b)
  PROVE  /\ Forest(parent')
         /\ \A x, y \in Nodes :
              RootBy(parent', x) = RootBy(parent', y) <=>
                \/ RootBy(parent, x) = RootBy(parent, y)
                \/ {RootBy(parent, x), RootBy(parent, y)}
                     \subseteq {RootBy(parent, a), RootBy(parent, b)}
<1>1. CASE RootBy(parent, a) = RootBy(parent, b)
  <2>1. parent' = parent
    BY <1>1, JoinKeeps DEF setVars
  <2> QED
    BY <1>1, <2>1
<1>2. CASE RootBy(parent, a) # RootBy(parent, b)
  <2>1. PICK old, new \in {RootBy(parent, a), RootBy(parent, b)} :
          /\ old # new /\ old \in Nodes /\ new \in Nodes
          /\ parent[old] = NoNode /\ parent[new] = NoNode
          /\ parent' = [parent EXCEPT ![old] = new]
    BY <1>2, JoinTakesRoots
  <2>2. PICK q : q = parent'
    OBVIOUS
  <2>3. /\ Forest(q)
        /\ \A x \in Nodes :
             RootBy(q, x) = IF RootBy(parent, x) = old THEN new ELSE RootBy(parent, x)
    <3>1. PICK p : p = parent
      OBVIOUS
    <3>2. /\ Forest(p) /\ p[old] = NoNode /\ p[new] = NoNode /\ q = Hung(p, old, new)
          /\ old # new /\ old \in Nodes /\ new \in Nodes
      BY <2>1, <2>2, <3>1 DEF Hung
    <3>3. /\ Forest(q)
          /\ \A x \in Nodes : RootBy(q, x) = IF RootBy(p, x) = old THEN new ELSE RootBy(p, x)
      BY <3>2, HangRoot
    <3> QED
      BY <3>1, <3>3
  <2>4. {old, new} = {RootBy(parent, a), RootBy(parent, b)}
    BY <1>2, <2>1
  <2>5. ASSUME NEW x \in Nodes, NEW y \in Nodes
        PROVE  RootBy(q, x) = RootBy(q, y) <=>
                 \/ RootBy(parent, x) = RootBy(parent, y)
                 \/ {RootBy(parent, x), RootBy(parent, y)} \subseteq {old, new}
    BY <2>1, <2>3
  <2> QED
    BY <2>2, <2>3, <2>4, <2>5
<1> QED
  BY <1>1, <1>2

\* The representatives stay a list of nodes.
LEMMA MastersAreNodes ==
  ASSUME NEW list \in Seq(Nodes), NEW a \in Nodes
  PROVE  InsertMaster(list, a) \in Seq(Nodes) /\ RemoveMaster(list, a) \in Seq(Nodes)
<1>1. InsertMaster(list, a) \in Seq(Nodes)
  BY DEF InsertMaster
<1>2. CASE \E k \in 1 .. Len(list) : list[k] = a
  <2> DEFINE places == {k \in 1 .. Len(list) : list[k] = a}
  <2>1. places # {} /\ places \in SUBSET Nat
    BY <1>2
  <2>2. PICK m \in places : \A n \in places : m <= n
    <3> HIDE DEF places
    <3> QED
      BY <2>1, Least
  <2>3. SelectInSeq(list, LAMBDA v : v = a) \in 1 .. Len(list)
    BY <2>1, <2>2 DEF SelectInSeq, Min
  <2>4. PICK k \in 1 .. Len(list) : k = SelectInSeq(list, LAMBDA v : v = a)
    BY <2>3
  <2>5. RemoveMaster(list, a) = SubSeq(list, 1, k - 1) \o SubSeq(list, k + 1, Len(list))
    BY <1>2, <2>4 DEF RemoveMaster, RemoveFirst, RemoveAt
  <2>6. SubSeq(list, 1, k - 1) \in Seq(Nodes) /\ SubSeq(list, k + 1, Len(list)) \in Seq(Nodes)
    OBVIOUS
  <2> QED
    BY <1>1, <2>5, <2>6
<1>3. CASE ~\E k \in 1 .. Len(list) : list[k] = a
  BY <1>1, <1>3 DEF RemoveMaster, RemoveFirst
<1> QED
  BY <1>2, <1>3

-----------------------------------------------------------------------------
(* Sizes *)

MembersBy(p, r) == {x \in Nodes : RootBy(p, x) = r}
AmountsBy(p) ==
  [x \in Nodes |-> IF p[x] = NoNode THEN Cardinality(MembersBy(p, x)) ELSE -1]

\* A root has at least itself and at most all nodes.
LEMMA MembersCount ==
  ASSUME NEW p, Forest(p), NEW r \in Nodes
  PROVE  /\ IsFiniteSet(MembersBy(p, r)) /\ Cardinality(MembersBy(p, r)) \in Nat
         /\ Cardinality(MembersBy(p, r)) <= Cardinality(Nodes)
         /\ p[r] = NoNode => Cardinality(MembersBy(p, r)) > 0
<1>1. IsFiniteSet(Nodes) /\ MembersBy(p, r) \subseteq Nodes
  BY NodesAssumption DEF MembersBy
<1>2. /\ IsFiniteSet(MembersBy(p, r)) /\ Cardinality(MembersBy(p, r)) <= Cardinality(Nodes)
  BY <1>1, FS_Subset
<1>3. Cardinality(MembersBy(p, r)) \in Nat
  BY <1>2, FS_CardinalityType
<1>4. ASSUME p[r] = NoNode PROVE Cardinality(MembersBy(p, r)) > 0
  <2>1. r \in MembersBy(p, r)
    BY <1>4, RootByFacts DEF MembersBy
  <2>2. MembersBy(p, r) # {}
    BY <2>1
  <2>3. Cardinality(MembersBy(p, r)) # 0
    BY <1>2, <2>2, FS_EmptySet
  <2> QED
    BY <1>3, <2>3
<1> QED
  BY <1>2, <1>3, <1>4

\* A root has between one and all nodes, any other node has -1.
LEMMA AmountsTyped ==
  ASSUME NEW p, Forest(p)
  PROVE  AmountsBy(p) \in [Nodes -> {-1} \cup 1 .. Cardinality(Nodes)]
<1>1. ASSUME NEW x \in Nodes, p[x] = NoNode
      PROVE  Cardinality(MembersBy(p, x)) \in 1 .. Cardinality(Nodes)
  <2>1. Cardinality(Nodes) \in Nat
    BY NodesAssumption, FS_CardinalityType
  <2>2. PICK m \in Nat : m = Cardinality(MembersBy(p, x))
    BY MembersCount
  <2>3. m <= Cardinality(Nodes) /\ m > 0
    BY <1>1, <2>2, MembersCount
  <2> QED
    BY <2>1, <2>2, <2>3
<1> QED
  BY <1>1 DEF AmountsBy

\* The members of the root that is put under the other are added to its members.
LEMMA HangMembers ==
  ASSUME NEW p, Forest(p), NEW old \in Nodes, NEW new \in Nodes, old # new,
         p[old] = NoNode, p[new] = NoNode
  PROVE  /\ MembersBy(Hung(p, old, new), new) = MembersBy(p, new) \cup MembersBy(p, old)
         /\ MembersBy(p, new) \cap MembersBy(p, old) = {}
         /\ \A x \in Nodes \ {old, new} : MembersBy(Hung(p, old, new), x) = MembersBy(p, x)
<1>1. PICK q : q = Hung(p, old, new)
  OBVIOUS
<1>2. \A x \in Nodes : RootBy(q, x) = IF RootBy(p, x) = old THEN new ELSE RootBy(p, x)
  BY <1>1, HangRoot
<1>3. MembersBy(q, new) = MembersBy(p, new) \cup MembersBy(p, old)
  BY <1>2 DEF MembersBy
<1>4. MembersBy(p, new) \cap MembersBy(p, old) = {}
  BY DEF MembersBy
<1>5. \A x \in Nodes \ {old, new} : MembersBy(q, x) = MembersBy(p, x)
  BY <1>2 DEF MembersBy
<1> QED
  BY <1>1, <1>3, <1>4, <1>5

\* A moved part of a clique and the rest of it, counted.
LEMMA HangAmounts ==
  ASSUME NEW p, Forest(p), NEW old \in Nodes, NEW new \in Nodes, old # new,
         p[old] = NoNode, p[new] = NoNode
  PROVE  AmountsBy(Hung(p, old, new))
           = [AmountsBy(p) EXCEPT ![new] = @ + AmountsBy(p)[old], ![old] = -1]
<1>1. PICK q : q = Hung(p, old, new)
  OBVIOUS
<1>2. /\ q[old] = new /\ q[new] = NoNode /\ new # NoNode
      /\ \A x \in Nodes \ {old} : q[x] = p[x]
  BY <1>1, NodesAssumption DEF Hung, Forest
<1>3. /\ MembersBy(q, new) = MembersBy(p, new) \cup MembersBy(p, old)
      /\ MembersBy(p, new) \cap MembersBy(p, old) = {}
      /\ \A x \in Nodes \ {old, new} : MembersBy(q, x) = MembersBy(p, x)
  BY <1>1, HangMembers
<1>4. Cardinality(MembersBy(q, new))
        = Cardinality(MembersBy(p, new)) + Cardinality(MembersBy(p, old))
  <2>1. IsFiniteSet(MembersBy(p, new)) /\ IsFiniteSet(MembersBy(p, old))
    BY MembersCount
  <2>2. PICK S, T : S = MembersBy(p, new) /\ T = MembersBy(p, old)
    OBVIOUS
  <2>3. Cardinality(S \cup T) = Cardinality(S) + Cardinality(T) - Cardinality(S \cap T)
    BY <2>1, <2>2, FS_Union
  <2>4. Cardinality(S \cap T) = 0
    BY <1>3, <2>2, FS_EmptySet
  <2>5. Cardinality(S) \in Nat /\ Cardinality(T) \in Nat
    BY <2>1, <2>2, FS_CardinalityType
  <2>6. Cardinality(S \cup T) = Cardinality(S) + Cardinality(T)
    BY <2>3, <2>4, <2>5
  <2> QED
    BY <1>3, <2>2, <2>6
<1>5. PICK f : f = AmountsBy(p)
  OBVIOUS
<1>6. /\ f = [x \in Nodes |-> f[x]]
      /\ \A x \in Nodes : f[x] = IF p[x] = NoNode THEN Cardinality(MembersBy(p, x)) ELSE -1
  BY <1>5 DEF AmountsBy
<1>7. PICK sum : sum = f[new] + f[old]
  OBVIOUS
<1>8. PICK g : g = [f EXCEPT ![new] = sum, ![old] = -1]
  OBVIOUS
<1>9. /\ g = [x \in Nodes |-> g[x]] /\ g[old] = -1 /\ g[new] = sum
      /\ \A x \in Nodes \ {old, new} : g[x] = f[x]
  BY <1>6, <1>8
<1>10. PICK h : h = AmountsBy(q)
  OBVIOUS
<1>11. /\ h = [x \in Nodes |-> h[x]]
       /\ \A x \in Nodes : h[x] = IF q[x] = NoNode THEN Cardinality(MembersBy(q, x)) ELSE -1
  BY <1>10 DEF AmountsBy
<1>12. ASSUME NEW x \in Nodes PROVE h[x] = g[x]
  <2>1. CASE x = old
    BY <1>2, <1>9, <1>11, <2>1
  <2>2. CASE x = new
    BY <1>2, <1>4, <1>6, <1>7, <1>9, <1>11, <2>2
  <2>3. CASE x \in Nodes \ {old, new}
    BY <1>2, <1>3, <1>6, <1>9, <1>11, <2>3
  <2> QED
    BY <2>1, <2>2, <2>3
<1>13. h = g
  BY <1>9, <1>11, <1>12
<1> QED
  BY <1>1, <1>5, <1>7, <1>8, <1>10, <1>13

\* join_sets keeps the sizes.
LEMMA JoinAmounts ==
  ASSUME Forest(parent), NEW a \in Nodes, NEW b \in Nodes, JoinSets(a, b),
         amount = AmountsBy(parent)
  PROVE  amount' = AmountsBy(parent')
<1>1. CASE RootBy(parent, a) = RootBy(parent, b)
  BY <1>1, JoinKeeps DEF setVars
<1>2. CASE RootBy(parent, a) # RootBy(parent, b)
  <2>1. PICK old, new \in {RootBy(parent, a), RootBy(parent, b)} :
          /\ old # new /\ old \in Nodes /\ new \in Nodes
          /\ parent[old] = NoNode /\ parent[new] = NoNode
          /\ parent' = [parent EXCEPT ![old] = new]
          /\ amount' = [amount EXCEPT ![new] = @ + amount[old], ![old] = -1]
    BY <1>2, JoinTakesRoots
  <2>2. PICK p : p = parent
    OBVIOUS
  <2>3. AmountsBy(Hung(p, old, new))
          = [AmountsBy(p) EXCEPT ![new] = @ + AmountsBy(p)[old], ![old] = -1]
    BY <2>1, <2>2, HangAmounts
  <2>4. parent' = Hung(p, old, new)
    BY <2>1, <2>2 DEF Hung
  <2>5. amount' = [AmountsBy(p) EXCEPT ![new] = @ + AmountsBy(p)[old], ![old] = -1]
    BY <2>1, <2>2
  <2> QED
    BY <2>3, <2>4, <2>5
<1> QED
  BY <1>1, <1>2

\* The two lists stay lists of nodes.
LEMMA JoinTyped ==
  ASSUME Forest(parent), NEW a \in Nodes, NEW b \in Nodes, JoinSets(a, b),
         next_in_clique \in [Nodes -> Nodes \cup {NoNode}], cliques \in Seq(Nodes)
  PROVE  next_in_clique' \in [Nodes -> Nodes \cup {NoNode}] /\ cliques' \in Seq(Nodes)
<1>1. CASE RootBy(parent, a) = RootBy(parent, b)
  BY <1>1, JoinKeeps DEF setVars
<1>2. CASE RootBy(parent, a) # RootBy(parent, b)
  <2>1. PICK old, new \in {RootBy(parent, a), RootBy(parent, b)} :
          /\ old # new /\ old \in Nodes /\ new \in Nodes
          /\ next_in_clique' = [next_in_clique EXCEPT ![Last(Chain(new))] = old]
          /\ cliques' = InsertMaster(RemoveMaster(cliques, old), new)
    BY <1>2, JoinTakesRoots
  <2>2. next_in_clique' \in [Nodes -> Nodes \cup {NoNode}]
    BY <2>1
  <2>3. PICK shorter \in Seq(Nodes) : shorter = RemoveMaster(cliques, old)
    BY <2>1, MastersAreNodes
  <2>4. cliques' \in Seq(Nodes)
    BY <2>1, <2>3, MastersAreNodes
  <2> QED
    BY <2>2, <2>4
<1> QED
  BY <1>1, <1>2

-----------------------------------------------------------------------------
(* Powers of two *)

\* The first powers of two, up to that of n.
PowersTo(n, f) ==
  /\ f \in [0 .. n -> Nat] /\ f[0] = 1
  /\ \A k \in 0 .. n - 1 : f[k + 1] = 2 * f[k]

\* There are such numbers for every n.
LEMMA PowersExist == \A n \in Nat : \E f : PowersTo(n, f)
<1> DEFINE Fails == {n \in Nat : ~\E f : PowersTo(n, f)}
<1>1. ASSUME Fails # {} PROVE FALSE
  <2>1. PICK n \in Fails : \A m \in Fails : n <= m
    <3>1. Fails \in SUBSET Nat
      OBVIOUS
    <3> HIDE DEF Fails
    <3> QED
      BY <1>1, <3>1, Least
  <2>2. n \in Nat /\ ~\E f : PowersTo(n, f)
    BY <2>1
  <2>3. n # 0
    <3>1. PowersTo(0, [k \in 0 .. 0 |-> 1])
      BY DEF PowersTo
    <3> QED
      BY <2>2, <3>1
  <2>4. n - 1 \in Nat /\ n - 1 \notin Fails
    BY <2>1, <2>2, <2>3
  <2>5. PICK f : PowersTo(n - 1, f)
    BY <2>4
  <2> DEFINE g == [k \in 0 .. n |-> IF k = n THEN 2 * f[n - 1] ELSE f[k]]
  <2>6. f \in [0 .. n - 1 -> Nat] /\ f[0] = 1 /\ \A k \in 0 .. n - 2 : f[k + 1] = 2 * f[k]
    BY <2>2, <2>5 DEF PowersTo
  <2>7. g \in [0 .. n -> Nat]
    BY <2>2, <2>3, <2>6
  <2>8. g[0] = 1
    BY <2>2, <2>3, <2>6
  <2>9. ASSUME NEW k \in 0 .. n - 1 PROVE g[k + 1] = 2 * g[k]
    <3>1. CASE k = n - 1
      BY <2>2, <3>1
    <3>2. CASE k # n - 1
      BY <2>2, <2>6, <3>2
    <3> QED
      BY <3>1, <3>2
  <2>10. PowersTo(n, g)
    <3> HIDE DEF g
    <3> QED
      BY <2>7, <2>8, <2>9 DEF PowersTo
  <2> QED
    BY <2>2, <2>10
<1> QED
  BY <1>1

\* Two lists of powers agree as far as both go.
LEMMA PowersAgree ==
  ASSUME NEW m \in Nat, NEW n \in Nat, NEW f, PowersTo(m, f), NEW g, PowersTo(n, g)
  PROVE  \A k \in Nat : k <= m /\ k <= n => f[k] = g[k]
<1> DEFINE Differ == {k \in Nat : k <= m /\ k <= n /\ f[k] # g[k]}
<1>1. ASSUME Differ # {} PROVE FALSE
  <2>1. PICK k \in Differ : \A j \in Differ : k <= j
    <3>1. Differ \in SUBSET Nat
      OBVIOUS
    <3> HIDE DEF Differ
    <3> QED
      BY <1>1, <3>1, Least
  <2>2. k \in Nat /\ k <= m /\ k <= n /\ f[k] # g[k] /\ k # 0
    BY <2>1 DEF PowersTo
  <2>3. k - 1 \in Nat /\ k - 1 \notin Differ /\ k - 1 \in 0 .. m - 1 /\ k - 1 \in 0 .. n - 1
    BY <2>1, <2>2
  <2>4. f[k - 1] = g[k - 1]
    BY <2>2, <2>3
  <2>5. PICK j \in Nat : j = k - 1 /\ j + 1 = k
    BY <2>2, <2>3
  <2>6. f[j + 1] = 2 * f[j] /\ g[j + 1] = 2 * g[j]
    BY <2>3, <2>5 DEF PowersTo
  <2> QED
    BY <2>2, <2>4, <2>5, <2>6
<1> QED
  BY <1>1

\* The powers of two are numbers, the first is 1 and the others are twice the one before.
LEMMA TwoToFacts ==
  /\ TwoTo(0) = 1
  /\ \A n \in Nat : TwoTo(n) \in Nat /\ TwoTo(n + 1) = 2 * TwoTo(n)
<1> DEFINE list(n) == CHOOSE f : PowersTo(n, f)
           all == [n \in Nat |-> list(n)[n]]
           Defines(f) == f = [k \in Nat |-> IF k = 0 THEN 1 ELSE 2 * f[k - 1]]
           power == CHOOSE f : Defines(f)
<1>1. \A n \in Nat : PowersTo(n, list(n))
  BY PowersExist
<1> HIDE DEF list
<1>2. \A n \in Nat : all[n] \in Nat
  BY <1>1 DEF PowersTo
<1>3. all[0] = 1
  BY <1>1 DEF PowersTo
<1>4. ASSUME NEW n \in Nat PROVE all[n + 1] = 2 * all[n]
  <2>1. PICK f, g : f = list(n) /\ g = list(n + 1)
    OBVIOUS
  <2>2. PowersTo(n, f) /\ PowersTo(n + 1, g) /\ all[n] = f[n] /\ all[n + 1] = g[n + 1]
    BY <1>1, <2>1
  <2>3. f[n] = g[n]
    BY <2>2, PowersAgree
  <2>4. g[n + 1] = 2 * g[n]
    <3>1. n \in 0 .. (n + 1) - 1
      OBVIOUS
    <3> QED
      BY <2>2, <3>1 DEF PowersTo
  <2> QED
    BY <2>2, <2>3, <2>4
<1>5. Defines(all)
  <2>1. ASSUME NEW k \in Nat PROVE all[k] = IF k = 0 THEN 1 ELSE 2 * all[k - 1]
    <3>1. CASE k = 0
      BY <1>3, <3>1
    <3>2. CASE k # 0
      <4>1. PICK j \in Nat : k = j + 1 /\ k - 1 = j
        BY <3>2
      <4>2. all[j + 1] = 2 * all[j]
        BY <1>4
      <4> HIDE DEF all
      <4> QED
        BY <3>2, <4>1, <4>2
    <3> QED
      BY <3>1, <3>2
  <2>2. all = [k \in Nat |-> all[k]]
    OBVIOUS
  <2> HIDE DEF all
  <2> QED
    BY <2>1, <2>2
<1>6. Defines(power)
  BY <1>5
<1>7. \A n : TwoTo(n) = power[n]
  BY DEF TwoTo
<1>8. \A k \in Nat : power[k] = IF k = 0 THEN 1 ELSE 2 * power[k - 1]
  <2> HIDE DEF power
  <2> QED
    BY <1>6
<1> HIDE DEF power, Defines, all
<1>9. power[0] = 1
  BY <1>8
<1>10. ASSUME NEW n \in Nat PROVE power[n + 1] = 2 * power[n]
  <2>1. n + 1 \in Nat /\ n + 1 # 0 /\ (n + 1) - 1 = n
    OBVIOUS
  <2> QED
    BY <1>8, <2>1
<1> DEFINE Fails == {n \in Nat : power[n] \notin Nat}
<1>11. ASSUME Fails # {} PROVE FALSE
  <2>1. PICK n \in Fails : \A m \in Fails : n <= m
    <3>1. Fails \in SUBSET Nat
      OBVIOUS
    <3> HIDE DEF Fails
    <3> QED
      BY <1>11, <3>1, Least
  <2>2. n \in Nat /\ n # 0 /\ power[n] \notin Nat
    BY <1>9, <2>1
  <2>3. n - 1 \in Nat /\ n - 1 \notin Fails
    BY <2>1, <2>2
  <2>4. power[n - 1] \in Nat /\ power[n] = 2 * power[n - 1]
    BY <1>8, <2>2, <2>3
  <2> QED
    BY <2>2, <2>4
<1> QED
  BY <1>7, <1>9, <1>10, <1>11

-----------------------------------------------------------------------------
(* The height of the trees *)

\* The functions that count the steps of find_root, and what they count.
Deepens(p, depth) ==
  /\ depth \in [Nodes -> Nat]
  /\ \A x \in Nodes : depth[x] = IF p[x] = NoNode THEN 0 ELSE 1 + depth[p[x]]
Shallow(p) ==
  /\ Forest(p)
  /\ \E depth : /\ Deepens(p, depth)
                /\ \A x \in Nodes :
                     TwoTo(depth[x]) <= Cardinality(MembersBy(p, RootBy(p, x)))

\* Depth computes it.
LEMMA DepthDeepens ==
  ASSUME NEW depth, Deepens(parent, depth), Forest(parent), NEW a \in Nodes
  PROVE  Depth(a) = depth[a]
<1> DEFINE Defines(f) == f = [x \in Nodes |-> IF IsRoot(x) THEN 0 ELSE 1 + f[parent[x]]]
           count == CHOOSE f : Defines(f)
<1>1. Defines(depth)
  BY DEF Deepens, IsRoot
<1>2. Defines(count)
  BY <1>1
<1>3. Depth(a) = count[a]
  BY DEF Depth
<1> DEFINE Differ == {x \in Nodes : count[x] # depth[x]}
<1>4. \A x \in Nodes : count[x] = IF parent[x] = NoNode THEN 0 ELSE 1 + count[parent[x]]
  <2> HIDE DEF count
  <2> QED
    BY <1>2 DEF IsRoot
<1> HIDE DEF count, Defines
<1>5. ASSUME Differ # {} PROVE FALSE
  <2>1. PICK x \in Differ : parent[x] # NoNode => parent[x] \notin Differ
    <3>1. Differ \in SUBSET Nodes
      OBVIOUS
    <3> HIDE DEF Differ
    <3> QED
      BY <1>5, <3>1, FailsFirst
  <2>2. x \in Nodes /\ count[x] # depth[x]
    BY <2>1
  <2>3. parent[x] # NoNode
    BY <1>4, <2>2 DEF Deepens
  <2>4. parent[x] \in Nodes /\ count[parent[x]] = depth[parent[x]]
    BY <2>1, <2>2, <2>3 DEF Forest
  <2> QED
    BY <1>4, <2>2, <2>3, <2>4 DEF Deepens
<1> QED
  BY <1>3, <1>5

\* Trees of single nodes have no height.
LEMMA SinglesShallow ==
  ASSUME NEW p, p = [x \in Nodes |-> NoNode]
  PROVE  Shallow(p)
<1>1. Forest(p) /\ \A x \in Nodes : RootBy(p, x) = x
  BY SinglesForest
<1>2. PICK depth : depth = [x \in Nodes |-> 0]
  OBVIOUS
<1>3. Deepens(p, depth)
  BY <1>2 DEF Deepens
<1>4. ASSUME NEW x \in Nodes PROVE TwoTo(depth[x]) <= Cardinality(MembersBy(p, RootBy(p, x)))
  <2>1. PICK n \in Nat : n = Cardinality(MembersBy(p, x)) /\ n > 0
    BY <1>1, MembersCount
  <2>2. TwoTo(depth[x]) = 1
    BY <1>2, TwoToFacts
  <2> QED
    BY <1>1, <2>1, <2>2
<1> QED
  BY <1>1, <1>3, <1>4 DEF Shallow

\* The smaller tree is put one lower, and the two together have twice its nodes.
LEMMA HangShallow ==
  ASSUME NEW p, Shallow(p), NEW old \in Nodes, NEW new \in Nodes, old # new,
         p[old] = NoNode, p[new] = NoNode,
         Cardinality(MembersBy(p, old)) <= Cardinality(MembersBy(p, new))
  PROVE  Shallow(Hung(p, old, new))
<1> DEFINE q == Hung(p, old, new)
           size(x) == Cardinality(MembersBy(p, RootBy(p, x)))
<1>1. Forest(p)
  BY DEF Shallow
<1>2. PICK depth : /\ Deepens(p, depth)
                   /\ \A x \in Nodes : TwoTo(depth[x]) <= size(x)
  BY DEF Shallow
<1>3. /\ Forest(q)
      /\ \A x \in Nodes : RootBy(q, x) = IF RootBy(p, x) = old THEN new ELSE RootBy(p, x)
  BY <1>1, HangRoot
<1>4. /\ \A x \in Nodes : x # old => q[x] = p[x]
      /\ q[old] = new /\ new # NoNode
      /\ p \in [Nodes -> Nodes \cup {NoNode}]
  BY <1>1, NodesAssumption DEF Forest, Hung
<1>5. PICK m \in Nat, n \in Nat :
        m = Cardinality(MembersBy(p, old)) /\ n = Cardinality(MembersBy(p, new))
  BY <1>1, MembersCount
<1>6. Cardinality(MembersBy(q, new)) = n + m
  <2>1. AmountsBy(q) = [AmountsBy(p) EXCEPT ![new] = @ + AmountsBy(p)[old], ![old] = -1]
    BY <1>1, HangAmounts
  <2>2. q[new] = NoNode
    BY <1>4
  <2>3. /\ AmountsBy(p)[old] = m /\ AmountsBy(p)[new] = n
        /\ AmountsBy(q)[new] = Cardinality(MembersBy(q, new))
        /\ AmountsBy(p) = [x \in Nodes |-> AmountsBy(p)[x]]
    <3> HIDE DEF q
    <3> QED
      BY <1>5, <2>2 DEF AmountsBy
  <2>4. PICK f, g : f = AmountsBy(p) /\ g = AmountsBy(q)
    OBVIOUS
  <2>5. f = [x \in Nodes |-> f[x]] /\ g = [f EXCEPT ![new] = @ + f[old], ![old] = -1]
    <3> HIDE DEF q
    <3> QED
      BY <2>1, <2>3, <2>4
  <2>6. g[new] = f[new] + f[old]
    BY <2>5
  <2> HIDE DEF q
  <2> QED
    BY <2>3, <2>4, <2>6
<1>7. \A x \in Nodes \ {old, new} : MembersBy(q, x) = MembersBy(p, x)
  BY <1>1, HangMembers
<1> HIDE DEF q
<1> DEFINE lower == [x \in Nodes |-> IF RootBy(p, x) = old THEN depth[x] + 1 ELSE depth[x]]
<1>8. depth \in [Nodes -> Nat]
  BY <1>2 DEF Deepens
<1>9. Deepens(q, lower)
  <2>1. lower \in [Nodes -> Nat]
    BY <1>8
  <2>2. ASSUME NEW x \in Nodes PROVE lower[x] = IF q[x] = NoNode THEN 0 ELSE 1 + lower[q[x]]
    <3>1. CASE x = old
      <4>1. RootBy(p, old) = old /\ RootBy(p, new) = new
        BY <1>1, RootByFacts
      <4>2. depth[old] = 0 /\ depth[new] = 0
        BY <1>2 DEF Deepens
      <4> QED
        BY <1>4, <3>1, <4>1, <4>2
    <3>2. CASE x # old /\ p[x] = NoNode
      <4>1. RootBy(p, x) = x /\ depth[x] = 0 /\ q[x] = NoNode
        BY <1>1, <1>2, <1>4, <3>2, RootByFacts DEF Deepens
      <4> QED
        BY <3>2, <4>1
    <3>3. CASE x # old /\ p[x] # NoNode
      <4>1. q[x] = p[x] /\ p[x] \in Nodes /\ depth[x] = 1 + depth[p[x]]
        BY <1>2, <1>4, <3>3 DEF Deepens
      <4>2. RootBy(p, x) = RootBy(p, p[x])
        <5>1. PICK root : Climbs(p, root)
          BY <1>1 DEF Forest
        <5>2. \A y \in Nodes : RootBy(p, y) = root[y]
          BY <1>1, <5>1, RootByClimbs
        <5>3. root[x] = root[p[x]]
          BY <3>3, <5>1 DEF Climbs
        <5> QED
          BY <4>1, <5>2, <5>3
      <4>3. PICK d \in Nat : d = depth[p[x]] /\ depth[x] = 1 + d
        BY <1>8, <4>1
      <4> QED
        BY <3>3, <4>1, <4>2, <4>3
    <3> QED
      BY <3>1, <3>2, <3>3
  <2> HIDE DEF lower
  <2> QED
    BY <2>1, <2>2 DEF Deepens
<1>10. ASSUME NEW x \in Nodes
       PROVE  TwoTo(lower[x]) <= Cardinality(MembersBy(q, RootBy(q, x)))
  <2>1. PICK d \in Nat : d = depth[x]
    BY <1>8
  <2>2. /\ TwoTo(d) \in Nat /\ TwoTo(d + 1) = 2 * TwoTo(d) /\ TwoTo(d) <= size(x)
        /\ RootBy(p, x) \in Nodes
    BY <1>1, <1>2, <2>1, TwoToFacts, RootByFacts
  <2>3. CASE RootBy(p, x) = old
    <3>1. lower[x] = d + 1 /\ RootBy(q, x) = new /\ size(x) = m
      BY <1>3, <1>5, <2>1, <2>3
    <3>2. m <= n
      BY <1>5
    <3>3. PICK t \in Nat : t = TwoTo(d) /\ t <= m /\ TwoTo(d + 1) = 2 * t
      BY <2>2, <3>1
    <3>4. 2 * t <= n + m
      BY <3>2, <3>3
    <3> QED
      BY <1>6, <3>1, <3>3, <3>4
  <2>4. CASE RootBy(p, x) = new
    <3>1. lower[x] = d /\ RootBy(q, x) = new /\ size(x) = n
      BY <1>3, <1>5, <2>1, <2>4
    <3>2. PICK t \in Nat : t = TwoTo(d) /\ t <= n
      BY <2>2, <3>1
    <3>3. t <= n + m
      BY <3>2
    <3> QED
      BY <1>6, <3>1, <3>2, <3>3
  <2>5. CASE RootBy(p, x) \notin {old, new}
    <3>1. lower[x] = d /\ RootBy(q, x) = RootBy(p, x)
      BY <1>3, <2>1, <2>5
    <3>2. MembersBy(q, RootBy(p, x)) = MembersBy(p, RootBy(p, x))
      BY <1>7, <2>2, <2>5
    <3> QED
      BY <2>2, <3>1, <3>2
  <2> QED
    BY <2>3, <2>4, <2>5
<1> HIDE DEF lower
<1>11. Shallow(q)
  BY <1>3, <1>9, <1>10 DEF Shallow
<1> QED
  BY <1>11 DEF q

\* join_sets compares the sizes and puts the smaller tree under the larger one.
LEMMA JoinShallow ==
  ASSUME Shallow(parent), amount = AmountsBy(parent), NEW a \in Nodes, NEW b \in Nodes,
         JoinSets(a, b)
  PROVE  Shallow(parent')
<1>1. Forest(parent)
  BY DEF Shallow
<1>2. CASE RootBy(parent, a) = RootBy(parent, b)
  <2>1. parent' = parent
    BY <1>1, <1>2, JoinKeeps DEF setVars
  <2> QED
    BY <2>1
<1>3. CASE RootBy(parent, a) # RootBy(parent, b)
  <2>1. PICK old, new \in {RootBy(parent, a), RootBy(parent, b)} :
          /\ old # new /\ old \in Nodes /\ new \in Nodes
          /\ new = NewRoot(RootBy(parent, a), RootBy(parent, b))
          /\ parent[old] = NoNode /\ parent[new] = NoNode
          /\ parent' = [parent EXCEPT ![old] = new]
    BY <1>1, <1>3, JoinTakesRoots
  <2>2. PICK m \in Nat, n \in Nat :
          m = Cardinality(MembersBy(parent, old)) /\ n = Cardinality(MembersBy(parent, new))
    BY <1>1, <2>1, MembersCount
  <2>3. amount[old] = m /\ amount[new] = n
    BY <2>1, <2>2 DEF AmountsBy
  <2>4. m <= n
    BY <2>1, <2>2, <2>3 DEF NewRoot
  <2>5. PICK p : p = parent
    OBVIOUS
  <2>6. Shallow(Hung(p, old, new))
    BY <2>1, <2>2, <2>4, <2>5, HangShallow
  <2>7. parent' = Hung(p, old, new)
    BY <2>1, <2>5 DEF Hung
  <2> QED
    BY <2>6, <2>7
<1> QED
  BY <1>2, <1>3

\* The property in which the trees are shallow.
LEMMA ShallowAgrees ==
  ASSUME Shallow(parent)
  PROVE  ShallowTrees
<1>1. PICK depth : /\ Deepens(parent, depth)
                   /\ \A x \in Nodes :
                        TwoTo(depth[x]) <= Cardinality(MembersBy(parent, RootBy(parent, x)))
  BY DEF Shallow
<1>2. Forest(parent)
  BY DEF Shallow
<1> SUFFICES ASSUME NEW x \in Nodes
             PROVE  TwoTo(Depth(x)) <= Cardinality(Members(FindRoot(x)))
  BY DEF ShallowTrees
<1>3. Depth(x) = depth[x]
  BY <1>1, <1>2, DepthDeepens
<1>4. FindRoot(x) = RootBy(parent, x)
  BY FindRootBy
<1>5. \A r \in Nodes : Members(r) = MembersBy(parent, r)
  BY FindRootBy DEF Members, MembersBy
<1>6. RootBy(parent, x) \in Nodes
  BY <1>2, RootByFacts
<1> QED
  BY <1>1, <1>3, <1>4, <1>5, <1>6

-----------------------------------------------------------------------------
(* The linked lists *)

\* The functions that following the list may compute, and the list itself.
Chains(next, chain) ==
  /\ next \in [Nodes -> Nodes \cup {NoNode}]
  /\ chain \in [Nodes -> Seq(Nodes)]
  /\ \A x \in Nodes : chain[x] = IF next[x] = NoNode THEN <<x>> ELSE <<x>> \o chain[next[x]]

\* What is put before a list.
LEMMA InFront ==
  ASSUME NEW x \in Nodes, NEW s \in Seq(Nodes)
  PROVE  <<x>> \o s \in Seq(Nodes) /\ Len(<<x>> \o s) = Len(s) + 1
<1>1. <<x>> \in Seq(Nodes) /\ Len(<<x>>) = 1
  OBVIOUS
<1> QED
  BY <1>1, ConcatProperties

\* A list ends where it has no next node, and starts at the node that it is of.
LEMMA ChainEnds ==
  ASSUME NEW next, NEW chain, Chains(next, chain), NEW a \in Nodes
  PROVE  /\ chain[a] \in Seq(Nodes) /\ Len(chain[a]) \in Nat \ {0}
         /\ Last(chain[a]) \in Nodes /\ next[Last(chain[a])] = NoNode
         /\ next[a] = NoNode => Last(chain[a]) = a
         /\ next[a] # NoNode => Last(chain[a]) = Last(chain[next[a]])
<1> DEFINE Good(x) == /\ Len(chain[x]) \in Nat \ {0}
                      /\ Last(chain[x]) \in Nodes /\ next[Last(chain[x])] = NoNode
                      /\ next[x] = NoNode => Last(chain[x]) = x
                      /\ next[x] # NoNode => Last(chain[x]) = Last(chain[next[x]])
           Lengths == {Len(chain[x]) : x \in {x \in Nodes : ~Good(x)}}
<1>1. \A x \in Nodes : chain[x] \in Seq(Nodes) /\ Len(chain[x]) \in Nat
  BY DEF Chains
<1>2. ASSUME Lengths # {} PROVE FALSE
  <2>1. PICK m \in Lengths : \A n \in Lengths : m <= n
    <3>1. Lengths \in SUBSET Nat
      BY <1>1
    <3> HIDE DEF Lengths
    <3> QED
      BY <1>2, <3>1, Least
  <2>2. PICK x \in Nodes : ~Good(x) /\ m = Len(chain[x])
    BY <2>1
  <2>3. CASE next[x] = NoNode
    <3>1. chain[x] = <<x>>
      BY <2>3 DEF Chains
    <3>2. Len(<<x>>) = 1 /\ <<x>>[1] = x
      OBVIOUS
    <3> QED
      BY <2>2, <2>3, <3>1, <3>2 DEF Last
  <2>4. CASE next[x] # NoNode
    <3>1. PICK y \in Nodes : y = next[x]
      BY <2>4 DEF Chains
    <3>2. PICK s \in Seq(Nodes) : s = chain[y]
      BY <1>1
    <3>3. chain[x] = <<x>> \o s
      BY <2>4, <3>1, <3>2 DEF Chains
    <3>4. PICK n \in Nat : n = Len(s)
      OBVIOUS
    <3>5. m = n + 1
      BY <2>2, <3>3, <3>4, InFront
    <3>6. Good(y)
      <4>1. ~(m <= n)
        BY <3>4, <3>5
      <4> QED
        BY <2>1, <3>2, <3>4, <4>1
    <3>7. n # 0 /\ Last(s) \in Nodes /\ next[Last(s)] = NoNode
      BY <3>2, <3>4, <3>6
    <3>8. (<<x>> \o s)[n + 1] = s[n]
      <4>1. <<x>> \in Seq(Nodes) /\ Len(<<x>>) = 1
        OBVIOUS
      <4>2. n + 1 \in 1 .. 1 + n /\ ~(n + 1 <= 1) /\ (n + 1) - 1 = n
        BY <3>7
      <4>3. \A i \in 1 .. Len(<<x>>) + Len(s) : (<<x>> \o s)[i] =
                     IF i <= Len(<<x>>) THEN <<x>>[i] ELSE s[i - Len(<<x>>)]
        BY <4>1, ConcatProperties
      <4> QED
        BY <3>4, <4>1, <4>2, <4>3
    <3>9. Last(chain[x]) = Last(s)
      BY <2>2, <3>3, <3>4, <3>5, <3>8 DEF Last
    <3> QED
      BY <2>2, <2>4, <3>1, <3>2, <3>5, <3>7, <3>9
  <2> QED
    BY <2>3, <2>4
<1>3. Good(a)
  BY <1>2
<1> QED
  BY <1>1, <1>3

\* Following the list computes the one function there is.
LEMMA ChainFollows ==
  ASSUME NEW chain, Chains(next_in_clique, chain), NEW a \in Nodes
  PROVE  Chain(a) = chain[a]
<1> DEFINE Defines(f) ==
             f = [x \in Nodes |-> IF next_in_clique[x] = NoNode THEN <<x>>
                                  ELSE <<x>> \o f[next_in_clique[x]]]
           walk == CHOOSE f : Defines(f)
<1>1. Defines(chain)
  BY DEF Chains
<1>2. Defines(walk)
  BY <1>1
<1>3. Chain(a) = walk[a]
  BY DEF Chain
<1>4. PICK next : next = next_in_clique
  OBVIOUS
<1>5. /\ walk = [x \in Nodes |-> walk[x]] /\ chain = [x \in Nodes |-> chain[x]]
      /\ \A x \in Nodes : walk[x] = IF next[x] = NoNode THEN <<x>> ELSE <<x>> \o walk[next[x]]
      /\ \A x \in Nodes : chain[x] = IF next[x] = NoNode THEN <<x>> ELSE <<x>> \o chain[next[x]]
      /\ \A x \in Nodes : chain[x] \in Seq(Nodes) /\ next[x] \in Nodes \cup {NoNode}
  <2> HIDE DEF walk
  <2> QED
    BY <1>2, <1>4 DEF Chains
<1> HIDE DEF walk, Defines
<1>6. walk = chain
  <2> DEFINE Lengths == {Len(chain[x]) : x \in {x \in Nodes : walk[x] # chain[x]}}
  <2>1. ASSUME Lengths # {} PROVE FALSE
    <3>1. PICK m \in Lengths : \A n \in Lengths : m <= n
      <4>1. Lengths \in SUBSET Nat
        BY <1>5
      <4> HIDE DEF Lengths
      <4> QED
        BY <2>1, <4>1, Least
    <3>2. PICK x \in Nodes : walk[x] # chain[x] /\ m = Len(chain[x])
      BY <3>1
    <3>3. next[x] # NoNode
      BY <1>5, <3>2
    <3>4. PICK y \in Nodes : y = next[x]
      BY <1>5, <3>3
    <3>5. PICK s \in Seq(Nodes) : s = chain[y]
      BY <1>5
    <3>6. PICK n \in Nat : n = Len(s)
      OBVIOUS
    <3>a. chain[x] = <<x>> \o s
      BY <1>5, <3>3, <3>4, <3>5
    <3>7. m = n + 1
      BY <3>2, <3>6, <3>a, InFront
    <3>8. walk[y] = chain[y]
      <4>1. ~(m <= n)
        BY <3>6, <3>7
      <4> QED
        BY <3>1, <3>5, <3>6, <4>1
    <3>9. walk[x] = <<x>> \o walk[y]
      BY <1>5, <3>3, <3>4
    <3> QED
      BY <3>2, <3>5, <3>8, <3>9, <3>a
  <2>2. \A x \in Nodes : walk[x] = chain[x]
    BY <2>1
  <2>3. walk = [x \in Nodes |-> walk[x]] /\ chain = [x \in Nodes |-> chain[x]]
    BY <1>5
  <2> QED
    BY <2>2, <2>3
<1> QED
  BY <1>3, <1>6

\* Where the list of new ends, the list of old begins from now on.
Linked(chain, old, new) ==
  [x \in Nodes |-> IF Last(chain[x]) = Last(chain[new]) THEN chain[x] \o chain[old]
                                                        ELSE chain[x]]
LEMMA LinkChains ==
  ASSUME NEW next, NEW chain, Chains(next, chain), NEW old \in Nodes, NEW new \in Nodes,
         Last(chain[old]) # Last(chain[new])
  PROVE  Chains([next EXCEPT ![Last(chain[new])] = old], Linked(chain, old, new))
<1>1. /\ next \in [Nodes -> Nodes \cup {NoNode}] /\ chain \in [Nodes -> Seq(Nodes)]
      /\ \A x \in Nodes : chain[x] = IF next[x] = NoNode THEN <<x>> ELSE <<x>> \o chain[next[x]]
  BY DEF Chains
<1>a. \A x \in Nodes : /\ next[x] = NoNode => Last(chain[x]) = x
                       /\ next[x] # NoNode => Last(chain[x]) = Last(chain[next[x]])
  BY ChainEnds
<1>2. PICK t \in Nodes : t = Last(chain[new]) /\ next[t] = NoNode
  BY ChainEnds
<1>3. PICK after : after = [next EXCEPT ![t] = old]
  OBVIOUS
<1>4. /\ after \in [Nodes -> Nodes \cup {NoNode}] /\ after[t] = old
      /\ \A x \in Nodes \ {t} : after[x] = next[x]
  BY <1>1, <1>3
<1>5. PICK tail \in Seq(Nodes) : tail = chain[old]
  BY <1>1
<1>6. PICK c : c = Linked(chain, old, new)
  OBVIOUS
<1>7. /\ c = [x \in Nodes |-> c[x]]
      /\ \A x \in Nodes : c[x] = IF Last(chain[x]) = t THEN chain[x] \o tail ELSE chain[x]
  BY <1>2, <1>5, <1>6 DEF Linked
<1>8. c \in [Nodes -> Seq(Nodes)]
  <2>1. \A x \in Nodes : chain[x] \in Seq(Nodes)
    BY <1>1
  <2>2. \A x \in Nodes : chain[x] \o tail \in Seq(Nodes)
    BY <2>1, ConcatProperties
  <2>3. \A x \in Nodes : c[x] \in Seq(Nodes)
    BY <1>7, <2>1, <2>2
  <2> QED
    BY <1>7, <2>3
<1>9. ASSUME NEW x \in Nodes
      PROVE  c[x] = IF after[x] = NoNode THEN <<x>> ELSE <<x>> \o c[after[x]]
  <2>1. CASE x = t
    <3>1. chain[t] = <<t>> /\ Last(chain[t]) = t
      BY <1>1, <1>2, <1>a
    <3>2. c[old] = tail
      BY <1>2, <1>5, <1>7
    <3>3. old # NoNode
      BY NodesAssumption
    <3> QED
      BY <1>4, <1>7, <2>1, <3>1, <3>2, <3>3
  <2>2. CASE x # t /\ next[x] = NoNode
    <3>1. Last(chain[x]) = x /\ chain[x] = <<x>>
      BY <1>1, <1>a, <2>2
    <3> QED
      BY <1>4, <1>7, <2>2, <3>1
  <2>3. CASE x # t /\ next[x] # NoNode
    <3>1. PICK y \in Nodes : y = next[x] /\ y = after[x]
      BY <1>1, <1>4, <2>3
    <3>2. Last(chain[x]) = Last(chain[y])
      BY <1>a, <2>3, <3>1
    <3>3. PICK s \in Seq(Nodes) : s = chain[y]
      BY <1>1
    <3>4. chain[x] = <<x>> \o s
      BY <1>1, <2>3, <3>1, <3>3
    <3>5. y # NoNode
      BY NodesAssumption
    <3>6. CASE Last(chain[y]) = t
      <4>1. c[x] = (<<x>> \o s) \o tail /\ c[y] = s \o tail
        BY <1>7, <3>2, <3>3, <3>4, <3>6
      <4>2. <<x>> \in Seq(Nodes)
        OBVIOUS
      <4>3. (<<x>> \o s) \o tail = <<x>> \o (s \o tail)
        BY <4>2, ConcatAssociative
      <4> QED
        BY <3>1, <3>5, <4>1, <4>3
    <3>7. CASE Last(chain[y]) # t
      <4>1. c[x] = <<x>> \o s /\ c[y] = s
        BY <1>7, <3>2, <3>3, <3>4, <3>7
      <4> QED
        BY <3>1, <3>5, <4>1
    <3> QED
      BY <3>6, <3>7
  <2> QED
    BY <2>1, <2>2, <2>3
<1>10. Chains(after, c)
  BY <1>4, <1>8, <1>9 DEF Chains
<1> QED
  BY <1>2, <1>3, <1>6, <1>10

\* Two lists without a node in common, one after the other.
LEMMA TwoLists ==
  ASSUME NEW s \in Seq(Nodes), NEW t \in Seq(Nodes)
  PROVE  /\ s \o t \in Seq(Nodes) /\ Len(s \o t) = Len(s) + Len(t)
         /\ ToSet(s \o t) = ToSet(s) \cup ToSet(t)
         /\ IsInjective(s) /\ IsInjective(t) /\ ToSet(s) \cap ToSet(t) = {} => IsInjective(s \o t)
<1>1. PICK m, n \in Nat : m = Len(s) /\ n = Len(t)
  OBVIOUS
<1>2. PICK u : u = s \o t
  OBVIOUS
<1>3. /\ u \in Seq(Nodes) /\ Len(u) = m + n
      /\ \A i \in 1 .. m + n : u[i] = IF i <= m THEN s[i] ELSE t[i - m]
  BY <1>1, <1>2, ConcatProperties
<1>4. /\ DOMAIN s = 1 .. m /\ DOMAIN t = 1 .. n /\ DOMAIN u = 1 .. m + n
  BY <1>1, <1>3
<1>5. /\ \A i \in 1 .. m : i \in 1 .. m + n /\ u[i] = s[i]
      /\ \A i \in 1 .. n : i + m \in 1 .. m + n /\ u[i + m] = t[i]
  <2>1. \A i \in 1 .. m : i \in 1 .. m + n /\ i <= m
    OBVIOUS
  <2>2. \A i \in 1 .. n : i + m \in 1 .. m + n /\ ~(i + m <= m) /\ (i + m) - m = i
    OBVIOUS
  <2> QED
    BY <1>3, <2>1, <2>2
<1>6. \A i \in 1 .. m + n : \/ i \in 1 .. m
                            \/ i - m \in 1 .. n /\ i = (i - m) + m
  OBVIOUS
<1>7. ToSet(u) = ToSet(s) \cup ToSet(t)
  <2>1. ASSUME NEW x \in ToSet(u) PROVE x \in ToSet(s) \cup ToSet(t)
    <3>1. PICK i \in 1 .. m + n : u[i] = x
      BY <1>4, <2>1 DEF ToSet
    <3>2. CASE i \in 1 .. m
      BY <1>4, <1>5, <3>1, <3>2 DEF ToSet
    <3>3. CASE i - m \in 1 .. n /\ i = (i - m) + m
      <4>1. PICK j \in 1 .. n : j = i - m /\ i = j + m
        BY <3>3
      <4>2. t[j] = x
        BY <1>5, <3>1, <4>1
      <4> QED
        BY <1>4, <4>2 DEF ToSet
    <3> QED
      BY <1>6, <3>2, <3>3
  <2>2. \A x \in ToSet(s) : x \in ToSet(u)
    BY <1>4, <1>5 DEF ToSet
  <2>3. \A x \in ToSet(t) : x \in ToSet(u)
    BY <1>4, <1>5 DEF ToSet
  <2> QED
    BY <2>1, <2>2, <2>3
<1>8. ASSUME IsInjective(s), IsInjective(t), ToSet(s) \cap ToSet(t) = {}
      PROVE  IsInjective(u)
  <2> SUFFICES ASSUME NEW i \in 1 .. m + n, NEW j \in 1 .. m + n, u[i] = u[j]
               PROVE  i = j
    BY <1>4 DEF IsInjective
  <2>1. ASSUME NEW k \in 1 .. m, NEW l \in 1 .. n PROVE s[k] # t[l]
    BY <1>4, <1>8 DEF ToSet
  <2>2. CASE i \in 1 .. m /\ j \in 1 .. m
    BY <1>4, <1>5, <1>8, <2>2 DEF IsInjective
  <2>3. CASE i \in 1 .. m /\ j \notin 1 .. m
    <3>1. PICK l \in 1 .. n : j = l + m
      BY <1>6, <2>3
    <3> QED
      BY <1>5, <2>1, <2>3, <3>1
  <2>4. CASE i \notin 1 .. m /\ j \in 1 .. m
    <3>1. PICK l \in 1 .. n : i = l + m
      BY <1>6, <2>4
    <3> QED
      BY <1>5, <2>1, <2>4, <3>1
  <2>5. CASE i \notin 1 .. m /\ j \notin 1 .. m
    <3>1. PICK k, l \in 1 .. n : i = k + m /\ j = l + m
      BY <1>6, <2>5
    <3>2. t[k] = t[l]
      BY <1>5, <3>1
    <3>3. k = l
      BY <1>4, <1>8, <3>2 DEF IsInjective
    <3> QED
      BY <3>1, <3>3
  <2> QED
    BY <2>2, <2>3, <2>4, <2>5
<1> QED
  BY <1>1, <1>2, <1>3, <1>7, <1>8

\* The list of each root is its clique, each node once.
ChainsOf(p, chain) ==
  \A r \in Nodes : p[r] = NoNode =>
    /\ ToSet(chain[r]) = MembersBy(p, r)
    /\ IsInjective(chain[r]) /\ Len(chain[r]) = AmountsBy(p)[r]

\* It stays so when a clique absorbs another and the lists are linked.
LEMMA HangChains ==
  ASSUME NEW p, Forest(p), NEW old \in Nodes, NEW new \in Nodes, old # new,
         p[old] = NoNode, p[new] = NoNode,
         NEW next, NEW chain, Chains(next, chain), ChainsOf(p, chain)
  PROVE  /\ Last(chain[old]) # Last(chain[new])
         /\ ChainsOf(Hung(p, old, new), Linked(chain, old, new))
<1>1. \A x \in Nodes : chain[x] \in Seq(Nodes) /\ Len(chain[x]) \in Nat \ {0}
  BY ChainEnds
<1>2. \A x \in Nodes : p[x] = NoNode => Last(chain[x]) \in MembersBy(p, x)
  <2> SUFFICES ASSUME NEW x \in Nodes, p[x] = NoNode
               PROVE  Last(chain[x]) \in MembersBy(p, x)
    OBVIOUS
  <2>1. PICK s \in Seq(Nodes) : s = chain[x] /\ Len(s) \in Nat \ {0}
    BY <1>1
  <2>2. Last(s) \in ToSet(s)
    BY <2>1 DEF Last, ToSet
  <2> QED
    BY <2>1, <2>2 DEF ChainsOf
<1>3. \A x, y \in Nodes : x # y => MembersBy(p, x) \cap MembersBy(p, y) = {}
  BY DEF MembersBy
<1>4. PICK q : q = Hung(p, old, new)
  OBVIOUS
<1>5. PICK c : c = Linked(chain, old, new)
  OBVIOUS
<1>6. /\ q[old] = new /\ \A x \in Nodes \ {old} : q[x] = p[x]
  BY <1>4 DEF Forest, Hung
<1>7. \A x \in Nodes : c[x] = IF Last(chain[x]) = Last(chain[new]) THEN chain[x] \o chain[old]
                              ELSE chain[x]
  BY <1>5 DEF Linked
<1>8. /\ MembersBy(q, new) = MembersBy(p, new) \cup MembersBy(p, old)
      /\ \A x \in Nodes \ {old, new} : MembersBy(q, x) = MembersBy(p, x)
  BY <1>4, HangMembers
<1>9. PICK f, g : f = AmountsBy(p) /\ g = AmountsBy(q)
  OBVIOUS
<1>10. g[new] = f[new] + f[old] /\ \A x \in Nodes \ {old, new} : g[x] = f[x]
  <2>1. g = [f EXCEPT ![new] = @ + f[old], ![old] = -1]
    BY <1>4, <1>9, HangAmounts
  <2>2. f = [x \in Nodes |-> f[x]]
    BY <1>9 DEF AmountsBy
  <2> QED
    BY <2>1, <2>2
<1>11. ASSUME NEW r \in Nodes, q[r] = NoNode
       PROVE  /\ ToSet(c[r]) = MembersBy(q, r)
              /\ IsInjective(c[r]) /\ Len(c[r]) = AmountsBy(q)[r]
  <2>1. r # old /\ p[r] = NoNode
    BY <1>6, <1>11, NodesAssumption
  <2>2. CASE r = new
    <3>1. PICK s, t \in Seq(Nodes) : s = chain[new] /\ t = chain[old]
      BY <1>1
    <3>2. c[r] = s \o t
      BY <1>7, <2>2, <3>1
    <3>3. /\ ToSet(s) = MembersBy(p, new) /\ IsInjective(s) /\ Len(s) = f[new]
          /\ ToSet(t) = MembersBy(p, old) /\ IsInjective(t) /\ Len(t) = f[old]
      BY <1>9, <3>1 DEF ChainsOf
    <3>4. ToSet(s) \cap ToSet(t) = {}
      BY <1>3, <3>3
    <3>5. /\ ToSet(s \o t) = ToSet(s) \cup ToSet(t) /\ Len(s \o t) = Len(s) + Len(t)
          /\ IsInjective(s \o t)
      BY <3>3, <3>4, TwoLists
    <3> QED
      BY <1>8, <1>9, <1>10, <2>2, <3>2, <3>3, <3>5
  <2>3. CASE r # new
    <3>1. c[r] = chain[r]
      BY <1>2, <1>3, <1>7, <2>1, <2>3
    <3>2. ToSet(chain[r]) = MembersBy(p, r) /\ IsInjective(chain[r]) /\ Len(chain[r]) = f[r]
      BY <1>9, <2>1 DEF ChainsOf
    <3> QED
      BY <1>8, <1>9, <1>10, <2>1, <2>3, <3>1, <3>2
  <2> QED
    BY <2>2, <2>3
<1>12. ChainsOf(q, c)
  BY <1>11 DEF ChainsOf
<1>13. Last(chain[old]) # Last(chain[new])
  BY <1>2, <1>3
<1> QED
  BY <1>4, <1>5, <1>12, <1>13

-----------------------------------------------------------------------------
(* The clique list *)

\* A representative is removed wherever it is, and the list stays without duplicates.
LEMMA RemoveMasterFacts ==
  ASSUME NEW list \in Seq(Nodes), IsInjective(list), NEW a \in Nodes
  PROVE  ToSet(RemoveMaster(list, a)) = ToSet(list) \ {a} /\ IsInjective(RemoveMaster(list, a))
<1>1. PICK n \in Nat : n = Len(list) /\ DOMAIN list = 1 .. n
  OBVIOUS
<1>2. CASE \E k \in 1 .. n : list[k] = a
  <2> DEFINE places == {k \in 1 .. n : list[k] = a}
  <2>1. places # {} /\ places \in SUBSET Nat
    BY <1>2
  <2>2. PICK m \in places : \A j \in places : m <= j
    <3> HIDE DEF places
    <3> QED
      BY <2>1, Least
  <2>3. SelectInSeq(list, LAMBDA v : v = a) \in places
    BY <1>1, <2>1, <2>2 DEF SelectInSeq, Min
  <2>4. PICK k \in 1 .. n : k = SelectInSeq(list, LAMBDA v : v = a) /\ list[k] = a
    BY <2>3
  <2>5. PICK s, t : s = SubSeq(list, 1, k - 1) /\ t = SubSeq(list, k + 1, n)
    OBVIOUS
  <2>6. RemoveMaster(list, a) = s \o t
    BY <1>1, <1>2, <2>4, <2>5 DEF RemoveMaster, RemoveFirst, RemoveAt
  <2>7. /\ s \in Seq(Nodes) /\ Len(s) = k - 1
        /\ \A i \in 1 .. k - 1 : s[i] = list[i]
    <3>1. 1 \in Int /\ k - 1 \in Int /\ \A i \in 1 .. k - 1 : i \in 1 .. n
      OBVIOUS
    <3>2. \A i \in 1 .. k - 1 : list[i] \in Nodes
      BY <1>1, <3>1
    <3>3. /\ s \in Seq(Nodes) /\ Len(s) = IF 1 <= k - 1 THEN (k - 1) - 1 + 1 ELSE 0
          /\ \A i \in 1 .. (k - 1) - 1 + 1 : s[i] = list[1 + i - 1]
      BY <2>5, <3>1, <3>2, SubSeqProperties
    <3>4. (IF 1 <= k - 1 THEN (k - 1) - 1 + 1 ELSE 0) = k - 1 /\ (k - 1) - 1 + 1 = k - 1
      OBVIOUS
    <3>5. \A i \in 1 .. k - 1 : 1 + i - 1 = i
      OBVIOUS
    <3> QED
      BY <3>3, <3>4, <3>5
  <2>8. /\ t \in Seq(Nodes) /\ Len(t) = n - k
        /\ \A i \in 1 .. n - k : t[i] = list[k + i]
    <3>1. k + 1 \in Int /\ n \in Int /\ \A i \in k + 1 .. n : i \in 1 .. n
      OBVIOUS
    <3>2. \A i \in k + 1 .. n : list[i] \in Nodes
      BY <1>1, <3>1
    <3>3. /\ t \in Seq(Nodes) /\ Len(t) = IF k + 1 <= n THEN n - (k + 1) + 1 ELSE 0
          /\ \A i \in 1 .. n - (k + 1) + 1 : t[i] = list[(k + 1) + i - 1]
      BY <2>5, <3>1, <3>2, SubSeqProperties
    <3>4. (IF k + 1 <= n THEN n - (k + 1) + 1 ELSE 0) = n - k /\ n - (k + 1) + 1 = n - k
      OBVIOUS
    <3>5. \A i \in 1 .. n - k : (k + 1) + i - 1 = k + i
      OBVIOUS
    <3> QED
      BY <3>3, <3>4, <3>5
  <2>9. DOMAIN s = 1 .. k - 1 /\ DOMAIN t = 1 .. n - k
    BY <2>7, <2>8
  <2>10. /\ \A i \in 1 .. k - 1 : i \in 1 .. n /\ i # k
         /\ \A i \in 1 .. n - k : k + i \in 1 .. n /\ k + i # k
         /\ \A i \in 1 .. k - 1, j \in 1 .. n - k : i # k + j
         /\ \A i, j \in 1 .. n - k : k + i = k + j => i = j
    OBVIOUS
  <2>11. \A i, j \in 1 .. n : list[i] = list[j] => i = j
    BY <1>1 DEF IsInjective
  <2>12. IsInjective(s) /\ IsInjective(t)
    <3>1. \A i, j \in 1 .. k - 1 : s[i] = s[j] => i = j
      BY <2>7, <2>10, <2>11
    <3>2. ASSUME NEW i \in 1 .. n - k, NEW j \in 1 .. n - k, t[i] = t[j] PROVE i = j
      <4>1. list[k + i] = list[k + j] /\ k + i \in 1 .. n /\ k + j \in 1 .. n
        BY <2>8, <2>10, <3>2
      <4> QED
        BY <2>10, <2>11, <4>1
    <3> QED
      BY <2>9, <3>1, <3>2 DEF IsInjective
  <2>13. ToSet(s) \cap ToSet(t) = {}
    <3>1. ASSUME NEW i \in 1 .. k - 1, NEW j \in 1 .. n - k PROVE s[i] # t[j]
      <4>1. i \in 1 .. n /\ k + j \in 1 .. n /\ i # k + j
        BY <2>10
      <4> QED
        BY <2>7, <2>8, <2>11, <4>1
    <3> QED
      BY <2>9, <3>1 DEF ToSet
  <2>14. ToSet(s) \cup ToSet(t) = ToSet(list) \ {a}
    <3>1. \A x \in ToSet(s) \cup ToSet(t) : x \in ToSet(list) \ {a}
      <4>1. \A i \in 1 .. k - 1 : s[i] \in ToSet(list) \ {a}
        BY <1>1, <2>4, <2>7, <2>10, <2>11 DEF ToSet
      <4>2. \A i \in 1 .. n - k : t[i] \in ToSet(list) \ {a}
        BY <1>1, <2>4, <2>8, <2>10, <2>11 DEF ToSet
      <4> QED
        BY <2>9, <4>1, <4>2 DEF ToSet
    <3>2. ASSUME NEW x \in ToSet(list) \ {a} PROVE x \in ToSet(s) \cup ToSet(t)
      <4>1. PICK i \in 1 .. n : list[i] = x /\ i # k
        BY <1>1, <2>4 DEF ToSet
      <4>2. CASE i \in 1 .. k - 1
        <5>1. s[i] = x /\ i \in DOMAIN s
          BY <2>7, <2>9, <4>1, <4>2
        <5> QED
          BY <5>1 DEF ToSet
      <4>3. CASE i \notin 1 .. k - 1
        <5>1. PICK j \in 1 .. n - k : i = k + j
          <6>1. i - k \in 1 .. n - k /\ i = k + (i - k)
            BY <4>1, <4>3
          <6> QED
            BY <6>1
        <5>2. t[j] = x /\ j \in DOMAIN t
          BY <2>8, <2>9, <4>1, <5>1
        <5> QED
          BY <5>2 DEF ToSet
      <4> QED
        BY <4>2, <4>3
    <3> QED
      BY <3>1, <3>2
  <2> QED
    BY <2>6, <2>7, <2>8, <2>12, <2>13, <2>14, TwoLists
<1>3. CASE ~\E k \in 1 .. n : list[k] = a
  <2>1. RemoveMaster(list, a) = list
    BY <1>1, <1>3 DEF RemoveMaster, RemoveFirst
  <2>2. a \notin ToSet(list)
    BY <1>1, <1>3 DEF ToSet
  <2> QED
    BY <2>1, <2>2
<1> QED
  BY <1>2, <1>3

\* A representative is inserted once.
LEMMA InsertMasterFacts ==
  ASSUME NEW list \in Seq(Nodes), IsInjective(list), NEW a \in Nodes
  PROVE  ToSet(InsertMaster(list, a)) = ToSet(list) \cup {a} /\ IsInjective(InsertMaster(list, a))
<1>1. PICK n \in Nat : n = Len(list) /\ DOMAIN list = 1 .. n
  OBVIOUS
<1>2. Contains(list, a) <=> a \in ToSet(list)
  BY <1>1 DEF Contains, ToSet
<1>3. CASE a \in ToSet(list)
  BY <1>2, <1>3 DEF InsertMaster
<1>4. CASE a \notin ToSet(list)
  <2>1. PICK longer : longer = Append(list, a) /\ longer = InsertMaster(list, a)
    BY <1>2, <1>4 DEF InsertMaster
  <2>2. /\ DOMAIN longer = 1 .. n + 1 /\ longer[n + 1] = a
        /\ \A j \in 1 .. n : longer[j] = list[j]
    <3>1. /\ DOMAIN Append(list, a) = 1 .. n + 1 /\ Append(list, a)[n + 1] = a
          /\ \A j \in 1 .. n : Append(list, a)[j] = list[j]
      BY <1>1
    <3> QED
      BY <2>1, <3>1
  <2>3. 1 .. n + 1 = (1 .. n) \cup {n + 1}
    OBVIOUS
  <2>4. ToSet(longer) = ToSet(list) \cup {a}
    BY <1>1, <2>2, <2>3 DEF ToSet
  <2>5. IsInjective(longer)
    <3>1. \A j \in 1 .. n : list[j] # a
      BY <1>1, <1>4 DEF ToSet
    <3>2. \A i, j \in 1 .. n : list[i] = list[j] => i = j
      BY <1>1 DEF IsInjective
    <3>3. \A i, j \in 1 .. n + 1 : longer[i] = longer[j] => i = j
      BY <2>2, <2>3, <3>1, <3>2
    <3> QED
      BY <2>2, <3>3 DEF IsInjective
  <2> QED
    BY <2>1, <2>4, <2>5
<1> QED
  BY <1>3, <1>4

-----------------------------------------------------------------------------
(* The three views of the cliques *)

\* The trees, the linked lists and the clique list are of the same cliques.
ViewsOK ==
  /\ Forest(parent) /\ amount = AmountsBy(parent)
  /\ \E chain : Chains(next_in_clique, chain) /\ ChainsOf(parent, chain)
  /\ cliques \in Seq(Nodes) /\ IsInjective(cliques)
  /\ ToSet(cliques) = {r \in Nodes : parent[r] = NoNode /\ amount[r] > 1}

\* join_sets keeps them so.
LEMMA JoinViews ==
  ASSUME ViewsOK, NEW a \in Nodes, NEW b \in Nodes, JoinSets(a, b)
  PROVE  ViewsOK'
<1>1. Forest(parent) /\ amount = AmountsBy(parent)
  BY DEF ViewsOK
<1>2. CASE RootBy(parent, a) = RootBy(parent, b)
  <2>1. UNCHANGED setVars
    BY <1>1, <1>2, JoinKeeps
  <2>2. parent' = parent /\ next_in_clique' = next_in_clique /\ amount' = amount
        /\ cliques' = cliques
    BY <2>1 DEF setVars
  <2> QED
    BY <2>2 DEF ViewsOK
<1>3. CASE RootBy(parent, a) # RootBy(parent, b)
  <2>1. PICK old, new \in {RootBy(parent, a), RootBy(parent, b)} :
          /\ old # new /\ old \in Nodes /\ new \in Nodes
          /\ parent[old] = NoNode /\ parent[new] = NoNode
          /\ parent' = [parent EXCEPT ![old] = new]
          /\ amount' = [amount EXCEPT ![new] = @ + amount[old], ![old] = -1]
          /\ next_in_clique' = [next_in_clique EXCEPT ![Last(Chain(new))] = old]
          /\ cliques' = InsertMaster(RemoveMaster(cliques, old), new)
    BY <1>1, <1>3, JoinTakesRoots
  <2>2. Forest(parent') /\ amount' = AmountsBy(parent')
    BY <1>1, JoinMerges, JoinAmounts
  <2>3. PICK chain : Chains(next_in_clique, chain) /\ ChainsOf(parent, chain)
    BY DEF ViewsOK
  <2>4. parent' = Hung(parent, old, new)
    BY <2>1 DEF Hung
  <2>5. Last(chain[old]) # Last(chain[new]) /\ ChainsOf(parent', Linked(chain, old, new))
    <3>1. PICK p, next : p = parent /\ next = next_in_clique
      OBVIOUS
    <3>2. /\ Forest(p) /\ p[old] = NoNode /\ p[new] = NoNode
          /\ Chains(next, chain) /\ ChainsOf(p, chain)
      BY <1>1, <2>1, <2>3, <3>1
    <3>3. /\ Last(chain[old]) # Last(chain[new])
          /\ ChainsOf(Hung(p, old, new), Linked(chain, old, new))
      BY <2>1, <3>2, HangChains
    <3> QED
      BY <2>4, <3>1, <3>3
  <2>6. Chains(next_in_clique', Linked(chain, old, new))
    <3>1. Chain(new) = chain[new]
      BY <2>1, <2>3, ChainFollows
    <3>2. Chains([next_in_clique EXCEPT ![Last(chain[new])] = old], Linked(chain, old, new))
      BY <2>1, <2>3, <2>5, LinkChains
    <3> QED
      BY <2>1, <3>1, <3>2
  <2>7. cliques \in Seq(Nodes) /\ IsInjective(cliques)
        /\ ToSet(cliques) = {r \in Nodes : parent[r] = NoNode /\ amount[r] > 1}
    BY DEF ViewsOK
  <2>8. PICK shorter \in Seq(Nodes) :
          /\ shorter = RemoveMaster(cliques, old)
          /\ ToSet(shorter) = ToSet(cliques) \ {old} /\ IsInjective(shorter)
    BY <2>1, <2>7, MastersAreNodes, RemoveMasterFacts
  <2>9. /\ cliques' \in Seq(Nodes) /\ IsInjective(cliques')
        /\ ToSet(cliques') = ToSet(shorter) \cup {new}
    BY <2>1, <2>8, MastersAreNodes, InsertMasterFacts
  <2>10. /\ parent'[old] = new /\ \A r \in Nodes \ {old} : parent'[r] = parent[r]
         /\ amount \in [Nodes -> {-1} \cup 1 .. Cardinality(Nodes)]
    BY <1>1, <2>1, AmountsTyped DEF Forest
  <2>11. /\ \A r \in Nodes \ {old, new} : amount'[r] = amount[r]
         /\ amount'[new] = amount[new] + amount[old]
    BY <2>1, <2>10
  <2>12. amount'[new] > 1
    <3>1. amount[old] = Cardinality(MembersBy(parent, old))
          /\ amount[new] = Cardinality(MembersBy(parent, new))
      BY <1>1, <2>1 DEF AmountsBy
    <3>2. PICK m, n \in Nat : m = amount[old] /\ n = amount[new] /\ m > 0 /\ n > 0
      BY <1>1, <2>1, <3>1, MembersCount
    <3>3. amount'[new] = n + m
      BY <2>11, <3>2
    <3> QED
      BY <3>2, <3>3
  <2>13. new # NoNode
    BY <2>1, NodesAssumption
  <2>14. ToSet(cliques') = {r \in Nodes : parent'[r] = NoNode /\ amount'[r] > 1}
    <3>1. ASSUME NEW r \in Nodes
          PROVE  r \in ToSet(cliques') <=> parent'[r] = NoNode /\ amount'[r] > 1
      <4>1. CASE r = old
        BY <2>1, <2>8, <2>9, <2>10, <2>13, <4>1
      <4>2. CASE r = new
        BY <2>1, <2>9, <2>10, <2>12, <4>2
      <4>3. CASE r # old /\ r # new
        BY <2>7, <2>8, <2>9, <2>10, <2>11, <4>3
      <4> QED
        BY <4>1, <4>2, <4>3
    <3>2. ToSet(cliques') \subseteq Nodes
      BY <2>9 DEF ToSet
    <3> QED
      BY <3>1, <3>2
  <2> QED
    BY <2>2, <2>5, <2>6, <2>9, <2>14 DEF ViewsOK
<1> QED
  BY <1>2, <1>3

\* As many elements as places.
LEMMA InjectiveCount ==
  ASSUME NEW s \in Seq(Nodes), IsInjective(s)
  PROVE  Cardinality(ToSet(s)) = Len(s)
<1>1. PICK n \in Nat : n = Len(s) /\ DOMAIN s = 1 .. n
  OBVIOUS
<1>2. s \in [1 .. n -> ToSet(s)]
  BY <1>1 DEF ToSet
<1>3. s \in Injection(1 .. n, ToSet(s))
  BY <1>2 DEF Injection
<1>4. s \in Surjection(1 .. n, ToSet(s))
  BY <1>1, <1>2 DEF Surjection, ToSet
<1>5. ExistsBijection(1 .. n, ToSet(s))
  BY <1>3, <1>4 DEF ExistsBijection, Bijection
<1> QED
  BY <1>1, <1>5, FS_CountingElements

\* The property in which the views agree.
LEMMA ViewsOKAgree ==
  ASSUME ViewsOK
  PROVE  ViewsAgree
<1>1. Forest(parent) /\ amount = AmountsBy(parent)
  BY DEF ViewsOK
<1>2. PICK chain : Chains(next_in_clique, chain) /\ ChainsOf(parent, chain)
  BY DEF ViewsOK
<1>3. ASSUME NEW x \in Nodes
      PROVE  IF IsRoot(x)
               THEN /\ ToSet(Chain(x)) = Members(x)
                    /\ Len(Chain(x)) = Cardinality(Members(x))
                    /\ amount[x] = Cardinality(Members(x))
               ELSE amount[x] = -1
  <2>1. Members(x) = MembersBy(parent, x)
    BY FindRootBy DEF Members, MembersBy
  <2>2. Chain(x) = chain[x]
    BY <1>2, ChainFollows
  <2>3. CASE parent[x] = NoNode
    <3>1. amount[x] = Cardinality(MembersBy(parent, x))
      BY <1>1, <2>3 DEF AmountsBy
    <3>2. ToSet(chain[x]) = MembersBy(parent, x) /\ Len(chain[x]) = amount[x]
      BY <1>1, <1>2, <2>3 DEF ChainsOf
    <3> QED
      BY <2>1, <2>2, <2>3, <3>1, <3>2 DEF IsRoot
  <2>4. CASE parent[x] # NoNode
    BY <1>1, <2>4 DEF AmountsBy, IsRoot
  <2> QED
    BY <2>3, <2>4
<1>4. ToSet(cliques) = {r \in Roots : amount[r] > 1}
  BY DEF ViewsOK, Roots, IsRoot
<1>5. Cardinality(ToSet(cliques)) = Len(cliques)
  BY InjectiveCount DEF ViewsOK
<1> QED
  BY <1>3, <1>4, <1>5 DEF ViewsAgree

\* Cliques of one node each.
LEMMA SinglesViews ==
  ASSUME parent = [x \in Nodes |-> NoNode], next_in_clique = [x \in Nodes |-> NoNode],
         amount = [x \in Nodes |-> 1], cliques = <<>>
  PROVE  ViewsOK
<1>1. Forest(parent) /\ \A x \in Nodes : RootBy(parent, x) = x
  BY SinglesForest
<1>2. \A x \in Nodes : MembersBy(parent, x) = {x}
  BY <1>1 DEF MembersBy
<1>3. \A x \in Nodes : Cardinality({x}) = 1
  BY FS_Singleton
<1>4. amount = AmountsBy(parent)
  BY <1>2, <1>3 DEF AmountsBy
<1>5. PICK chain : chain = [x \in Nodes |-> <<x>>]
  OBVIOUS
<1>6. Chains(next_in_clique, chain)
  BY <1>5 DEF Chains
<1>7. ChainsOf(parent, chain)
  <2> SUFFICES ASSUME NEW r \in Nodes
               PROVE  /\ ToSet(chain[r]) = MembersBy(parent, r) /\ IsInjective(chain[r])
                      /\ Len(chain[r]) = AmountsBy(parent)[r]
    BY DEF ChainsOf
  <2>1. chain[r] = <<r>> /\ AmountsBy(parent)[r] = 1
    BY <1>4, <1>5
  <2>2. DOMAIN <<r>> = {1} /\ <<r>>[1] = r /\ Len(<<r>>) = 1
    OBVIOUS
  <2>3. ToSet(<<r>>) = {r} /\ IsInjective(<<r>>)
    BY <2>2 DEF ToSet, IsInjective
  <2> QED
    BY <1>2, <2>1, <2>2, <2>3
<1>8. cliques \in Seq(Nodes) /\ IsInjective(cliques) /\ ToSet(cliques) = {}
  <2>1. <<>> \in Seq(Nodes) /\ DOMAIN <<>> = {}
    OBVIOUS
  <2> QED
    BY <2>1 DEF IsInjective, ToSet
<1>9. {r \in Nodes : parent[r] = NoNode /\ amount[r] > 1} = {}
  OBVIOUS
<1> QED
  BY <1>1, <1>4, <1>6, <1>7, <1>8, <1>9 DEF ViewsOK

-----------------------------------------------------------------------------
(* The negative lists *)

NegEntry == [neg_clique : Nodes, printed : {0, 1}]
Names(n, x, y) == \E k \in DOMAIN n[x] : n[x][k].neg_clique = y

\* A list names another node once.
NamedOnce(n) ==
  \A x \in Nodes : \A j, k \in DOMAIN n[x] :
    n[x][j].neg_clique = n[x][k].neg_clique /\ n[x][j].neg_clique # x => j = k

\* What neglist_add makes of the lists, n, when a does not name b yet.
ToldBoth(n, a, b) == BothSides([n EXCEPT ![a] = Append(@, NegNode(b))], a, b)

\* m is n with an entry for the other one in the lists of a and of b.
Tells(n, m, a, b) ==
  /\ m \in [Nodes -> Seq(NegEntry)]
  /\ \A x, y \in Nodes :
       Names(m, x, y) <=> Names(n, x, y) \/ (x = a /\ y = b) \/ (x = b /\ y = a)
  /\ NamedOnce(m)
  /\ \A x \in Nodes : \A k \in DOMAIN m[x] :
       (k \in DOMAIN n[x] /\ m[x][k] = n[x][k]) \/ m[x][k].printed = 1
LEMMA ToldBothFacts ==
  ASSUME NEW n \in [Nodes -> Seq(NegEntry)], NEW a \in Nodes, NEW b \in Nodes,
         ~Names(n, a, b), ~Names(n, b, a), NamedOnce(n),
         NEW m, m = ToldBoth(n, a, b)
  PROVE  Tells(n, m, a, b)
<1> USE DEF Tells
<1>1. PICK ta, tb \in NegEntry :
        /\ ta = NegNode(a) /\ tb = NegNode(b) /\ ta.neg_clique = a /\ tb.neg_clique = b
        /\ ta.printed = 1 /\ tb.printed = 1
  <2>1. \A x \in Nodes : /\ NegNode(x) \in NegEntry /\ NegNode(x).neg_clique = x
                         /\ NegNode(x).printed = 1
    BY DEF NegNode, NegEntry
  <2> QED
    BY <2>1
<1>2. m = [[n EXCEPT ![a] = Append(@, tb)] EXCEPT ![b] = Append(@, ta)]
  BY <1>1 DEF ToldBoth, BothSides
<1>3. \A list \in Seq(NegEntry), e \in NegEntry : Append(list, e) \in Seq(NegEntry)
  OBVIOUS
<1>4. ASSUME NEW list \in Seq(NegEntry), NEW e \in NegEntry
      PROVE  /\ Len(list) \in Nat
             /\ DOMAIN list = 1 .. Len(list) /\ DOMAIN Append(list, e) = 1 .. Len(list) + 1
             /\ Append(list, e)[Len(list) + 1] = e
             /\ \A k \in 1 .. Len(list) : Append(list, e)[k] = list[k]
  OBVIOUS
<1>5. \A l \in Nat : 1 .. l + 1 = (1 .. l) \cup {l + 1} /\ l + 1 \notin 1 .. l
  OBVIOUS
<1>6. PICK na \in Seq(NegEntry) : na = n[a]
  OBVIOUS
<1>7. PICK la \in Nat : la = Len(na)
  OBVIOUS
<1>8. \A j, k \in 1 .. la : na[j].neg_clique = na[k].neg_clique /\ na[j].neg_clique # a => j = k
  BY <1>4, <1>6, <1>7 DEF NamedOnce
<1>9. CASE a = b
  <2>1. PICK one \in Seq(NegEntry) : one = Append(na, ta)
    BY <1>1, <1>3
  <2>2. PICK two \in Seq(NegEntry) : two = Append(one, ta)
    BY <1>1, <1>3
  <2>3. m = [n EXCEPT ![a] = two]
    BY <1>1, <1>2, <1>6, <1>9, <2>1, <2>2
  <2>4. /\ m \in [Nodes -> Seq(NegEntry)] /\ m[a] = two
        /\ \A x \in Nodes \ {a} : m[x] = n[x]
    BY <2>3
  <2>5. /\ DOMAIN na = 1 .. la /\ DOMAIN one = 1 .. la + 1 /\ one[la + 1] = ta
        /\ \A k \in 1 .. la : one[k] = na[k]
    BY <1>1, <1>4, <1>7, <2>1
  <2>6. Len(one) = la + 1
    BY <2>5
  <2>7. /\ DOMAIN two = 1 .. (la + 1) + 1 /\ two[(la + 1) + 1] = ta
        /\ \A k \in 1 .. la + 1 : two[k] = one[k]
    BY <1>1, <1>4, <2>2, <2>6
  <2>8. \A k \in DOMAIN two : (k \in 1 .. la /\ two[k] = na[k]) \/ two[k] = ta
    BY <1>5, <2>5, <2>7
  <2>9. \A k \in 1 .. la : k \in DOMAIN two /\ two[k] = na[k]
    BY <1>5, <2>5, <2>7
  <2>10. (la + 1) + 1 \in DOMAIN two
    BY <2>7
  <2>11. ASSUME NEW x \in Nodes, NEW y \in Nodes
         PROVE  Names(m, x, y) <=> Names(n, x, y) \/ (x = a /\ y = b) \/ (x = b /\ y = a)
    <3>1. CASE x = a
      <4>1. Names(m, x, y) <=> \E k \in DOMAIN two : two[k].neg_clique = y
        BY <2>4, <3>1 DEF Names
      <4>2. Names(n, x, y) <=> \E k \in 1 .. la : na[k].neg_clique = y
        BY <1>6, <2>5, <3>1 DEF Names
      <4> QED
        BY <1>1, <1>9, <2>7, <2>8, <2>9, <2>10, <3>1, <4>1, <4>2
    <3>2. CASE x # a
      BY <1>9, <2>4, <3>2 DEF Names
    <3> QED
      BY <3>1, <3>2
  <2>12. NamedOnce(m)
    <3> SUFFICES ASSUME NEW x \in Nodes, NEW j \in DOMAIN m[x], NEW k \in DOMAIN m[x],
                        m[x][j].neg_clique = m[x][k].neg_clique, m[x][j].neg_clique # x
                 PROVE  j = k
      BY DEF NamedOnce
    <3>1. CASE x = a
      <4>1. j \in 1 .. la /\ two[j] = na[j] /\ k \in 1 .. la /\ two[k] = na[k]
        BY <1>1, <2>4, <2>8, <3>1
      <4> QED
        BY <1>8, <2>4, <3>1, <4>1
    <3>2. CASE x # a
      BY <2>4, <3>2 DEF NamedOnce
    <3> QED
      BY <3>1, <3>2
  <2>13. \A x \in Nodes : \A k \in DOMAIN m[x] :
           (k \in DOMAIN n[x] /\ m[x][k] = n[x][k]) \/ m[x][k].printed = 1
    BY <1>1, <1>6, <2>4, <2>5, <2>8
  <2> QED
    BY <2>4, <2>11, <2>12, <2>13
<1>10. CASE a # b
  <2>1. PICK nb \in Seq(NegEntry) : nb = n[b]
    OBVIOUS
  <2>2. PICK lb \in Nat : lb = Len(nb)
    OBVIOUS
  <2>3. PICK fa, fb \in Seq(NegEntry) : fa = Append(na, tb) /\ fb = Append(nb, ta)
    BY <1>1, <1>3
  <2>4. m = [[n EXCEPT ![a] = fa] EXCEPT ![b] = fb]
    BY <1>2, <1>6, <1>10, <2>1, <2>3
  <2>5. /\ m \in [Nodes -> Seq(NegEntry)] /\ m[a] = fa /\ m[b] = fb
        /\ \A x \in Nodes \ {a, b} : m[x] = n[x]
    BY <1>10, <2>4
  <2>6. /\ DOMAIN na = 1 .. la /\ DOMAIN fa = 1 .. la + 1 /\ fa[la + 1] = tb
        /\ \A k \in 1 .. la : fa[k] = na[k]
    BY <1>1, <1>4, <1>7, <2>3
  <2>7. /\ DOMAIN nb = 1 .. lb /\ DOMAIN fb = 1 .. lb + 1 /\ fb[lb + 1] = ta
        /\ \A k \in 1 .. lb : fb[k] = nb[k]
    BY <1>1, <1>4, <2>2, <2>3
  <2>8. /\ 1 .. la + 1 = (1 .. la) \cup {la + 1} /\ 1 .. lb + 1 = (1 .. lb) \cup {lb + 1}
    BY <1>5
  <2>9. ASSUME NEW x \in Nodes, NEW y \in Nodes
        PROVE  Names(m, x, y) <=> Names(n, x, y) \/ (x = a /\ y = b) \/ (x = b /\ y = a)
    <3>1. CASE x = a
      <4>1. Names(m, x, y) <=> \E k \in (1 .. la) \cup {la + 1} : fa[k].neg_clique = y
        BY <2>5, <2>6, <2>8, <3>1 DEF Names
      <4>2. Names(n, x, y) <=> \E k \in 1 .. la : na[k].neg_clique = y
        BY <1>6, <2>6, <3>1 DEF Names
      <4> QED
        BY <1>1, <1>10, <2>6, <3>1, <4>1, <4>2
    <3>2. CASE x = b
      <4>1. Names(m, x, y) <=> \E k \in (1 .. lb) \cup {lb + 1} : fb[k].neg_clique = y
        BY <2>5, <2>7, <2>8, <3>2 DEF Names
      <4>2. Names(n, x, y) <=> \E k \in 1 .. lb : nb[k].neg_clique = y
        BY <2>1, <2>7, <3>2 DEF Names
      <4> QED
        BY <1>1, <1>10, <2>7, <3>2, <4>1, <4>2
    <3>3. CASE x \in Nodes \ {a, b}
      BY <2>5, <3>3 DEF Names
    <3> QED
      BY <3>1, <3>2, <3>3
  <2>10. NamedOnce(m)
    <3> SUFFICES ASSUME NEW x \in Nodes, NEW j \in DOMAIN m[x], NEW k \in DOMAIN m[x],
                        m[x][j].neg_clique = m[x][k].neg_clique, m[x][j].neg_clique # x
                 PROVE  j = k
      BY DEF NamedOnce
    <3>1. CASE x = a
      <4>1. \A l \in 1 .. la : na[l].neg_clique # b
        BY <1>6, <2>6 DEF Names
      <4>2. j \in (1 .. la) \cup {la + 1} /\ k \in (1 .. la) \cup {la + 1}
        BY <2>5, <2>6, <2>8, <3>1
      <4>3. fa[j].neg_clique = fa[k].neg_clique /\ fa[j].neg_clique # a
        BY <2>5, <3>1
      <4> QED
        BY <1>1, <1>8, <2>6, <4>1, <4>2, <4>3
    <3>2. CASE x = b
      <4>1. \A l \in 1 .. lb : nb[l].neg_clique # a
        BY <2>1, <2>7 DEF Names
      <4>2. j \in (1 .. lb) \cup {lb + 1} /\ k \in (1 .. lb) \cup {lb + 1}
        BY <2>5, <2>7, <2>8, <3>2
      <4>3. fb[j].neg_clique = fb[k].neg_clique /\ fb[j].neg_clique # b
        BY <2>5, <3>2
      <4>4. \A i, l \in 1 .. lb :
              nb[i].neg_clique = nb[l].neg_clique /\ nb[i].neg_clique # b => i = l
        BY <2>1, <2>7 DEF NamedOnce
      <4> QED
        BY <1>1, <2>7, <4>1, <4>2, <4>3, <4>4
    <3>3. CASE x \in Nodes \ {a, b}
      BY <2>5, <3>3 DEF NamedOnce
    <3> QED
      BY <3>1, <3>2, <3>3
  <2>11. ASSUME NEW x \in Nodes, NEW k \in DOMAIN m[x]
         PROVE  (k \in DOMAIN n[x] /\ m[x][k] = n[x][k]) \/ m[x][k].printed = 1
    <3>1. CASE x = a
      BY <1>1, <1>6, <2>5, <2>6, <2>8, <2>11, <3>1
    <3>2. CASE x = b
      BY <1>1, <2>1, <2>5, <2>7, <2>8, <2>11, <3>2
    <3>3. CASE x \in Nodes \ {a, b}
      BY <2>5, <2>11, <3>3
    <3> QED
      BY <3>1, <3>2, <3>3
  <2> QED
    BY <2>5, <2>9, <2>10, <2>11
<1> QED
  BY <1>9, <1>10
=============================================================================
