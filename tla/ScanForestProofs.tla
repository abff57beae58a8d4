------------------------- MODULE ScanForestProofs ---------------------------
(***************************************************************************)
(* What holds of the scan trees and of the operators on them, for every    *)
(* tree: the way up from a node, sums of bytes, the files in a folder, and *)
(* what the items of a review take from it; numberings of finite sets, the *)
(* sequences that are made with them, and recursive functions.             *)
(*                                                                         *)
(* Above climbs a tree.  It is the least parent-closed set, so a fact about*)
(* it is proved by showing a set to be parent-closed; no induction over the*)
(* tree is needed.  A sum is a fold over a set: one function gives every   *)
(* subset its sum, whatever member is counted last.                        *)
(***************************************************************************)
EXTENDS ReviewSet, SequenceTheorems, WellFoundedInduction, FiniteSetTheorems, TLAPS

Smaller == {p \in Nat \X Nat : p[1] < p[2]}

\* The order of the natural numbers has no infinite descent.
LEMMA SmallerWellFounded == IsWellFoundedOn(Smaller, Nat)
<1>1. Smaller = OpToRel(<, Nat)
  BY DEF Smaller, OpToRel
<1>. QED
  BY <1>1, NatLessThanWellFounded

\* A set of numbers that is not empty has a least member.
LEMMA LeastMember ==
  ASSUME NEW S \in SUBSET Nat, S # {}
  PROVE  \E x \in S : \A y \in S : x <= y
<1>1. PICK x \in S : \A y \in S : ~ (<<y, x>> \in Smaller)
  BY SmallerWellFounded, WFMin
<1>2. ASSUME NEW y \in S PROVE x <= y
  <2>1. x \in Nat /\ y \in Nat
    BY <1>1
  <2>2. <<y, x>> \in Nat \X Nat
    BY <2>1
  <2>3. ~ (y < x)
    BY <1>1, <2>2 DEF Smaller
  <2>. QED
    BY <2>1, <2>3
<1>. QED
  BY <1>2

\* A bounded set of numbers that is not empty has a greatest member.
LEMMA GreatestMember ==
  ASSUME NEW last \in Nat, NEW S \in SUBSET (0 .. last), S # {}
  PROVE  \E x \in S : \A y \in S : y <= x
<1>. DEFINE Distance == {last - s : s \in S}
<1>1. Distance \in SUBSET Nat
  <2>1. ASSUME NEW s \in S PROVE last - s \in Nat
    <3>1. s \in 0 .. last
      OBVIOUS
    <3>. QED
      BY <3>1
  <2>. QED
    BY <2>1
<1>2. Distance # {}
  <2>1. PICK s \in S : TRUE
    OBVIOUS
  <2>2. last - s \in Distance
    BY <2>1
  <2>. QED
    BY <2>2
<1>3. PICK d \in Distance : \A e \in Distance : d <= e
  <2>. HIDE DEF Distance
  <2>. QED
    BY <1>1, <1>2, LeastMember
<1>4. PICK s \in S : d = last - s
  BY <1>3
<1>5. ASSUME NEW y \in S PROVE y <= s
  <2>1. last - s <= last - y
    BY <1>3, <1>4
  <2>2. y \in 0 .. last /\ s \in 0 .. last
    BY <1>4
  <2>. QED
    BY <2>1, <2>2
<1>. QED
  BY <1>5

-----------------------------------------------------------------------------
\* The nodes of a tree are numbered from 0 on, parents before children.
LEMMA TreeFacts ==
  ASSUME NEW t \in Trees
  PROVE  /\ Nodes(t) \in SUBSET Nat
         /\ Root \in Nodes(t)
         /\ \E last \in Nat : Nodes(t) = 0 .. last
         /\ Root \in Directory[t]
         /\ Directory[t] \subseteq Nodes(t)
         /\ Parent[t][Root] = invalid_node
         /\ \A n \in Nodes(t) \ {Root} :
              /\ Parent[t][n] \in Nodes(t)
              /\ Parent[t][n] \in Directory[t]
              /\ Parent[t][n] # invalid_node
              /\ Parent[t][n] < n
<1>0. IsForest(Parent[t], Directory[t], Bytes[t])
  BY TreesAssumption
<1>1. Cardinality(Nodes(t)) \in Nat
  BY <1>0, FS_CardinalityType DEF IsForest, Nodes
<1>2. Nodes(t) = 0 .. Cardinality(Nodes(t)) - 1
  BY <1>0 DEF IsForest, Nodes
<1>3. Nodes(t) \in SUBSET Nat
  BY <1>1, <1>2
<1>4. Root \in Directory[t] /\ Directory[t] \subseteq Nodes(t)
  BY <1>0 DEF IsForest, Nodes
<1>5. Root \in Nodes(t)
  BY <1>4
<1>6. Cardinality(Nodes(t)) - 1 \in Nat
  BY <1>1, <1>2, <1>5 DEF Root
<1>7. Parent[t][Root] = invalid_node
  BY <1>0 DEF IsForest
<1>8. ASSUME NEW n \in Nodes(t) \ {Root}
      PROVE  /\ Parent[t][n] \in Nodes(t)
             /\ Parent[t][n] \in Directory[t]
             /\ Parent[t][n] # invalid_node
             /\ Parent[t][n] < n
  <2>1. Parent[t][n] \in Directory[t] /\ Parent[t][n] < n
    BY <1>0 DEF IsForest, Nodes
  <2>2. Parent[t][n] \in Nat
    BY <2>1, <1>3, <1>4
  <2>. QED
    BY <2>1, <2>2, <1>4 DEF invalid_node
<1>. QED
  BY <1>2, <1>3, <1>4, <1>5, <1>6, <1>7, <1>8

\* A climb stays in the tree and starts with the node itself.
LEMMA AboveSelf ==
  ASSUME NEW t \in Trees, NEW n \in Nodes(t)
  PROVE  Above[t][n] \subseteq Nodes(t) /\ n \in Above[t][n]
BY DEF Above

\* A climb from n visits only what is in a parent-closed set around n.
LEMMA AboveLeast ==
  ASSUME NEW t \in Trees, NEW n \in Nodes(t), NEW a \in Above[t][n],
         NEW S \in SUBSET Nodes(t), n \in S, ParentClosed(t, S)
  PROVE  a \in S
BY DEF Above

\* The climb from an ancestor of n is the rest of the climb from n.
LEMMA AboveTransitive ==
  ASSUME NEW t \in Trees, NEW n \in Nodes(t),
         NEW b \in Above[t][n], NEW a \in Above[t][b]
  PROVE  a \in Above[t][n]
<1>1. b \in Nodes(t)
  BY AboveSelf
<1>2. a \in Nodes(t)
  BY <1>1, AboveSelf
<1>3. ASSUME NEW S \in SUBSET Nodes(t), n \in S, ParentClosed(t, S)
      PROVE  a \in S
  <2>1. b \in S
    BY <1>3, AboveLeast
  <2>. QED
    BY <1>1, <1>3, <2>1, AboveLeast
<1>. QED
  BY <1>2, <1>3 DEF Above

\* Every climb ends at the scanned folder.
LEMMA AboveRoot ==
  ASSUME NEW t \in Trees, NEW n \in Nodes(t)
  PROVE  Root \in Above[t][n]
<1>1. ASSUME NEW S \in SUBSET Nodes(t), n \in S, ParentClosed(t, S)
      PROVE  Root \in S
  <2>1. S \in SUBSET Nat /\ S # {}
    BY <1>1, TreeFacts
  <2>2. PICK m \in S : \A k \in S : m <= k
    BY <2>1, LeastMember
  <2>3. CASE m = Root
    BY <2>2, <2>3
  <2>4. CASE m # Root
    <3>1. /\ Parent[t][m] \in Nodes(t)
          /\ Parent[t][m] # invalid_node
          /\ Parent[t][m] < m
      BY <2>2, <2>4, TreeFacts
    <3>2. Parent[t][m] \in S
      BY <1>1, <2>2, <3>1 DEF ParentClosed
    <3>3. m <= Parent[t][m]
      BY <2>2, <3>2
    <3>4. m \in Nat /\ Parent[t][m] \in Nat
      BY <2>1, <2>2, <3>2
    <3>. QED
      BY <3>1, <3>3, <3>4
  <2>. QED
    BY <2>3, <2>4
<1>. QED
  BY <1>1, TreeFacts DEF Above

\* Indices fall on the way up.
LEMMA AboveSmaller ==
  ASSUME NEW t \in Trees, NEW n \in Nodes(t), NEW a \in Above[t][n]
  PROVE  a <= n
<1>. DEFINE S == {m \in Nodes(t) : m <= n}
<1>1. n \in S
  BY TreeFacts
<1>2. ParentClosed(t, S)
  <2>1. ASSUME NEW m \in S, Parent[t][m] # invalid_node
        PROVE  Parent[t][m] \in S
    <3>1. m # Root
      BY <2>1, TreeFacts
    <3>2. Parent[t][m] \in Nodes(t) /\ Parent[t][m] < m /\ m <= n
      BY <2>1, <3>1, TreeFacts
    <3>3. Parent[t][m] \in Nat /\ m \in Nat /\ n \in Nat
      BY <3>2, TreeFacts
    <3>. QED
      BY <3>2, <3>3
  <2>. QED
    BY <2>1 DEF ParentClosed
<1>3. a \in S
  <2>. HIDE DEF S
  <2>1. S \in SUBSET Nodes(t)
    BY DEF S
  <2>. QED
    BY <1>1, <1>2, <2>1, AboveLeast
<1>. QED
  BY <1>3

\* Only a directory has something below it.
LEMMA AboveDirectory ==
  ASSUME NEW t \in Trees, NEW n \in Nodes(t), NEW a \in Above[t][n], a # n
  PROVE  a \in Directory[t]
<1>. DEFINE S == {n} \cup Directory[t]
<1>1. S \in SUBSET Nodes(t) /\ n \in S
  BY TreeFacts
<1>2. ParentClosed(t, S)
  <2>1. ASSUME NEW m \in S, Parent[t][m] # invalid_node
        PROVE  Parent[t][m] \in S
    <3>1. m # Root /\ m \in Nodes(t)
      BY <2>1, <1>1, TreeFacts
    <3>. QED
      BY <3>1, TreeFacts
  <2>. QED
    BY <2>1 DEF ParentClosed
<1>3. a \in S
  <2>. HIDE DEF S
  <2>. QED
    BY <1>1, <1>2, AboveLeast
<1>. QED
  BY <1>3

\* Two nodes that contain each other are the same node.
LEMMA AboveAntisymmetric ==
  ASSUME NEW t \in Trees, NEW n \in Nodes(t),
         NEW a \in Above[t][n], n \in Above[t][a]
  PROVE  a = n
<1>1. a \in Nodes(t)
  BY AboveSelf
<1>2. a <= n /\ n <= a
  BY <1>1, AboveSmaller
<1>3. a \in Nat /\ n \in Nat
  BY <1>1, TreeFacts
<1>. QED
  BY <1>2, <1>3

\* A climb takes every parent on its way.
LEMMA AboveClosed ==
  ASSUME NEW t \in Trees, NEW n \in Nodes(t)
  PROVE  ParentClosed(t, Above[t][n])
<1>. SUFFICES ASSUME NEW m \in Above[t][n], Parent[t][m] # invalid_node
              PROVE  Parent[t][m] \in Above[t][n]
  BY DEF ParentClosed
<1>1. m \in Nodes(t)
  BY AboveSelf
<1>2. Parent[t][m] \in Nodes(t)
  BY <1>1, TreeFacts
<1>3. ASSUME NEW S \in SUBSET Nodes(t), n \in S, ParentClosed(t, S)
      PROVE  Parent[t][m] \in S
  <2>1. m \in S
    BY <1>3, AboveLeast
  <2>. QED
    BY <1>3, <2>1 DEF ParentClosed
<1>. QED
  BY <1>2, <1>3 DEF Above

\* Past its start a climb is the climb from the parent.
LEMMA AboveParent ==
  ASSUME NEW t \in Trees, NEW n \in Nodes(t) \ {Root},
         NEW a \in Above[t][n], a # n
  PROVE  a \in Above[t][Parent[t][n]]
<1>. DEFINE p == Parent[t][n]
            S == {n} \cup Above[t][p]
<1>1. p \in Nodes(t)
  BY TreeFacts
<1>2. S \in SUBSET Nodes(t) /\ n \in S
  BY <1>1, AboveSelf
<1>3. ParentClosed(t, S)
  BY <1>1, AboveSelf, AboveClosed DEF ParentClosed
<1>4. a \in S
  <2>. HIDE DEF S
  <2>. QED
    BY <1>2, <1>3, AboveLeast
<1>. QED
  BY <1>4

\* Of two nodes that a climb visits, one lies above the other.
LEMMA AboveChain ==
  ASSUME NEW t \in Trees, NEW n \in Nodes(t),
         NEW a \in Above[t][n], NEW b \in Above[t][n]
  PROVE  a \in Above[t][b] \/ b \in Above[t][a]
<1>. DEFINE S == Above[t][b] \cup {m \in Nodes(t) : b \in Above[t][m]}
<1>1. b \in Nodes(t)
  BY AboveSelf
<1>2. S \in SUBSET Nodes(t) /\ n \in S
  BY <1>1, AboveSelf
<1>3. ParentClosed(t, S)
  <2>. SUFFICES ASSUME NEW m \in S, Parent[t][m] # invalid_node
                PROVE  Parent[t][m] \in S
    BY DEF ParentClosed
  <2>1. CASE m \in Above[t][b]
    BY <1>1, <2>1, AboveClosed DEF ParentClosed
  <2>2. CASE m \in Nodes(t) /\ m # b /\ b \in Above[t][m]
    <3>1. m # Root
      BY TreeFacts
    <3>2. Parent[t][m] \in Nodes(t) /\ b \in Above[t][Parent[t][m]]
      BY <2>2, <3>1, TreeFacts, AboveParent
    <3>. QED
      BY <3>2
  <2>3. CASE m = b
    BY <1>1, <2>1, <2>3, AboveSelf
  <2>. QED
    BY <2>1, <2>2, <2>3
<1>4. a \in S
  <2>. HIDE DEF S
  <2>. QED
    BY <1>2, <1>3, AboveLeast
<1>. QED
  BY <1>4

-----------------------------------------------------------------------------
\* A review as DeletionReview builds it.
IsReview(t, r) ==
  /\ r \subseteq Nodes(t)
  /\ Root \notin r
  /\ \A a, b \in r : a # b => a \notin Above[t][b]

-----------------------------------------------------------------------------
(***************************************************************************)
(* Sums of bytes.  BytesIn is a fold over a set, the same whatever the     *)
(* order in which the nodes are taken.                                     *)
(***************************************************************************)

\* A set of numbers that has 0 and with every number the next has them all.
LEMMA AllNumbers ==
  ASSUME NEW S \in SUBSET Nat, 0 \in S, \A k \in S : k + 1 \in S
  PROVE  S = Nat
<1>. SUFFICES ASSUME Nat \ S # {} PROVE FALSE
  OBVIOUS
<1>1. PICK x \in Nat \ S : \A y \in Nat \ S : x <= y
  BY LeastMember
<1>2. x # 0 /\ x - 1 \in Nat /\ (x - 1) + 1 = x /\ ~ (x <= x - 1)
  BY <1>1
<1>3. x - 1 \in S
  BY <1>1, <1>2
<1>. QED
  BY <1>1, <1>2, <1>3

\* A family of subsets of a finite set that has a set whenever it has all
\* smaller ones has them all.
LEMMA AllSubsets ==
  ASSUME NEW S, IsFiniteSet(S), NEW Good,
         \A s \in SUBSET S :
           (\A u \in SUBSET S : Cardinality(u) < Cardinality(s) => u \in Good) => s \in Good
  PROVE  \A s \in SUBSET S : s \in Good
<1>. DEFINE Sizes == {Cardinality(s) : s \in {u \in SUBSET S : u \notin Good}}
<1>. SUFFICES ASSUME NEW s \in SUBSET S, s \notin Good PROVE FALSE
  OBVIOUS
<1>1. \A u \in SUBSET S : Cardinality(u) \in Nat
  BY FS_Subset, FS_CardinalityType
<1>2. Sizes \in SUBSET Nat /\ Sizes # {}
  BY <1>1
<1>3. PICK x \in Sizes : \A y \in Sizes : x <= y
  <2>. HIDE DEF Sizes
  <2>. QED
    BY <1>2, LeastMember
<1>4. PICK u \in SUBSET S : u \notin Good /\ x = Cardinality(u)
  BY <1>3
<1>5. ASSUME NEW v \in SUBSET S, Cardinality(v) < Cardinality(u)
      PROVE  v \in Good
  <2>. SUFFICES ASSUME v \notin Good PROVE FALSE
    OBVIOUS
  <2>1. Cardinality(v) \in Sizes
    OBVIOUS
  <2>2. Cardinality(u) <= Cardinality(v)
    BY <1>3, <1>4, <2>1
  <2>. QED
    BY <1>1, <1>5, <2>2
<1>. QED
  BY <1>4, <1>5

\* The node that a sum takes from a set.
Taken(s) == CHOOSE n \in s : TRUE

\* it gives every part of S its sum.
IsSum(it, f, S) ==
  it = [s \in SUBSET S |-> IF s = {} THEN 0 ELSE f[Taken(s)] + it[s \ {Taken(s)}]]

\* Naturals over a finite set have a sum.
LEMMA SumExists ==
  ASSUME NEW S, IsFiniteSet(S), NEW f, \A x \in S : f[x] \in Nat
  PROVE  \E it \in [SUBSET S -> Nat] : IsSum(it, f, S)
<1>. DEFINE Sub(k) == {s \in SUBSET S : Cardinality(s) <= k}
            Next1(it, s) == IF s = {} THEN 0 ELSE f[Taken(s)] + it[s \ {Taken(s)}]
            Good == {k \in Nat : \E it \in [Sub(k) -> Nat] : \A s \in Sub(k) : it[s] = Next1(it, s)}
<1>1. \A s \in SUBSET S : Cardinality(s) \in Nat
  BY FS_Subset, FS_CardinalityType
<1>2. ASSUME NEW s \in SUBSET S, s # {}
      PROVE  /\ Taken(s) \in s
             /\ s \ {Taken(s)} \in SUBSET S
             /\ Cardinality(s \ {Taken(s)}) = Cardinality(s) - 1
  <2>1. Taken(s) \in s
    BY <1>2 DEF Taken
  <2>. QED
    BY <1>2, <2>1, FS_Subset, FS_RemoveElement
<1>3. 0 \in Good
  <2>. DEFINE it == [s \in Sub(0) |-> 0]
  <2>1. \A s \in Sub(0) : s = {}
    <3>1. ASSUME NEW s \in Sub(0) PROVE s = {}
      <4>1. Cardinality(s) = 0 /\ IsFiniteSet(s)
        BY <1>1, FS_Subset
      <4>. QED
        BY <4>1, FS_EmptySet
    <3>. QED
      BY <3>1
  <2>2. it \in [Sub(0) -> Nat] /\ \A s \in Sub(0) : it[s] = Next1(it, s)
    BY <2>1
  <2>. QED
    BY <2>2
<1>4. ASSUME NEW k \in Nat, k \in Good PROVE k + 1 \in Good
  <2>1. PICK it \in [Sub(k) -> Nat] : \A s \in Sub(k) : it[s] = Next1(it, s)
    BY <1>4
  <2>2. ASSUME NEW s \in Sub(k + 1), s # {}
        PROVE  s \ {Taken(s)} \in Sub(k)
    <3>. DEFINE c == Cardinality(s)
                d == Cardinality(s \ {Taken(s)})
    <3>1. s \ {Taken(s)} \in SUBSET S /\ c \in Nat /\ c <= k + 1 /\ d = c - 1
      BY <1>1, <1>2, <2>2
    <3>2. d <= k
      <4>. HIDE DEF c, d, Sub, Good, Next1
      <4>. QED
        BY <3>1
    <3>. QED
      BY <3>1, <3>2
  <2>. DEFINE more == [s \in Sub(k + 1) |-> Next1(it, s)]
  <2>3. more \in [Sub(k + 1) -> Nat]
    <3>1. ASSUME NEW s \in Sub(k + 1) PROVE Next1(it, s) \in Nat
      <4>1. CASE s = {}
        BY <4>1
      <4>2. CASE s # {}
        <5>1. Taken(s) \in S /\ it[s \ {Taken(s)}] \in Nat /\ f[Taken(s)] \in Nat
          BY <1>2, <2>2, <4>2
        <5>. DEFINE a == f[Taken(s)]
                    b == it[s \ {Taken(s)}]
        <5>2. a + b \in Nat
          <6>1. a \in Nat /\ b \in Nat
            BY <5>1
          <6>. HIDE DEF a, b, Sub, Good, Next1
          <6>. QED
            BY <6>1
        <5>. QED
          BY <4>2, <5>2
      <4>. QED
        BY <4>1, <4>2
    <3>. QED
      BY <3>1
  <2>4. Sub(k) \subseteq Sub(k + 1)
    <3>1. ASSUME NEW s \in Sub(k) PROVE Cardinality(s) <= k + 1
      <4>. DEFINE c == Cardinality(s)
      <4>1. c \in Nat /\ c <= k
        BY <1>1
      <4>2. c <= k + 1
        <5>. HIDE DEF c, Sub, Good, Next1
        <5>. QED
          BY <4>1
      <4>. QED
        BY <4>2
    <3>. QED
      BY <3>1
  <2>5. \A s \in Sub(k) : more[s] = it[s]
    BY <2>1, <2>4
  <2>6. \A s \in Sub(k + 1) : more[s] = Next1(more, s)
    <3>1. ASSUME NEW s \in Sub(k + 1) PROVE more[s] = Next1(more, s)
      <4>1. CASE s = {}
        BY <4>1
      <4>2. CASE s # {}
        <5>1. more[s \ {Taken(s)}] = it[s \ {Taken(s)}]
          BY <2>2, <2>5, <4>2
        <5>2. more[s] = f[Taken(s)] + it[s \ {Taken(s)}]
          BY <4>2
        <5>. HIDE DEF more
        <5>. QED
          BY <4>2, <5>1, <5>2
      <4>. QED
        BY <4>1, <4>2
    <3>. QED
      BY <3>1
  <2>7. k + 1 \in Nat
    <3>. HIDE DEF Good, Sub, Next1
    <3>. QED
      OBVIOUS
  <2>. HIDE DEF more
  <2>8. \E other \in [Sub(k + 1) -> Nat] : \A s \in Sub(k + 1) : other[s] = Next1(other, s)
    BY <2>3, <2>6
  <2>. QED
    BY <2>7, <2>8
<1>5. Good = Nat
  <2>1. Good \in SUBSET Nat /\ \A k \in Good : k \in Nat
    OBVIOUS
  <2>. HIDE DEF Good
  <2>. QED
    BY <1>3, <1>4, <2>1, AllNumbers
<1>6. Cardinality(S) \in Good
  BY <1>1, <1>5
<1>7. Sub(Cardinality(S)) = SUBSET S
  <2>1. \A s \in SUBSET S : Cardinality(s) <= Cardinality(S)
    BY FS_Subset
  <2>. QED
    BY <2>1
<1>8. PICK it \in [SUBSET S -> Nat] : \A s \in SUBSET S : it[s] = Next1(it, s)
  BY <1>6, <1>7
<1>9. it = [s \in SUBSET S |-> Next1(it, s)]
  BY <1>8
<1>. QED
  BY <1>8, <1>9 DEF IsSum

\* What a sum comes to does not depend on the set it is taken within.
LEMMA SumsAgree ==
  ASSUME NEW S, NEW T, NEW U \in SUBSET (S \cap T), IsFiniteSet(U),
         NEW f, NEW g, \A x \in U : f[x] = g[x],
         NEW a, IsSum(a, f, S), NEW b, IsSum(b, g, T)
  PROVE  a[U] = b[U]
<1>. DEFINE Good == {s \in SUBSET U : a[s] = b[s]}
<1>1. ASSUME NEW s \in SUBSET U,
             \A u \in SUBSET U : Cardinality(u) < Cardinality(s) => u \in Good
      PROVE  s \in Good
  <2>1. /\ a[s] = IF s = {} THEN 0 ELSE f[Taken(s)] + a[s \ {Taken(s)}]
        /\ b[s] = IF s = {} THEN 0 ELSE g[Taken(s)] + b[s \ {Taken(s)}]
    BY DEF IsSum
  <2>2. CASE s = {}
    BY <2>1, <2>2
  <2>3. CASE s # {}
    <3>1. Taken(s) \in s
      BY <2>3 DEF Taken
    <3>2. Cardinality(s \ {Taken(s)}) < Cardinality(s)
      <4>1. IsFiniteSet(s)
        BY FS_Subset
      <4>2. Cardinality(s) \in Nat /\ Cardinality(s \ {Taken(s)}) = Cardinality(s) - 1
        BY <3>1, <4>1, FS_CardinalityType, FS_RemoveElement
      <4>. QED
        BY <4>2
    <3>3. s \ {Taken(s)} \in Good
      BY <1>1, <3>2
    <3>. QED
      BY <2>1, <2>3, <3>1, <3>3
  <2>. QED
    BY <2>2, <2>3
<1>2. \A s \in SUBSET U : s \in Good
  <2>. HIDE DEF Good
  <2>. QED
    BY <1>1, AllSubsets
<1>. QED
  BY <1>2

\* f gives naturals to the members of a finite set.
Summable(f, S) == IsFiniteSet(S) /\ \A x \in S : f[x] \in Nat

\* it gives every part of N the sum of f.
GivesSums(it, f, N) ==
  /\ it \in [SUBSET N -> Nat]
  /\ IsSum(it, f, N)
  /\ \A S \in SUBSET N : SumFunctionOnSet(f, S) = it[S]

\* One function gives every part of a set its sum.
LEMMA SumsOfParts ==
  ASSUME NEW N, NEW f, Summable(f, N)
  PROVE  \E it : GivesSums(it, f, N)
<1>1. IsFiniteSet(N) /\ \A n \in N : f[n] \in Nat
  BY DEF Summable
<1>2. PICK it \in [SUBSET N -> Nat] : IsSum(it, f, N)
  BY <1>1, SumExists
<1>3. ASSUME NEW S \in SUBSET N
      PROVE  SumFunctionOnSet(f, S) = it[S]
  <2>. DEFINE own == CHOOSE any : IsSum(any, f, S)
  <2>1. IsFiniteSet(S) /\ \A n \in S : f[n] \in Nat
    BY <1>1, FS_Subset
  <2>2. \E any : IsSum(any, f, S)
    BY <2>1, SumExists
  <2>3. IsSum(own, f, S)
    BY <2>2
  <2>4. SumFunctionOnSet(f, S) = own[S]
    BY DEF SumFunctionOnSet, FoldFunctionOnSet, MapThenFoldSet, IsSum, Taken
  <2>5. S \in SUBSET (N \cap S) /\ \A x \in S : f[x] = f[x]
    OBVIOUS
  <2>. HIDE DEF own
  <2>. QED
    BY <1>2, <2>1, <2>3, <2>4, <2>5, SumsAgree
<1>. QED
  BY <1>2, <1>3 DEF GivesSums

\* A sum of naturals is a natural; that of none is 0; and it does not matter
\* which is added last.
LEMMA SumFacts ==
  ASSUME NEW N, NEW f, Summable(f, N)
  PROVE  /\ \A S \in SUBSET N : SumFunctionOnSet(f, S) \in Nat
         /\ SumFunctionOnSet(f, {}) = 0
         /\ \A S \in SUBSET N : \A x \in S :
              SumFunctionOnSet(f, S) = f[x] + SumFunctionOnSet(f, S \ {x})
<1>1. IsFiniteSet(N) /\ \A n \in N : f[n] \in Nat
  BY DEF Summable
<1>8. PICK it : GivesSums(it, f, N)
  BY SumsOfParts
<1>2. /\ it \in [SUBSET N -> Nat]
      /\ IsSum(it, f, N)
      /\ \A S \in SUBSET N : SumFunctionOnSet(f, S) = it[S]
  BY <1>8 DEF GivesSums
<1>. DEFINE Good == {s \in SUBSET N : \A y \in s : it[s] = f[y] + it[s \ {y}]}
<1>3. ASSUME NEW s \in SUBSET N
      PROVE  it[s] = IF s = {} THEN 0 ELSE f[Taken(s)] + it[s \ {Taken(s)}]
  BY <1>2 DEF IsSum
<1>4. ASSUME NEW s \in SUBSET N,
             \A u \in SUBSET N : Cardinality(u) < Cardinality(s) => u \in Good
      PROVE  s \in Good
  <2>. SUFFICES ASSUME NEW y \in s
                PROVE  it[s] = f[y] + it[s \ {y}]
    OBVIOUS
  <2>. DEFINE c == Taken(s)
  <2>1. c \in s /\ it[s] = f[c] + it[s \ {c}]
    <3>1. Taken(s) \in s
      BY DEF Taken
    <3>. QED
      BY <1>3, <3>1
  <2>. HIDE DEF c
  <2>2. CASE y = c
    BY <2>1, <2>2
  <2>3. CASE y # c
    <3>1. \A z \in s : s \ {z} \in Good
      <4>. SUFFICES ASSUME NEW z \in s PROVE s \ {z} \in Good
        OBVIOUS
      <4>1. IsFiniteSet(s)
        BY <1>1, FS_Subset
      <4>2. Cardinality(s) \in Nat /\ Cardinality(s \ {z}) = Cardinality(s) - 1
        BY <4>1, FS_CardinalityType, FS_RemoveElement
      <4>3. Cardinality(s \ {z}) < Cardinality(s)
        BY <4>2
      <4>4. s \ {z} \in SUBSET N
        OBVIOUS
      <4>. HIDE DEF Good
      <4>. QED
        BY <1>4, <4>3, <4>4
    <3>. DEFINE R == (s \ {c}) \ {y}
                r == it[R]
    <3>2. it[s \ {c}] = f[y] + r /\ it[s \ {y}] = f[c] + r
      <4>1. (s \ {y}) \ {c} = R
        OBVIOUS
      <4>. QED
        BY <2>1, <2>3, <3>1, <4>1
    <3>3. f[c] + (f[y] + r) = f[y] + (f[c] + r)
      <4>1. f[c] \in Nat /\ f[y] \in Nat
        BY <1>1, <2>1
      <4>2. R \in SUBSET N
        OBVIOUS
      <4>3. r \in Nat
        <5>. HIDE DEF R
        <5>. QED
          BY <1>2, <4>2
      <4>. HIDE DEF r, Good
      <4>. QED
        BY <4>1, <4>3
    <3>. QED
      BY <2>1, <3>2, <3>3
  <2>. QED
    BY <2>2, <2>3
<1>5. \A s \in SUBSET N : s \in Good
  <2>. HIDE DEF Good
  <2>. QED
    BY <1>1, <1>4, AllSubsets
<1>6. SumFunctionOnSet(f, {}) = 0
  <2>1. {} \in SUBSET N
    OBVIOUS
  <2>. QED
    BY <1>2, <1>3, <2>1
<1>7. ASSUME NEW S \in SUBSET N, NEW x \in S
      PROVE  SumFunctionOnSet(f, S) = f[x] + SumFunctionOnSet(f, S \ {x})
  <2>1. it[S] = f[x] + it[S \ {x}] /\ S \ {x} \in SUBSET N
    BY <1>5
  <2>. QED
    BY <1>2, <2>1
<1>. QED
  BY <1>2, <1>6, <1>7

\* What holds of no summands, and of each further one, holds of them all.
LEMMA OneByOne ==
  ASSUME NEW N, IsFiniteSet(N), NEW Good, {} \in Good,
         \A s \in SUBSET N : \A x \in s : s \ {x} \in Good => s \in Good
  PROVE  N \in Good
<1>1. ASSUME NEW s \in SUBSET N,
             \A u \in SUBSET N : Cardinality(u) < Cardinality(s) => u \in Good
      PROVE  s \in Good
  <2>1. CASE s = {}
    BY <2>1
  <2>2. CASE s # {}
    <3>1. PICK x \in s : TRUE
      BY <2>2
    <3>2. IsFiniteSet(s)
      BY FS_Subset
    <3>3. Cardinality(s) \in Nat /\ Cardinality(s \ {x}) = Cardinality(s) - 1
      BY <3>2, FS_CardinalityType, FS_RemoveElement
    <3>4. Cardinality(s \ {x}) < Cardinality(s)
      BY <3>3
    <3>. QED
      BY <1>1, <3>1, <3>4
  <2>. QED
    BY <2>1, <2>2
<1>2. \A s \in SUBSET N : s \in Good
  BY <1>1, AllSubsets
<1>. QED
  BY <1>2

\* Functions with the same values have the same sum.
LEMMA SumCongruence ==
  ASSUME NEW N, NEW f, NEW g, Summable(f, N), \A x \in N : f[x] = g[x]
  PROVE  SumFunctionOnSet(f, N) = SumFunctionOnSet(g, N)
<1>1. Summable(g, N) /\ IsFiniteSet(N)
  BY DEF Summable
<1>2. PICK a : GivesSums(a, f, N)
  BY SumsOfParts
<1>3. PICK b : GivesSums(b, g, N)
  BY <1>1, SumsOfParts
<1>4. N \in SUBSET (N \cap N) /\ N \in SUBSET N
  OBVIOUS
<1>5. a[N] = b[N]
  BY <1>1, <1>2, <1>3, <1>4, SumsAgree DEF GivesSums
<1>. QED
  BY <1>2, <1>3, <1>4, <1>5 DEF GivesSums

\* Sets that share no member have their sums together.
LEMMA SumDisjoint ==
  ASSUME NEW N, NEW f, Summable(f, N), NEW S \in SUBSET N, NEW T \in SUBSET N, S \cap T = {}
  PROVE  SumFunctionOnSet(f, S \cup T) = SumFunctionOnSet(f, S) + SumFunctionOnSet(f, T)
<1>. DEFINE B(s) == SumFunctionOnSet(f, s)
            Good == {s \in SUBSET T : B(S \cup s) = B(S) + B(s)}
<1>1. IsFiniteSet(T) /\ \A n \in N : f[n] \in Nat
  BY FS_Subset DEF Summable
<1>2. /\ \A s \in SUBSET N : B(s) \in Nat
      /\ B({}) = 0
      /\ \A s \in SUBSET N : \A x \in s : B(s) = f[x] + B(s \ {x})
  BY SumFacts
<1>. HIDE DEF B
<1>3. {} \in Good
  <2>1. S \cup {} = S /\ B(S) + 0 = B(S)
    BY <1>2
  <2>. QED
    BY <1>2, <2>1
<1>4. ASSUME NEW s \in SUBSET T, NEW x \in s, s \ {x} \in Good
      PROVE  s \in Good
  <2>. DEFINE r == s \ {x}
              whole == S \cup s
  <2>1. B(S \cup r) = B(S) + B(r)
    BY <1>4
  <2>2. whole \in SUBSET N /\ x \in whole /\ whole \ {x} = S \cup r
    OBVIOUS
  <2>3. B(whole) = f[x] + B(S \cup r)
    <3>. HIDE DEF whole, r
    <3>. QED
      BY <1>2, <2>2
  <2>4. B(s) = f[x] + B(r)
    BY <1>2
  <2>5. B(S) \in Nat /\ B(r) \in Nat /\ f[x] \in Nat
    BY <1>1, <1>2
  <2>6. f[x] + (B(S) + B(r)) = B(S) + (f[x] + B(r))
    <3>. HIDE DEF Good, r
    <3>. QED
      BY <2>5
  <2>. QED
    BY <2>1, <2>3, <2>4, <2>6
<1>5. T \in Good
  <2>. HIDE DEF Good
  <2>. QED
    BY <1>1, <1>3, <1>4, OneByOne
<1>. QED
  BY <1>5 DEF B

\* A part has no larger sum than the whole.
LEMMA SumGrows ==
  ASSUME NEW N, NEW f, Summable(f, N), NEW S \in SUBSET N
  PROVE  SumFunctionOnSet(f, S) <= SumFunctionOnSet(f, N)
<1>. DEFINE R == N \ S
<1>1. R \in SUBSET N /\ S \cap R = {} /\ S \cup R = N
  OBVIOUS
<1>. HIDE DEF R
<1>2. SumFunctionOnSet(f, N) = SumFunctionOnSet(f, S) + SumFunctionOnSet(f, R)
  BY <1>1, SumDisjoint
<1>3. SumFunctionOnSet(f, S) \in Nat /\ SumFunctionOnSet(f, R) \in Nat
  BY <1>1, SumFacts
<1>. QED
  BY <1>2, <1>3

\* The members of C have the sum of what they stand for, when each stands for
\* things of its own that have its value.
LEMMA SumParts ==
  ASSUME NEW C, IsFiniteSet(C), NEW N, NEW g, Summable(g, N), NEW f,
         NEW part \in [C -> SUBSET N],
         \A c, d \in C : c # d => part[c] \cap part[d] = {},
         \A c \in C : f[c] = SumFunctionOnSet(g, part[c])
  PROVE  SumFunctionOnSet(f, C) = SumFunctionOnSet(g, UNION {part[c] : c \in C})
<1>. DEFINE A(s) == SumFunctionOnSet(f, s)
            B(s) == SumFunctionOnSet(g, s)
            U(s) == UNION {part[c] : c \in s}
            Good == {s \in SUBSET C : A(s) = B(U(s))}
<1>1. \A s \in SUBSET N : B(s) \in Nat
  BY SumFacts
<1>2. Summable(f, C)
  BY <1>1 DEF Summable
<1>3. /\ A({}) = 0 /\ B({}) = 0
      /\ \A s \in SUBSET C : \A x \in s : A(s) = f[x] + A(s \ {x})
      /\ \A s \in SUBSET C : A(s) \in Nat
  BY <1>2, SumFacts
<1>4. \A S, T \in SUBSET N : S \cap T = {} => B(S \cup T) = B(S) + B(T)
  BY SumDisjoint
<1>5. \A c \in C : f[c] = B(part[c])
  OBVIOUS
<1>6. \A s \in SUBSET C : U(s) \in SUBSET N
  OBVIOUS
<1>. HIDE DEF A, B
<1>7. {} \in Good
  <2>1. U({}) = {}
    OBVIOUS
  <2>. QED
    BY <1>3, <2>1
<1>8. ASSUME NEW s \in SUBSET C, NEW x \in s, s \ {x} \in Good
      PROVE  s \in Good
  <2>. DEFINE r == s \ {x}
  <2>1. A(r) = B(U(r))
    BY <1>8
  <2>2. A(s) = f[x] + A(r)
    BY <1>3
  <2>3. U(s) = U(r) \cup part[x]
    OBVIOUS
  <2>4. U(r) \cap part[x] = {}
    <3>1. \A c \in r : part[c] \cap part[x] = {}
      OBVIOUS
    <3>. QED
      BY <3>1
  <2>5. U(r) \in SUBSET N /\ part[x] \in SUBSET N
    BY <1>6
  <2>6. B(U(s)) = B(U(r)) + B(part[x])
    <3>. HIDE DEF U, r
    <3>. QED
      BY <1>4, <2>3, <2>4, <2>5
  <2>7. B(U(r)) \in Nat /\ B(part[x]) \in Nat /\ f[x] = B(part[x])
    <3>. HIDE DEF U, r
    <3>. QED
      BY <1>1, <1>5, <2>5
  <2>8. f[x] + B(U(r)) = B(U(r)) + B(part[x])
    <3>. HIDE DEF Good, r, U
    <3>. QED
      BY <2>7
  <2>. QED
    BY <2>1, <2>2, <2>6, <2>8
<1>9. C \in Good
  <2>. HIDE DEF Good
  <2>. QED
    BY <1>7, <1>8, OneByOne
<1>. QED
  BY <1>9 DEF A, B

\* The sum over the places is that over what is there, each taken once.
LEMMA SumReindexed ==
  ASSUME NEW S, IsFiniteSet(S), NEW T, NEW g, Summable(g, T),
         NEW h \in [S -> T], \A x, y \in S : h[x] = h[y] => x = y,
         NEW f, \A x \in S : f[x] = g[h[x]]
  PROVE  SumFunctionOnSet(f, S) = SumFunctionOnSet(g, {h[x] : x \in S})
<1>. DEFINE part == [x \in S |-> {h[x]}]
<1>1. part \in [S -> SUBSET T]
  OBVIOUS
<1>2. \A x, y \in S : x # y => part[x] \cap part[y] = {}
  OBVIOUS
<1>3. ASSUME NEW x \in S PROVE f[x] = SumFunctionOnSet(g, part[x])
  <2>1. {h[x]} \in SUBSET T /\ h[x] \in {h[x]} /\ {h[x]} \ {h[x]} = {}
    OBVIOUS
  <2>2. SumFunctionOnSet(g, {h[x]}) = g[h[x]] + SumFunctionOnSet(g, {})
    BY <2>1, SumFacts
  <2>3. g[h[x]] \in Nat /\ SumFunctionOnSet(g, {}) = 0
    BY SumFacts DEF Summable
  <2>. QED
    BY <2>2, <2>3
<1>4. UNION {part[x] : x \in S} = {h[x] : x \in S}
  OBVIOUS
<1>. HIDE DEF part
<1>5. SumFunctionOnSet(f, S) = SumFunctionOnSet(g, UNION {part[x] : x \in S})
  BY <1>1, <1>2, <1>3, SumParts
<1>. QED
  BY <1>4, <1>5

\* What bounds each of the summands, bounds the sum.
LEMMA SumBounded ==
  ASSUME NEW S, NEW f, NEW g, Summable(f, S), Summable(g, S),
         NEW a \in Nat, NEW b \in Nat, NEW d \in Nat,
         \A x \in S : a * f[x] <= b * g[x] + d
  PROVE  /\ Cardinality(S) \in Nat
         /\ a * SumFunctionOnSet(f, S) <= b * SumFunctionOnSet(g, S) + d * Cardinality(S)
<1>. DEFINE F(s) == SumFunctionOnSet(f, s)
            G(s) == SumFunctionOnSet(g, s)
            Good == {s \in SUBSET S : a * F(s) <= b * G(s) + d * Cardinality(s)}
<1>1. IsFiniteSet(S) /\ \A s \in SUBSET S : IsFiniteSet(s) /\ Cardinality(s) \in Nat
  BY FS_Subset, FS_CardinalityType DEF Summable
<1>2. /\ F({}) = 0
      /\ \A s \in SUBSET S : F(s) \in Nat
      /\ \A s \in SUBSET S : \A x \in s : F(s) = f[x] + F(s \ {x})
  BY SumFacts
<1>3. /\ G({}) = 0
      /\ \A s \in SUBSET S : G(s) \in Nat
      /\ \A s \in SUBSET S : \A x \in s : G(s) = g[x] + G(s \ {x})
  BY SumFacts
<1>4. \A x \in S : f[x] \in Nat /\ g[x] \in Nat
  BY DEF Summable
<1>. HIDE DEF F, G
<1>5. {} \in Good
  <2>1. Cardinality({}) = 0 /\ {} \in SUBSET S
    BY FS_EmptySet
  <2>2. a * 0 <= b * 0 + d * 0
    OBVIOUS
  <2>. QED
    BY <1>2, <1>3, <2>1, <2>2
<1>6. ASSUME NEW s \in SUBSET S, NEW x \in s, s \ {x} \in Good
      PROVE  s \in Good
  <2>. DEFINE r == s \ {x}
              Fr == F(r)
              Gr == G(r)
              c == Cardinality(r)
  <2>1. a * Fr <= b * Gr + d * c
    BY <1>6
  <2>2. r \in SUBSET S
    OBVIOUS
  <2>3. F(s) = f[x] + Fr /\ G(s) = g[x] + Gr /\ Fr \in Nat /\ Gr \in Nat
    <3>. HIDE DEF Good
    <3>. QED
      BY <1>2, <1>3, <2>2
  <2>4. Cardinality(s) = c + 1 /\ c \in Nat
    <3>1. c = Cardinality(s) - 1 /\ Cardinality(s) \in Nat /\ c \in Nat
      BY <1>1, <2>2, FS_RemoveElement
    <3>. HIDE DEF c
    <3>. QED
      BY <3>1
  <2>5. f[x] \in Nat /\ g[x] \in Nat /\ a * f[x] <= b * g[x] + d
    BY <1>4
  <2>. HIDE DEF Fr, Gr, c, r
  <2>6. ASSUME NEW u \in Nat, NEW v \in Nat, NEW p \in Nat, NEW q \in Nat, NEW n \in Nat,
               a * u <= b * v + d, a * p <= b * q + d * n
        PROVE  a * (u + p) <= b * (v + q) + d * (n + 1)
    <3>. HIDE DEF Good
    <3>1. a * (u + p) = a * u + a * p
      OBVIOUS
    <3>2. b * (v + q) = b * v + b * q
      OBVIOUS
    <3>3. d * (n + 1) = d * n + d
      OBVIOUS
    <3>4. /\ a * u \in Nat /\ a * p \in Nat /\ b * v \in Nat /\ b * q \in Nat /\ d * n \in Nat
      OBVIOUS
    <3>. DEFINE au == a * u
                ap == a * p
                bv == b * v
                bq == b * q
                dn == d * n
    <3>5. au + ap <= (bv + bq) + (dn + d)
      <4>1. au \in Nat /\ ap \in Nat /\ bv \in Nat /\ bq \in Nat /\ dn \in Nat
        BY <3>4
      <4>2. au <= bv + d /\ ap <= bq + dn
        BY <2>6
      <4>. HIDE DEF au, ap, bv, bq, dn
      <4>. QED
        BY <4>1, <4>2
    <3>. QED
      BY <3>1, <3>2, <3>3, <3>5
  <2>7. a * (f[x] + Fr) <= b * (g[x] + Gr) + d * (c + 1)
    BY <2>1, <2>3, <2>4, <2>5, <2>6
  <2>8. a * F(s) <= b * G(s) + d * Cardinality(s)
    BY <2>3, <2>4, <2>7
  <2>. QED
    BY <2>8
<1>7. S \in Good
  <2>. HIDE DEF Good
  <2>. QED
    BY <1>1, <1>5, <1>6, OneByOne
<1>. QED
  BY <1>1, <1>7 DEF F, G

\* The nodes of a tree are finitely many, and their bytes are naturals.
LEMMA TreeIsFinite ==
  ASSUME NEW t \in Trees
  PROVE  IsFiniteSet(Nodes(t)) /\ \A n \in Nodes(t) : Bytes[t][n] \in Nat
<1>1. IsForest(Parent[t], Directory[t], Bytes[t]) /\ MaxBytes \in Nat
  BY TreesAssumption
<1>2. IsFiniteSet(Nodes(t)) /\ \A n \in Nodes(t) : Bytes[t][n] \in 0 .. MaxBytes
  BY <1>1 DEF IsForest, Nodes
<1>. QED
  BY <1>1, <1>2

\* The bytes of the nodes of a tree can be summed.
LEMMA TreeIsSummable ==
  ASSUME NEW t \in Trees
  PROVE  Summable(Bytes[t], Nodes(t))
BY TreeIsFinite DEF Summable

\* The bytes of a set of nodes are a natural; those of none are 0; and it does
\* not matter which node is counted last.
LEMMA BytesInFacts ==
  ASSUME NEW t \in Trees
  PROVE  /\ \A S \in SUBSET Nodes(t) : BytesIn(t, S) \in Nat
         /\ BytesIn(t, {}) = 0
         /\ \A S \in SUBSET Nodes(t) : \A x \in S :
              BytesIn(t, S) = Bytes[t][x] + BytesIn(t, S \ {x})
BY TreeIsSummable, SumFacts DEF BytesIn

\* Sets of nodes that share none have their bytes together.
LEMMA BytesInDisjoint ==
  ASSUME NEW t \in Trees, NEW S \in SUBSET Nodes(t), NEW T \in SUBSET Nodes(t), S \cap T = {}
  PROVE  BytesIn(t, S \cup T) = BytesIn(t, S) + BytesIn(t, T)
BY TreeIsSummable, SumDisjoint DEF BytesIn

\* A part has no more bytes than the whole.
LEMMA BytesInGrows ==
  ASSUME NEW t \in Trees, NEW T \in SUBSET Nodes(t), NEW S \in SUBSET T
  PROVE  BytesIn(t, S) <= BytesIn(t, T)
<1>1. Summable(Bytes[t], T)
  BY TreeIsSummable, FS_Subset DEF Summable
<1>. QED
  BY <1>1, SumGrows DEF BytesIn

\* The nodes of C have the bytes of what they stand for, when each stands for
\* nodes of its own that have its bytes.
LEMMA BytesInParts ==
  ASSUME NEW t \in Trees, NEW C \in SUBSET Nodes(t),
         NEW part \in [C -> SUBSET Nodes(t)],
         \A c, d \in C : c # d => part[c] \cap part[d] = {},
         \A c \in C : Bytes[t][c] = BytesIn(t, part[c])
  PROVE  BytesIn(t, C) = BytesIn(t, UNION {part[c] : c \in C})
<1>1. Summable(Bytes[t], Nodes(t)) /\ IsFiniteSet(C)
  BY TreeIsSummable, TreeIsFinite, FS_Subset
<1>2. \A c \in C : Bytes[t][c] = SumFunctionOnSet(Bytes[t], part[c])
  BY DEF BytesIn
<1>. QED
  BY <1>1, <1>2, SumParts DEF BytesIn

-----------------------------------------------------------------------------
(***************************************************************************)
(* The bytes of a folder are those of the files in it.                     *)
(***************************************************************************)
ChildrenOf(t, n) == {c \in Nodes(t) : Parent[t][c] = n}

FilesBelow(t, n) == Files(t) \cap Below(t, n)

\* Of a parent and its child the child has the larger index.
LEMMA ChildIsLarger ==
  ASSUME NEW t \in Trees, NEW n \in Nodes(t), NEW c \in ChildrenOf(t, n)
  PROVE  c \in Nodes(t) \ {Root} /\ n < c /\ Parent[t][c] = n /\ n \in Above[t][c]
<1>1. c \in Nodes(t) /\ Parent[t][c] = n
  BY DEF ChildrenOf
<1>2. n \in Nat
  BY TreeFacts
<1>3. c # Root
  BY <1>1, <1>2, TreeFacts DEF invalid_node
<1>4. Parent[t][c] < c
  BY <1>1, <1>3, TreeFacts
<1>5. n \in Above[t][c]
  <2>1. Parent[t][c] # invalid_node
    BY <1>1, <1>3, TreeFacts
  <2>. QED
    BY <1>1, <2>1, AboveSelf, AboveClosed DEF ParentClosed
<1>. QED
  BY <1>1, <1>3, <1>4, <1>5

\* Whatever is below a folder is below a child of it.
LEMMA BelowChild ==
  ASSUME NEW t \in Trees, NEW x \in Nodes(t), NEW n \in Above[t][x], n # x
  PROVE  \E c \in ChildrenOf(t, n) : c \in Above[t][x]
<1>. SUFFICES ASSUME \A c \in ChildrenOf(t, n) : c \notin Above[t][x]
              PROVE  FALSE
  OBVIOUS
<1>. DEFINE S == Above[t][x] \ Above[t][n]
<1>1. n \in Nodes(t) /\ S \in SUBSET Nodes(t)
  BY AboveSelf
<1>2. x \in S
  BY <1>1, AboveSelf, AboveAntisymmetric
<1>3. ASSUME NEW m \in S, Parent[t][m] # invalid_node
      PROVE  Parent[t][m] \in S
  <2>. DEFINE p == Parent[t][m]
  <2>1. m \in Nodes(t) /\ m # Root /\ p \in Nodes(t)
    BY <1>1, <1>3, TreeFacts
  <2>2. p \in Above[t][x]
    BY <1>3, AboveClosed DEF ParentClosed
  <2>3. p # n
    BY <1>3, <2>1 DEF ChildrenOf
  <2>4. n \in Above[t][m] /\ n # m
    BY <1>1, AboveChain, AboveSelf
  <2>5. n \in Above[t][p]
    BY <2>1, <2>4, AboveParent
  <2>6. p \notin Above[t][n]
    BY <1>1, <2>1, <2>3, <2>5, AboveAntisymmetric
  <2>. QED
    BY <2>2, <2>6
<1>4. n \in S
  <2>. HIDE DEF S
  <2>1. ParentClosed(t, S)
    BY <1>3 DEF ParentClosed
  <2>. QED
    BY <1>1, <1>2, <2>1, AboveLeast
<1>. QED
  BY <1>1, <1>4, AboveSelf

\* A file is all that is below it.
LEMMA BelowFile ==
  ASSUME NEW t \in Trees, NEW n \in Files(t)
  PROVE  FilesBelow(t, n) = {n}
<1>1. n \in Nodes(t) /\ n \notin Directory[t]
  BY DEF Files
<1>2. n \in Below(t, n)
  BY <1>1, AboveSelf DEF Below
<1>3. ASSUME NEW x \in Below(t, n) PROVE x = n
  <2>1. x \in Nodes(t) /\ n \in Above[t][x]
    BY DEF Below
  <2>. QED
    BY <1>1, <2>1, AboveDirectory
<1>. QED
  BY <1>2, <1>3 DEF FilesBelow

\* The files in a folder are those of its children.
LEMMA BelowFolder ==
  ASSUME NEW t \in Trees, NEW n \in Directory[t]
  PROVE  FilesBelow(t, n) = UNION {FilesBelow(t, c) : c \in ChildrenOf(t, n)}
<1>1. n \in Nodes(t)
  BY TreeFacts
<1>2. ASSUME NEW x \in FilesBelow(t, n)
      PROVE  \E c \in ChildrenOf(t, n) : x \in FilesBelow(t, c)
  <2>1. x \in Nodes(t) /\ x \in Files(t) /\ x # n /\ n \in Above[t][x]
    BY DEF FilesBelow, Files, Below
  <2>2. PICK c \in ChildrenOf(t, n) : c \in Above[t][x]
    BY <2>1, BelowChild
  <2>. QED
    BY <2>1, <2>2 DEF FilesBelow, Below
<1>3. ASSUME NEW c \in ChildrenOf(t, n), NEW x \in FilesBelow(t, c)
      PROVE  x \in FilesBelow(t, n)
  <2>1. x \in Nodes(t) /\ x \in Files(t) /\ c \in Above[t][x]
    BY DEF FilesBelow, Below
  <2>2. n \in Above[t][c]
    BY <1>1, ChildIsLarger
  <2>. QED
    BY <2>1, <2>2, AboveTransitive DEF FilesBelow, Below
<1>. QED
  BY <1>2, <1>3

\* Two folders that are not one in the other have no files in common.
LEMMA BelowApart ==
  ASSUME NEW t \in Trees, NEW c \in Nodes(t), NEW d \in Nodes(t),
         c \notin Above[t][d], d \notin Above[t][c]
  PROVE  FilesBelow(t, c) \cap FilesBelow(t, d) = {}
<1>. SUFFICES ASSUME NEW x \in FilesBelow(t, c), x \in FilesBelow(t, d) PROVE FALSE
  OBVIOUS
<1>1. x \in Nodes(t) /\ c \in Above[t][x] /\ d \in Above[t][x]
  BY DEF FilesBelow, Below
<1>. QED
  BY <1>1, AboveChain

\* Children of one folder are not one in the other.
LEMMA ChildrenApart ==
  ASSUME NEW t \in Trees, NEW n \in Nodes(t),
         NEW c \in ChildrenOf(t, n), NEW d \in ChildrenOf(t, n), c # d
  PROVE  c \notin Above[t][d]
<1>. SUFFICES ASSUME c \in Above[t][d] PROVE FALSE
  OBVIOUS
<1>1. d \in Nodes(t) \ {Root} /\ Parent[t][d] = n
  BY ChildIsLarger
<1>2. c \in Above[t][n]
  BY <1>1, AboveParent
<1>3. c <= n /\ n < c
  BY <1>2, AboveSmaller, ChildIsLarger
<1>4. c \in Nat /\ n \in Nat
  BY TreeFacts, ChildIsLarger
<1>. QED
  BY <1>3, <1>4

\* Where no counter overflows every node has the bytes of the files in it.
LEMMA SizesAreOfFiles ==
  ASSUME NEW t \in Trees, TotalsFit(t), NEW n \in Nodes(t)
  PROVE  Bytes[t][n] = BytesIn(t, FilesBelow(t, n))
<1>. DEFINE Wrong == {m \in Nodes(t) : Bytes[t][m] # BytesIn(t, FilesBelow(t, m))}
<1>. SUFFICES ASSUME Wrong # {} PROVE FALSE
  OBVIOUS
<1>1. PICK m \in Wrong : \A k \in Wrong : k <= m
  <2>1. PICK last \in Nat : Nodes(t) = 0 .. last
    BY TreeFacts
  <2>2. Wrong \in SUBSET (0 .. last)
    BY <2>1
  <2>. HIDE DEF Wrong
  <2>. QED
    BY <2>2, GreatestMember
<1>2. m \in Nodes(t) /\ m \in Nat
  BY TreeFacts
<1>3. CASE m \in Files(t)
  <2>1. FilesBelow(t, m) = {m} /\ {m} \ {m} = {}
    BY <1>3, BelowFile
  <2>2. BytesIn(t, {m}) = Bytes[t][m] + BytesIn(t, {m} \ {m})
    <3>1. {m} \in SUBSET Nodes(t) /\ m \in {m}
      BY <1>2
    <3>. QED
      BY <3>1, BytesInFacts
  <2>3. BytesIn(t, {}) = 0 /\ Bytes[t][m] \in Nat
    BY <1>2, BytesInFacts, TreeIsFinite
  <2>4. BytesIn(t, {m}) = Bytes[t][m]
    BY <2>1, <2>2, <2>3
  <2>. QED
    BY <2>1, <2>4
<1>4. CASE m \in Directory[t]
  <2>. DEFINE C == ChildrenOf(t, m)
              part == [c \in C |-> FilesBelow(t, c)]
  <2>1. C \in SUBSET Nodes(t)
    BY DEF ChildrenOf
  <2>2. ASSUME NEW c \in C PROVE Bytes[t][c] = BytesIn(t, FilesBelow(t, c))
    <3>1. c \in Nodes(t) /\ m < c
      BY <1>2, ChildIsLarger
    <3>2. ~ (c <= m)
      BY <1>2, <3>1, TreeFacts
    <3>. QED
      BY <1>1, <3>1, <3>2
  <2>3. ASSUME NEW c \in C, NEW d \in C, c # d
        PROVE  FilesBelow(t, c) \cap FilesBelow(t, d) = {}
    BY <1>2, <2>1, <2>3, ChildrenApart, BelowApart
  <2>4. part \in [C -> SUBSET Nodes(t)]
    BY DEF FilesBelow, Files
  <2>5. UNION {part[c] : c \in C} = FilesBelow(t, m)
    <3>1. UNION {part[c] : c \in C} = UNION {FilesBelow(t, c) : c \in C}
      OBVIOUS
    <3>. QED
      BY <1>4, <3>1, BelowFolder
  <2>6. BytesIn(t, C) = BytesIn(t, FilesBelow(t, m))
    <3>1. /\ \A c, d \in C : c # d => part[c] \cap part[d] = {}
          /\ \A c \in C : Bytes[t][c] = BytesIn(t, part[c])
      BY <2>2, <2>3
    <3>. HIDE DEF C, part
    <3>2. BytesIn(t, C) = BytesIn(t, UNION {part[c] : c \in C})
      BY <2>1, <2>4, <3>1, BytesInParts
    <3>. QED
      BY <2>5, <3>2
  <2>7. Bytes[t][m] = BytesIn(t, C) % (MaxBytes + 1)
    <3>1. IsForest(Parent[t], Directory[t], Bytes[t])
      BY TreesAssumption
    <3>2. Bytes[t][m] = SumFunctionOnSet(Bytes[t], {c \in DOMAIN Parent[t] : Parent[t][c] = m})
                          % (MaxBytes + 1)
      BY <1>4, <3>1 DEF IsForest
    <3>. QED
      BY <3>2 DEF BytesIn, ChildrenOf, Nodes
  <2>8. BytesIn(t, C) \in 0 .. MaxBytes
    <3>1. FilesBelow(t, m) \in SUBSET Files(t) /\ Files(t) \in SUBSET Nodes(t)
      BY DEF FilesBelow, Files
    <3>2. BytesIn(t, FilesBelow(t, m)) <= BytesIn(t, Files(t)) /\ BytesIn(t, Files(t)) <= MaxBytes
      BY <3>1, BytesInGrows DEF TotalsFit
    <3>3. BytesIn(t, C) \in Nat /\ BytesIn(t, Files(t)) \in Nat /\ MaxBytes \in Nat
      BY <2>1, <3>1, BytesInFacts, TreesAssumption
    <3>. HIDE DEF C
    <3>. QED
      BY <2>6, <3>2, <3>3
  <2>9. Bytes[t][m] = BytesIn(t, C)
    <3>1. MaxBytes \in Nat
      BY TreesAssumption
    <3>. HIDE DEF C
    <3>2. ASSUME NEW k \in 0 .. MaxBytes PROVE k % (MaxBytes + 1) = k
      BY <3>1
    <3>. QED
      BY <2>7, <2>8, <3>2
  <2>. QED
    BY <2>6, <2>9
<1>. QED
  BY <1>2, <1>3, <1>4 DEF Files

\* What the items of a review take from a folder is what is hidden in it.
LEMMA EffectiveIsVisible ==
  ASSUME NEW t \in Trees, TotalsFit(t), NEW r, IsReview(t, r),
         NEW n, IsVisible(t, r, n)
  PROVE  EffectiveSize(t, r, n) =
           BytesIn(t, {f \in Files(t) \cap Below(t, n) : IsVisible(t, r, f)})
<1>. DEFINE R == {c \in r : n # c /\ n \in Above[t][c]}
            H == UNION {FilesBelow(t, c) : c \in R}
            V == {f \in Files(t) \cap Below(t, n) : IsVisible(t, r, f)}
            F == FilesBelow(t, n)
<1>1. n \in Nodes(t) /\ Above[t][n] \cap r = {} /\ r \in SUBSET Nodes(t) /\ MaxBytes \in Nat
  BY TreesAssumption DEF IsVisible, IsReview
<1>2. F \in SUBSET Nodes(t) /\ Files(t) \in SUBSET Nodes(t) /\ F \in SUBSET Files(t)
  BY DEF FilesBelow, Files
<1>3. R \in SUBSET Nodes(t) /\ H \in SUBSET Nodes(t) /\ V \in SUBSET Nodes(t)
  BY <1>1 DEF FilesBelow, Files
<1>4. BytesIn(t, R) = BytesIn(t, H)
  <2>. DEFINE part == [c \in R |-> FilesBelow(t, c)]
  <2>1. part \in [R -> SUBSET Nodes(t)]
    BY DEF FilesBelow, Files
  <2>2. ASSUME NEW c \in R, NEW d \in R, c # d
        PROVE  part[c] \cap part[d] = {}
    <3>1. c \in Nodes(t) /\ d \in Nodes(t)
      BY <1>3
    <3>2. c \notin Above[t][d] /\ d \notin Above[t][c]
      BY <2>2 DEF IsReview
    <3>. QED
      BY <3>1, <3>2, BelowApart
  <2>3. ASSUME NEW c \in R PROVE Bytes[t][c] = BytesIn(t, part[c])
    <3>1. c \in Nodes(t)
      BY <1>3
    <3>. QED
      BY <3>1, SizesAreOfFiles
  <2>4. UNION {part[c] : c \in R} = H
    OBVIOUS
  <2>. HIDE DEF part, R, H
  <2>. QED
    BY <1>3, <2>1, <2>2, <2>3, <2>4, BytesInParts
<1>5. H \cup V = F
  <2>1. ASSUME NEW x \in H PROVE x \in F
    <3>1. PICK c \in R : x \in FilesBelow(t, c)
      OBVIOUS
    <3>2. x \in Nodes(t) /\ x \in Files(t) /\ c \in Above[t][x] /\ n \in Above[t][c]
      BY <3>1 DEF FilesBelow, Below
    <3>. QED
      BY <3>2, AboveTransitive DEF FilesBelow, Below
  <2>2. ASSUME NEW x \in F, x \notin V PROVE x \in H
    <3>1. x \in Nodes(t) /\ x \in Files(t) /\ n \in Above[t][x] /\ ~IsVisible(t, r, x)
      BY <2>2 DEF FilesBelow, Below
    <3>2. PICK c \in r : c \in Above[t][x]
      BY <3>1 DEF IsVisible
    <3>3. c \notin Above[t][n] /\ c \in Nodes(t)
      BY <1>1
    <3>4. n \in Above[t][c] /\ n # c
      BY <1>1, <3>1, <3>2, <3>3, AboveChain, AboveSelf
    <3>. QED
      BY <3>1, <3>2, <3>3, <3>4 DEF FilesBelow, Below
  <2>3. V \subseteq F
    BY DEF FilesBelow
  <2>. QED
    BY <2>1, <2>2, <2>3
<1>6. H \cap V = {}
  <2>. SUFFICES ASSUME NEW x \in H, x \in V PROVE FALSE
    OBVIOUS
  <2>1. PICK c \in R : x \in FilesBelow(t, c)
    OBVIOUS
  <2>. QED
    BY <2>1 DEF FilesBelow, Below, IsVisible
<1>. HIDE DEF R, H, V, F
<1>7. BytesIn(t, F) = BytesIn(t, H) + BytesIn(t, V)
  BY <1>3, <1>5, <1>6, BytesInDisjoint
<1>8. Bytes[t][n] = BytesIn(t, F)
  BY <1>1, SizesAreOfFiles DEF F
<1>9. BytesIn(t, H) \in Nat /\ BytesIn(t, V) \in Nat
  BY <1>3, BytesInFacts
<1>10. BytesIn(t, F) \in 0 .. MaxBytes
  <2>1. BytesIn(t, F) <= BytesIn(t, Files(t)) /\ BytesIn(t, Files(t)) <= MaxBytes
    BY <1>2, BytesInGrows DEF TotalsFit
  <2>2. BytesIn(t, F) \in Nat /\ BytesIn(t, Files(t)) \in Nat
    BY <1>2, BytesInFacts
  <2>. QED
    BY <1>1, <2>1, <2>2
<1>11. Reduction(t, r, n) = BytesIn(t, H)
  <2>1. BytesIn(t, H) \in 0 .. MaxBytes
    BY <1>1, <1>7, <1>9, <1>10
  <2>2. Reduction(t, r, n) = SaturatedBytes(t, R)
    BY DEF Reduction, R
  <2>. QED
    BY <1>4, <2>1, <2>2 DEF SaturatedBytes
<1>12. EffectiveSize(t, r, n) = BytesIn(t, V)
  <2>. DEFINE h == BytesIn(t, H)
              v == BytesIn(t, V)
  <2>1. EffectiveSize(t, r, n) = IF h < h + v THEN (h + v) - h ELSE 0
    BY <1>7, <1>8, <1>11 DEF EffectiveSize
  <2>2. h \in Nat /\ v \in Nat
    BY <1>9
  <2>. HIDE DEF h, v
  <2>3. (IF h < h + v THEN (h + v) - h ELSE 0) = v
    BY <2>2
  <2>. QED
    BY <2>1, <2>3 DEF v
<1>. QED
  BY <1>12 DEF V

-----------------------------------------------------------------------------
(***************************************************************************)
(* The review.                                                             *)
(***************************************************************************)

\* DeletionReview::add keeps the review free of nested items.
LEMMA CollectedIsReview ==
  ASSUME NEW t \in Trees, NEW r, IsReview(t, r),
         NEW n, CanCollect(t, r, n)
  PROVE  IsReview(t, WithCollected(t, r, n))
<1>1. n \in Nodes(t) /\ n # Root /\ Above[t][n] \cap r = {}
  BY DEF CanCollect
<1>2. ASSUME NEW a \in WithCollected(t, r, n), NEW b \in WithCollected(t, r, n),
             a # b
      PROVE  a \notin Above[t][b]
  BY <1>1, <1>2 DEF WithCollected, IsReview
<1>. QED
  BY <1>1, <1>2 DEF WithCollected, IsReview

\* The scanned folder is never hidden by a review.
LEMMA RootIsVisible ==
  ASSUME NEW t \in Trees, NEW ex, Root \notin ex
  PROVE  Root \in Directory[t] /\ IsVisible(t, ex, Root)
<1>1. ASSUME NEW a \in Above[t][Root] PROVE a = Root
  <2>1. Root \in Nodes(t) /\ a \in Nodes(t)
    BY TreeFacts, AboveSelf
  <2>2. a <= Root /\ a \in Nat
    BY <2>1, AboveSmaller, TreeFacts
  <2>. QED
    BY <2>2 DEF Root
<1>. QED
  BY <1>1, TreeFacts DEF IsVisible

-----------------------------------------------------------------------------
(***************************************************************************)
(* Orders of finite sets, and sequences.                                   *)
(***************************************************************************)

\* The members of S that are before a by the order R.
Earlier(S, R, a) == {b \in S : <<b, a>> \in R}

\* R puts the members of S one after another.
IsOrder(S, R) ==
  /\ \A a \in S : <<a, a>> \notin R
  /\ \A a, b \in S : a # b => <<a, b>> \in R \/ <<b, a>> \in R
  /\ \A a, b, c \in S : <<a, b>> \in R /\ <<b, c>> \in R => <<a, c>> \in R

\* Of two members the one that is before the other has fewer before it.
LEMMA FewerBefore ==
  ASSUME NEW S, IsFiniteSet(S), NEW R, IsOrder(S, R),
         NEW a \in S, NEW b \in S, <<a, b>> \in R
  PROVE  Cardinality(Earlier(S, R, a)) < Cardinality(Earlier(S, R, b))
<1>1. Earlier(S, R, b) \in SUBSET S
  BY DEF Earlier
<1>2. IsFiniteSet(Earlier(S, R, b))
  BY <1>1, FS_Subset
<1>3. Earlier(S, R, a) \in SUBSET Earlier(S, R, b)
  BY DEF IsOrder, Earlier
<1>4. a \in Earlier(S, R, b) /\ a \notin Earlier(S, R, a)
  BY DEF IsOrder, Earlier
<1>5. IsFiniteSet(Earlier(S, R, a))
  BY <1>2, <1>3, FS_Subset
<1>6. Cardinality(Earlier(S, R, a)) # Cardinality(Earlier(S, R, b))
  BY <1>2, <1>3, <1>4, FS_Subset
<1>7. Cardinality(Earlier(S, R, a)) <= Cardinality(Earlier(S, R, b))
  BY <1>2, <1>3, FS_Subset
<1>8. Cardinality(Earlier(S, R, a)) \in Nat /\ Cardinality(Earlier(S, R, b)) \in Nat
  BY <1>2, <1>5, FS_CardinalityType
<1>. QED
  BY <1>6, <1>7, <1>8

\* The members of a finite set are numbered in their order.
LEMMA Numbered ==
  ASSUME NEW S, IsFiniteSet(S), NEW R, IsOrder(S, R)
  PROVE  /\ \A a \in S : Cardinality(Earlier(S, R, a)) \in 0 .. Cardinality(S) - 1
         /\ \A a, b \in S :
              Cardinality(Earlier(S, R, a)) = Cardinality(Earlier(S, R, b)) => a = b
         /\ \A k \in 0 .. Cardinality(S) - 1 :
              \E a \in S : Cardinality(Earlier(S, R, a)) = k
<1>. DEFINE n == Cardinality(S)
            rank == [a \in S |-> Cardinality(Earlier(S, R, a))]
<1>1. n \in Nat
  BY FS_CardinalityType
<1>2. ASSUME NEW a \in S PROVE Cardinality(Earlier(S, R, a)) \in 0 .. n - 1
  <2>1. Earlier(S, R, a) \in SUBSET S /\ a \notin Earlier(S, R, a)
    BY DEF Earlier, IsOrder
  <2>2. /\ IsFiniteSet(Earlier(S, R, a))
        /\ Cardinality(Earlier(S, R, a)) <= n
        /\ Cardinality(Earlier(S, R, a)) # n
    BY <2>1, FS_Subset
  <2>3. Cardinality(Earlier(S, R, a)) \in Nat
    BY <2>2, FS_CardinalityType
  <2>. QED
    BY <1>1, <2>2, <2>3
<1>3. ASSUME NEW a \in S, NEW b \in S,
             Cardinality(Earlier(S, R, a)) = Cardinality(Earlier(S, R, b))
      PROVE  a = b
  <2>. SUFFICES ASSUME a # b PROVE FALSE
    OBVIOUS
  <2>1. <<a, b>> \in R \/ <<b, a>> \in R
    BY DEF IsOrder
  <2>2. \/ Cardinality(Earlier(S, R, a)) < Cardinality(Earlier(S, R, b))
        \/ Cardinality(Earlier(S, R, b)) < Cardinality(Earlier(S, R, a))
    BY <2>1, FewerBefore
  <2>. QED
    BY <1>1, <1>2, <1>3, <2>2
<1>4. rank \in Injection(S, 0 .. n - 1)
  BY <1>2, <1>3 DEF Injection, IsInjective
<1>5. IsFiniteSet(0 .. n - 1) /\ Cardinality(0 .. n - 1) = n
  BY <1>1, FS_Interval, SMTT(30)
<1>6. rank \in Surjection(S, 0 .. n - 1)
  <2>. HIDE DEF rank
  <2>. QED
    BY <1>4, <1>5, FS_Injection
<1>7. ASSUME NEW k \in 0 .. n - 1
      PROVE  \E a \in S : Cardinality(Earlier(S, R, a)) = k
  BY <1>6 DEF Surjection
<1>. QED
  BY <1>2, <1>3, <1>7

\* A finite set in the order R.
Numbering(S, R) ==
  [k \in 1 .. Cardinality(S) |-> CHOOSE a \in S : Cardinality(Earlier(S, R, a)) = k - 1]

\* It has each member once, and those before a member come before it.
LEMMA NumberingFacts ==
  ASSUME NEW S, IsFiniteSet(S), NEW R, IsOrder(S, R)
  PROVE  LET s == Numbering(S, R)
         IN  /\ Cardinality(S) \in Nat
             /\ s \in [1 .. Cardinality(S) -> S]
             /\ \A a \in S : \E k \in 1 .. Cardinality(S) : s[k] = a
             /\ \A k, j \in 1 .. Cardinality(S) : k < j => <<s[k], s[j]>> \in R
             /\ \A k, j \in 1 .. Cardinality(S) : s[k] = s[j] => k = j
             /\ \A k, j \in 1 .. Cardinality(S) : <<s[k], s[j]>> \in R => k < j
<1>. DEFINE n == Cardinality(S)
            s == Numbering(S, R)
<1>1. n \in Nat
  BY FS_CardinalityType
<1>2. ASSUME NEW k \in 1 .. n
      PROVE  s[k] \in S /\ Cardinality(Earlier(S, R, s[k])) = k - 1
  <2>1. k - 1 \in 0 .. n - 1
    BY <1>1
  <2>2. PICK a \in S : Cardinality(Earlier(S, R, a)) = k - 1
    BY <2>1, Numbered
  <2>3. s[k] = CHOOSE b \in S : Cardinality(Earlier(S, R, b)) = k - 1
    BY DEF Numbering
  <2>. QED
    BY <2>2, <2>3
<1>3. s \in [1 .. n -> S]
  BY <1>2 DEF Numbering
<1>4. ASSUME NEW a \in S PROVE \E k \in 1 .. n : s[k] = a
  <2>1. Cardinality(Earlier(S, R, a)) \in 0 .. n - 1
    BY Numbered
  <2>2. PICK k \in 1 .. n : k - 1 = Cardinality(Earlier(S, R, a))
    <3>1. Cardinality(Earlier(S, R, a)) + 1 \in 1 .. n
      BY <1>1, <2>1
    <3>2. (Cardinality(Earlier(S, R, a)) + 1) - 1 = Cardinality(Earlier(S, R, a))
      BY <2>1
    <3>. QED
      BY <3>1, <3>2
  <2>3. s[k] \in S /\ Cardinality(Earlier(S, R, s[k])) = Cardinality(Earlier(S, R, a))
    BY <1>2, <2>2
  <2>. QED
    BY <2>3, Numbered
<1>5. ASSUME NEW k \in 1 .. n, NEW j \in 1 .. n
      PROVE  /\ s[k] = s[j] => k = j
             /\ <<s[k], s[j]>> \in R => k < j
             /\ k < j => <<s[k], s[j]>> \in R
  <2>1. /\ s[k] \in S /\ Cardinality(Earlier(S, R, s[k])) = k - 1
        /\ s[j] \in S /\ Cardinality(Earlier(S, R, s[j])) = j - 1
    BY <1>2
  <2>. HIDE DEF s
  <2>2. <<s[k], s[j]>> \in R => k - 1 < j - 1
    BY <2>1, FewerBefore
  <2>3. <<s[j], s[k]>> \in R => j - 1 < k - 1
    BY <2>1, FewerBefore
  <2>4. s[k] # s[j] => <<s[k], s[j]>> \in R \/ <<s[j], s[k]>> \in R
    BY <2>1 DEF IsOrder
  <2>5. s[k] = s[j] => k - 1 = j - 1
    BY <2>1
  <2>. QED
    BY <1>1, <2>2, <2>3, <2>4, <2>5
<1>. QED
  BY <1>1, <1>3, <1>4, <1>5

\* The numbers in I in their order.
LEMMA AscendingFacts ==
  ASSUME NEW I \in SUBSET Int, IsFiniteSet(I)
  PROVE  /\ Cardinality(I) \in Nat
         /\ Ascending(I) \in [1 .. Cardinality(I) -> I]
         /\ \A a \in I : \E k \in 1 .. Cardinality(I) : Ascending(I)[k] = a
         /\ \A k, j \in 1 .. Cardinality(I) : k < j <=> Ascending(I)[k] < Ascending(I)[j]
         /\ \A k, j \in 1 .. Cardinality(I) : Ascending(I)[k] = Ascending(I)[j] => k = j
<1>. DEFINE R == {p \in I \X I : p[1] < p[2]}
<1>1. IsOrder(I, R)
  <2>1. \A a, b \in I : <<a, b>> \in R <=> a < b
    OBVIOUS
  <2>. HIDE DEF R
  <2>. QED
    BY <2>1 DEF IsOrder
<1>2. \A a, b \in I : <<a, b>> \in R <=> a < b
  OBVIOUS
<1>3. \A a \in I : {b \in I : b < a} = Earlier(I, R, a)
  BY DEF Earlier
<1>. HIDE DEF R
<1>4. Ascending(I) = Numbering(I, R)
  <2>1. ASSUME NEW k \in 1 .. Cardinality(I)
        PROVE  (CHOOSE a \in I : Cardinality({b \in I : b < a}) = k - 1)
             = (CHOOSE a \in I : Cardinality(Earlier(I, R, a)) = k - 1)
    BY <1>3
  <2>2. Ascending(I) = [k \in 1 .. Cardinality(I) |->
                          CHOOSE a \in I : Cardinality({b \in I : b < a}) = k - 1]
    BY DEF Ascending, InOrder
  <2>3. Numbering(I, R) = [k \in 1 .. Cardinality(I) |->
                            CHOOSE a \in I : Cardinality(Earlier(I, R, a)) = k - 1]
    BY DEF Numbering
  <2>. QED
    BY <2>1, <2>2, <2>3
<1>5. IsFiniteSet(I)
  OBVIOUS
<1>. DEFINE s == Numbering(I, R)
<1>6. /\ Cardinality(I) \in Nat
      /\ s \in [1 .. Cardinality(I) -> I]
      /\ \A a \in I : \E k \in 1 .. Cardinality(I) : s[k] = a
      /\ \A k, j \in 1 .. Cardinality(I) : k < j => <<s[k], s[j]>> \in R
      /\ \A k, j \in 1 .. Cardinality(I) : s[k] = s[j] => k = j
      /\ \A k, j \in 1 .. Cardinality(I) : <<s[k], s[j]>> \in R => k < j
  BY <1>1, NumberingFacts
<1>7. Ascending(I) = s
  BY <1>4
<1>. HIDE DEF s
<1>8. \A k, j \in 1 .. Cardinality(I) : k < j <=> s[k] < s[j]
  <2>. TAKE k, j \in 1 .. Cardinality(I)
  <2>1. s[k] \in I /\ s[j] \in I
    BY <1>6
  <2>2. <<s[k], s[j]>> \in R <=> s[k] < s[j]
    BY <1>2, <2>1
  <2>3. k < j => <<s[k], s[j]>> \in R
    BY <1>6
  <2>4. <<s[k], s[j]>> \in R => k < j
    BY <1>6
  <2>. QED
    BY <2>2, <2>3, <2>4
<1>. QED
  BY <1>6, <1>7, <1>8
\* MembersAt takes the members of s at the numbers in I, in order.
LEMMA MembersAtFacts ==
  ASSUME NEW s, NEW I \in SUBSET Int, IsFiniteSet(I)
  PROVE  /\ Cardinality(I) \in Nat
         /\ DOMAIN MembersAt(s, I) = 1 .. Cardinality(I)
         /\ \A k \in 1 .. Cardinality(I) :
              Ascending(I)[k] \in I /\ MembersAt(s, I)[k] = s[Ascending(I)[k]]
         /\ \A i \in I : \E k \in 1 .. Cardinality(I) : MembersAt(s, I)[k] = s[i]
<1>1. \A k \in 1 .. Cardinality(I) : MembersAt(s, I)[k] = s[Ascending(I)[k]]
  BY DEF MembersAt
<1>2. DOMAIN MembersAt(s, I) = 1 .. Cardinality(I)
  BY DEF MembersAt
<1>. QED
  BY <1>1, <1>2, AscendingFacts

\* The first n numbers are n.
LEMMA FirstNumbers ==
  ASSUME NEW n \in Nat
  PROVE  IsFiniteSet(1 .. n) /\ Cardinality(1 .. n) = n
<1>1. 1 \in Int /\ n \in Int /\ (IF 1 > n THEN 0 ELSE n - 1 + 1) = n
  OBVIOUS
<1>2. Cardinality(1 .. n) = IF 1 > n THEN 0 ELSE n - 1 + 1
  BY <1>1, FS_Interval
<1>3. IsFiniteSet(1 .. n)
  BY <1>1, FS_Interval
<1>. QED
  BY <1>1, <1>2, <1>3

\* Of a sequence it leaves a sequence, which is not longer.
LEMMA MembersAtSeq ==
  ASSUME NEW T, NEW s \in Seq(T), NEW I \in SUBSET DOMAIN s
  PROVE  /\ IsFiniteSet(I)
         /\ MembersAt(s, I) \in Seq(T)
         /\ Len(MembersAt(s, I)) = Cardinality(I)
         /\ Cardinality(I) <= Len(s)
<1>1. DOMAIN s = 1 .. Len(s) /\ Len(s) \in Nat
  OBVIOUS
<1>2. IsFiniteSet(1 .. Len(s)) /\ Cardinality(1 .. Len(s)) = Len(s)
  BY <1>1, FirstNumbers
<1>3. I \in SUBSET Int
  BY <1>1
<1>4. IsFiniteSet(I) /\ Cardinality(I) <= Len(s)
  BY <1>1, <1>2, FS_Subset
<1>5. /\ Cardinality(I) \in Nat
      /\ \A k \in 1 .. Cardinality(I) : MembersAt(s, I)[k] \in T
  <2>1. \A i \in I : s[i] \in T
    BY <1>1, ElementOfSeq
  <2>2. /\ Cardinality(I) \in Nat
        /\ \A k \in 1 .. Cardinality(I) :
             Ascending(I)[k] \in I /\ MembersAt(s, I)[k] = s[Ascending(I)[k]]
    BY <1>3, <1>4, MembersAtFacts
  <2>. QED
    BY <2>1, <2>2
<1>6. MembersAt(s, I) = [k \in 1 .. Cardinality(I) |-> MembersAt(s, I)[k]]
  BY DEF MembersAt
<1>7. MembersAt(s, I) \in [1 .. Cardinality(I) -> T]
  BY <1>5, <1>6
<1>8. MembersAt(s, I) \in Seq(T)
  BY <1>5, <1>7 DEF Seq
<1>9. Len(MembersAt(s, I)) = Cardinality(I)
  BY <1>5, <1>7, <1>8
<1>. QED
  BY <1>4, <1>8, <1>9

\* The numbers of an interval are already in order.
LEMMA AscendingInterval ==
  ASSUME NEW a \in Int, NEW b \in Int, a <= b + 1
  PROVE  /\ IsFiniteSet(a .. b)
         /\ Cardinality(a .. b) = b - a + 1
         /\ Ascending(a .. b) = [k \in 1 .. b - a + 1 |-> a + k - 1]
<1>1. IsFiniteSet(a .. b) /\ Cardinality(a .. b) = b - a + 1
  BY FS_Interval
<1>2. ASSUME NEW x \in a .. b
      PROVE  Cardinality({y \in a .. b : y < x}) = x - a
  <2>1. {y \in a .. b : y < x} = a .. x - 1
    OBVIOUS
  <2>2. Cardinality(a .. x - 1) = x - a
    <3>1. x - 1 \in Int /\ (IF a > x - 1 THEN 0 ELSE (x - 1) - a + 1) = x - a
      OBVIOUS
    <3>2. Cardinality(a .. x - 1) = IF a > x - 1 THEN 0 ELSE (x - 1) - a + 1
      BY <3>1, FS_Interval
    <3>. QED
      BY <3>1, <3>2
  <2>. QED
    BY <2>1, <2>2
<1>3. ASSUME NEW k \in 1 .. b - a + 1
      PROVE  (CHOOSE x \in a .. b : Cardinality({y \in a .. b : y < x}) = k - 1) = a + k - 1
  <2>1. a + k - 1 \in a .. b /\ (a + k - 1) - a = k - 1
    OBVIOUS
  <2>2. Cardinality({y \in a .. b : y < a + k - 1}) = k - 1
    BY <1>2, <2>1
  <2>3. ASSUME NEW x \in a .. b, Cardinality({y \in a .. b : y < x}) = k - 1
        PROVE  x = a + k - 1
    <3>1. x - a = k - 1
      BY <1>2, <2>3
    <3>. QED
      BY <3>1
  <2>. QED
    BY <2>1, <2>2, <2>3
<1>. QED
  BY <1>1, <1>3 DEF Ascending, InOrder

-----------------------------------------------------------------------------
\* f begins with base and takes a step to each next number up to N, in S.
IsRecursion(f, N, S, base, step) ==
  /\ f \in [0 .. N -> S]
  /\ f[0] = base
  /\ \A k \in 1 .. N : f[k] = step[<<f[k - 1], k>>]

\* A recursion over the numbers up to N has a result.
LEMMA RecursionExists ==
  ASSUME NEW N \in Nat, NEW S, NEW base \in S, NEW step,
         \A x \in S, k \in 1 .. N : step[<<x, k>>] \in S
  PROVE  \E f : IsRecursion(f, N, S, base, step)
<1>. DEFINE Is(f, n) == f = [k \in 0 .. n |-> IF k = 0 THEN base ELSE step[<<f[k - 1], k>>]]
            Good == {n \in Nat : n <= N => \E f \in [0 .. n -> S] : Is(f, n)}
<1>1. 0 \in Good
  <2>. DEFINE f == [k \in 0 .. 0 |-> base]
  <2>1. f \in [0 .. 0 -> S]
    OBVIOUS
  <2>2. Is(f, 0)
    OBVIOUS
  <2>. QED
    BY <2>1, <2>2
<1>2. ASSUME NEW n \in Good PROVE n + 1 \in Good
  <2>. SUFFICES ASSUME n + 1 <= N PROVE \E f \in [0 .. n + 1 -> S] : Is(f, n + 1)
    OBVIOUS
  <2>1. n \in Nat /\ n <= N
    OBVIOUS
  <2>2. PICK f \in [0 .. n -> S] : Is(f, n)
    BY <2>1
  <2>. DEFINE g == [k \in 0 .. n + 1 |-> IF k <= n THEN f[k] ELSE step[<<f[n], n + 1>>]]
  <2>3. g \in [0 .. n + 1 -> S]
    <3>1. step[<<f[n], n + 1>>] \in S
      BY <2>1, <2>2
    <3>. QED
      BY <2>1, <3>1
  <2>4. ASSUME NEW k \in 0 .. n + 1
        PROVE  g[k] = IF k = 0 THEN base ELSE step[<<g[k - 1], k>>]
    <3>1. CASE k = 0
      BY <2>1, <2>2, <3>1
    <3>2. CASE k \in 1 .. n
      <4>1. g[k] = f[k] /\ g[k - 1] = f[k - 1] /\ k \in 0 .. n
        BY <2>1, <3>2
      <4>2. f[k] = step[<<f[k - 1], k>>]
        BY <2>1, <2>2, <3>2
      <4>3. k # 0
        BY <2>1, <3>2
      <4>. HIDE DEF g
      <4>. QED
        BY <4>1, <4>2, <4>3
    <3>3. CASE k = n + 1
      <4>1. g[k] = step[<<f[n], n + 1>>] /\ g[k - 1] = f[n] /\ k # 0
        BY <2>1, <3>3
      <4>. QED
        BY <3>3, <4>1
    <3>. QED
      BY <2>1, <3>1, <3>2, <3>3
  <2>5. Is(g, n + 1)
    <3>1. g = [k \in 0 .. n + 1 |-> g[k]]
      OBVIOUS
    <3>. HIDE DEF g
    <3>. QED
      BY <2>4, <3>1
  <2>. HIDE DEF g, Is
  <2>. QED
    BY <2>3, <2>5
<1>3. N \in Good
  <2>. HIDE DEF Good
  <2>1. Good \in SUBSET Nat
    BY DEF Good
  <2>2. Good = Nat
    BY <1>1, <1>2, <2>1, AllNumbers
  <2>. QED
    BY <2>2
<1>4. PICK f \in [0 .. N -> S] : Is(f, N)
  BY <1>3
<1>5. ASSUME NEW k \in 0 .. N
      PROVE  f[k] = IF k = 0 THEN base ELSE step[<<f[k - 1], k>>]
  BY <1>4
<1>6. 0 \in 0 .. N /\ \A k \in 1 .. N : k \in 0 .. N /\ k # 0
  OBVIOUS
<1>. HIDE DEF Is, Good
<1>7. IsRecursion(f, N, S, base, step)
  BY <1>4, <1>5, <1>6 DEF IsRecursion
<1>. QED
  BY <1>7
-----------------------------------------------------------------------------
(***************************************************************************)
(* Sequences.                                                              *)
(***************************************************************************)

\* A function over the first n numbers is a sequence.
LEMMA NumberedSeq ==
  ASSUME NEW T, NEW n \in Nat, NEW s \in [1 .. n -> T]
  PROVE  s \in Seq(T) /\ Len(s) = n /\ DOMAIN s = 1 .. n
<1>1. s \in Seq(T)
  BY DEF Seq
<1>. QED
  BY <1>1

\* The sequence c is a with b behind it.
IsJoined(c, a, b) ==
  /\ Len(a) \in Nat /\ Len(b) \in Nat
  /\ Len(c) = Len(a) + Len(b)
  /\ DOMAIN c = 1 .. Len(a) + Len(b)
  /\ \A i \in 1 .. Len(a) : c[i] = a[i]
  /\ \A i \in 1 .. Len(b) : c[Len(a) + i] = b[i]

\* What is at the places of a \o b.
LEMMA Joined ==
  ASSUME NEW T, NEW a \in Seq(T), NEW b \in Seq(T)
  PROVE  a \o b \in Seq(T) /\ IsJoined(a \o b, a, b)
<1>1. Len(a) \in Nat /\ Len(b) \in Nat
  BY LenProperties
<1>2. /\ a \o b \in Seq(T)
      /\ Len(a \o b) = Len(a) + Len(b)
      /\ \A i \in 1 .. Len(a) + Len(b) :
           (a \o b)[i] = IF i <= Len(a) THEN a[i] ELSE b[i - Len(a)]
  BY ConcatProperties
<1>3. DOMAIN (a \o b) = 1 .. Len(a) + Len(b)
  BY <1>2, LenProperties
<1>. DEFINE m == Len(a)
            n == Len(b)
            c == a \o b
<1>. HIDE DEF m, n, c
<1>4. \A i \in 1 .. m : c[i] = a[i]
  BY <1>1, <1>2 DEF m, n, c
<1>5. ASSUME NEW i \in 1 .. n PROVE c[m + i] = b[i]
  <2>1. m \in Nat /\ n \in Nat
    BY <1>1 DEF m, n
  <2>2. m + i \in 1 .. m + n /\ ~ (m + i <= m) /\ (m + i) - m = i
    BY <2>1
  <2>3. \A k \in 1 .. m + n : c[k] = IF k <= m THEN a[k] ELSE b[k - m]
    BY <1>2 DEF m, n, c
  <2>. QED
    BY <2>2, <2>3
<1>6. IsJoined(c, a, b)
  BY <1>1, <1>2, <1>3, <1>4, <1>5 DEF m, n, c, IsJoined
<1>. QED
  BY <1>2, <1>6 DEF c
=============================================================================
