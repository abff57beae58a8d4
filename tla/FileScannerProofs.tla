-------------------------- MODULE FileScannerProofs --------------------------
(***************************************************************************)
(* The safety of FileScanner, for every disk and all limits.               *)
(***************************************************************************)
EXTENDS FileScanner, SequenceTheorems, WellFoundedInduction, FiniteSetTheorems, TLAPS

-----------------------------------------------------------------------------
(***************************************************************************)
(* Trees.                                                                  *)
(***************************************************************************)
NodeRecords ==
  [parent : Int, firstChild : Int, nextSibling : Int, item : Items,
   size : 0 .. MaxBytes, flags : SUBSET Flags]

\* A vector of n nodes.
IsVector(t, n) == t \in [0 .. n - 1 -> NodeRecords]

\* A node says of itself what its entry is on the disk, and lies in a folder
\* that holds this entry.
IsOfDisk(t) ==
  \A m \in DOMAIN t :
    /\ m \in Directories(t) <=> t[m].item \in Folders
    /\ "ReparsePoint" \in t[m].flags <=> t[m].item \in Links
    /\ m \notin Directories(t) => t[m].size = FileSize[t[m].item]
    /\ m = Root => t[m].parent = invalid_node /\ t[m].item = Scanned
    /\ m # Root => /\ t[m].parent \in DOMAIN t
                   /\ t[m].parent < m
                   /\ t[t[m].parent].item \in Folders \ Links
                   /\ t[m].item \in Contents[t[t[m].parent].item]

\* ChildrenLinked of a tree.
IsLinked(t) ==
  \A n \in DOMAIN t :
    /\ t[n].firstChild \in Children(t, n) \cup {invalid_node}
    /\ \A c \in Children(t, n) : c <= t[n].firstChild
    /\ t[n].nextSibling \in DOMAIN t \cup {invalid_node}
    /\ t[n].nextSibling < n
    /\ t[n].nextSibling # invalid_node => t[t[n].nextSibling].parent = t[n].parent
    /\ \A m \in DOMAIN t :
         m < n /\ t[m].parent = t[n].parent => m <= t[n].nextSibling

\* No entry is there twice.
HasEntriesOnce(t) == \A m, n \in DOMAIN t : t[m].item = t[n].item => m = n

IsScanTree(t, n) ==
  IsVector(t, n) /\ IsOfDisk(t) /\ IsLinked(t) /\ HasEntriesOnce(t)

\* The entries that the children of n stand for.
Found(t, n) == {t[c].item : c \in Children(t, n)}

\* A vector of n nodes has n nodes.
LEMMA SizeOfVector ==
  ASSUME NEW n \in Nat, NEW t, DOMAIN t = 0 .. n - 1
  PROVE  Cardinality(DOMAIN t) = n /\ IsFiniteSet(DOMAIN t)
<1>1. /\ IsFiniteSet(0 .. n - 1)
      /\ Cardinality(0 .. n - 1) = IF 0 > n - 1 THEN 0 ELSE (n - 1) - 0 + 1
  BY FS_Interval
<1>. QED
  BY <1>1

\* ScanTree::add_flags touches the flags of one node.
LEMMA FlaggedFacts ==
  ASSUME NEW n \in Nat, NEW t, IsVector(t, n),
         NEW p \in 0 .. n - 1, NEW f \in SUBSET Flags
  PROVE  LET a == Flagged(t, p, f) IN
         /\ IsVector(a, n)
         /\ a[p].flags = t[p].flags \cup f
         /\ \A m \in 0 .. n - 1 :
              /\ m # p => a[m] = t[m]
              /\ a[m].parent = t[m].parent
              /\ a[m].firstChild = t[m].firstChild
              /\ a[m].nextSibling = t[m].nextSibling
              /\ a[m].item = t[m].item
              /\ a[m].size = t[m].size
<1>. DEFINE a == Flagged(t, p, f)
<1>1. a = [t EXCEPT ![p] = [t[p] EXCEPT !.flags = t[p].flags \cup f]]
  BY DEF Flagged
<1>2. t[p] \in NodeRecords /\ t \in [0 .. n - 1 -> NodeRecords]
  BY DEF IsVector
<1>3. [t[p] EXCEPT !.flags = t[p].flags \cup f] \in NodeRecords
  BY <1>2 DEF NodeRecords
<1>4. /\ a \in [0 .. n - 1 -> NodeRecords]
      /\ a[p] = [t[p] EXCEPT !.flags = t[p].flags \cup f]
      /\ \A m \in 0 .. n - 1 : m # p => a[m] = t[m]
  BY <1>1, <1>2, <1>3
<1>. HIDE DEF a
<1>. QED
  BY <1>2, <1>4 DEF NodeRecords, IsVector, a

\* Marks for what is missed change nothing of a scan tree.
LEMMA FlaggedKeepsTree ==
  ASSUME NEW n \in Nat, NEW t, IsScanTree(t, n),
         NEW p \in 0 .. n - 1, NEW f \in SUBSET {"Inaccessible", "Incomplete"}
  PROVE  LET a == Flagged(t, p, f) IN
         /\ IsScanTree(a, n)
         /\ Directories(a) = Directories(t)
         /\ \A m \in 0 .. n - 1 :
              Children(a, m) = Children(t, m) /\ Found(a, m) = Found(t, m)
<1>. DEFINE a == Flagged(t, p, f)
<1>1. f \in SUBSET Flags
  BY DEF Flags
<1>2. /\ IsVector(a, n) /\ IsVector(t, n)
      /\ a[p].flags = t[p].flags \cup f
      /\ \A m \in 0 .. n - 1 :
              /\ m # p => a[m] = t[m]
              /\ a[m].parent = t[m].parent
              /\ a[m].firstChild = t[m].firstChild
              /\ a[m].nextSibling = t[m].nextSibling
              /\ a[m].item = t[m].item
              /\ a[m].size = t[m].size
  BY <1>1, FlaggedFacts DEF IsScanTree
<1>. HIDE DEF a
<1>3. DOMAIN a = 0 .. n - 1 /\ DOMAIN t = 0 .. n - 1
  BY <1>2 DEF IsVector
<1>4. \A m \in 0 .. n - 1 :
        /\ "Directory" \in a[m].flags <=> "Directory" \in t[m].flags
        /\ "ReparsePoint" \in a[m].flags <=> "ReparsePoint" \in t[m].flags
  BY <1>2
<1>5. Directories(a) = Directories(t)
  BY <1>3, <1>4 DEF Directories
<1>6. \A m : Children(a, m) = Children(t, m) /\ Children(t, m) \subseteq 0 .. n - 1
  BY <1>2, <1>3 DEF Children
<1>7. \A m : Found(a, m) = Found(t, m)
  BY <1>2, <1>6 DEF Found
<1>8. IsOfDisk(a)
  BY <1>2, <1>3, <1>4, <1>5 DEF IsScanTree, IsOfDisk
<1>9. IsLinked(a)
  BY <1>2, <1>3, <1>6 DEF IsScanTree, IsLinked
<1>10. HasEntriesOnce(a)
  BY <1>2, <1>3 DEF IsScanTree, HasEntriesOnce
<1>. QED
  BY <1>2, <1>5, <1>6, <1>7, <1>8, <1>9, <1>10 DEF IsScanTree, a

\* ScanTree::append_node adds a node and changes one link.
LEMMA AppendedFacts ==
  ASSUME NEW n \in Nat, NEW t, IsVector(t, n), NEW p \in 0 .. n - 1,
         NEW i \in Items, NEW s \in 0 .. MaxBytes, NEW f \in SUBSET Flags
  PROVE  LET a == Appended(t, p, i, s, f) IN
         /\ IsVector(a, n + 1)
         /\ a[n] = [parent |-> p, firstChild |-> invalid_node,
                    nextSibling |-> t[p].firstChild,
                    item |-> i, size |-> s, flags |-> f]
         /\ a[p].firstChild = n
         /\ \A m \in 0 .. n - 1 :
              /\ m # p => a[m] = t[m]
              /\ a[m].parent = t[m].parent
              /\ a[m].nextSibling = t[m].nextSibling
              /\ a[m].item = t[m].item
              /\ a[m].size = t[m].size
              /\ a[m].flags = t[m].flags
<1>. DEFINE node == [parent |-> p, firstChild |-> invalid_node,
                     nextSibling |-> t[p].firstChild,
                     item |-> i, size |-> s, flags |-> f]
            a == Appended(t, p, i, s, f)
<1>1. DOMAIN t = 0 .. n - 1 /\ t \in [0 .. n - 1 -> NodeRecords]
  BY DEF IsVector
<1>2. Cardinality(DOMAIN t) = n
  BY <1>1, SizeOfVector
<1>3. p # invalid_node /\ p \in Int /\ invalid_node \in Int
  BY DEF invalid_node
<1>4. a = [m \in 0 .. n |-> IF m = n THEN node
                            ELSE IF m = p THEN [t[m] EXCEPT !.firstChild = n]
                            ELSE t[m]]
  BY <1>2, <1>3 DEF Appended, SiblingBefore
<1>5. node \in NodeRecords
  BY <1>1, <1>3 DEF NodeRecords
<1>. HIDE DEF node, a
<1>6. ASSUME NEW m \in 0 .. n - 1
      PROVE  t[m] \in NodeRecords /\ [t[m] EXCEPT !.firstChild = n] \in NodeRecords
  <2>1. t[m] \in NodeRecords
    BY <1>1
  <2>. QED
    BY <2>1 DEF NodeRecords
<1>7. (n + 1) - 1 = n /\ \A m \in 0 .. n : m # n => m \in 0 .. n - 1
  OBVIOUS
<1>8. a \in [0 .. n -> NodeRecords]
  BY <1>4, <1>5, <1>6, <1>7
<1>9. a[n] = node
  BY <1>4
<1>10. \A m \in 0 .. n - 1 : /\ m # p => a[m] = t[m]
                             /\ m = p => a[m] = [t[m] EXCEPT !.firstChild = n]
  BY <1>4
<1>11. a[p].firstChild = n
  BY <1>6, <1>10 DEF NodeRecords
<1>12. ASSUME NEW m \in 0 .. n - 1
       PROVE  /\ a[m].parent = t[m].parent
              /\ a[m].nextSibling = t[m].nextSibling
              /\ a[m].item = t[m].item
              /\ a[m].size = t[m].size
              /\ a[m].flags = t[m].flags
  BY <1>6, <1>10 DEF NodeRecords
<1>. QED
  BY <1>7, <1>8, <1>9, <1>10, <1>11, <1>12 DEF IsVector, node, a

\* An entry is what its flags and its size say, and within their bounds.
LEMMA EntryFacts ==
  ASSUME NEW i \in Items
  PROVE  /\ FlagsOf(i) \in SUBSET Flags
         /\ SizeOf(i) \in 0 .. MaxBytes
         /\ "Directory" \in FlagsOf(i) <=> i \in Folders
         /\ "ReparsePoint" \in FlagsOf(i) <=> i \in Links
         /\ "Incomplete" \notin FlagsOf(i)
<1>1. SizeOf(i) \in 0 .. MaxBytes
  BY DiskAssumption, LimitsAssumption DEF SizeOf
<1>. QED
  BY <1>1 DEF FlagsOf, Flags

\* The scanned folder alone is a scan tree.
LEMMA RootTree ==
  LET a == Appended(EmptyTree, invalid_node, Scanned, 0, {"Directory"}) IN
  /\ IsScanTree(a, 1)
  /\ Directories(a) = {Root}
  /\ a[Root].item = Scanned
  /\ a[Root].flags = {"Directory"}
  /\ Children(a, Root) = {}
<1>. DEFINE node == [parent |-> invalid_node, firstChild |-> invalid_node,
                     nextSibling |-> invalid_node,
                     item |-> Scanned, size |-> 0, flags |-> {"Directory"}]
            a == Appended(EmptyTree, invalid_node, Scanned, 0, {"Directory"})
<1>1. Cardinality(DOMAIN EmptyTree) = 0
  <2>1. DOMAIN EmptyTree = {}
    BY DEF EmptyTree
  <2>. QED
    BY <2>1, FS_EmptySet
<1>2. 0 .. 0 = {0} /\ 0 .. 1 - 1 = {0}
  OBVIOUS
<1>3. a = [m \in {0} |-> node]
  BY <1>1, <1>2 DEF Appended, SiblingBefore
<1>. HIDE DEF a
<1>4. DOMAIN a = {0} /\ a[0] = node
  BY <1>3
<1>5. /\ a[0].parent = -1 /\ a[0].firstChild = -1 /\ a[0].nextSibling = -1
      /\ a[0].item = Scanned /\ a[0].size = 0 /\ a[0].flags = {"Directory"}
  BY <1>4 DEF invalid_node
<1>6. node \in NodeRecords
  BY DiskAssumption, LimitsAssumption DEF NodeRecords, Flags, invalid_node
<1>7. IsVector(a, 1)
  BY <1>2, <1>3, <1>6 DEF IsVector
<1>8. Directories(a) = {0} /\ Children(a, 0) = {}
  BY <1>4, <1>5 DEF Directories, Children
<1>9. IsOfDisk(a)
  BY <1>4, <1>5, <1>8, DiskAssumption DEF IsOfDisk, Root, invalid_node
<1>10. IsLinked(a)
  BY <1>4, <1>5, <1>8 DEF IsLinked, invalid_node
<1>11. HasEntriesOnce(a)
  BY <1>4 DEF HasEntriesOnce
<1>. QED
  BY <1>5, <1>7, <1>8, <1>9, <1>10, <1>11 DEF IsScanTree, Root, a

\* A folder that is no link shows an entry in one place only, so that an
\* entry its node does not have yet is nowhere in the tree.
LEMMA NotFoundYet ==
  ASSUME NEW n \in Nat, NEW t, IsScanTree(t, n), NEW p \in 0 .. n - 1,
         t[p].item \in Folders \ Links,
         NEW i \in Contents[t[p].item], i \notin Found(t, p)
  PROVE  \A m \in DOMAIN t : t[m].item # i
<1>. SUFFICES ASSUME NEW m \in DOMAIN t, t[m].item = i PROVE FALSE
  OBVIOUS
<1>1. DOMAIN t = 0 .. n - 1
  BY DEF IsScanTree, IsVector
<1>2. i # Scanned
  BY DiskAssumption
<1>3. /\ t[m].parent \in DOMAIN t
      /\ t[t[m].parent].item \in Folders \ Links
      /\ i \in Contents[t[t[m].parent].item]
  BY <1>2 DEF IsScanTree, IsOfDisk
<1>4. t[t[m].parent].item = t[p].item
  BY <1>3, DiskAssumption
<1>5. t[m].parent = p
  BY <1>1, <1>3, <1>4 DEF IsScanTree, HasEntriesOnce
<1>6. m \in Children(t, p)
  BY <1>5 DEF Children
<1>. QED
  BY <1>6 DEF Found

\* What add_child does to a scan tree.
LEMMA AppendedKeepsTree ==
  ASSUME NEW n \in Nat, NEW t, IsScanTree(t, n), NEW p \in 0 .. n - 1,
         t[p].item \in Folders \ Links,
         NEW i \in Contents[t[p].item], i \notin Found(t, p)
  PROVE  LET a == Appended(t, p, i, SizeOf(i), FlagsOf(i)) IN
         /\ IsScanTree(a, n + 1)
         /\ a[n].item = i /\ a[n].flags = FlagsOf(i) /\ a[n].size = SizeOf(i)
         /\ a[n].parent = p
         /\ \A m \in 0 .. n - 1 :
              /\ a[m].item = t[m].item
              /\ a[m].flags = t[m].flags
              /\ a[m].size = t[m].size
              /\ a[m].parent = t[m].parent
         /\ Children(a, n) = {}
         /\ Children(a, p) = Children(t, p) \cup {n}
         /\ \A m \in 0 .. n - 1 : m # p => Children(a, m) = Children(t, m)
<1>. DEFINE a == Appended(t, p, i, SizeOf(i), FlagsOf(i))
<1>1. i \in Items
  BY DiskAssumption
<1>2. IsVector(t, n) /\ DOMAIN t = 0 .. n - 1
  BY DEF IsScanTree, IsVector
<1>3. FlagsOf(i) \in SUBSET Flags /\ SizeOf(i) \in 0 .. MaxBytes
  BY <1>1, EntryFacts
<1>4. /\ IsVector(a, n + 1)
      /\ a[n] = [parent |-> p, firstChild |-> invalid_node,
                 nextSibling |-> t[p].firstChild,
                 item |-> i, size |-> SizeOf(i), flags |-> FlagsOf(i)]
      /\ a[p].firstChild = n
      /\ \A m \in 0 .. n - 1 :
           /\ m # p => a[m] = t[m]
           /\ a[m].parent = t[m].parent
           /\ a[m].nextSibling = t[m].nextSibling
           /\ a[m].item = t[m].item
           /\ a[m].size = t[m].size
           /\ a[m].flags = t[m].flags
  BY <1>1, <1>2, <1>3, AppendedFacts
<1>. HIDE DEF a
<1>5. DOMAIN a = 0 .. n /\ n \in 0 .. n /\ \A m \in 0 .. n : m = n \/ m \in 0 .. n - 1
  BY <1>4 DEF IsVector
<1>6. /\ a[n].parent = p /\ a[n].firstChild = -1 /\ a[n].nextSibling = t[p].firstChild
      /\ a[n].item = i /\ a[n].size = SizeOf(i) /\ a[n].flags = FlagsOf(i)
  BY <1>4 DEF invalid_node
<1>7. \A m \in 0 .. n - 1 : t[m].parent \in DOMAIN t \cup {invalid_node}
  <2>1. ASSUME NEW m \in 0 .. n - 1 PROVE t[m].parent \in DOMAIN t \cup {invalid_node}
    BY <1>2 DEF IsScanTree, IsOfDisk
  <2>. QED
    BY <2>1
<1>8. \A m \in 0 .. n - 1 : t[m].parent # n
  BY <1>2, <1>7 DEF invalid_node
<1>9. p # n /\ p \in 0 .. n
  OBVIOUS
<1>10. Children(a, n) = {}
  <2>1. ASSUME NEW c \in 0 .. n PROVE a[c].parent # n
    BY <1>4, <1>5, <1>6, <1>8, <1>9
  <2>. QED
    BY <1>5, <2>1 DEF Children
<1>11. Children(a, p) = Children(t, p) \cup {n}
  BY <1>2, <1>4, <1>5, <1>6 DEF Children
<1>12. \A m \in 0 .. n - 1 : m # p => Children(a, m) = Children(t, m)
  BY <1>2, <1>4, <1>5, <1>6 DEF Children
<1>13. Directories(a) = Directories(t) \cup (IF i \in Folders THEN {n} ELSE {})
  <2>1. "Directory" \in a[n].flags <=> i \in Folders
    BY <1>1, <1>6, EntryFacts
  <2>. QED
    BY <1>2, <1>4, <1>5, <2>1 DEF Directories
<1>14. IsOfDisk(a)
  <2>. SUFFICES ASSUME NEW m \in 0 .. n
                PROVE  /\ m \in Directories(a) <=> a[m].item \in Folders
                       /\ "ReparsePoint" \in a[m].flags <=> a[m].item \in Links
                       /\ m \notin Directories(a) => a[m].size = FileSize[a[m].item]
                       /\ m = Root => a[m].parent = invalid_node /\ a[m].item = Scanned
                       /\ m # Root => /\ a[m].parent \in DOMAIN a
                                      /\ a[m].parent < m
                                      /\ a[a[m].parent].item \in Folders \ Links
                                      /\ a[m].item \in Contents[a[a[m].parent].item]
    BY <1>5 DEF IsOfDisk
  <2>1. CASE m = n
    <3>1. n \notin Directories(t) /\ n # Root /\ p < n
      BY <1>2 DEF Directories, Root
    <3>2. n \in Directories(a) <=> i \in Folders
      BY <1>13, <3>1
    <3>3. "ReparsePoint" \in a[n].flags <=> i \in Links
      BY <1>1, <1>6, EntryFacts
    <3>4. i \notin Folders => a[n].size = FileSize[i]
      BY <1>6 DEF SizeOf
    <3>5. a[p].item = t[p].item
      BY <1>4
    <3>. QED
      BY <1>5, <1>6, <1>9, <2>1, <3>1, <3>2, <3>3, <3>4, <3>5
  <2>2. CASE m \in 0 .. n - 1
    <3>1. m \in Directories(a) <=> m \in Directories(t)
      BY <1>13, <2>2
    <3>2. /\ a[m].parent = t[m].parent
          /\ a[m].item = t[m].item
          /\ a[m].size = t[m].size
          /\ a[m].flags = t[m].flags
      BY <1>4, <2>2
    <3>3. /\ m \in Directories(t) <=> t[m].item \in Folders
          /\ "ReparsePoint" \in t[m].flags <=> t[m].item \in Links
          /\ m \notin Directories(t) => t[m].size = FileSize[t[m].item]
          /\ m = Root => t[m].parent = invalid_node /\ t[m].item = Scanned
          /\ m # Root => /\ t[m].parent \in DOMAIN t
                         /\ t[m].parent < m
                         /\ t[t[m].parent].item \in Folders \ Links
                         /\ t[m].item \in Contents[t[t[m].parent].item]
      BY <1>2, <2>2 DEF IsScanTree, IsOfDisk
    <3>4. m # Root => t[m].parent \in 0 .. n - 1 /\ t[m].parent \in DOMAIN a
                      /\ a[t[m].parent].item = t[t[m].parent].item
      BY <1>2, <1>4, <1>5, <3>3
    <3>. QED
      BY <3>1, <3>2, <3>3, <3>4
  <2>. QED
    BY <1>5, <2>1, <2>2
<1>15. IsLinked(a)
  <2>1. /\ t[p].firstChild \in Children(t, p) \cup {invalid_node}
        /\ \A c \in Children(t, p) : c <= t[p].firstChild
        /\ Children(t, p) \subseteq 0 .. n - 1
    BY <1>2 DEF IsScanTree, IsLinked, Children
  <2>. SUFFICES ASSUME NEW k \in 0 .. n
                PROVE  /\ a[k].firstChild \in Children(a, k) \cup {invalid_node}
                       /\ \A c \in Children(a, k) : c <= a[k].firstChild
                       /\ a[k].nextSibling \in DOMAIN a \cup {invalid_node}
                       /\ a[k].nextSibling < k
                       /\ a[k].nextSibling # invalid_node =>
                            a[a[k].nextSibling].parent = a[k].parent
                       /\ \A m \in DOMAIN a :
                            m < k /\ a[m].parent = a[k].parent => m <= a[k].nextSibling
    BY <1>5 DEF IsLinked
  <2>2. CASE k = n
    <3>1. /\ a[n].firstChild = invalid_node
          /\ a[n].nextSibling \in DOMAIN a \cup {invalid_node}
          /\ a[n].nextSibling < n
      BY <1>5, <1>6, <2>1 DEF invalid_node
    <3>3. a[n].nextSibling # invalid_node => a[a[n].nextSibling].parent = a[n].parent
      BY <1>4, <1>6, <2>1 DEF Children
    <3>2. ASSUME NEW m \in 0 .. n, m < n, a[m].parent = p PROVE m <= t[p].firstChild
      <4>1. m \in Children(t, p)
        BY <1>2, <1>4, <3>2 DEF Children
      <4>. QED
        BY <2>1, <4>1
    <3>. QED
      BY <1>5, <1>6, <1>10, <2>2, <3>1, <3>2, <3>3
  <2>3. CASE k \in 0 .. n - 1
    <3>1. /\ t[k].firstChild \in Children(t, k) \cup {invalid_node}
          /\ \A c \in Children(t, k) : c <= t[k].firstChild
          /\ t[k].nextSibling \in DOMAIN t \cup {invalid_node}
          /\ t[k].nextSibling < k
          /\ t[k].nextSibling # invalid_node => t[t[k].nextSibling].parent = t[k].parent
          /\ \A m \in DOMAIN t :
               m < k /\ t[m].parent = t[k].parent => m <= t[k].nextSibling
      BY <1>2, <2>3 DEF IsScanTree, IsLinked
    <3>2. /\ a[k].nextSibling \in DOMAIN a \cup {invalid_node}
          /\ a[k].nextSibling < k
      BY <1>2, <1>4, <1>5, <2>3, <3>1
    <3>3. ASSUME NEW m \in 0 .. n, m < k, a[m].parent = a[k].parent
          PROVE  m <= a[k].nextSibling
      BY <1>2, <1>4, <2>3, <3>1, <3>3
    <3>4. a[k].nextSibling # invalid_node => a[a[k].nextSibling].parent = a[k].parent
      BY <1>2, <1>4, <2>3, <3>1
    <3>5. CASE k = p
      <4>1. \A c \in Children(a, p) : c <= n
        BY <1>11, <2>1
      <4>. QED
        BY <1>4, <1>5, <1>11, <3>2, <3>3, <3>5, <3>4, <4>1
    <3>6. CASE k # p
      BY <1>4, <1>5, <1>12, <2>3, <3>1, <3>2, <3>3, <3>6, <3>4
    <3>. QED
      BY <3>5, <3>6
  <2>. QED
    BY <1>5, <2>2, <2>3
<1>16. HasEntriesOnce(a)
  <2>1. \A m \in DOMAIN t : t[m].item # i
    BY NotFoundYet
  <2>2. \A m \in 0 .. n - 1 : a[m].item # a[n].item
    BY <1>2, <1>4, <1>6, <2>1
  <2>3. \A k, m \in 0 .. n - 1 : a[k].item = a[m].item => k = m
    BY <1>2, <1>4 DEF IsScanTree, HasEntriesOnce
  <2>. QED
    BY <1>5, <2>2, <2>3 DEF HasEntriesOnce
<1>. QED
  BY <1>4, <1>6, <1>10, <1>11, <1>12, <1>14, <1>15, <1>16 DEF IsScanTree, a

-----------------------------------------------------------------------------
(***************************************************************************)
(* The inductive invariant.                                                *)
(***************************************************************************)

\* The folders to open are new to the walk: their nodes are different, have
\* no children yet and are not the one that is enumerated.  What is left of
\* that one is not in the tree yet.
IsWork(t, p, d, l) ==
  /\ p \in Seq([node : DOMAIN t, item : Folders])
  /\ \A k \in 1 .. Len(p) :
       /\ p[k].item = t[p[k].node].item
       /\ p[k].item \notin Links
       /\ Children(t, p[k].node) = {}
       /\ p[k].node # d
  /\ \A k, m \in 1 .. Len(p) : p[k].node = p[m].node => k = m
  /\ d \in {invalid_node} \cup DOMAIN t
  /\ d = invalid_node => l = {}
  /\ d # invalid_node => /\ t[d].item \in Folders \ Links
                         /\ l \subseteq Contents[t[d].item]
                         /\ l \cap Found(t, d) = {}

\* A folder without a mark is complete, or is enumerated and what it lacks is
\* left, or waits to be opened.
IsMarked(t, p, d, l) ==
  \A n \in Directories(t) :
    t[n].flags \cap {"ReparsePoint", "Incomplete"} = {} =>
      \/ \E k \in 1 .. Len(p) : p[k].node = n
      \/ n = d /\ Found(t, n) \cup l = Contents[t[n].item]
      \/ n # d /\ Found(t, n) = Contents[t[n].item]

\* The counts are those of the nodes of the tree.
IsCounted(t, q) ==
  /\ q \in [entries : Nat, files : Nat, directories : Nat,
            logicalBytes : 0 .. MaxBytes, errors : Nat]
  /\ q.files + q.directories = q.entries
  /\ q.entries = IF DOMAIN t = {} THEN 0 ELSE Cardinality(DOMAIN t) - 1

ErrorsShown(t, q) ==
  q.errors = 0 <=> \A n \in DOMAIN t : "Incomplete" \notin t[n].flags

Completions == {"None", "Completed", "Cancelled", "RootUnavailable"}

IInv ==
  /\ stop \in BOOLEAN
  /\ completion \in Completions
  /\ published \in Counts
  /\ Cardinality(DOMAIN tree) \in 0 .. MaxNodes
  /\ IsScanTree(tree, Cardinality(DOMAIN tree))
  /\ IsWork(tree, pending, folder, left)
  /\ IsMarked(tree, pending, folder, left)
  /\ IsCounted(tree, progress)
  /\ completion # "RootUnavailable" => ErrorsShown(tree, progress)
  /\ completion = "Completed" => folder = invalid_node /\ pending = <<>>

\* The invariant after a step, for the values the step leads to.
LEMMA IInvPrime ==
  ASSUME stop' \in BOOLEAN,
         completion' \in Completions,
         published' \in Counts,
         Cardinality(DOMAIN tree') \in 0 .. MaxNodes,
         IsScanTree(tree', Cardinality(DOMAIN tree')),
         IsWork(tree', pending', folder', left'),
         IsMarked(tree', pending', folder', left'),
         IsCounted(tree', progress'),
         completion' # "RootUnavailable" => ErrorsShown(tree', progress'),
         completion' = "Completed" => folder' = invalid_node /\ pending' = <<>>
  PROVE  IInv'
<1>1. IsScanTree(tree, Cardinality(DOMAIN tree))'
  BY DEF IsScanTree, IsVector, IsOfDisk, IsLinked, HasEntriesOnce, Children, Directories
<1>2. IsWork(tree, pending, folder, left)'
  BY DEF IsWork, Children, Found
<1>3. IsMarked(tree, pending, folder, left)'
  BY DEF IsMarked, Found, Children, Directories
<1>4. IsCounted(tree, progress)' /\ (completion' # "RootUnavailable" => ErrorsShown(tree, progress)')
  BY DEF IsCounted, ErrorsShown
<1>. QED
  BY <1>1, <1>2, <1>3, <1>4 DEF IInv

\* Sums of bytes stay within the counter.
LEMMA AddedBytesType ==
  ASSUME NEW a \in 0 .. MaxBytes, NEW b \in 0 .. MaxBytes
  PROVE  AddedBytes(a, b) \in 0 .. MaxBytes
<1>1. MaxBytes + 1 \in Nat \ {0} /\ a + b \in Nat
  BY LimitsAssumption
<1>2. (a + b) % (MaxBytes + 1) \in 0 .. (MaxBytes + 1) - 1
  BY <1>1
<1>. QED
  BY <1>2, LimitsAssumption DEF AddedBytes

\* What a state of the walk looks like.
LEMMA StateFacts ==
  ASSUME IInv
  PROVE  \E n \in 0 .. MaxNodes :
           /\ n \in Nat
           /\ n = Cardinality(DOMAIN tree)
           /\ IsScanTree(tree, n)
           /\ DOMAIN tree = 0 .. n - 1
           /\ tree = EmptyTree <=> n = 0
<1>1. PICK n \in 0 .. MaxNodes : n = Cardinality(DOMAIN tree) /\ IsScanTree(tree, n)
  BY DEF IInv
<1>2. n \in Nat
  BY LimitsAssumption
<1>3. DOMAIN tree = 0 .. n - 1 /\ tree \in [0 .. n - 1 -> NodeRecords]
  BY <1>1 DEF IsScanTree, IsVector
<1>4. n = 0 => tree = EmptyTree
  <2>1. n = 0 => DOMAIN tree = {}
    BY <1>2, <1>3
  <2>. QED
    BY <1>3, <2>1 DEF EmptyTree
<1>5. tree = EmptyTree => n = 0
  <2>1. DOMAIN EmptyTree = {}
    BY DEF EmptyTree
  <2>. QED
    BY <1>1, <2>1, FS_EmptySet
<1>. QED
  BY <1>1, <1>2, <1>3, <1>4, <1>5

\* The counts keep to the limit of the tree.
LEMMA CountsAreTyped ==
  ASSUME NEW t, NEW n \in 0 .. MaxNodes, n = Cardinality(DOMAIN t), DOMAIN t = 0 .. n - 1,
         NEW q, IsCounted(t, q)
  PROVE  q \in Counts
<1>1. n \in Nat /\ MaxNodes \in Nat
  BY LimitsAssumption
<1>2. /\ q \in [entries : Nat, files : Nat, directories : Nat,
                logicalBytes : 0 .. MaxBytes, errors : Nat]
      /\ q.files + q.directories = q.entries
      /\ q.entries = IF DOMAIN t = {} THEN 0 ELSE n - 1
  BY DEF IsCounted
<1>3. q.entries \in 0 .. MaxNodes
  BY <1>1, <1>2
<1>4. q.files \in 0 .. MaxNodes /\ q.directories \in 0 .. MaxNodes
  BY <1>1, <1>2, <1>3
<1>. QED
  BY <1>2, <1>3, <1>4 DEF Counts

\* The invariant holds before the walk starts.
LEMMA InitIInv == Init => IInv
<1>. SUFFICES ASSUME Init PROVE IInv
  OBVIOUS
<1>1. DOMAIN tree = {} /\ Cardinality(DOMAIN tree) = 0
  BY FS_EmptySet DEF Init, EmptyTree
<1>2. IsScanTree(tree, 0)
  <2>1. IsVector(tree, 0)
    <3>1. 0 .. 0 - 1 = {}
      OBVIOUS
    <3>. QED
      BY <3>1 DEF IsVector, Init, EmptyTree
  <2>. QED
    BY <1>1, <2>1 DEF IsScanTree, IsOfDisk, IsLinked, HasEntriesOnce
<1>3. IsWork(tree, pending, folder, left)
  <2>1. pending = <<>> /\ Len(pending) = 0 /\ folder = invalid_node /\ left = {}
    BY DEF Init
  <2>. QED
    BY <2>1 DEF IsWork
<1>4. IsMarked(tree, pending, folder, left)
  BY <1>1 DEF IsMarked, Directories
<1>5. IsCounted(tree, progress) /\ ErrorsShown(tree, progress)
  BY <1>1, LimitsAssumption DEF Init, IsCounted, ErrorsShown, NoProgress
<1>6. published \in Counts
  BY LimitsAssumption DEF Init, NoProgress, Counts
<1>7. stop \in BOOLEAN /\ completion = "None"
  BY DEF Init
<1>8. 0 \in 0 .. MaxNodes
  BY LimitsAssumption
<1>. QED
  BY <1>1, <1>2, <1>3, <1>4, <1>5, <1>6, <1>7, <1>8 DEF IInv, Completions

-----------------------------------------------------------------------------
(***************************************************************************)
(* The steps.                                                              *)
(***************************************************************************)

\* Steps that leave the tree and the work as they are.
LEMMA QuietKeepsIInv ==
  ASSUME IInv, UNCHANGED <<tree, pending, folder, left, progress>>,
         stop' \in BOOLEAN, published' \in {published, progress},
         completion' = completion \/ (completion = "None" /\ completion' = "Cancelled")
  PROVE  IInv'
<1>1. PICK n \in 0 .. MaxNodes : /\ n \in Nat
                                 /\ n = Cardinality(DOMAIN tree)
                                 /\ DOMAIN tree = 0 .. n - 1
  BY StateFacts
<1>2. progress \in Counts
  BY <1>1, CountsAreTyped DEF IInv
<1>3. completion \in Completions /\ completion' \in Completions
  BY DEF IInv, Completions
<1>4. completion' # "RootUnavailable" => ErrorsShown(tree', progress')
  BY DEF IInv
<1>. QED
  BY <1>2, <1>3, <1>4, IInvPrime DEF IInv

\* The walk begins with the scanned folder, which is the first to be opened.
LEMMA AddRootKeepsIInv ==
  ASSUME IInv, AddRoot
  PROVE  IInv'
<1>1. /\ tree = EmptyTree /\ completion = "None"
      /\ tree' = Appended(EmptyTree, invalid_node, Scanned, 0, {"Directory"})
      /\ pending' = <<[node |-> Root, item |-> Scanned]>>
      /\ UNCHANGED <<stop, folder, left, progress, published, totals, completion>>
  BY DEF AddRoot, AtStart
<1>2. /\ IsScanTree(tree', 1)
      /\ Directories(tree') = {Root}
      /\ tree'[Root].item = Scanned
      /\ tree'[Root].flags = {"Directory"}
      /\ Children(tree', Root) = {}
  BY <1>1, RootTree
<1>3. DOMAIN tree' = {Root} /\ Cardinality(DOMAIN tree') = 1
  <2>1. DOMAIN tree' = 0 .. 1 - 1
    BY <1>2 DEF IsScanTree, IsVector
  <2>2. 0 .. 1 - 1 = {0}
    OBVIOUS
  <2>. QED
    BY <2>1, <2>2, SizeOfVector DEF Root
<1>4. 1 \in 0 .. MaxNodes
  BY LimitsAssumption
<1>5. DOMAIN tree = {} /\ Cardinality(DOMAIN tree) = 0 /\ folder = invalid_node /\ left = {}
  <2>1. DOMAIN tree = {}
    BY <1>1 DEF EmptyTree
  <2>. QED
    BY <2>1, FS_EmptySet DEF IInv, IsWork
<1>6. IsWork(tree', pending', folder', left')
  <2>1. [node |-> Root, item |-> Scanned] \in [node : DOMAIN tree', item : Folders]
    BY <1>3, DiskAssumption
  <2>2. /\ pending' \in Seq([node : DOMAIN tree', item : Folders])
        /\ Len(pending') = 1
        /\ pending'[1] = [node |-> Root, item |-> Scanned]
    BY <1>1, <2>1
  <2>3. \A k \in 1 .. Len(pending') : k = 1
    BY <2>2
  <2>4. Root # invalid_node /\ folder' = invalid_node /\ left' = {}
    BY <1>1, <1>5 DEF Root, invalid_node
  <2>5. pending'[1].node = Root /\ pending'[1].item = Scanned
    BY <2>2
  <2>. QED
    BY <1>2, <2>2, <2>3, <2>4, <2>5, DiskAssumption DEF IsWork
<1>7. IsMarked(tree', pending', folder', left')
  <2>1. pending'[1].node = Root /\ 1 \in 1 .. Len(pending')
    BY <1>1
  <2>. QED
    BY <1>2, <2>1 DEF IsMarked
<1>8. IsCounted(tree', progress') /\ ErrorsShown(tree', progress')
  BY <1>1, <1>2, <1>3, <1>5 DEF IInv, IsCounted, ErrorsShown
<1>. QED
  BY <1>1, <1>2, <1>3, <1>4, <1>6, <1>7, <1>8, IInvPrime DEF IInv

\* A scanned folder that cannot be opened ends the walk before there is a tree.
LEMMA RootUnavailableKeepsIInv ==
  ASSUME IInv, RootUnavailable
  PROVE  IInv'
<1>1. /\ completion' = "RootUnavailable"
      /\ progress' = [progress EXCEPT !.errors = 1]
      /\ published' = progress'
      /\ UNCHANGED <<stop, tree, pending, folder, left, totals>>
  BY DEF RootUnavailable, LastPublished
<1>2. IsCounted(tree', progress')
  BY <1>1 DEF IInv, IsCounted
<1>3. PICK n \in 0 .. MaxNodes : /\ n \in Nat
                                 /\ n = Cardinality(DOMAIN tree)
                                 /\ DOMAIN tree = 0 .. n - 1
  BY StateFacts
<1>4. published' \in Counts
  BY <1>1, <1>2, <1>3, CountsAreTyped
<1>. QED
  BY <1>1, <1>2, <1>4, IInvPrime DEF IInv, Completions

\* The last of the folders to open is taken from the stack.
LEMMA PoppedFacts ==
  ASSUME NEW S, pending \in Seq(S), pending # <<>>
  PROVE  /\ Popped \in Seq(S)
         /\ Len(pending) \in 1 .. Len(pending)
         /\ Len(pending) \in Nat
         /\ Len(Popped) = Len(pending) - 1
         /\ \A k \in 1 .. Len(Popped) : Popped[k] = pending[k] /\ k \in 1 .. Len(pending)
                                        /\ k # Len(pending)
<1>1. Len(pending) \in Nat \ {0}
  BY EmptySeq
<1>. DEFINE e == Len(pending) - 1
<1>2. e \in Nat /\ \A k \in 1 .. e : k \in 1 .. Len(pending)
  BY <1>1
<1>. HIDE DEF e
<1>3. \A k \in 1 .. e : pending[k] \in S
  BY <1>2, ElementOfSeq
<1>4. /\ Popped \in Seq(S)
      /\ Len(Popped) = IF 1 <= e THEN e - 1 + 1 ELSE 0
      /\ \A k \in 1 .. e - 1 + 1 : Popped[k] = pending[1 + k - 1]
  <2>1. Popped = SubSeq(pending, 1, e)
    BY DEF Popped, e
  <2>. QED
    BY <1>2, <1>3, <2>1, SubSeqProperties
<1>5. Len(Popped) = e
  BY <1>2, <1>4
<1>6. \A k \in 1 .. e : Popped[k] = pending[k]
  <2>1. ASSUME NEW k \in 1 .. e PROVE Popped[k] = pending[k]
    <3>1. k \in 1 .. e - 1 + 1 /\ 1 + k - 1 = k
      BY <1>2
    <3>. QED
      BY <1>4, <3>1
  <2>. QED
    BY <2>1
<1>7. \A k \in 1 .. e : k \in 1 .. Len(pending) /\ k # Len(pending)
  BY <1>1 DEF e
<1>. QED
  BY <1>1, <1>4, <1>5, <1>6, <1>7 DEF e

\* The folders to open are nodes of the tree.
LEMMA PendingFacts ==
  ASSUME IInv, NEW k \in 1 .. Len(pending)
  PROVE  /\ pending[k].node \in DOMAIN tree
         /\ pending[k].item = tree[pending[k].node].item
         /\ pending[k].item \in Folders \ Links
         /\ Children(tree, pending[k].node) = {}
         /\ Found(tree, pending[k].node) = {}
         /\ pending[k].node # folder
         /\ \A m \in 1 .. Len(pending) : pending[m].node = pending[k].node => m = k
<1>1. pending \in Seq([node : DOMAIN tree, item : Folders])
  BY DEF IInv, IsWork
<1>2. pending[k] \in [node : DOMAIN tree, item : Folders]
  BY <1>1, ElementOfSeq
<1>3. Children(tree, pending[k].node) = {} /\ pending[k].item \notin Links
  BY DEF IInv, IsWork
<1>4. Found(tree, pending[k].node) = {}
  BY <1>3 DEF Found
<1>. QED
  BY <1>2, <1>3, <1>4 DEF IInv, IsWork

\* What a mark and the error that goes with it leave as it is.
LEMMA MissedFacts ==
  ASSUME IInv, NEW w \in DOMAIN tree, NEW f \in SUBSET {"Inaccessible", "Incomplete"},
         "Incomplete" \in f,
         tree' = Flagged(tree, w, f),
         progress' = [progress EXCEPT !.errors = @ + 1]
  PROVE  /\ DOMAIN tree' = DOMAIN tree
         /\ Cardinality(DOMAIN tree') \in 0 .. MaxNodes
         /\ IsScanTree(tree', Cardinality(DOMAIN tree'))
         /\ Directories(tree') = Directories(tree)
         /\ \A m \in DOMAIN tree : /\ Children(tree', m) = Children(tree, m)
                                   /\ Found(tree', m) = Found(tree, m)
                                   /\ m # w => tree'[m] = tree[m]
                                   /\ tree'[m].item = tree[m].item
         /\ "Incomplete" \in tree'[w].flags
         /\ IsCounted(tree', progress')
         /\ ErrorsShown(tree', progress')
         /\ progress' \in Counts
<1>1. PICK n \in 0 .. MaxNodes : /\ n \in Nat
                                 /\ n = Cardinality(DOMAIN tree)
                                 /\ IsScanTree(tree, n)
                                 /\ DOMAIN tree = 0 .. n - 1
  BY StateFacts
<1>. DEFINE a == Flagged(tree, w, f)
<1>b. w \in 0 .. n - 1
  BY <1>1
<1>2. /\ IsScanTree(a, n)
      /\ Directories(a) = Directories(tree)
      /\ \A m \in 0 .. n - 1 : /\ Children(a, m) = Children(tree, m)
                               /\ Found(a, m) = Found(tree, m)
  BY <1>1, <1>b, FlaggedKeepsTree
<1>3. /\ a[w].flags = tree[w].flags \cup f
      /\ \A m \in 0 .. n - 1 : /\ m # w => a[m] = tree[m]
                               /\ a[m].item = tree[m].item
  <2>1. f \in SUBSET Flags
    BY DEF Flags
  <2>2. IsVector(tree, n)
    BY <1>1 DEF IsScanTree
  <2>. QED
    BY <1>1, <1>b, <2>1, <2>2, FlaggedFacts
<1>. HIDE DEF a
<1>c. tree' = a
  BY DEF a
<1>4. DOMAIN tree' = DOMAIN tree /\ Cardinality(DOMAIN tree') = n
  BY <1>1, <1>2, <1>c DEF IsScanTree, IsVector
<1>5. /\ progress \in [entries : Nat, files : Nat, directories : Nat,
                       logicalBytes : 0 .. MaxBytes, errors : Nat]
      /\ progress.files + progress.directories = progress.entries
      /\ progress.entries = IF DOMAIN tree = {} THEN 0 ELSE Cardinality(DOMAIN tree) - 1
  BY DEF IInv, IsCounted
<1>6. /\ progress' \in [entries : Nat, files : Nat, directories : Nat,
                        logicalBytes : 0 .. MaxBytes, errors : Nat]
      /\ progress'.files = progress.files
      /\ progress'.directories = progress.directories
      /\ progress'.entries = progress.entries
      /\ progress'.errors = progress.errors + 1
  BY <1>5
<1>7. IsCounted(tree', progress')
  BY <1>4, <1>1, <1>5, <1>6 DEF IsCounted
<1>8. progress'.errors # 0
  BY <1>5, <1>6
<1>9. "Incomplete" \in tree'[w].flags
  BY <1>3, <1>c
<1>10. ErrorsShown(tree', progress')
  BY <1>4, <1>8, <1>9 DEF ErrorsShown
<1>11. progress' \in Counts
  BY <1>1, <1>4, <1>7, CountsAreTyped
<1>. QED
  BY <1>1, <1>2, <1>3, <1>4, <1>7, <1>9, <1>10, <1>11, <1>c

\* A folder that does not open is marked, and is an error.
LEMMA OpenFailsKeepsIInv ==
  ASSUME IInv, OpenFails
  PROVE  IInv'
<1>. DEFINE w == Work.node
            e == Len(pending)
<1>1. /\ completion = "None" /\ folder = invalid_node /\ pending # <<>>
      /\ pending' = Popped
      /\ tree' = Flagged(tree, w, {"Inaccessible", "Incomplete"})
      /\ progress' = [progress EXCEPT !.errors = @ + 1]
      /\ published' \in {published, progress'}
      /\ UNCHANGED <<stop, folder, left, totals, completion>>
  BY DEF OpenFails, Opening, Counted, Published
<1>2. pending \in Seq([node : DOMAIN tree, item : Folders])
  BY DEF IInv, IsWork
<1>3. /\ Popped \in Seq([node : DOMAIN tree, item : Folders])
      /\ e \in 1 .. e
      /\ \A k \in 1 .. e : k = e \/ k \in 1 .. Len(Popped)
      /\ \A k \in 1 .. Len(Popped) : Popped[k] = pending[k] /\ k \in 1 .. e /\ k # e
  <2>1. /\ Popped \in Seq([node : DOMAIN tree, item : Folders])
        /\ e \in 1 .. e
        /\ e \in Nat
        /\ Len(Popped) = e - 1
        /\ \A k \in 1 .. Len(Popped) : Popped[k] = pending[k] /\ k \in 1 .. e /\ k # e
    BY <1>1, <1>2, PoppedFacts
  <2>. QED
    BY <2>1, SMTT(30)
<1>4. w \in DOMAIN tree /\ w = pending[e].node
  BY <1>3, PendingFacts DEF Work
<1>. HIDE DEF w, e
<1>5. /\ DOMAIN tree' = DOMAIN tree
      /\ Cardinality(DOMAIN tree') \in 0 .. MaxNodes
      /\ IsScanTree(tree', Cardinality(DOMAIN tree'))
      /\ Directories(tree') = Directories(tree)
      /\ \A m \in DOMAIN tree : /\ Children(tree', m) = Children(tree, m)
                                /\ Found(tree', m) = Found(tree, m)
                                /\ m # w => tree'[m] = tree[m]
                                /\ tree'[m].item = tree[m].item
      /\ "Incomplete" \in tree'[w].flags
      /\ IsCounted(tree', progress')
      /\ ErrorsShown(tree', progress')
      /\ progress' \in Counts
  BY <1>1, <1>4, MissedFacts
<1>6. folder' = invalid_node /\ left' = {} /\ pending' = Popped
  BY <1>1 DEF IInv, IsWork
<1>7. IsWork(tree', pending', folder', left')
  <2>1. ASSUME NEW k \in 1 .. Len(Popped)
        PROVE  /\ Popped[k].item = tree'[Popped[k].node].item
               /\ Popped[k].item \notin Links
               /\ Children(tree', Popped[k].node) = {}
               /\ Popped[k].node # invalid_node
    <3>1. Popped[k] = pending[k] /\ k \in 1 .. Len(pending)
      BY <1>3 DEF e
    <3>2. /\ pending[k].node \in DOMAIN tree
          /\ pending[k].item = tree[pending[k].node].item
          /\ pending[k].item \in Folders \ Links
          /\ Children(tree, pending[k].node) = {}
          /\ pending[k].node # folder
      BY <3>1, PendingFacts
    <3>. QED
      BY <1>1, <1>5, <3>1, <3>2
  <2>2. ASSUME NEW k \in 1 .. Len(Popped), NEW m \in 1 .. Len(Popped),
               Popped[k].node = Popped[m].node
        PROVE  k = m
    <3>1. Popped[k] = pending[k] /\ k \in 1 .. Len(pending)
      BY <1>3 DEF e
    <3>2. Popped[m] = pending[m] /\ m \in 1 .. Len(pending)
      BY <1>3 DEF e
    <3>. QED
      BY <2>2, <3>1, <3>2, PendingFacts
  <2>. QED
    BY <1>3, <1>5, <1>6, <2>1, <2>2 DEF IsWork
<1>8. IsMarked(tree', pending', folder', left')
  <2>. SUFFICES ASSUME NEW m \in Directories(tree),
                       tree'[m].flags \cap {"ReparsePoint", "Incomplete"} = {}
                PROVE  \/ \E k \in 1 .. Len(Popped) : Popped[k].node = m
                       \/ m # folder /\ Found(tree', m) = Contents[tree'[m].item]
    BY <1>1, <1>5 DEF IsMarked
  <2>1. m # w /\ m \in DOMAIN tree /\ m # folder
    BY <1>1, <1>5 DEF Directories, invalid_node, IInv, IsScanTree, IsVector
  <2>2. tree'[m] = tree[m] /\ Found(tree', m) = Found(tree, m)
    BY <1>5, <2>1
  <2>3. \/ \E k \in 1 .. Len(pending) : pending[k].node = m
        \/ Found(tree, m) = Contents[tree[m].item]
    BY <2>1, <2>2 DEF IInv, IsMarked
  <2>4. ASSUME NEW k \in 1 .. Len(pending), pending[k].node = m
        PROVE  \E j \in 1 .. Len(Popped) : Popped[j].node = m
    <3>1. k # e
      BY <1>4, <2>1, <2>4
    <3>. QED
      BY <1>3, <2>4, <3>1 DEF e
  <2>. QED
    BY <2>1, <2>2, <2>3, <2>4
<1>9. published' \in Counts
  BY <1>1, <1>5 DEF IInv
<1>10. stop' \in BOOLEAN /\ completion' \in Completions /\ completion' = "None"
  BY <1>1 DEF IInv
<1>. QED
  BY <1>5, <1>7, <1>8, <1>9, <1>10, IInvPrime

\* The last of the folders to open is enumerated next.
LEMMA OpenFolderKeepsIInv ==
  ASSUME IInv, OpenFolder
  PROVE  IInv'
<1>. DEFINE w == Work.node
            e == Len(pending)
<1>1. /\ completion = "None" /\ folder = invalid_node /\ pending # <<>>
      /\ pending' = Popped
      /\ folder' = w
      /\ left' = Contents[Work.item]
      /\ UNCHANGED <<stop, tree, progress, published, totals, completion>>
  BY DEF OpenFolder, Opening
<1>2. pending \in Seq([node : DOMAIN tree, item : Folders])
  BY DEF IInv, IsWork
<1>3. /\ Popped \in Seq([node : DOMAIN tree, item : Folders])
      /\ e \in 1 .. e
      /\ \A k \in 1 .. e : k = e \/ k \in 1 .. Len(Popped)
      /\ \A k \in 1 .. Len(Popped) : Popped[k] = pending[k] /\ k \in 1 .. e /\ k # e
  <2>1. /\ Popped \in Seq([node : DOMAIN tree, item : Folders])
        /\ e \in 1 .. e
        /\ e \in Nat
        /\ Len(Popped) = e - 1
        /\ \A k \in 1 .. Len(Popped) : Popped[k] = pending[k] /\ k \in 1 .. e /\ k # e
    BY <1>1, <1>2, PoppedFacts
  <2>. QED
    BY <2>1
<1>4. /\ w \in DOMAIN tree /\ w = pending[e].node
      /\ Work.item = tree[w].item
      /\ tree[w].item \in Folders \ Links
      /\ Found(tree, w) = {}
  BY <1>3, PendingFacts DEF Work
<1>5. w # invalid_node
  BY <1>4 DEF IInv, IsScanTree, IsVector, invalid_node
<1>. HIDE DEF w, e
<1>6. IsWork(tree, Popped, w, Contents[tree[w].item])
  <2>1. ASSUME NEW k \in 1 .. Len(Popped)
        PROVE  /\ Popped[k].item = tree[Popped[k].node].item
               /\ Popped[k].item \notin Links
               /\ Children(tree, Popped[k].node) = {}
               /\ Popped[k].node # w
    <3>1. Popped[k] = pending[k] /\ k \in 1 .. Len(pending) /\ e \in 1 .. Len(pending) /\ k # e
      BY <1>3 DEF e
    <3>2. /\ pending[k].item = tree[pending[k].node].item
          /\ pending[k].item \in Folders \ Links
          /\ Children(tree, pending[k].node) = {}
          /\ \A m \in 1 .. Len(pending) : pending[m].node = pending[k].node => m = k
      BY <3>1, PendingFacts
    <3>. QED
      BY <1>4, <3>1, <3>2
  <2>2. ASSUME NEW k \in 1 .. Len(Popped), NEW m \in 1 .. Len(Popped),
               Popped[k].node = Popped[m].node
        PROVE  k = m
    <3>1. Popped[k] = pending[k] /\ k \in 1 .. Len(pending)
      BY <1>3 DEF e
    <3>2. Popped[m] = pending[m] /\ m \in 1 .. Len(pending)
      BY <1>3 DEF e
    <3>. QED
      BY <2>2, <3>1, <3>2, PendingFacts
  <2>. QED
    BY <1>3, <1>4, <1>5, <2>1, <2>2 DEF IsWork
<1>7. IsMarked(tree, Popped, w, Contents[tree[w].item])
  <2>. SUFFICES ASSUME NEW m \in Directories(tree), m # w,
                       tree[m].flags \cap {"ReparsePoint", "Incomplete"} = {}
                PROVE  \/ \E k \in 1 .. Len(Popped) : Popped[k].node = m
                       \/ Found(tree, m) = Contents[tree[m].item]
    BY <1>4 DEF IsMarked
  <2>1. m # folder
    BY <1>1 DEF Directories, invalid_node, IInv, IsScanTree, IsVector
  <2>2. \/ \E k \in 1 .. Len(pending) : pending[k].node = m
        \/ Found(tree, m) = Contents[tree[m].item]
    BY <2>1 DEF IInv, IsMarked
  <2>3. ASSUME NEW k \in 1 .. Len(pending), pending[k].node = m
        PROVE  \E j \in 1 .. Len(Popped) : Popped[j].node = m
    <3>1. k # e
      BY <1>4, <2>3
    <3>. QED
      BY <1>3, <2>3, <3>1 DEF e
  <2>. QED
    BY <2>2, <2>3
<1>8. /\ pending' = Popped /\ folder' = w /\ left' = Contents[tree[w].item]
      /\ tree' = tree /\ progress' = progress
  BY <1>1, <1>4 DEF w
<1>9. IsWork(tree', pending', folder', left') /\ IsMarked(tree', pending', folder', left')
  BY <1>6, <1>7, <1>8
<1>. QED
  BY <1>1, <1>8, <1>9, IInvPrime DEF IInv

\* While a folder is enumerated, what it has left is not in the tree yet.
LEMMA EnumeratingFacts ==
  ASSUME IInv, folder # invalid_node
  PROVE  /\ folder \in DOMAIN tree
         /\ tree[folder].item \in Folders \ Links
         /\ left \subseteq Contents[tree[folder].item]
         /\ left \cap Found(tree, folder) = {}
  BY DEF IInv, IsWork

\* A folder of which entries are missed is marked, and is an error.
LEMMA MissedKeepsIInv ==
  ASSUME IInv, Enumerating, Missed,
         folder' \in {folder, invalid_node},
         left' \subseteq left,
         folder' = invalid_node => left' = {},
         UNCHANGED <<stop, pending, published, completion>>
  PROVE  IInv'
<1>1. /\ completion = "None" /\ folder # invalid_node
      /\ tree' = Flagged(tree, folder, {"Incomplete"})
      /\ progress' = [progress EXCEPT !.errors = @ + 1]
  BY DEF Enumerating, Missed, Counted
<1>2. /\ folder \in DOMAIN tree
      /\ tree[folder].item \in Folders \ Links
      /\ left \subseteq Contents[tree[folder].item]
      /\ left \cap Found(tree, folder) = {}
  BY <1>1, EnumeratingFacts
<1>3. /\ DOMAIN tree' = DOMAIN tree
      /\ Cardinality(DOMAIN tree') \in 0 .. MaxNodes
      /\ IsScanTree(tree', Cardinality(DOMAIN tree'))
      /\ Directories(tree') = Directories(tree)
      /\ \A m \in DOMAIN tree : /\ Children(tree', m) = Children(tree, m)
                                /\ Found(tree', m) = Found(tree, m)
                                /\ m # folder => tree'[m] = tree[m]
                                /\ tree'[m].item = tree[m].item
      /\ "Incomplete" \in tree'[folder].flags
      /\ IsCounted(tree', progress')
      /\ ErrorsShown(tree', progress')
      /\ progress' \in Counts
  BY <1>1, <1>2, MissedFacts
<1>4. IsWork(tree', pending', folder', left')
  <2>1. ASSUME NEW k \in 1 .. Len(pending)
        PROVE  /\ pending[k].item = tree'[pending[k].node].item
               /\ pending[k].item \notin Links
               /\ Children(tree', pending[k].node) = {}
               /\ pending[k].node # folder'
               /\ \A m \in 1 .. Len(pending) : pending[k].node = pending[m].node => k = m
    <3>1. /\ pending[k].node \in DOMAIN tree
          /\ pending[k].item = tree[pending[k].node].item
          /\ pending[k].item \in Folders \ Links
          /\ Children(tree, pending[k].node) = {}
          /\ pending[k].node # folder
          /\ \A m \in 1 .. Len(pending) : pending[m].node = pending[k].node => m = k
      BY PendingFacts
    <3>2. pending[k].node # invalid_node
      BY <3>1 DEF IInv, IsScanTree, IsVector, invalid_node
    <3>. QED
      BY <1>3, <3>1, <3>2
  <2>2. pending' = pending /\ pending \in Seq([node : DOMAIN tree, item : Folders])
    BY DEF IInv, IsWork
  <2>3. folder' # invalid_node => folder' = folder
    OBVIOUS
  <2>4. tree'[folder].item = tree[folder].item /\ Found(tree', folder) = Found(tree, folder)
    BY <1>2, <1>3
  <2>. QED
    BY <1>2, <1>3, <2>1, <2>2, <2>3, <2>4 DEF IsWork
<1>5. IsMarked(tree', pending', folder', left')
  <2>. SUFFICES ASSUME NEW m \in Directories(tree),
                       tree'[m].flags \cap {"ReparsePoint", "Incomplete"} = {}
                PROVE  \/ \E k \in 1 .. Len(pending) : pending[k].node = m
                       \/ m # folder' /\ Found(tree', m) = Contents[tree'[m].item]
    BY <1>3 DEF IsMarked
  <2>1. m # folder /\ m \in DOMAIN tree /\ m # invalid_node
    BY <1>3 DEF Directories, invalid_node, IInv, IsScanTree, IsVector
  <2>2. tree'[m] = tree[m] /\ Found(tree', m) = Found(tree, m)
    BY <1>3, <2>1
  <2>. QED
    BY <2>1, <2>2 DEF IInv, IsMarked
<1>6. stop' \in BOOLEAN /\ completion' \in Completions /\ completion' = "None"
      /\ published' \in Counts
  BY <1>1 DEF IInv
<1>. QED
  BY <1>3, <1>4, <1>5, <1>6, IInvPrime

\* The folder whose enumeration ends has nothing left.
LEMMA EndFolderKeepsIInv ==
  ASSUME IInv, EndFolder
  PROVE  IInv'
<1>1. /\ completion = "None" /\ folder # invalid_node /\ left = {}
      /\ folder' = invalid_node
      /\ UNCHANGED <<stop, tree, pending, left, progress, published, totals, completion>>
  BY DEF EndFolder, Enumerating
<1>2. IsWork(tree, pending, invalid_node, {})
  <2>1. ASSUME NEW k \in 1 .. Len(pending)
        PROVE  pending[k].node # invalid_node
    <3>1. pending[k].node \in DOMAIN tree
      BY PendingFacts
    <3>. QED
      BY <3>1 DEF IInv, IsScanTree, IsVector, invalid_node
  <2>. QED
    BY <2>1 DEF IInv, IsWork
<1>3. IsMarked(tree, pending, invalid_node, {})
  <2>. SUFFICES ASSUME NEW m \in Directories(tree),
                       tree[m].flags \cap {"ReparsePoint", "Incomplete"} = {}
                PROVE  \/ \E k \in 1 .. Len(pending) : pending[k].node = m
                       \/ m # invalid_node /\ Found(tree, m) = Contents[tree[m].item]
    BY DEF IsMarked
  <2>1. m # invalid_node
    BY DEF Directories, invalid_node, IInv, IsScanTree, IsVector
  <2>. QED
    BY <1>1, <2>1 DEF IInv, IsMarked
<1>4. IsWork(tree', pending', folder', left') /\ IsMarked(tree', pending', folder', left')
  BY <1>1, <1>2, <1>3
<1>. QED
  BY <1>1, <1>4, IInvPrime DEF IInv

\* The counts after an entry are those of the tree that has it.
LEMMA CountedEntryFacts ==
  ASSUME NEW t, IsCounted(t, progress), DOMAIN t # {}, Cardinality(DOMAIN t) \in Nat,
         NEW u, DOMAIN u # {}, Cardinality(DOMAIN u) = Cardinality(DOMAIN t) + 1,
         NEW i \in Items
  PROVE  IsCounted(u, CountedEntry(i)) /\ CountedEntry(i).errors = progress.errors
<1>1. /\ progress \in [entries : Nat, files : Nat, directories : Nat,
                       logicalBytes : 0 .. MaxBytes, errors : Nat]
      /\ progress.files + progress.directories = progress.entries
      /\ progress.entries = Cardinality(DOMAIN t) - 1
  BY DEF IsCounted
<1>. DEFINE b == AddedBytes(progress.logicalBytes, SizeOf(i))
            q == CountedEntry(i)
<1>2. b \in 0 .. MaxBytes
  <2>1. progress.logicalBytes \in 0 .. MaxBytes /\ SizeOf(i) \in 0 .. MaxBytes
    BY <1>1, EntryFacts
  <2>. QED
    BY <2>1, AddedBytesType
<1>3. CASE i \in Folders
  <2>1. q = [progress EXCEPT !.entries = @ + 1, !.directories = @ + 1]
    BY <1>3 DEF CountedEntry
  <2>. HIDE DEF q, b
  <2>a. q = [entries |-> progress.entries + 1, files |-> progress.files,
             directories |-> progress.directories + 1,
             logicalBytes |-> progress.logicalBytes, errors |-> progress.errors]
    BY <1>1, <2>1
  <2>b. /\ progress.entries \in Nat /\ progress.files \in Nat /\ progress.directories \in Nat
        /\ progress.logicalBytes \in 0 .. MaxBytes /\ progress.errors \in Nat
    BY <1>1
  <2>2. /\ q \in [entries : Nat, files : Nat, directories : Nat,
                  logicalBytes : 0 .. MaxBytes, errors : Nat]
        /\ q.entries = progress.entries + 1
        /\ q.files = progress.files
        /\ q.directories = progress.directories + 1
        /\ q.errors = progress.errors
    BY <1>2, <2>a, <2>b
  <2>3. IsCounted(u, q)
    BY <1>1, <2>2, SMTT(30) DEF IsCounted
  <2>. QED
    BY <2>2, <2>3 DEF q
<1>4. CASE i \notin Folders
  <2>1. q = [progress EXCEPT !.entries = @ + 1, !.files = @ + 1, !.logicalBytes = b]
    BY <1>1, <1>4 DEF CountedEntry
  <2>. HIDE DEF q, b
  <2>a. q = [entries |-> progress.entries + 1, files |-> progress.files + 1,
             directories |-> progress.directories,
             logicalBytes |-> b, errors |-> progress.errors]
    BY <1>1, <2>1
  <2>b. /\ progress.entries \in Nat /\ progress.files \in Nat /\ progress.directories \in Nat
        /\ progress.logicalBytes \in 0 .. MaxBytes /\ progress.errors \in Nat
    BY <1>1
  <2>2. /\ q \in [entries : Nat, files : Nat, directories : Nat,
                  logicalBytes : 0 .. MaxBytes, errors : Nat]
        /\ q.entries = progress.entries + 1
        /\ q.files = progress.files + 1
        /\ q.directories = progress.directories
        /\ q.errors = progress.errors
    BY <1>2, <2>a, <2>b
  <2>3. IsCounted(u, q)
    BY <1>1, <2>2, SMTT(30) DEF IsCounted
  <2>. QED
    BY <2>2, <2>3 DEF q
<1>. QED
  BY <1>3, <1>4

\* An entry becomes a node, and a folder that is no link waits to be opened.
LEMMA AddEntryKeepsIInv ==
  ASSUME IInv, NEW i, AddEntry(i)
  PROVE  IInv'
<1>1. /\ completion = "None" /\ folder # invalid_node
      /\ i \in left
      /\ Cardinality(DOMAIN tree) < MaxNodes
      /\ left' = left \ {i}
      /\ tree' = Appended(tree, folder, i, SizeOf(i), FlagsOf(i))
      /\ pending' = IF OpenedLater(i)
                    THEN Append(pending, [node |-> Cardinality(DOMAIN tree), item |-> i])
                    ELSE pending
      /\ progress' = CountedEntry(i)
      /\ published' \in {published, progress'}
      /\ UNCHANGED <<stop, folder, totals, completion>>
  BY DEF AddEntry, Enumerating, Published, Fits
<1>2. PICK n \in 0 .. MaxNodes : /\ n \in Nat
                                 /\ n = Cardinality(DOMAIN tree)
                                 /\ IsScanTree(tree, n)
                                 /\ DOMAIN tree = 0 .. n - 1
  BY StateFacts
<1>3. /\ folder \in DOMAIN tree
      /\ tree[folder].item \in Folders \ Links
      /\ left \subseteq Contents[tree[folder].item]
      /\ left \cap Found(tree, folder) = {}
  BY <1>1, EnumeratingFacts
<1>4. /\ i \in Contents[tree[folder].item] /\ i \notin Found(tree, folder)
      /\ folder \in 0 .. n - 1 /\ i \in Items
  BY <1>1, <1>2, <1>3, DiskAssumption
<1>. DEFINE a == Appended(tree, folder, i, SizeOf(i), FlagsOf(i))
<1>5. /\ IsScanTree(a, n + 1)
      /\ a[n].item = i /\ a[n].flags = FlagsOf(i)
      /\ a[n].parent = folder
      /\ \A m \in 0 .. n - 1 : a[m].item = tree[m].item /\ a[m].flags = tree[m].flags
      /\ Children(a, n) = {}
      /\ Children(a, folder) = Children(tree, folder) \cup {n}
      /\ \A m \in 0 .. n - 1 : m # folder => Children(a, m) = Children(tree, m)
  BY <1>2, <1>3, <1>4, AppendedKeepsTree
<1>. HIDE DEF a
<1>6. tree' = a
  BY <1>1 DEF a
<1>7. /\ DOMAIN a = 0 .. n
      /\ n \in 0 .. n
      /\ \A m \in 0 .. n : m = n \/ m \in 0 .. n - 1
      /\ \A m \in 0 .. n - 1 : m \in 0 .. n /\ m # n
      /\ Cardinality(DOMAIN a) = n + 1
      /\ n + 1 \in 0 .. MaxNodes
  <2>1. DOMAIN a = 0 .. (n + 1) - 1
    BY <1>5 DEF IsScanTree, IsVector
  <2>2. Cardinality(DOMAIN a) = n + 1
    BY <2>1, <1>2, SizeOfVector
  <2>3. (n + 1) - 1 = n /\ n < MaxNodes /\ MaxNodes \in Nat
    BY <1>1, <1>2, LimitsAssumption
  <2>4. DOMAIN a = 0 .. n
    BY <2>1, <2>3
  <2>5. n + 1 \in 0 .. MaxNodes
    BY <1>2, <2>3
  <2>6. /\ n \in 0 .. n
        /\ \A m \in 0 .. n : m = n \/ m \in 0 .. n - 1
        /\ \A m \in 0 .. n - 1 : m \in 0 .. n /\ m # n
    BY <1>2
  <2>. QED
    BY <2>2, <2>4, <2>5, <2>6
<1>8. Found(a, folder) = Found(tree, folder) \cup {i}
  <2>1. Children(tree, folder) \subseteq 0 .. n - 1
    BY <1>2 DEF Children
  <2>2. \A c \in Children(tree, folder) : a[c].item = tree[c].item
    BY <1>5, <2>1
  <2>. QED
    BY <1>5, <2>2 DEF Found
<1>9. \A m \in 0 .. n - 1 : m # folder => Found(a, m) = Found(tree, m)
  <2>1. \A m : Children(tree, m) \subseteq 0 .. n - 1
    BY <1>2 DEF Children
  <2>. QED
    BY <1>5, <2>1 DEF Found
<1>. DEFINE e == Len(pending)
            new == [node |-> n, item |-> i]
<1>10. pending \in Seq([node : DOMAIN tree, item : Folders]) /\ e \in Nat
  BY DEF IInv, IsWork
<1>11. /\ pending \in Seq([node : DOMAIN a, item : Folders])
  <2>1. [node : DOMAIN tree, item : Folders] \subseteq [node : DOMAIN a, item : Folders]
    BY <1>2, <1>7
  <2>2. \A k \in 1 .. e : pending[k] \in [node : DOMAIN a, item : Folders]
    BY <1>10, <2>1, ElementOfSeq
  <2>3. pending = [k \in 1 .. e |-> pending[k]]
    BY <1>10
  <2>. DEFINE R == [node : DOMAIN a, item : Folders]
  <2>. HIDE DEF R
  <2>4. [k \in 1 .. e |-> pending[k]] \in Seq(R)
    BY <1>10, <2>2, IsASeq DEF R
  <2>. QED
    BY <2>3, <2>4 DEF R
<1>12. ASSUME NEW k \in 1 .. e
       PROVE  /\ pending[k].node \in 0 .. n - 1
              /\ pending[k].item = a[pending[k].node].item
              /\ pending[k].item \notin Links
              /\ Children(a, pending[k].node) = {}
              /\ pending[k].node # folder
              /\ \A m \in 1 .. e : pending[k].node = pending[m].node => k = m
  <2>1. /\ pending[k].node \in DOMAIN tree
        /\ pending[k].item = tree[pending[k].node].item
        /\ pending[k].item \in Folders \ Links
        /\ Children(tree, pending[k].node) = {}
        /\ pending[k].node # folder
        /\ \A m \in 1 .. Len(pending) : pending[m].node = pending[k].node => m = k
    BY PendingFacts
  <2>. QED
    BY <1>2, <1>5, <2>1
<1>13. (left \ {i}) \cap Found(a, folder) = {}
  BY <1>3, <1>8
<1>14. OpenedLater(i) =>
         /\ pending' \in Seq([node : DOMAIN a, item : Folders])
         /\ Len(pending') = e + 1
         /\ pending'[e + 1] = new
         /\ \A k \in 1 .. e : pending'[k] = pending[k]
         /\ \A k \in 1 .. e + 1 : k = e + 1 \/ k \in 1 .. e
         /\ \A k \in 1 .. e : k \in 1 .. e + 1
  <2>. SUFFICES ASSUME OpenedLater(i)
                PROVE  /\ pending' \in Seq([node : DOMAIN a, item : Folders])
                       /\ Len(pending') = e + 1
                       /\ pending'[e + 1] = new
                       /\ \A k \in 1 .. e : pending'[k] = pending[k]
                       /\ \A k \in 1 .. e + 1 : k = e + 1 \/ k \in 1 .. e
                       /\ \A k \in 1 .. e : k \in 1 .. e + 1
    OBVIOUS
  <2>1. new \in [node : DOMAIN a, item : Folders]
    BY <1>7 DEF OpenedLater
  <2>2. pending' = Append(pending, new)
    BY <1>1, <1>2
  <2>. HIDE DEF new
  <2>3. /\ Append(pending, new) \in Seq([node : DOMAIN a, item : Folders])
        /\ Len(Append(pending, new)) = e + 1
        /\ \A k \in 1 .. e : Append(pending, new)[k] = pending[k]
        /\ Append(pending, new)[e + 1] = new
    BY <1>11, <2>1, AppendProperties
  <2>. QED
    BY <1>10, <2>2, <2>3
<1>15. IsWork(a, pending', folder, left \ {i})
  <2>1. CASE OpenedLater(i)
    <3>1. ASSUME NEW k \in 1 .. e + 1
          PROVE  /\ pending'[k].item = a[pending'[k].node].item
                 /\ pending'[k].item \notin Links
                 /\ Children(a, pending'[k].node) = {}
                 /\ pending'[k].node # folder
                 /\ \A m \in 1 .. e + 1 : pending'[k].node = pending'[m].node => k = m
      <4>1. CASE k = e + 1
        <5>1. pending'[k].node = n /\ pending'[k].item = i /\ i \notin Links
          BY <1>14, <2>1, <4>1 DEF OpenedLater
        <5>2. \A m \in 1 .. e : pending'[m].node # n
          BY <1>7, <1>12, <1>14, <2>1
        <5>3. n # folder
          BY <1>4, <1>7
        <5>. QED
          BY <1>5, <1>14, <2>1, <4>1, <5>1, <5>2, <5>3
      <4>2. CASE k \in 1 .. e
        <5>1. pending'[k] = pending[k]
          BY <1>14, <2>1, <4>2
        <5>2. pending'[e + 1].node = n
          BY <1>14, <2>1
        <5>3. pending[k].node # n
          BY <1>7, <1>12, <4>2
        <5>. QED
          BY <1>12, <1>14, <2>1, <4>2, <5>1, <5>2, <5>3
      <4>. QED
        BY <1>14, <2>1, <4>1, <4>2
    <3>2. /\ pending' \in Seq([node : DOMAIN a, item : Folders])
          /\ Len(pending') = e + 1
      BY <1>14, <2>1
    <3>. QED
      BY <1>1, <1>3, <1>4, <1>5, <1>7, <1>13, <3>1, <3>2 DEF IsWork
  <2>2. CASE ~OpenedLater(i)
    <3>1. pending' = pending
      BY <1>1, <2>2
    <3>. QED
      BY <1>1, <1>3, <1>4, <1>5, <1>7, <1>11, <1>12, <1>13, <3>1 DEF IsWork
  <2>. QED
    BY <2>1, <2>2
<1>16. ASSUME NEW k \in 1 .. e
       PROVE  k \in 1 .. Len(pending') /\ pending'[k] = pending[k]
  BY <1>1, <1>14
<1>17. IsMarked(a, pending', folder, left \ {i})
  <2>. SUFFICES ASSUME NEW m \in Directories(a),
                       a[m].flags \cap {"ReparsePoint", "Incomplete"} = {}
                PROVE  \/ \E k \in 1 .. Len(pending') : pending'[k].node = m
                       \/ m = folder /\ Found(a, m) \cup (left \ {i}) = Contents[a[m].item]
                       \/ m # folder /\ Found(a, m) = Contents[a[m].item]
    BY DEF IsMarked
  <2>1. m \in 0 .. n /\ "Directory" \in a[m].flags
    BY <1>7 DEF Directories
  <2>2. CASE m = n
    <3>1. OpenedLater(i)
      BY <1>4, <1>5, <2>1, <2>2, EntryFacts DEF OpenedLater
    <3>2. e + 1 \in 1 .. Len(pending') /\ pending'[e + 1].node = n
      BY <1>10, <1>14, <3>1
    <3>. QED
      BY <2>2, <3>2
  <2>3. CASE m \in 0 .. n - 1
    <3>1. /\ m \in Directories(tree)
          /\ tree[m].flags = a[m].flags /\ tree[m].item = a[m].item
      BY <1>2, <1>5, <2>1, <2>3 DEF Directories
    <3>2. \/ \E k \in 1 .. e : pending[k].node = m
          \/ m = folder /\ Found(tree, m) \cup left = Contents[tree[m].item]
          \/ m # folder /\ Found(tree, m) = Contents[tree[m].item]
      BY <3>1 DEF IInv, IsMarked
    <3>3. CASE \E k \in 1 .. e : pending[k].node = m
      BY <1>16, <3>3
    <3>4. CASE m = folder /\ Found(tree, m) \cup left = Contents[tree[m].item]
      BY <1>1, <1>8, <3>1, <3>4
    <3>5. CASE m # folder /\ Found(tree, m) = Contents[tree[m].item]
      BY <1>9, <2>3, <3>1, <3>5
    <3>. QED
      BY <3>2, <3>3, <3>4, <3>5
  <2>. QED
    BY <1>7, <2>1, <2>2, <2>3
<1>18. IsCounted(tree', progress') /\ progress'.errors = progress.errors
  <2>1. IsCounted(tree, progress) /\ DOMAIN tree # {} /\ Cardinality(DOMAIN tree) \in Nat
    BY <1>2, <1>3 DEF IInv
  <2>2. DOMAIN a # {} /\ Cardinality(DOMAIN a) = Cardinality(DOMAIN tree) + 1
    BY <1>2, <1>7
  <2>3. IsCounted(a, CountedEntry(i)) /\ CountedEntry(i).errors = progress.errors
    BY <1>4, <2>1, <2>2, CountedEntryFacts
  <2>. QED
    BY <1>1, <1>6, <2>3
<1>19. ErrorsShown(tree', progress')
  <2>1. "Incomplete" \notin a[n].flags
    BY <1>4, <1>5, EntryFacts
  <2>2. ErrorsShown(tree, progress)
    BY <1>1 DEF IInv
  <2>. QED
    BY <1>2, <1>5, <1>6, <1>7, <1>18, <2>1, <2>2 DEF ErrorsShown
<1>20. published' \in Counts
  <2>1. progress' \in Counts
    <3>. DEFINE c == n + 1
    <3>1. c \in 0 .. MaxNodes /\ c = Cardinality(DOMAIN tree') /\ DOMAIN tree' = 0 .. n
      BY <1>6, <1>7
    <3>2. c - 1 = n
      BY <1>2
    <3>3. DOMAIN tree' = 0 .. c - 1
      BY <3>1, <3>2
    <3>. HIDE DEF c
    <3>. QED
      BY <1>18, <3>1, <3>3, CountsAreTyped
  <2>. QED
    BY <1>1, <2>1 DEF IInv
<1>21. stop' \in BOOLEAN /\ completion' \in Completions /\ completion' = "None"
  BY <1>1 DEF IInv
<1>22. IsWork(tree', pending', folder', left') /\ IsMarked(tree', pending', folder', left')
  BY <1>1, <1>6, <1>15, <1>17
<1>23. IsScanTree(tree', Cardinality(DOMAIN tree')) /\ Cardinality(DOMAIN tree') \in 0 .. MaxNodes
  BY <1>5, <1>6, <1>7
<1>. QED
  BY <1>18, <1>19, <1>20, <1>21, <1>22, <1>23, IInvPrime

\* The walk completes when no folder is left to open or to enumerate.
LEMMA CompleteKeepsIInv ==
  ASSUME IInv, Complete
  PROVE  IInv'
<1>1. /\ completion = "None" /\ completion' = "Completed"
      /\ folder = invalid_node /\ pending = <<>>
      /\ published' = progress'
      /\ UNCHANGED <<stop, tree, pending, folder, left, progress>>
  BY DEF Complete, Returns, LastPublished
<1>2. PICK n \in 0 .. MaxNodes : /\ n \in Nat
                                 /\ n = Cardinality(DOMAIN tree)
                                 /\ DOMAIN tree = 0 .. n - 1
  BY StateFacts
<1>3. progress \in Counts
  BY <1>2, CountsAreTyped DEF IInv
<1>4. completion' # "RootUnavailable" => ErrorsShown(tree', progress')
  BY <1>1 DEF IInv
<1>. QED
  BY <1>1, <1>3, <1>4, IInvPrime DEF IInv, Completions

\* Every step of the walk keeps the invariant.
LEMMA NextIInv == IInv /\ [Next]_vars => IInv'
<1>. SUFFICES ASSUME IInv, [Next]_vars PROVE IInv'
  OBVIOUS
<1>1. CASE RequestStop
  BY <1>1, QuietKeepsIInv DEF RequestStop
<1>2. CASE Cancelled
  BY <1>2, QuietKeepsIInv DEF Cancelled, AtStart, Opening, Enumerating, Returns, LastPublished
<1>3. CASE RootUnavailable
  BY <1>3, RootUnavailableKeepsIInv
<1>4. CASE AddRoot
  BY <1>4, AddRootKeepsIInv
<1>5. CASE OpenFails
  BY <1>5, OpenFailsKeepsIInv
<1>6. CASE OpenFolder
  BY <1>6, OpenFolderKeepsIInv
<1>7. ASSUME NEW i \in left, AddEntry(i)
      PROVE  IInv'
  BY <1>7, AddEntryKeepsIInv
<1>8. ASSUME NEW i \in left, DropEntry(i)
      PROVE  IInv'
  BY <1>8, MissedKeepsIInv DEF DropEntry, Enumerating
<1>9. CASE EndFolder
  BY <1>9, EndFolderKeepsIInv
<1>10. CASE BreakOff
  BY <1>10, MissedKeepsIInv DEF BreakOff
<1>11. CASE Complete
  BY <1>11, CompleteKeepsIInv
<1>12. CASE UNCHANGED vars
  <2>1. stop \in BOOLEAN
    BY DEF IInv
  <2>. QED
    BY <1>12, <2>1, QuietKeepsIInv DEF vars
<1>. QED
  BY <1>1, <1>2, <1>3, <1>4, <1>5, <1>6, <1>7, <1>8, <1>9, <1>10, <1>11, <1>12
  DEF Next, Walk, Ended

\* The walk keeps its tree, its work, its marks and its counts in step.
THEOREM Invariance == Spec => []IInv
BY InitIInv, NextIInv, PTL DEF Spec

-----------------------------------------------------------------------------
(***************************************************************************)
(* What the runs check.                                                    *)
(***************************************************************************)
\* The invariant holds the types.
LEMMA IInvTypes == IInv => TypeOK
<1>. SUFFICES ASSUME IInv PROVE TypeOK
  OBVIOUS
<1>1. PICK n \in 0 .. MaxNodes : /\ n \in Nat
                                 /\ n = Cardinality(DOMAIN tree)
                                 /\ IsScanTree(tree, n)
                                 /\ DOMAIN tree = 0 .. n - 1
  BY StateFacts
<1>2. tree \in [0 .. n - 1 -> TreeNodes]
  <2>1. ASSUME NEW m \in 0 .. n - 1 PROVE tree[m] \in TreeNodes
    <3>1. tree[m] \in NodeRecords
      BY <1>1 DEF IsScanTree, IsVector
    <3>2. /\ tree[m].firstChild \in {invalid_node} \cup DOMAIN tree
          /\ tree[m].nextSibling \in {invalid_node} \cup DOMAIN tree
      BY <1>1 DEF IsScanTree, IsLinked, Children
    <3>3. tree[m].parent \in {invalid_node} \cup DOMAIN tree
      BY <1>1 DEF IsScanTree, IsOfDisk
    <3>. QED
      BY <3>1, <3>2, <3>3 DEF NodeRecords, TreeNodes
  <2>. QED
    BY <1>1, <2>1 DEF IsScanTree, IsVector
<1>3. folder \in {invalid_node} \cup Directories(tree)
  BY <1>1 DEF IInv, IsWork, IsScanTree, IsOfDisk
<1>4. left \subseteq Items
  BY DiskAssumption DEF IInv, IsWork
<1>5. progress \in Counts
  BY <1>1, CountsAreTyped DEF IInv
<1>6. Cardinality(DOMAIN tree) <= MaxNodes /\ tree \in [0 .. Cardinality(DOMAIN tree) - 1 -> TreeNodes]
  BY <1>1, <1>2
<1>. QED
  BY <1>3, <1>4, <1>5, <1>6 DEF TypeOK, IInv, IsWork, Completions

\* The variables keep to their types: the tree is a vector of nodes that name
\* nodes of the same tree, and no count exceeds the nodes a tree can have.
THEOREM TypeCorrect == Spec => []TypeOK
BY Invariance, IInvTypes, PTL

\* EntryOnce: links in circles and failures of the disk never bring an entry
\* of the disk into the tree, and into its counts, a second time.
THEOREM EntriesAreOnce == Spec => []EntryOnce
<1>1. IInv => EntryOnce
  BY DEF IInv, IsScanTree, HasEntriesOnce, EntryOnce
<1>. QED
  BY <1>1, Invariance, PTL

\* NothingMissedSilently: whatever a completed scan lacks is below a folder
\* with a mark, and the result shows an error exactly when there is a mark.
THEOREM MarksAreComplete == Spec => []NothingMissedSilently
<1>1. IInv => NothingMissedSilently
  <2>. SUFFICES ASSUME IInv PROVE NothingMissedSilently
    OBVIOUS
  <2>1. ASSUME completion = "Completed", NEW n \in Directories(tree),
               tree[n].flags \cap {"ReparsePoint", "Incomplete"} = {}
        PROVE  {tree[c].item : c \in Children(tree, n)} = Contents[tree[n].item]
    <3>1. folder = invalid_node /\ pending = <<>>
      BY <2>1 DEF IInv
    <3>2. Len(pending) = 0
      BY <3>1
    <3>3. n # folder
      BY <3>1 DEF Directories, invalid_node, IInv, IsScanTree, IsVector
    <3>. QED
      BY <2>1, <3>2, <3>3 DEF IInv, IsMarked, Found
  <2>2. completion # "RootUnavailable" =>
          (progress.errors = 0 <=> \A n \in DOMAIN tree : "Incomplete" \notin tree[n].flags)
    BY DEF IInv, ErrorsShown
  <2>. QED
    BY <2>1, <2>2 DEF NothingMissedSilently
<1>. QED
  BY <1>1, Invariance, PTL

\* What a step of the walk does to what is left of it.
Shortens ==
  \/ completion' # "None"
  \/ Unseen' \subseteq Unseen /\ Unseen' # Unseen
  \/ /\ Unseen' = Unseen
     /\ \/ Len(pending') < Len(pending)
        \/ /\ pending' = pending
           /\ \/ folder # invalid_node /\ folder' = invalid_node
              \/ folder' = folder /\ left' \subseteq left /\ left' # left

\* A mark changes nothing of what was seen.
LEMMA MissedIsSeen ==
  ASSUME IInv, NEW w \in DOMAIN tree, NEW f \in SUBSET {"Inaccessible", "Incomplete"},
         tree' = Flagged(tree, w, f)
  PROVE  Unseen' = Unseen
<1>1. PICK n \in 0 .. MaxNodes : /\ n \in Nat
                                 /\ IsScanTree(tree, n)
                                 /\ DOMAIN tree = 0 .. n - 1
  BY StateFacts
<1>2. f \in SUBSET Flags /\ IsVector(tree, n)
  BY <1>1 DEF Flags, IsScanTree
<1>3. IsVector(tree', n) /\ \A m \in 0 .. n - 1 : tree'[m].item = tree[m].item
  BY <1>1, <1>2, FlaggedFacts
<1>4. DOMAIN tree' = DOMAIN tree
  BY <1>1, <1>3 DEF IsVector
<1>. QED
  BY <1>1, <1>3, <1>4 DEF Unseen

\* An entry that is added was not seen before.
LEMMA AddEntryShortens ==
  ASSUME IInv, NEW i, AddEntry(i)
  PROVE  Unseen' \subseteq Unseen /\ Unseen' # Unseen
<1>1. /\ folder # invalid_node /\ i \in left
      /\ tree' = Appended(tree, folder, i, SizeOf(i), FlagsOf(i))
  BY DEF AddEntry, Enumerating
<1>2. PICK n \in 0 .. MaxNodes : /\ n \in Nat
                                 /\ IsScanTree(tree, n)
                                 /\ DOMAIN tree = 0 .. n - 1
  BY StateFacts
<1>3. /\ folder \in 0 .. n - 1
      /\ tree[folder].item \in Folders \ Links
      /\ i \in Contents[tree[folder].item] /\ i \notin Found(tree, folder)
      /\ i \in Items
  BY <1>1, <1>2, EnumeratingFacts, DiskAssumption
<1>4. /\ IsScanTree(tree', n + 1)
      /\ tree'[n].item = i
      /\ \A m \in 0 .. n - 1 : tree'[m].item = tree[m].item
  BY <1>1, <1>2, <1>3, AppendedKeepsTree
<1>5. \A m \in DOMAIN tree : tree[m].item # i
  BY <1>2, <1>3, NotFoundYet
<1>6. n \in DOMAIN tree' /\ DOMAIN tree \subseteq DOMAIN tree'
  BY <1>2, <1>4 DEF IsScanTree, IsVector
<1>7. i \in Unseen /\ i \notin Unseen'
  BY <1>3, <1>4, <1>5, <1>6 DEF Unseen
<1>8. Unseen' \subseteq Unseen
  BY <1>2, <1>4, <1>6 DEF Unseen
<1>. QED
  BY <1>7, <1>8

\* Every step of the walk does, as long as it goes on.
LEMMA StepShortens ==
  ASSUME IInv, Next
  PROVE  Shortens \/ UNCHANGED <<tree, pending, folder, left, completion>>
<1>1. CASE RequestStop
  BY <1>1 DEF RequestStop
<1>2. CASE Cancelled \/ RootUnavailable \/ Complete
  BY <1>2 DEF Cancelled, RootUnavailable, Complete, Returns, Shortens
<1>3. CASE AddRoot
  <2>1. tree = EmptyTree /\ tree' = Appended(EmptyTree, invalid_node, Scanned, 0, {"Directory"})
    BY <1>3 DEF AddRoot, AtStart
  <2>2. DOMAIN tree = {} /\ Root \in DOMAIN tree' /\ tree'[Root].item = Scanned
    BY <2>1, RootTree DEF EmptyTree, IsScanTree, IsVector, Root
  <2>3. Scanned \in Items
    BY DiskAssumption
  <2>. QED
    BY <2>2, <2>3 DEF Unseen, Shortens
<1>4. CASE OpenFails
  <2>1. pending # <<>> /\ pending' = Popped
        /\ tree' = Flagged(tree, Work.node, {"Inaccessible", "Incomplete"})
    BY <1>4 DEF OpenFails, Opening
  <2>2. Len(pending') < Len(pending) /\ Len(pending) \in 1 .. Len(pending)
    BY <2>1, PoppedFacts DEF IInv, IsWork
  <2>3. Work.node \in DOMAIN tree
    BY <2>2, PendingFacts DEF Work
  <2>. QED
    BY <2>1, <2>2, <2>3, MissedIsSeen DEF Shortens
<1>5. CASE OpenFolder
  <2>1. pending # <<>> /\ pending' = Popped /\ tree' = tree
    BY <1>5 DEF OpenFolder, Opening
  <2>2. Len(pending') < Len(pending)
    BY <2>1, PoppedFacts DEF IInv, IsWork
  <2>. QED
    BY <2>1, <2>2 DEF Shortens, Unseen
<1>6. ASSUME NEW i \in left, AddEntry(i)
      PROVE  Shortens
  BY <1>6, AddEntryShortens DEF Shortens
<1>7. ASSUME NEW i \in left, DropEntry(i)
      PROVE  Shortens
  <2>1. /\ tree' = Flagged(tree, folder, {"Incomplete"}) /\ folder \in DOMAIN tree
        /\ left' = left \ {i} /\ pending' = pending /\ folder' = folder
    BY <1>7 DEF DropEntry, Missed, Enumerating, IInv, IsWork
  <2>. QED
    BY <2>1, MissedIsSeen DEF Shortens
<1>8. CASE EndFolder
  BY <1>8 DEF EndFolder, Enumerating, Shortens, Unseen
<1>9. CASE BreakOff
  <2>1. /\ tree' = Flagged(tree, folder, {"Incomplete"}) /\ folder \in DOMAIN tree
        /\ folder # invalid_node /\ folder' = invalid_node /\ pending' = pending
    BY <1>9 DEF BreakOff, Missed, Enumerating, IInv, IsWork
  <2>. QED
    BY <2>1, MissedIsSeen DEF Shortens
<1>10. CASE Ended
  BY <1>10 DEF Ended, vars
<1>. QED
  BY <1>1, <1>2, <1>3, <1>4, <1>5, <1>6, <1>7, <1>8, <1>9, <1>10 DEF Next, Walk

\* WalkShortens: every step of the walk that does not end it takes an entry from
\* those that were not seen, or a folder from those to open, or a part of the
\* one that is open, whatever the disk holds and whichever calls fail.
THEOREM WalkIsFinite == Spec => WalkShortens
<1>1. IInv /\ [Next]_vars => [Shortens]_<<tree, pending, folder, left, completion>>
  BY StepShortens DEF vars
<1>. QED
  BY <1>1, Invariance, PTL DEF Spec, WalkShortens, Shortens

\* The links are those of the chart.
LEMMA IInvLinks == IInv => ChildrenLinked
<1>. SUFFICES ASSUME IInv, NEW n \in DOMAIN tree
              PROVE  LET before == {m \in Children(tree, tree[n].parent) : m < n} IN
                     /\ tree[n].firstChild \in Children(tree, n) \cup {invalid_node}
                     /\ \A c \in Children(tree, n) : c <= tree[n].firstChild
                     /\ tree[n].nextSibling \in before \cup {invalid_node}
                     /\ \A m \in before : m <= tree[n].nextSibling
  BY DEF ChildrenLinked
<1>1. IsLinked(tree)
  BY DEF IInv, IsScanTree
<1>. QED
  BY <1>1 DEF IsLinked, Children

-----------------------------------------------------------------------------
(***************************************************************************)
(* Folds over finite sets.                                                 *)
(***************************************************************************)
Smaller == {p \in Nat \X Nat : p[1] < p[2]}

\* The order of the natural numbers has no infinite descent.
LEMMA SmallerWellFounded == IsWellFoundedOn(Smaller, Nat)
<1>1. Smaller = OpToRel(<, Nat)
  BY DEF Smaller, OpToRel
<1>. QED
  BY <1>1, NatLessThanWellFounded

\* A set of numbers that is not empty has a least member.
LEMMA LeastMember ==
  ASSUME NEW S \in SUBSET Nat, S # {}
  PROVE  \E x \in S : \A y \in S : x <= y
<1>1. PICK x \in S : \A y \in S : ~ (<<y, x>> \in Smaller)
  BY SmallerWellFounded, WFMin
<1>2. ASSUME NEW y \in S PROVE x <= y
  <2>1. x \in Nat /\ y \in Nat
    BY <1>1
  <2>2. <<y, x>> \in Nat \X Nat
    BY <2>1
  <2>3. ~ (y < x)
    BY <1>1, <2>2 DEF Smaller
  <2>. QED
    BY <2>1, <2>3
<1>. QED
  BY <1>2

\* A set of numbers that has 0 and with every number the next has them all.
LEMMA AllNumbers ==
  ASSUME NEW S \in SUBSET Nat, 0 \in S, \A k \in S : k + 1 \in S
  PROVE  S = Nat
<1>. SUFFICES ASSUME Nat \ S # {} PROVE FALSE
  OBVIOUS
<1>1. PICK x \in Nat \ S : \A y \in Nat \ S : x <= y
  BY LeastMember
<1>2. x # 0 /\ x - 1 \in Nat /\ (x - 1) + 1 = x /\ ~ (x <= x - 1)
  BY <1>1
<1>3. x - 1 \in S
  BY <1>1, <1>2
<1>. QED
  BY <1>1, <1>2, <1>3

\* A family of subsets of a finite set that has a set whenever it has all
\* smaller ones has them all.
LEMMA AllSubsets ==
  ASSUME NEW S, IsFiniteSet(S), NEW Good,
         \A s \in SUBSET S :
           (\A u \in SUBSET S : Cardinality(u) < Cardinality(s) => u \in Good) => s \in Good
  PROVE  \A s \in SUBSET S : s \in Good
<1>. DEFINE Sizes == {Cardinality(s) : s \in {u \in SUBSET S : u \notin Good}}
<1>. SUFFICES ASSUME NEW s \in SUBSET S, s \notin Good PROVE FALSE
  OBVIOUS
<1>1. \A u \in SUBSET S : Cardinality(u) \in Nat
  BY FS_Subset, FS_CardinalityType
<1>2. Sizes \in SUBSET Nat /\ Sizes # {}
  BY <1>1
<1>3. PICK x \in Sizes : \A y \in Sizes : x <= y
  <2>. HIDE DEF Sizes
  <2>. QED
    BY <1>2, LeastMember
<1>4. PICK u \in SUBSET S : u \notin Good /\ x = Cardinality(u)
  BY <1>3
<1>5. ASSUME NEW v \in SUBSET S, Cardinality(v) < Cardinality(u)
      PROVE  v \in Good
  <2>. SUFFICES ASSUME v \notin Good PROVE FALSE
    OBVIOUS
  <2>1. Cardinality(v) \in Sizes
    OBVIOUS
  <2>2. Cardinality(u) <= Cardinality(v)
    BY <1>3, <1>4, <2>1
  <2>. QED
    BY <1>1, <1>5, <2>2
<1>. QED
  BY <1>4, <1>5

\* A fold over the subsets of S that takes from s the element pick[s].
IsFold(it, S, base, pick, step) ==
  it = [s \in SUBSET S |-> IF s = {} THEN base
                           ELSE step[pick[s]][it[s \ {pick[s]}]]]

\* There is such a fold, whatever the order in which the elements are taken.
LEMMA FoldExists ==
  ASSUME NEW S, IsFiniteSet(S), NEW V, NEW base \in V,
         NEW pick \in [(SUBSET S) \ {{}} -> S], \A s \in (SUBSET S) \ {{}} : pick[s] \in s,
         NEW step \in [S -> [V -> V]]
  PROVE  \E it \in [SUBSET S -> V] : IsFold(it, S, base, pick, step)
<1>. DEFINE Sub(k) == {s \in SUBSET S : Cardinality(s) <= k}
            Next1(it, s) == IF s = {} THEN base ELSE step[pick[s]][it[s \ {pick[s]}]]
            Good == {k \in Nat : \E it \in [Sub(k) -> V] : \A s \in Sub(k) : it[s] = Next1(it, s)}
<1>1. \A s \in SUBSET S : Cardinality(s) \in Nat
  BY FS_Subset, FS_CardinalityType
<1>2. ASSUME NEW s \in SUBSET S, s # {}
      PROVE  /\ pick[s] \in s
             /\ s \ {pick[s]} \in SUBSET S
             /\ Cardinality(s \ {pick[s]}) = Cardinality(s) - 1
  BY <1>2, FS_Subset, FS_RemoveElement
<1>3. 0 \in Good
  <2>. DEFINE it == [s \in Sub(0) |-> base]
  <2>1. \A s \in Sub(0) : s = {}
    <3>1. ASSUME NEW s \in Sub(0) PROVE s = {}
      <4>1. Cardinality(s) = 0 /\ IsFiniteSet(s)
        BY <1>1, FS_Subset
      <4>. QED
        BY <4>1, FS_EmptySet
    <3>. QED
      BY <3>1
  <2>2. it \in [Sub(0) -> V] /\ \A s \in Sub(0) : it[s] = Next1(it, s)
    BY <2>1
  <2>. QED
    BY <2>2
<1>4. ASSUME NEW k \in Nat, k \in Good PROVE k + 1 \in Good
  <2>1. PICK it \in [Sub(k) -> V] : \A s \in Sub(k) : it[s] = Next1(it, s)
    BY <1>4
  <2>2. k \in Nat
    OBVIOUS
  <2>3. ASSUME NEW s \in Sub(k + 1), s # {}
        PROVE  s \ {pick[s]} \in Sub(k)
    <3>1. Cardinality(s \ {pick[s]}) = Cardinality(s) - 1 /\ s \ {pick[s]} \in SUBSET S
      BY <1>2, <2>3
    <3>2. Cardinality(s) \in Nat /\ Cardinality(s) <= k + 1
      BY <1>1
    <3>. DEFINE c == Cardinality(s)
                d == Cardinality(s \ {pick[s]})
    <3>3. d <= k
      <4>. HIDE DEF c, d, Sub, Good, Next1
      <4>1. c \in Nat /\ c <= k + 1 /\ d = c - 1
        BY <3>1, <3>2 DEF c, d
      <4>. QED
        BY <2>2, <4>1
    <3>. QED
      BY <3>1, <3>3
  <2>. DEFINE more == [s \in Sub(k + 1) |-> Next1(it, s)]
  <2>4. more \in [Sub(k + 1) -> V]
    <3>1. ASSUME NEW s \in Sub(k + 1) PROVE Next1(it, s) \in V
      <4>1. CASE s = {}
        BY <4>1
      <4>2. CASE s # {}
        <5>1. pick[s] \in S /\ it[s \ {pick[s]}] \in V
          BY <1>2, <2>3, <4>2
        <5>2. step[pick[s]] \in [V -> V]
          BY <5>1
        <5>. QED
          BY <4>2, <5>1, <5>2
      <4>. QED
        BY <4>1, <4>2
    <3>. QED
      BY <3>1
  <2>5. Sub(k) \subseteq Sub(k + 1)
    <3>1. ASSUME NEW s \in Sub(k) PROVE Cardinality(s) <= k + 1
      <4>. DEFINE c == Cardinality(s)
      <4>1. c \in Nat /\ c <= k
        BY <1>1
      <4>. HIDE DEF c, Sub, Good, Next1
      <4>2. c <= k + 1
        BY <2>2, <4>1
      <4>. QED
        BY <4>2 DEF c
    <3>. QED
      BY <3>1
  <2>6. \A s \in Sub(k) : more[s] = it[s]
    BY <2>1, <2>5
  <2>7. \A s \in Sub(k + 1) : more[s] = Next1(more, s)
    <3>1. ASSUME NEW s \in Sub(k + 1) PROVE more[s] = Next1(more, s)
      <4>1. CASE s = {}
        BY <4>1
      <4>2. CASE s # {}
        <5>1. more[s \ {pick[s]}] = it[s \ {pick[s]}]
          BY <2>3, <2>6, <4>2
        <5>2. more[s] = step[pick[s]][it[s \ {pick[s]}]]
          BY <4>2
        <5>. HIDE DEF more
        <5>. QED
          BY <4>2, <5>1, <5>2
      <4>. QED
        BY <4>1, <4>2
    <3>. QED
      BY <3>1
  <2>8. k + 1 \in Nat
    <3>. HIDE DEF Good, Sub, Next1
    <3>. QED
      BY <2>2
  <2>. HIDE DEF more
  <2>9. \E other \in [Sub(k + 1) -> V] : \A s \in Sub(k + 1) : other[s] = Next1(other, s)
    BY <2>4, <2>7
  <2>. QED
    BY <2>8, <2>9
<1>5. Good = Nat
  <2>1. Good \in SUBSET Nat /\ \A k \in Good : k \in Nat
    OBVIOUS
  <2>. HIDE DEF Good
  <2>. QED
    BY <1>3, <1>4, <2>1, AllNumbers
<1>6. Cardinality(S) \in Good
  BY <1>1, <1>5
<1>7. Sub(Cardinality(S)) = SUBSET S
  <2>1. \A s \in SUBSET S : Cardinality(s) <= Cardinality(S)
    BY FS_Subset
  <2>. QED
    BY <2>1
<1>8. PICK it \in [SUBSET S -> V] : \A s \in SUBSET S : it[s] = Next1(it, s)
  BY <1>6, <1>7
<1>9. it = [s \in SUBSET S |-> Next1(it, s)]
  BY <1>8
<1>. QED
  BY <1>8, <1>9 DEF IsFold

-----------------------------------------------------------------------------
(***************************************************************************)
(* Sums over finite sets.                                                  *)
(***************************************************************************)
Some(s) == CHOOSE n \in s : TRUE

IsSum(it, f, S) ==
  it = [s \in SUBSET S |-> IF s = {} THEN 0 ELSE f[Some(s)] + it[s \ {Some(s)}]]

IsSummable(f, S) == IsFiniteSet(S) /\ \A x \in S : f[x] \in Nat

SumOver(f, S) == MapThenFoldSet(+, 0, LAMBDA n : f[n], Some, S)

\* What can be summed can be summed in part.
LEMMA SummableParts ==
  ASSUME NEW f, NEW S, IsSummable(f, S), NEW s \in SUBSET S
  PROVE  IsSummable(f, s) /\ IsFiniteSet(s)
BY FS_Subset DEF IsSummable

\* A sum is what some iterator assigns to its set.
LEMMA SumOverIs ==
  ASSUME NEW f, NEW S
  PROVE  SumOver(f, S) = (CHOOSE it : IsSum(it, f, S))[S]
BY DEF SumOver, MapThenFoldSet, IsSum

\* The sum of the library is this one.
LEMMA SumOnSetIs ==
  ASSUME NEW f, NEW S
  PROVE  SumFunctionOnSet(f, S) = SumOver(f, S)
<1>1. SumFunctionOnSet(f, S) = (CHOOSE it : IsSum(it, f, S))[S]
  BY DEF SumFunctionOnSet, FoldFunctionOnSet, MapThenFoldSet, IsSum, Some
<1>. QED
  BY <1>1, SumOverIs

\* FoldExists for natural numbers.
LEMMA NaturalFoldExists ==
  ASSUME NEW S, IsFiniteSet(S),
         NEW p \in [(SUBSET S) \ {{}} -> S], \A s \in (SUBSET S) \ {{}} : p[s] \in s,
         NEW q \in [S -> [Nat -> Nat]]
  PROVE  \E it \in [SUBSET S -> Nat] : IsFold(it, S, 0, p, q)
<1>1. 0 \in Nat
  OBVIOUS
<1>. QED
  BY <1>1, FoldExists

\* Naturals over a finite set have a sum.
LEMMA SumExists ==
  ASSUME NEW f, NEW S, IsSummable(f, S)
  PROVE  \E it \in [SUBSET S -> Nat] : IsSum(it, f, S)
<1>. DEFINE chosen == [s \in (SUBSET S) \ {{}} |-> Some(s)]
            plus == [x \in S |-> [v \in Nat |-> f[x] + v]]
<1>1. ASSUME NEW s \in (SUBSET S) \ {{}} PROVE Some(s) \in s
  BY DEF Some
<1>2. chosen \in [(SUBSET S) \ {{}} -> S] /\ \A s \in (SUBSET S) \ {{}} : chosen[s] = Some(s)
  BY <1>1
<1>3. \A s \in (SUBSET S) \ {{}} : chosen[s] \in s
  BY <1>1, <1>2
<1>4. plus \in [S -> [Nat -> Nat]] /\ IsFiniteSet(S)
  BY DEF IsSummable
<1>5. \A x \in S : \A v \in Nat : plus[x][v] = f[x] + v
  OBVIOUS
<1>. HIDE DEF chosen, plus
<1>6. \E it \in [SUBSET S -> Nat] : IsFold(it, S, 0, chosen, plus)
  BY <1>2, <1>3, <1>4, NaturalFoldExists
<1>. PICK it \in [SUBSET S -> Nat] : IsFold(it, S, 0, chosen, plus)
  BY <1>6
<1>7. ASSUME NEW s \in SUBSET S
      PROVE  it[s] = IF s = {} THEN 0 ELSE f[Some(s)] + it[s \ {Some(s)}]
  <2>1. it[s] = IF s = {} THEN 0 ELSE plus[chosen[s]][it[s \ {chosen[s]}]]
    BY DEF IsFold
  <2>2. s # {} => Some(s) \in S /\ it[s \ {Some(s)}] \in Nat /\ chosen[s] = Some(s)
    BY <1>1, <1>2
  <2>. QED
    BY <1>5, <2>1, <2>2
<1>8. IsSum(it, f, S)
  BY <1>7 DEF IsSum
<1>. QED
  BY <1>8

\* What a sum comes to does not depend on the set it is taken within.
LEMMA SumsAgree ==
  ASSUME NEW S, NEW T, NEW U \in SUBSET (S \cap T), IsFiniteSet(U),
         NEW f, NEW g, \A x \in U : f[x] = g[x],
         NEW a, IsSum(a, f, S), NEW b, IsSum(b, g, T)
  PROVE  a[U] = b[U]
<1>. DEFINE Good == {s \in SUBSET U : a[s] = b[s]}
<1>1. ASSUME NEW s \in SUBSET U,
             \A u \in SUBSET U : Cardinality(u) < Cardinality(s) => u \in Good
      PROVE  s \in Good
  <2>1. /\ a[s] = IF s = {} THEN 0 ELSE f[Some(s)] + a[s \ {Some(s)}]
        /\ b[s] = IF s = {} THEN 0 ELSE g[Some(s)] + b[s \ {Some(s)}]
    BY DEF IsSum
  <2>2. CASE s = {}
    BY <2>1, <2>2
  <2>3. CASE s # {}
    <3>1. Some(s) \in s
      BY <2>3 DEF Some
    <3>2. Cardinality(s \ {Some(s)}) < Cardinality(s)
      <4>1. IsFiniteSet(s)
        BY FS_Subset
      <4>2. Cardinality(s) \in Nat /\ Cardinality(s \ {Some(s)}) = Cardinality(s) - 1
        BY <3>1, <4>1, FS_CardinalityType, FS_RemoveElement
      <4>. QED
        BY <4>2
    <3>3. s \ {Some(s)} \in Good
      BY <1>1, <3>2
    <3>. QED
      BY <2>1, <2>3, <3>1, <3>3
  <2>. QED
    BY <2>2, <2>3
<1>2. \A s \in SUBSET U : s \in Good
  <2>. HIDE DEF Good
  <2>. QED
    BY <1>1, AllSubsets
<1>. QED
  BY <1>2

\* The iterators of two sums over the same set agree.
LEMMA SameSum ==
  ASSUME NEW S, IsFiniteSet(S), NEW f, NEW g, \A x \in S : f[x] = g[x],
         NEW c, IsSum(c, f, S), NEW d, IsSum(d, g, S)
  PROVE  c[S] = d[S]
<1>1. S \in SUBSET (S \cap S)
  OBVIOUS
<1>. QED
  BY <1>1, SumsAgree

\* The iterator of a sum has the sums of the parts.
LEMMA SumWithin ==
  ASSUME NEW S, NEW s \in SUBSET S, IsFiniteSet(s), NEW f,
         NEW c, IsSum(c, f, S), NEW d, IsSum(d, f, s)
  PROVE  c[s] = d[s]
<1>1. s \in SUBSET (S \cap s) /\ \A x \in s : f[x] = f[x]
  OBVIOUS
<1>. QED
  BY <1>1, SumsAgree

\* A sum of naturals is a natural.
LEMMA SumType ==
  ASSUME NEW f, NEW S, IsSummable(f, S)
  PROVE  SumOver(f, S) \in Nat
<1>. DEFINE it == CHOOSE any : IsSum(any, f, S)
<1>1. PICK a \in [SUBSET S -> Nat] : IsSum(a, f, S)
  BY SumExists
<1>2. IsSum(it, f, S)
  BY <1>1
<1>. HIDE DEF it
<1>3. it[S] = a[S]
  BY <1>1, <1>2, SameSum DEF IsSummable
<1>. QED
  BY <1>1, <1>3, SumOverIs DEF it

\* Functions with the same values have the same sum.
LEMMA SumCongruence ==
  ASSUME NEW f, NEW g, NEW S, IsSummable(f, S), \A x \in S : f[x] = g[x]
  PROVE  SumOver(f, S) = SumOver(g, S)
<1>. DEFINE ofF == CHOOSE it : IsSum(it, f, S)
            ofG == CHOOSE it : IsSum(it, g, S)
<1>1. IsSum(ofF, f, S) /\ IsSum(ofG, g, S)
  <2>1. (\E it : IsSum(it, f, S)) /\ (\E it : IsSum(it, g, S))
    <3>1. IsSummable(g, S)
      BY DEF IsSummable
    <3>. QED
      BY <3>1, SumExists
  <2>. QED
    BY <2>1
<1>. HIDE DEF ofF, ofG
<1>2. ofF[S] = ofG[S]
  BY <1>1, SameSum DEF IsSummable
<1>. QED
  BY <1>2, SumOverIs DEF ofF, ofG

\* Nothing comes to 0.
LEMMA SumEmpty ==
  ASSUME NEW f
  PROVE  SumOver(f, {}) = 0
<1>. DEFINE it == CHOOSE a : IsSum(a, f, {})
            zero == [s \in SUBSET {} |-> 0]
<1>1. IsSum(zero, f, {})
  <2>1. \A s \in SUBSET {} : s = {}
    OBVIOUS
  <2>2. zero = [s \in SUBSET {} |-> IF s = {} THEN 0 ELSE f[Some(s)] + zero[s \ {Some(s)}]]
    BY <2>1
  <2>. QED
    BY <2>2 DEF IsSum
<1>2. IsSum(it, f, {})
  <2>. HIDE DEF zero
  <2>. QED
    BY <1>1
<1>. HIDE DEF it
<1>3. it[{}] = 0
  BY <1>2 DEF IsSum
<1>. QED
  BY <1>3, SumOverIs DEF it

\* The first step of a sum.
LEMMA SumPicked ==
  ASSUME NEW f, NEW S, IsSummable(f, S), S # {}
  PROVE  Some(S) \in S /\ SumOver(f, S) = f[Some(S)] + SumOver(f, S \ {Some(S)})
<1>. DEFINE R == S \ {Some(S)}
            ofS == CHOOSE it : IsSum(it, f, S)
            ofR == CHOOSE it : IsSum(it, f, R)
<1>1. IsFiniteSet(R) /\ IsSummable(f, R)
  BY SummableParts
<1>2. IsSum(ofS, f, S) /\ IsSum(ofR, f, R)
  <2>1. (\E it : IsSum(it, f, S)) /\ (\E it : IsSum(it, f, R))
    <3>. HIDE DEF R
    <3>. QED
      BY <1>1, SumExists
  <2>. QED
    BY <2>1
<1>. HIDE DEF ofS, ofR
<1>3. ofS[R] = ofR[R]
  <2>1. R \in SUBSET S
    OBVIOUS
  <2>. HIDE DEF R
  <2>. QED
    BY <1>1, <1>2, <2>1, SumWithin
<1>4. ofS[S] = f[Some(S)] + ofS[R]
  BY <1>2 DEF IsSum
<1>5. Some(S) \in S
  BY DEF Some
<1>6. SumOver(f, S) = ofS[S] /\ SumOver(f, R) = ofR[R]
  BY SumOverIs DEF ofS, ofR
<1>. QED
  BY <1>3, <1>4, <1>5, <1>6

\* It does not matter which element is added last.
LEMMA SumRemoved ==
  ASSUME NEW f, NEW S, IsSummable(f, S), NEW x \in S
  PROVE  SumOver(f, S) = f[x] + SumOver(f, S \ {x})
<1>. DEFINE Good == {s \in SUBSET S : \A y \in s : SumOver(f, s) = f[y] + SumOver(f, s \ {y})}
<1>1. ASSUME NEW s \in SUBSET S,
             \A u \in SUBSET S : Cardinality(u) < Cardinality(s) => u \in Good
      PROVE  s \in Good
  <2>. SUFFICES ASSUME NEW y \in s
                PROVE  SumOver(f, s) = f[y] + SumOver(f, s \ {y})
    OBVIOUS
  <2>. DEFINE c == Some(s)
  <2>1. IsFiniteSet(s) /\ IsSummable(f, s)
    BY SummableParts
  <2>2. c \in s /\ SumOver(f, s) = f[c] + SumOver(f, s \ {c})
    BY <2>1, SumPicked
  <2>. HIDE DEF c
  <2>3. CASE y = c
    BY <2>2, <2>3
  <2>4. CASE y # c
    <3>1. \A z \in s : s \ {z} \in Good
      <4>. SUFFICES ASSUME NEW z \in s PROVE s \ {z} \in Good
        OBVIOUS
      <4>1. Cardinality(s) \in Nat /\ Cardinality(s \ {z}) = Cardinality(s) - 1
        BY <2>1, FS_CardinalityType, FS_RemoveElement
      <4>2. Cardinality(s \ {z}) < Cardinality(s)
        BY <4>1
      <4>. QED
        BY <1>1, <4>2
    <3>2. SumOver(f, s \ {c}) = f[y] + SumOver(f, (s \ {c}) \ {y})
      BY <2>2, <2>4, <3>1
    <3>3. SumOver(f, s \ {y}) = f[c] + SumOver(f, (s \ {y}) \ {c})
      BY <2>2, <2>4, <3>1
    <3>. DEFINE R == (s \ {c}) \ {y}
    <3>4. (s \ {y}) \ {c} = R
      OBVIOUS
    <3>5. SumOver(f, R) \in Nat /\ f[c] \in Nat /\ f[y] \in Nat
      <4>1. IsSummable(f, R)
        BY <2>1, SummableParts
      <4>. QED
        BY <2>1, <2>2, <4>1, SumType DEF IsSummable
    <3>6. SumOver(f, s \ {c}) = f[y] + SumOver(f, R) /\ SumOver(f, s \ {y}) = f[c] + SumOver(f, R)
      BY <3>2, <3>3, <3>4
    <3>. HIDE DEF R
    <3>. DEFINE r == SumOver(f, R)
    <3>7. SumOver(f, s) = f[c] + (f[y] + r) /\ f[y] + SumOver(f, s \ {y}) = f[y] + (f[c] + r)
      BY <2>2, <3>6
    <3>8. f[c] + (f[y] + r) = f[y] + (f[c] + r)
      <4>1. r \in Nat /\ f[c] \in Nat /\ f[y] \in Nat
        BY <3>5
      <4>. HIDE DEF r, Good
      <4>. QED
        BY <4>1
    <3>. QED
      BY <3>7, <3>8
  <2>. QED
    BY <2>3, <2>4
<1>2. \A s \in SUBSET S : s \in Good
  <2>1. IsFiniteSet(S)
    BY DEF IsSummable
  <2>. HIDE DEF Good
  <2>. QED
    BY <1>1, <2>1, AllSubsets
<1>. QED
  BY <1>2

\* A further summand.
LEMMA SumAdded ==
  ASSUME NEW f, NEW S, NEW x, x \notin S, IsSummable(f, S \cup {x})
  PROVE  SumOver(f, S \cup {x}) = f[x] + SumOver(f, S)
<1>1. (S \cup {x}) \ {x} = S /\ x \in S \cup {x}
  OBVIOUS
<1>2. SumOver(f, S \cup {x}) = f[x] + SumOver(f, (S \cup {x}) \ {x})
  BY <1>1, SumRemoved
<1>. QED
  BY <1>1, <1>2

-----------------------------------------------------------------------------
(***************************************************************************)
(* aggregate().                                                            *)
(***************************************************************************)
NodeTotals == [bytes : 0 .. MaxBytes, files : Nat, directories : Nat]

Totals(t) == [DOMAIN t -> NodeTotals]

First(s) == CHOOSE n \in s : \A m \in s : n <= m

IsAggregation(it, t) ==
  it = [s \in SUBSET DOMAIN t |->
          IF s = {} THEN OwnTotals(t)
          ELSE AddedToParent(t, it[s \ {First(s)}], First(s))]

\* aggregate() is what some iterator assigns to all nodes.
LEMMA AggregatedIs ==
  ASSUME NEW t
  PROVE  Aggregated(t) = (CHOOSE it : IsAggregation(it, t))[DOMAIN t]
BY DEF Aggregated, MapThenFoldSet, IsAggregation, First

\* The first node of some.
LEMMA FirstFacts ==
  ASSUME NEW n \in Nat, NEW s \in SUBSET (0 .. n - 1), s # {}
  PROVE  First(s) \in s /\ \A m \in s : First(s) <= m
<1>1. s \in SUBSET Nat
  OBVIOUS
<1>2. \E x \in s : \A y \in s : x <= y
  BY <1>1, LeastMember
<1>. QED
  BY <1>2 DEF First

\* What the nodes are themselves.
LEMMA OwnTotalsType ==
  ASSUME NEW n \in Nat, NEW t, IsScanTree(t, n)
  PROVE  OwnTotals(t) \in Totals(t)
<1>1. ASSUME NEW m \in DOMAIN t PROVE t[m].size \in 0 .. MaxBytes
  BY DEF IsScanTree, IsVector, NodeRecords
<1>2. 0 \in 0 .. MaxBytes
  BY LimitsAssumption
<1>. QED
  BY <1>1, <1>2 DEF OwnTotals, Totals, NodeTotals

\* One step of aggregate() changes the totals of the parent only.
LEMMA AddedToParentFacts ==
  ASSUME NEW n \in Nat, NEW t, IsScanTree(t, n), NEW a \in Totals(t), NEW m \in 0 .. n - 1
  PROVE  LET b == AddedToParent(t, a, m)
             p == t[m].parent
         IN  /\ b \in Totals(t)
             /\ m = Root => b = a
             /\ m # Root =>
                  /\ p \in 0 .. n - 1 /\ p < m
                  /\ \A k \in 0 .. n - 1 : k # p => b[k] = a[k]
                  /\ b[p].bytes = AddedBytes(a[p].bytes, a[m].bytes)
                  /\ b[p].files = a[p].files + a[m].files
                  /\ b[p].directories = a[p].directories + a[m].directories
                                        + IF m \in Directories(t) THEN 1 ELSE 0
<1>. DEFINE b == AddedToParent(t, a, m)
            p == t[m].parent
            itself == IF m \in Directories(t) THEN 1 ELSE 0
            more == [bytes |-> AddedBytes(a[p].bytes, a[m].bytes),
                     files |-> a[p].files + a[m].files,
                     directories |-> a[p].directories + a[m].directories + itself]
<1>1. DOMAIN t = 0 .. n - 1
  BY DEF IsScanTree, IsVector
<1>2. /\ m = Root => p = invalid_node
      /\ m # Root => p \in DOMAIN t /\ p < m
  BY <1>1 DEF IsScanTree, IsOfDisk
<1>3. CASE m = Root
  BY <1>2, <1>3 DEF AddedToParent
<1>4. CASE m # Root
  <2>1. p \in 0 .. n - 1 /\ p < m /\ p # invalid_node
    BY <1>1, <1>2, <1>4 DEF invalid_node
  <2>2. b = [a EXCEPT ![p] = more]
    BY <2>1 DEF AddedToParent
  <2>3. a[p] \in NodeTotals /\ a[m] \in NodeTotals /\ a \in [0 .. n - 1 -> NodeTotals]
    BY <1>1, <2>1 DEF Totals
  <2>. HIDE DEF b, p
  <2>4. more \in NodeTotals
    <3>1. AddedBytes(a[p].bytes, a[m].bytes) \in 0 .. MaxBytes
      BY <2>3, AddedBytesType DEF NodeTotals
    <3>2. itself \in Nat
      OBVIOUS
    <3>. HIDE DEF itself
    <3>3. a[p].files + a[m].files \in Nat /\ a[p].directories + a[m].directories + itself \in Nat
      BY <2>3, <3>2, SMTT(30) DEF NodeTotals
    <3>. QED
      BY <3>1, <3>3 DEF NodeTotals
  <2>. HIDE DEF more
  <2>5. /\ b \in [0 .. n - 1 -> NodeTotals]
        /\ b[p] = more
        /\ \A k \in 0 .. n - 1 : k # p => b[k] = a[k]
    BY <2>1, <2>2, <2>3, <2>4
  <2>6. /\ more.bytes = AddedBytes(a[p].bytes, a[m].bytes)
        /\ more.files = a[p].files + a[m].files
        /\ more.directories = a[p].directories + a[m].directories + itself
    BY DEF more
  <2>. QED
    BY <1>1, <1>4, <2>1, <2>5, <2>6 DEF Totals, b, p
<1>. QED
  BY <1>3, <1>4

\* aggregate() goes from the last node to the first.
LEMMA AggregatedSteps ==
  ASSUME NEW n \in Nat, NEW t, IsScanTree(t, n)
  PROVE  \E stages \in [0 .. n -> Totals(t)] :
           /\ stages[n] = OwnTotals(t)
           /\ \A k \in 0 .. n - 1 : stages[k] = AddedToParent(t, stages[k + 1], k)
           /\ Aggregated(t) = stages[0]
<1>1. DOMAIN t = 0 .. n - 1 /\ IsFiniteSet(DOMAIN t)
  BY SizeOfVector DEF IsScanTree, IsVector
<1>2. \E it : IsAggregation(it, t)
  <2>. DEFINE chosen == [s \in (SUBSET DOMAIN t) \ {{}} |-> First(s)]
              added == [m \in DOMAIN t |-> [a \in Totals(t) |-> AddedToParent(t, a, m)]]
  <2>1. ASSUME NEW s \in (SUBSET DOMAIN t) \ {{}}
        PROVE  First(s) \in s
    BY <1>1, FirstFacts
  <2>2. /\ chosen \in [(SUBSET DOMAIN t) \ {{}} -> DOMAIN t]
        /\ \A s \in (SUBSET DOMAIN t) \ {{}} : chosen[s] \in s /\ chosen[s] = First(s)
    BY <2>1
  <2>3. added \in [DOMAIN t -> [Totals(t) -> Totals(t)]]
    <3>1. ASSUME NEW m \in DOMAIN t, NEW a \in Totals(t)
          PROVE  AddedToParent(t, a, m) \in Totals(t)
      BY <1>1, AddedToParentFacts
    <3>. QED
      BY <3>1
  <2>4. \A m \in DOMAIN t : \A a \in Totals(t) : added[m][a] = AddedToParent(t, a, m)
    OBVIOUS
  <2>5. OwnTotals(t) \in Totals(t)
    BY OwnTotalsType
  <2>. HIDE DEF chosen, added
  <2>6. \E it \in [SUBSET DOMAIN t -> Totals(t)] :
           IsFold(it, DOMAIN t, OwnTotals(t), chosen, added)
    <3>. DEFINE nodes == DOMAIN t
                values == Totals(t)
                own == OwnTotals(t)
    <3>1. /\ IsFiniteSet(nodes) /\ own \in values
          /\ chosen \in [(SUBSET nodes) \ {{}} -> nodes]
          /\ \A s \in (SUBSET nodes) \ {{}} : chosen[s] \in s
          /\ added \in [nodes -> [values -> values]]
      BY <1>1, <2>2, <2>3, <2>5
    <3>. HIDE DEF nodes, values, own
    <3>2. \E it \in [SUBSET nodes -> values] : IsFold(it, nodes, own, chosen, added)
      BY <3>1, FoldExists
    <3>. QED
      BY <3>2 DEF nodes, values, own
  <2>. PICK it \in [SUBSET DOMAIN t -> Totals(t)] :
              IsFold(it, DOMAIN t, OwnTotals(t), chosen, added)
    BY <2>6
  <2>7. ASSUME NEW s \in SUBSET DOMAIN t
        PROVE  it[s] = IF s = {} THEN OwnTotals(t)
                       ELSE AddedToParent(t, it[s \ {First(s)}], First(s))
    <3>1. it[s] = IF s = {} THEN OwnTotals(t) ELSE added[chosen[s]][it[s \ {chosen[s]}]]
      BY DEF IsFold
    <3>2. s # {} => First(s) \in DOMAIN t /\ it[s \ {First(s)}] \in Totals(t)
                    /\ chosen[s] = First(s)
      BY <2>1, <2>2
    <3>. QED
      BY <2>4, <3>1, <3>2
  <2>8. IsAggregation(it, t)
    BY <2>7 DEF IsAggregation
  <2>. QED
    BY <2>8
<1>. DEFINE it == CHOOSE any : IsAggregation(any, t)
<1>3. IsAggregation(it, t) /\ Aggregated(t) = it[DOMAIN t]
  BY <1>2, AggregatedIs
<1>. HIDE DEF it
<1>. DEFINE stages == [k \in 0 .. n |-> it[k .. n - 1]]
<1>4. stages[n] = OwnTotals(t)
  <2>1. n .. n - 1 = {}
    OBVIOUS
  <2>. QED
    BY <1>3, <2>1 DEF IsAggregation
<1>5. ASSUME NEW k \in 0 .. n - 1
      PROVE  stages[k] = AddedToParent(t, stages[k + 1], k)
  <2>1. /\ k .. n - 1 \in SUBSET DOMAIN t /\ k \in k .. n - 1
        /\ \A m \in k .. n - 1 : k <= m
        /\ (k .. n - 1) \ {k} = (k + 1) .. n - 1
        /\ k \in 0 .. n /\ k + 1 \in 0 .. n
    BY <1>1
  <2>2. First(k .. n - 1) = k
    <3>. DEFINE s == k .. n - 1
    <3>1. s \in SUBSET (0 .. n - 1) /\ s # {} /\ k \in s
      BY <1>1, <2>1
    <3>a. \A m \in s : k <= m /\ m \in Int
      OBVIOUS
    <3>. HIDE DEF s
    <3>2. First(s) \in s /\ First(s) <= k
      BY <3>1, FirstFacts
    <3>. QED
      BY <3>1, <3>a, <3>2 DEF s
  <2>3. it[k .. n - 1] = AddedToParent(t, it[(k .. n - 1) \ {k}], k)
    BY <1>3, <2>1, <2>2 DEF IsAggregation
  <2>. QED
    BY <2>1, <2>3
<1>6. Aggregated(t) = stages[0]
  BY <1>1, <1>3
<1>. HIDE DEF stages
<1>7. \A k \in 0 .. n : stages[k] \in Totals(t)
  <2>. DEFINE Good == {j \in Nat : j <= n => stages[n - j] \in Totals(t)}
  <2>1. 0 \in Good
    BY <1>4, OwnTotalsType
  <2>2. ASSUME NEW j \in Nat, j \in Good PROVE j + 1 \in Good
    <3>. SUFFICES ASSUME j + 1 <= n PROVE stages[n - (j + 1)] \in Totals(t)
      OBVIOUS
    <3>. DEFINE k == n - (j + 1)
    <3>1. k \in 0 .. n - 1 /\ k + 1 = n - j /\ j <= n
      OBVIOUS
    <3>2. stages[k + 1] \in Totals(t)
      BY <2>2, <3>1
    <3>. HIDE DEF k
    <3>3. stages[k] \in Totals(t)
      BY <1>5, <3>1, <3>2, AddedToParentFacts
    <3>. QED
      BY <3>3 DEF k
  <2>3. Good = Nat
    <3>1. Good \in SUBSET Nat /\ \A j \in Good : j \in Nat
      OBVIOUS
    <3>. HIDE DEF Good
    <3>. QED
      BY <2>1, <2>2, <3>1, AllNumbers
  <2>4. ASSUME NEW k \in 0 .. n PROVE stages[k] \in Totals(t)
    <3>1. n - k \in Nat /\ n - k <= n /\ n - (n - k) = k
      OBVIOUS
    <3>. QED
      BY <2>3, <3>1
  <2>. QED
    BY <2>4
<1>8. stages \in [0 .. n -> Totals(t)]
  BY <1>7 DEF stages
<1>. QED
  BY <1>4, <1>5, <1>6, <1>8

-----------------------------------------------------------------------------
(***************************************************************************)
(* Sums that climb a tree.  Counts are added as they are, bytes modulo     *)
(* what a counter can hold: a reduction is either.                         *)
(***************************************************************************)
IsReduction(red) ==
  red \in [Nat -> Nat] /\ \A a, b \in Nat : red[red[a] + b] = red[a + b]

Unbounded == [x \in Nat |-> x]
Bounded == [x \in Nat |-> x % (MaxBytes + 1)]

\* Counts add up.
LEMMA UnboundedReduces == IsReduction(Unbounded)
BY DEF IsReduction, Unbounded

\* Quotient and remainder.
LEMMA ModFacts ==
  ASSUME NEW a \in Nat, NEW m \in Nat \ {0}
  PROVE  /\ a % m \in 0 .. m - 1
         /\ a \div m \in Nat
         /\ a = (a \div m) * m + (a % m)
OBVIOUS

\* There is one remainder.
LEMMA ModUnique ==
  ASSUME NEW m \in Nat \ {0}, NEW q1 \in Int, NEW q2 \in Int,
         NEW r1 \in 0 .. m - 1, NEW r2 \in 0 .. m - 1,
         q1 * m + r1 = q2 * m + r2
  PROVE  r1 = r2
<1>1. CASE q1 = q2
  <2>1. q1 * m \in Int
    OBVIOUS
  <2>. QED
    BY <1>1, <2>1
<1>2. CASE q1 >= q2 + 1
  <2>1. q1 * m >= (q2 + 1) * m
    BY <1>2
  <2>2. (q2 + 1) * m = q2 * m + m
    OBVIOUS
  <2>. QED
    BY <2>1, <2>2
<1>3. CASE q2 >= q1 + 1
  <2>1. q2 * m >= (q1 + 1) * m
    BY <1>3
  <2>2. (q1 + 1) * m = q1 * m + m
    OBVIOUS
  <2>. QED
    BY <2>1, <2>2
<1>. QED
  BY <1>1, <1>2, <1>3

\* Reducing early or late gives the same remainder.
LEMMA BoundedReduces == IsReduction(Bounded)
<1>. DEFINE m == MaxBytes + 1
<1>1. m \in Nat \ {0}
  BY LimitsAssumption
<1>. HIDE DEF m
<1>2. ASSUME NEW a \in Nat, NEW b \in Nat
      PROVE  ((a % m) + b) % m = (a + b) % m
  <2>. DEFINE r == a % m
              q == a \div m
              r1 == (r + b) % m
              q1 == (r + b) \div m
              r2 == (a + b) % m
              q2 == (a + b) \div m
  <2>1. r \in Nat /\ q \in Nat /\ a = q * m + r
    BY <1>1, ModFacts
  <2>2. r1 \in 0 .. m - 1 /\ q1 \in Nat /\ r + b = q1 * m + r1
    <3>1. r + b \in Nat
      BY <2>1
    <3>. HIDE DEF r
    <3>. QED
      BY <1>1, <3>1, ModFacts
  <2>3. r2 \in 0 .. m - 1 /\ q2 \in Nat /\ a + b = q2 * m + r2
    <3>1. a + b \in Nat
      OBVIOUS
    <3>. QED
      BY <1>1, <3>1, ModFacts
  <2>. HIDE DEF r, q, r1, q1, r2, q2
  <2>4. q * m \in Int /\ q1 * m \in Int /\ (q + q1) * m = q * m + q1 * m
    BY <1>1, <2>1, <2>2
  <2>5. (q + q1) * m + r1 = q2 * m + r2
    BY <1>1, <2>1, <2>2, <2>3, <2>4
  <2>6. r1 = r2
    <3>. DEFINE qq == q + q1
    <3>1. qq \in Int /\ q2 \in Int /\ qq * m + r1 = q2 * m + r2
      BY <2>1, <2>2, <2>3, <2>5
    <3>. HIDE DEF qq
    <3>. QED
      BY <1>1, <2>2, <2>3, <3>1, ModUnique
  <2>. QED
    BY <2>6 DEF r, r1, r2
<1>3. \A a \in Nat : a % m \in Nat
  BY <1>1, ModFacts
<1>4. Bounded = [x \in Nat |-> x % m]
  BY DEF Bounded, m
<1>5. Bounded \in [Nat -> Nat] /\ \A x \in Nat : Bounded[x] = x % m
  BY <1>3, <1>4
<1>6. \A a, b \in Nat : a % m \in Nat /\ (a % m) + b \in Nat /\ a + b \in Nat
  BY <1>3
<1>. HIDE DEF Bounded
<1>. QED
  BY <1>2, <1>5, <1>6 DEF IsReduction

\* The stages n, n - 1, ..., 0 of a sum that climbs a tree of n nodes: in stage
\* k, what node k has is added to its parent, which is a smaller node.
IsClimb(n, parent, red, v) ==
  /\ \A k \in 1 .. n - 1 : parent[k] \in 0 .. n - 1 /\ parent[k] < k
  /\ \A k \in 0 .. n : v[k] \in [0 .. n - 1 -> Nat]
  /\ \A k \in 0 .. n : \A m \in 0 .. n - 1 : red[v[k][m]] = v[k][m]
  /\ \A k \in 1 .. n - 1 :
       /\ v[k][parent[k]] = red[v[k + 1][parent[k]] + v[k + 1][k]]
       /\ \A m \in 0 .. n - 1 : m # parent[k] => v[k][m] = v[k + 1][m]
  /\ v[0] = v[1]

\* below has the nodes whose parent is m.
IsBelow(n, parent, m, below) ==
  \A c : c \in below <=> c \in 1 .. n - 1 /\ parent[c] = m

\* Sets of nodes are finite.
LEMMA FiniteInterval ==
  ASSUME NEW n \in Nat, NEW s \in SUBSET (0 .. n - 1)
  PROVE  IsFiniteSet(s)
<1>1. IsFiniteSet(0 .. n - 1)
  BY FS_Interval
<1>. QED
  BY <1>1, FS_Subset

\* When one of the summands is given to another one, their sum stays.
LEMMA SumShifted ==
  ASSUME NEW old, NEW new, NEW before, NEW k, k \notin before,
         IsSummable(old, before \cup {k}), NEW p \in before,
         NEW red, IsReduction(red), new[p] = red[old[p] + old[k]],
         \A m \in before : m # p => new[m] = old[m]
  PROVE  red[SumOver(new, before)] = red[SumOver(old, before \cup {k})]
<1>. DEFINE rest == before \ {p}
            r == SumOver(old, rest)
<1>1. p \notin rest /\ rest \cup {p} = before
  OBVIOUS
<1>2. \A x \in rest : new[x] = old[x]
  OBVIOUS
<1>. HIDE DEF rest
<1>3. SumOver(old, before \cup {k}) = old[k] + SumOver(old, before)
  BY SumAdded
<1>4. /\ IsSummable(old, before) /\ IsSummable(old, rest)
      /\ old[p] \in Nat /\ old[k] \in Nat
  <2>1. before \in SUBSET (before \cup {k}) /\ rest \in SUBSET (before \cup {k})
    BY DEF rest
  <2>. QED
    BY <2>1, SummableParts DEF IsSummable
<1>5. old[p] + old[k] \in Nat /\ new[p] \in Nat
  <2>1. old[p] + old[k] \in Nat
    BY <1>4
  <2>. QED
    BY <2>1 DEF IsReduction
<1>6. IsSummable(new, before)
  BY <1>4, <1>5 DEF IsSummable
<1>7. SumOver(old, before) = old[p] + r
  <2>1. SumOver(old, rest \cup {p}) = old[p] + SumOver(old, rest)
    BY <1>1, <1>4, SumAdded
  <2>. QED
    BY <1>1, <2>1
<1>8. SumOver(new, rest) = r
  BY <1>2, <1>4, SumCongruence
<1>9. SumOver(new, before) = new[p] + r
  <2>1. SumOver(new, rest \cup {p}) = new[p] + SumOver(new, rest)
    BY <1>1, <1>6, SumAdded
  <2>. QED
    BY <1>1, <1>8, <2>1
<1>10. r \in Nat
  BY <1>4, SumType
<1>. HIDE DEF r
<1>11. old[k] + (old[p] + r) = (old[p] + old[k]) + r
  BY <1>4, <1>10
<1>12. red[red[old[p] + old[k]] + r] = red[(old[p] + old[k]) + r]
  BY <1>5, <1>10 DEF IsReduction
<1>. QED
  BY <1>3, <1>7, <1>9, <1>11, <1>12

\* One stage leaves what the nodes that are still to be added have together.
LEMMA ClimbKeepsSum ==
  ASSUME NEW n \in Nat, NEW parent, NEW red, NEW v, IsReduction(red),
         IsClimb(n, parent, red, v), NEW k \in 1 .. n - 1
  PROVE  red[SumOver(v[k], 0 .. k - 1)] = red[SumOver(v[k + 1], 0 .. k)]
<1>. DEFINE earlier == 0 .. k - 1
<1>1. k + 1 \in 0 .. n /\ k \in 0 .. n
  OBVIOUS
<1>2. /\ parent[k] \in 0 .. n - 1 /\ parent[k] < k
      /\ v[k + 1] \in [0 .. n - 1 -> Nat] /\ v[k] \in [0 .. n - 1 -> Nat]
      /\ v[k][parent[k]] = red[v[k + 1][parent[k]] + v[k + 1][k]]
      /\ \A m \in 0 .. n - 1 : m # parent[k] => v[k][m] = v[k + 1][m]
  BY <1>1 DEF IsClimb
<1>3. parent[k] \in earlier
  BY <1>2
<1>4. /\ k \notin earlier /\ earlier \cup {k} = 0 .. k
      /\ \A x \in 0 .. k : x \in 0 .. n - 1
      /\ \A x \in earlier : x \in 0 .. n - 1
  OBVIOUS
<1>5. IsSummable(v[k + 1], 0 .. k)
  <2>1. IsFiniteSet(0 .. k)
    BY FS_Interval
  <2>. QED
    BY <1>2, <1>4, <2>1 DEF IsSummable
<1>6. \A m \in earlier : m # parent[k] => v[k][m] = v[k + 1][m]
  BY <1>2, <1>4
<1>. DEFINE up == parent[k]
            now == v[k]
            then == v[k + 1]
<1>7. /\ up \in earlier /\ k \notin earlier
      /\ IsSummable(then, earlier \cup {k})
      /\ now[up] = red[then[up] + then[k]]
      /\ \A m \in earlier : m # up => now[m] = then[m]
  BY <1>2, <1>3, <1>4, <1>5, <1>6
<1>. HIDE DEF earlier, up, now, then
<1>8. red[SumOver(now, earlier)] = red[SumOver(then, earlier \cup {k})]
  BY <1>7, SumShifted
<1>. QED
  BY <1>4, <1>8 DEF earlier, now, then

\* In the end, node 0 has what all had at first.
LEMMA ClimbTotal ==
  ASSUME NEW n \in Nat \ {0}, NEW parent, NEW red, NEW v, IsReduction(red),
         IsClimb(n, parent, red, v)
  PROVE  v[0][0] = red[SumOver(v[n], 0 .. n - 1)]
<1>. DEFINE Total(k) == red[SumOver(v[k], 0 .. k - 1)]
            Good == {j \in Nat : j + 1 <= n => Total(j + 1) = Total(1)}
<1>1. 0 \in Good
  OBVIOUS
<1>2. ASSUME NEW j \in Nat, j \in Good PROVE j + 1 \in Good
  <2>. SUFFICES ASSUME (j + 1) + 1 <= n PROVE Total((j + 1) + 1) = Total(1)
    OBVIOUS
  <2>. DEFINE k == j + 1
  <2>1. k \in 1 .. n - 1 /\ k <= n /\ (k + 1) - 1 = k
    OBVIOUS
  <2>2. Total(k) = Total(1)
    BY <1>2, <2>1
  <2>. HIDE DEF k
  <2>3. red[SumOver(v[k], 0 .. k - 1)] = red[SumOver(v[k + 1], 0 .. k)]
    BY <2>1, ClimbKeepsSum
  <2>4. Total(k + 1) = Total(k)
    BY <2>1, <2>3
  <2>. QED
    BY <2>2, <2>4 DEF k
<1>3. Good = Nat
  <2>1. Good \in SUBSET Nat /\ \A j \in Good : j \in Nat
    OBVIOUS
  <2>. HIDE DEF Good
  <2>. QED
    BY <1>1, <1>2, <2>1, AllNumbers
<1>4. Total(n) = Total(1)
  <2>1. n - 1 \in Nat /\ (n - 1) + 1 = n /\ n <= n
    OBVIOUS
  <2>2. n - 1 \in Good
    BY <1>3, <2>1
  <2>. HIDE DEF Total
  <2>. QED
    BY <2>1, <2>2
<1>5. v[1] \in [0 .. n - 1 -> Nat] /\ red[v[1][0]] = v[1][0] /\ v[0] = v[1] /\ 0 \in 0 .. n - 1
  <2>1. 1 \in 0 .. n /\ 0 \in 0 .. n - 1
    OBVIOUS
  <2>. QED
    BY <2>1 DEF IsClimb
<1>6. SumOver(v[1], 0 .. 0) = v[1][0]
  <2>1. {} \in SUBSET (0 .. n - 1) /\ 0 \notin {} /\ {} \cup {0} = 0 .. 0
    OBVIOUS
  <2>2. SumOver(v[1], {} \cup {0}) = v[1][0] + SumOver(v[1], {})
    <3>1. IsFiniteSet({0})
      BY FS_Singleton
    <3>a. {} \cup {0} = {0}
      OBVIOUS
    <3>2. IsSummable(v[1], {} \cup {0})
      BY <1>5, <3>1, <3>a DEF IsSummable
    <3>. QED
      BY <2>1, <3>2, SumAdded
  <2>3. SumOver(v[1], {}) = 0
    BY SumEmpty
  <2>4. v[1][0] \in Nat
    BY <1>5
  <2>. QED
    BY <2>1, <2>2, <2>3, <2>4
<1>7. Total(1) = v[1][0]
  <2>1. 0 .. 1 - 1 = 0 .. 0
    OBVIOUS
  <2>. QED
    BY <1>5, <1>6, <2>1
<1>. QED
  BY <1>4, <1>5, <1>7

\* In the end, every node has what it had at first and what its children have.
LEMMA ClimbChildren ==
  ASSUME NEW n \in Nat \ {0}, NEW parent, NEW red, NEW v, IsReduction(red),
         IsClimb(n, parent, red, v), NEW m \in 0 .. n - 1,
         NEW below, IsBelow(n, parent, m, below)
  PROVE  v[0][m] = red[v[n][m] + SumOver(v[0], below)]
<1>. DEFINE Added(k) == {c \in k .. n - 1 : parent[c] = m}
            Holds(k) == v[k][m] = red[v[n][m] + SumOver(v[k], Added(k))]
            Good == {j \in Nat : j < n => Holds(n - j)}
<1>a. \A k \in 1 .. n : /\ Added(k) \in SUBSET (0 .. n - 1)
                        /\ v[k] \in [0 .. n - 1 -> Nat]
  <2>1. ASSUME NEW k \in 1 .. n
        PROVE  Added(k) \in SUBSET (0 .. n - 1) /\ v[k] \in [0 .. n - 1 -> Nat]
    BY DEF IsClimb
  <2>. QED
    BY <2>1
<1>1. 0 \in Good
  <2>1. Added(n) = {}
    OBVIOUS
  <2>2. SumOver(v[n], {}) = 0
    BY SumEmpty
  <2>3. v[n][m] \in Nat /\ red[v[n][m]] = v[n][m] /\ n - 0 = n
    BY DEF IsClimb
  <2>4. v[n][m] + 0 = v[n][m]
    BY <2>3
  <2>. QED
    BY <2>1, <2>2, <2>3, <2>4
<1>2. ASSUME NEW j \in Nat, j \in Good PROVE j + 1 \in Good
  <2>. SUFFICES ASSUME j + 1 < n PROVE Holds(n - (j + 1))
    OBVIOUS
  <2>. DEFINE k == n - (j + 1)
              p == parent[k]
              old == v[k + 1]
              new == v[k]
              children == Added(k + 1)
              s == SumOver(old, children)
  <2>1. /\ k \in 1 .. n - 1 /\ k + 1 = n - j /\ k \in 0 .. n - 1
        /\ k \in 1 .. n /\ k + 1 \in 1 .. n /\ k \in Int
    OBVIOUS
  <2>2. old[m] = red[v[n][m] + s]
    BY <1>2, <2>1
  <2>. HIDE DEF k
  <2>3. /\ p \in 0 .. n - 1 /\ p < k
        /\ old \in [0 .. n - 1 -> Nat] /\ new \in [0 .. n - 1 -> Nat]
        /\ v[n][m] \in Nat
        /\ new[p] = red[old[p] + old[k]]
        /\ \A x \in 0 .. n - 1 : x # p => new[x] = old[x]
    <3>1. v[n] \in [0 .. n - 1 -> Nat]
      BY DEF IsClimb
    <3>2. old \in [0 .. n - 1 -> Nat] /\ new \in [0 .. n - 1 -> Nat]
      BY <1>a, <2>1
    <3>3. /\ parent[k] \in 0 .. n - 1 /\ parent[k] < k
          /\ v[k][parent[k]] = red[v[k + 1][parent[k]] + v[k + 1][k]]
          /\ \A x \in 0 .. n - 1 : x # parent[k] => v[k][x] = v[k + 1][x]
      BY <2>1 DEF IsClimb
    <3>. QED
      BY <3>1, <3>2, <3>3
  <2>4. /\ children \in SUBSET (0 .. n - 1)
        /\ k \notin children
        /\ \A x \in children : x > k
    BY <1>a, <2>1
  <2>5. Added(k) = IF p = m THEN children \cup {k} ELSE children
    <3>1. k .. n - 1 = ((k + 1) .. n - 1) \cup {k}
      BY <2>1
    <3>. QED
      BY <3>1
  <2>. HIDE DEF p, old, new, children
  <2>6. \A x \in children : new[x] = old[x]
    BY <2>1, <2>3, <2>4
  <2>a. IsSummable(old, children) /\ IsSummable(new, children \cup {k})
    <3>1. children \cup {k} \in SUBSET (0 .. n - 1)
      BY <2>1, <2>4
    <3>2. IsFiniteSet(children) /\ IsFiniteSet(children \cup {k})
      BY <2>4, <3>1, FiniteInterval
    <3>. QED
      BY <2>3, <2>4, <3>1, <3>2 DEF IsSummable
  <2>7. SumOver(new, children) = s /\ s \in Nat
    BY <2>6, <2>a, SumCongruence, SumType
  <2>. HIDE DEF s
  <2>8. CASE p # m
    <3>1. new[m] = old[m]
      BY <2>3, <2>8
    <3>. QED
      BY <2>2, <2>5, <2>7, <2>8, <3>1 DEF k, new
  <2>9. CASE p = m
    <3>1. SumOver(new, children \cup {k}) = new[k] + SumOver(new, children)
      BY <2>4, <2>a, SumAdded
    <3>2. new[k] = old[k] /\ old[k] \in Nat
      BY <2>1, <2>3
    <3>3. v[n][m] + s \in Nat /\ v[n][m] + (old[k] + s) = (v[n][m] + s) + old[k]
      <4>1. v[n][m] \in Nat /\ old[k] \in Nat /\ s \in Nat
        BY <2>3, <2>7, <3>2
      <4>. HIDE DEF Holds, Good, Added
      <4>. QED
        BY <4>1
    <3>4. red[red[v[n][m] + s] + old[k]] = red[(v[n][m] + s) + old[k]]
      BY <3>2, <3>3 DEF IsReduction
    <3>5. new[m] = red[v[n][m] + (old[k] + s)]
      BY <2>2, <2>3, <2>9, <3>3, <3>4
    <3>6. SumOver(new, Added(k)) = old[k] + s
      BY <2>5, <2>7, <2>9, <3>1, <3>2
    <3>. QED
      BY <3>5, <3>6 DEF k, new
  <2>. QED
    BY <2>8, <2>9
<1>3. Good = Nat
  <2>1. Good \in SUBSET Nat /\ \A j \in Good : j \in Nat
    OBVIOUS
  <2>. HIDE DEF Good
  <2>. QED
    BY <1>1, <1>2, <2>1, AllNumbers
<1>4. Holds(1)
  <2>1. n - 1 \in Nat /\ n - (n - 1) = 1 /\ n - 1 < n
    OBVIOUS
  <2>2. n - 1 \in Good
    BY <1>3, <2>1
  <2>. HIDE DEF Holds
  <2>. QED
    BY <2>1, <2>2
<1>5. v[0] = v[1]
  BY DEF IsClimb
<1>6. Added(1) = below
  BY DEF IsBelow
<1>. QED
  BY <1>4, <1>5, <1>6

\* What each node adds to the totals.
ByteShare(t) == [m \in DOMAIN t |-> IF m \in Directories(t) THEN 0 ELSE t[m].size]
FileShare(t) == [m \in DOMAIN t |-> IF m \in Directories(t) THEN 0 ELSE 1]
FolderShare(t) == [m \in DOMAIN t |-> IF m \in Directories(t) \ {Root} THEN 1 ELSE 0]

Parents(t) == [m \in DOMAIN t |-> t[m].parent]

\* The children of a node, as the climb sees them.
LEMMA ChildrenAre ==
  ASSUME NEW n \in Nat, NEW t, IsScanTree(t, n), NEW m \in 0 .. n - 1
  PROVE  IsBelow(n, Parents(t), m, Children(t, m))
<1>1. DOMAIN t = 0 .. n - 1
  BY DEF IsScanTree, IsVector
<1>2. 0 \in DOMAIN t => t[0].parent # m
  BY <1>1 DEF IsScanTree, IsOfDisk, Root, invalid_node
<1>3. ASSUME NEW c \in 0 .. n - 1 PROVE c = 0 \/ c \in 1 .. n - 1
  OBVIOUS
<1>4. ASSUME NEW c \in 1 .. n - 1 PROVE c \in 0 .. n - 1
  OBVIOUS
<1>. QED
  BY <1>1, <1>2, <1>3, <1>4 DEF Children, Parents, IsBelow

\* Every node but the first has a parent that comes before it.
LEMMA ParentsClimb ==
  ASSUME NEW n \in Nat, NEW t, IsScanTree(t, n), NEW k \in 1 .. n - 1
  PROVE  /\ Parents(t)[k] = t[k].parent
         /\ t[k].parent \in 0 .. n - 1
         /\ t[k].parent < k
<1>1. DOMAIN t = 0 .. n - 1 /\ k \in 0 .. n - 1 /\ k # Root
  BY DEF IsScanTree, IsVector, Root
<1>. QED
  BY <1>1 DEF IsScanTree, IsOfDisk, Parents

\* The stages of aggregate(), see AggregatedSteps.
IsStages(n, t, a) ==
  /\ a \in [0 .. n -> Totals(t)]
  /\ a[n] = OwnTotals(t)
  /\ \A k \in 0 .. n - 1 : a[k] = AddedToParent(t, a[k + 1], k)

\* What one stage adds to the parent.
LEMMA StageFacts ==
  ASSUME NEW n \in Nat, NEW t, IsScanTree(t, n), NEW a, IsStages(n, t, a),
         NEW k \in 1 .. n - 1
  PROVE  /\ a[k][t[k].parent].bytes = AddedBytes(a[k + 1][t[k].parent].bytes, a[k + 1][k].bytes)
         /\ a[k][t[k].parent].files = a[k + 1][t[k].parent].files + a[k + 1][k].files
         /\ a[k][t[k].parent].directories =
              a[k + 1][t[k].parent].directories + a[k + 1][k].directories
              + IF k \in Directories(t) THEN 1 ELSE 0
         /\ \A m \in 0 .. n - 1 : m # t[k].parent => a[k][m] = a[k + 1][m]
<1>1. k \in 0 .. n - 1 /\ k + 1 \in 0 .. n /\ k # Root
  BY DEF Root
<1>. DEFINE was == a[k + 1]
            is == AddedToParent(t, was, k)
<1>2. was \in Totals(t) /\ a[k] = is
  BY <1>1 DEF IsStages
<1>. HIDE DEF was
<1>3. /\ \A x \in 0 .. n - 1 : x # t[k].parent => is[x] = was[x]
      /\ is[t[k].parent].bytes = AddedBytes(was[t[k].parent].bytes, was[k].bytes)
      /\ is[t[k].parent].files = was[t[k].parent].files + was[k].files
      /\ is[t[k].parent].directories = was[t[k].parent].directories + was[k].directories
                                       + IF k \in Directories(t) THEN 1 ELSE 0
  BY <1>1, <1>2, AddedToParentFacts, SMTT(30)
<1>. HIDE DEF is
<1>. QED
  BY <1>2, <1>3 DEF was

\* The stage of node 0 adds nothing: it has no parent.
LEMMA FirstStages ==
  ASSUME NEW n \in Nat \ {0}, NEW t, IsScanTree(t, n), NEW a, IsStages(n, t, a)
  PROVE  a[0] = a[1]
<1>1. 0 \in 0 .. n - 1 /\ 1 \in 0 .. n /\ 0 + 1 = 1 /\ 0 = Root
  BY DEF Root
<1>. DEFINE was == a[1]
            is == AddedToParent(t, was, 0)
<1>2. was \in Totals(t) /\ a[0] = is
  BY <1>1 DEF IsStages
<1>. HIDE DEF was
<1>3. is = was
  BY <1>1, <1>2, AddedToParentFacts
<1>. QED
  BY <1>2, <1>3 DEF was

\* All stages keep to the types of the totals.
LEMMA StageTypes ==
  ASSUME NEW n \in Nat, NEW t, IsScanTree(t, n), NEW a, IsStages(n, t, a),
         NEW k \in 0 .. n, NEW m \in 0 .. n - 1
  PROVE  /\ a[k][m].bytes \in 0 .. MaxBytes
         /\ a[k][m].files \in Nat
         /\ a[k][m].directories \in Nat
<1>1. DOMAIN t = 0 .. n - 1
  BY DEF IsScanTree, IsVector
<1>2. a[k] \in Totals(t)
  BY DEF IsStages
<1>3. a[k][m] \in NodeTotals
  BY <1>1, <1>2 DEF Totals
<1>. QED
  BY <1>3 DEF NodeTotals

\* Before the first addition every node counts for itself.
LEMMA LastStage ==
  ASSUME NEW n \in Nat, NEW t, IsScanTree(t, n), NEW a, IsStages(n, t, a),
         NEW m \in 0 .. n - 1
  PROVE  /\ a[n][m].bytes = ByteShare(t)[m]
         /\ a[n][m].files = FileShare(t)[m]
         /\ a[n][m].directories = 0
<1>1. m \in DOMAIN t
  BY DEF IsScanTree, IsVector
<1>2. a[n] = OwnTotals(t)
  BY DEF IsStages
<1>. QED
  BY <1>1, <1>2 DEF OwnTotals, ByteShare, FileShare

\* A small number is its own remainder.
LEMMA ModSmall ==
  ASSUME NEW m \in Nat \ {0}, NEW x \in 0 .. m - 1
  PROVE  x % m = x
<1>. DEFINE q == x \div m
            r == x % m
<1>1. x \in Nat
  OBVIOUS
<1>2. r \in 0 .. m - 1 /\ q \in Nat /\ x = q * m + r
  BY <1>1, ModFacts
<1>. HIDE DEF q, r
<1>3. q * m + r = 0 * m + x /\ q \in Int /\ 0 \in Int
  BY <1>1, <1>2
<1>4. r = x
  BY <1>2, <1>3, ModUnique
<1>. QED
  BY <1>4 DEF r

\* Each column of the totals, stage by stage; a folder that is no root counts for
\* itself too.
BytesByStage(n, a) == [k \in 0 .. n |-> [m \in 0 .. n - 1 |-> a[k][m].bytes]]
FilesByStage(n, a) == [k \in 0 .. n |-> [m \in 0 .. n - 1 |-> a[k][m].files]]
FoldersByStage(n, t, a) ==
  [k \in 0 .. n |-> [m \in 0 .. n - 1 |-> a[k][m].directories + FolderShare(t)[m]]]

\* The bytes climb modulo what a counter can hold.
LEMMA BytesClimb ==
  ASSUME NEW n \in Nat \ {0}, NEW t, IsScanTree(t, n), NEW a, IsStages(n, t, a),
         NEW v, v = BytesByStage(n, a)
  PROVE  IsClimb(n, Parents(t), Bounded, v)
<1>1. \A k \in 0 .. n : \A m \in 0 .. n - 1 : v[k][m] = a[k][m].bytes /\ v[k][m] \in 0 .. MaxBytes
  BY StageTypes DEF BytesByStage
<1>2. \A x \in 0 .. MaxBytes : x \in Nat /\ Bounded[x] = x
  <2>. DEFINE limit == MaxBytes + 1
  <2>1. limit \in Nat \ {0} /\ 0 .. MaxBytes = 0 .. limit - 1
    BY LimitsAssumption
  <2>. HIDE DEF limit
  <2>2. ASSUME NEW y \in 0 .. limit - 1 PROVE y % limit = y /\ y \in Nat
    <3>1. y \in Nat
      BY <2>1
    <3>. QED
      BY <2>1, <3>1, ModSmall
  <2>. QED
    BY <2>1, <2>2 DEF Bounded, limit
<1>3. \A x, y \in 0 .. MaxBytes : AddedBytes(x, y) = Bounded[x + y]
  <2>1. \A x, y \in 0 .. MaxBytes : x + y \in Nat
    BY LimitsAssumption
  <2>. QED
    BY <2>1 DEF Bounded, AddedBytes
<1>4. \A k \in 0 .. n : v[k] \in [0 .. n - 1 -> Nat]
  BY <1>1, <1>2 DEF BytesByStage
<1>5. ASSUME NEW k \in 1 .. n - 1
      PROVE  /\ v[k][Parents(t)[k]] = Bounded[v[k + 1][Parents(t)[k]] + v[k + 1][k]]
             /\ \A m \in 0 .. n - 1 : m # Parents(t)[k] => v[k][m] = v[k + 1][m]
             /\ Parents(t)[k] \in 0 .. n - 1 /\ Parents(t)[k] < k
  <2>. DEFINE p == t[k].parent
  <2>1. k \in 0 .. n /\ k + 1 \in 0 .. n /\ k \in 0 .. n - 1
    OBVIOUS
  <2>2. Parents(t)[k] = p /\ p \in 0 .. n - 1 /\ p < k
    BY ParentsClimb
  <2>3. /\ a[k][p].bytes = AddedBytes(a[k + 1][p].bytes, a[k + 1][k].bytes)
        /\ \A m \in 0 .. n - 1 : m # p => a[k][m] = a[k + 1][m]
    BY StageFacts
  <2>. HIDE DEF p
  <2>4. \A m \in 0 .. n - 1 : m # p => v[k][m] = v[k + 1][m]
    BY <1>1, <2>1, <2>3
  <2>5. v[k][p] = AddedBytes(v[k + 1][p], v[k + 1][k])
    BY <1>1, <2>1, <2>2, <2>3
  <2>6. v[k + 1][p] \in 0 .. MaxBytes /\ v[k + 1][k] \in 0 .. MaxBytes
    BY <1>1, <2>1, <2>2
  <2>7. AddedBytes(v[k + 1][p], v[k + 1][k]) = Bounded[v[k + 1][p] + v[k + 1][k]]
    BY <1>3, <2>6
  <2>. QED
    BY <2>2, <2>4, <2>5, <2>7
<1>6. v[0] = v[1]
  <2>1. 0 \in 0 .. n /\ 1 \in 0 .. n /\ a[0] = a[1]
    BY FirstStages
  <2>. QED
    BY <2>1 DEF BytesByStage
<1>7. \A k \in 0 .. n : \A m \in 0 .. n - 1 : Bounded[v[k][m]] = v[k][m]
  BY <1>1, <1>2
<1>. QED
  BY <1>4, <1>5, <1>6, <1>7 DEF IsClimb

\* One stage adds the files of a node to its parent's, and no others.
LEMMA FilesAtStage ==
  ASSUME NEW n \in Nat, NEW t, IsScanTree(t, n), NEW a, IsStages(n, t, a),
         NEW k \in 1 .. n - 1
  PROVE  /\ a[k][t[k].parent].files = a[k + 1][t[k].parent].files + a[k + 1][k].files
         /\ \A m \in 0 .. n - 1 : m # t[k].parent => a[k][m] = a[k + 1][m]
BY StageFacts

\* So do the files, without a bound.
LEMMA FilesClimb ==
  ASSUME NEW n \in Nat \ {0}, NEW t, IsScanTree(t, n), NEW a, IsStages(n, t, a),
         NEW v, v = FilesByStage(n, a)
  PROVE  IsClimb(n, Parents(t), Unbounded, v)
<1>1. \A k \in 0 .. n : \A m \in 0 .. n - 1 : v[k][m] = a[k][m].files /\ v[k][m] \in Nat
  BY StageTypes DEF FilesByStage
<1>2. \A x \in Nat : Unbounded[x] = x
  BY DEF Unbounded
<1>4. \A k \in 0 .. n : v[k] \in [0 .. n - 1 -> Nat]
  BY <1>1 DEF FilesByStage
<1>5. ASSUME NEW k \in 1 .. n - 1
      PROVE  /\ v[k][Parents(t)[k]] = Unbounded[v[k + 1][Parents(t)[k]] + v[k + 1][k]]
             /\ \A m \in 0 .. n - 1 : m # Parents(t)[k] => v[k][m] = v[k + 1][m]
             /\ Parents(t)[k] \in 0 .. n - 1 /\ Parents(t)[k] < k
  <2>. DEFINE p == t[k].parent
  <2>1. k \in 0 .. n /\ k + 1 \in 0 .. n /\ k \in 0 .. n - 1
    OBVIOUS
  <2>2. Parents(t)[k] = p /\ p \in 0 .. n - 1 /\ p < k
    BY ParentsClimb
  <2>3. /\ a[k][p].files = a[k + 1][p].files + a[k + 1][k].files
        /\ \A m \in 0 .. n - 1 : m # p => a[k][m] = a[k + 1][m]
    BY FilesAtStage
  <2>. HIDE DEF p
  <2>4. \A m \in 0 .. n - 1 : m # p => v[k][m] = v[k + 1][m]
    BY <1>1, <2>1, <2>3
  <2>5. v[k][p] = v[k + 1][p] + v[k + 1][k]
    BY <1>1, <2>1, <2>2, <2>3
  <2>6. v[k + 1][p] + v[k + 1][k] \in Nat
    <3>1. v[k + 1][p] \in Nat /\ v[k + 1][k] \in Nat
      BY <1>1, <2>1, <2>2
    <3>. QED
      BY <3>1, SMTT(30)
  <2>. QED
    BY <1>2, <2>2, <2>4, <2>5, <2>6, ZenonT(30)
<1>6. v[0] = v[1]
  <2>1. 0 \in 0 .. n /\ 1 \in 0 .. n /\ a[0] = a[1]
    BY FirstStages
  <2>. QED
    BY <2>1 DEF FilesByStage
<1>7. \A k \in 0 .. n : \A m \in 0 .. n - 1 : Unbounded[v[k][m]] = v[k][m]
  BY <1>1, <1>2
<1>. QED
  BY <1>4, <1>5, <1>6, <1>7 DEF IsClimb

\* One stage adds a folder and the folders in it to its parent, and no others.
LEMMA FoldersAtStage ==
  ASSUME NEW n \in Nat, NEW t, IsScanTree(t, n), NEW a, IsStages(n, t, a),
         NEW k \in 1 .. n - 1,
         NEW s, \A m \in 1 .. n - 1 : s[m] = IF m \in Directories(t) THEN 1 ELSE 0
  PROVE  /\ a[k][t[k].parent].directories =
              a[k + 1][t[k].parent].directories + a[k + 1][k].directories + s[k]
         /\ \A m \in 0 .. n - 1 : m # t[k].parent => a[k][m] = a[k + 1][m]
BY StageFacts

\* A folder adds itself to its parent with the folders below it.
LEMMA FoldersClimb ==
  ASSUME NEW n \in Nat \ {0}, NEW t, IsScanTree(t, n), NEW a, IsStages(n, t, a),
         NEW v, v = FoldersByStage(n, t, a)
  PROVE  IsClimb(n, Parents(t), Unbounded, v)
<1>a. DOMAIN t = 0 .. n - 1
  BY DEF IsScanTree, IsVector
<1>b. \A m \in 0 .. n - 1 : FolderShare(t)[m] \in Nat
  BY <1>a DEF FolderShare
<1>c. \A m \in 1 .. n - 1 : FolderShare(t)[m] = IF m \in Directories(t) THEN 1 ELSE 0
  <2>1. \A m \in 1 .. n - 1 : m \in 0 .. n - 1 /\ m # Root
    BY DEF Root
  <2>. QED
    BY <1>a, <2>1 DEF FolderShare
<1>1. \A k \in 0 .. n : \A m \in 0 .. n - 1 :
        v[k][m] = a[k][m].directories + FolderShare(t)[m] /\ v[k][m] \in Nat
  <2>1. ASSUME NEW k \in 0 .. n, NEW m \in 0 .. n - 1
        PROVE  v[k][m] = a[k][m].directories + FolderShare(t)[m] /\ v[k][m] \in Nat
    <3>1. a[k][m].directories \in Nat /\ FolderShare(t)[m] \in Nat
      BY <1>b, StageTypes
    <3>. QED
      BY <3>1 DEF FoldersByStage
  <2>. QED
    BY <2>1
<1>2. \A x \in Nat : Unbounded[x] = x
  BY DEF Unbounded
<1>4. \A k \in 0 .. n : v[k] \in [0 .. n - 1 -> Nat]
  BY <1>1 DEF FoldersByStage
<1>5. ASSUME NEW k \in 1 .. n - 1
      PROVE  /\ v[k][Parents(t)[k]] = Unbounded[v[k + 1][Parents(t)[k]] + v[k + 1][k]]
             /\ \A m \in 0 .. n - 1 : m # Parents(t)[k] => v[k][m] = v[k + 1][m]
             /\ Parents(t)[k] \in 0 .. n - 1 /\ Parents(t)[k] < k
  <2>. DEFINE p == t[k].parent
  <2>1. k \in 0 .. n /\ k + 1 \in 0 .. n /\ k \in 0 .. n - 1
    OBVIOUS
  <2>2. Parents(t)[k] = p /\ p \in 0 .. n - 1 /\ p < k
    BY ParentsClimb
  <2>3. /\ a[k][p].directories = a[k + 1][p].directories + a[k + 1][k].directories
                                 + FolderShare(t)[k]
        /\ \A m \in 0 .. n - 1 : m # p => a[k][m] = a[k + 1][m]
    BY <1>c, FoldersAtStage
  <2>. HIDE DEF p
  <2>4. \A m \in 0 .. n - 1 : m # p => v[k][m] = v[k + 1][m]
    BY <1>1, <2>1, <2>3
  <2>5. v[k][p] = v[k + 1][p] + v[k + 1][k]
    <3>1. /\ a[k + 1][p].directories \in Nat /\ a[k + 1][k].directories \in Nat
          /\ FolderShare(t)[k] \in Nat /\ FolderShare(t)[p] \in Nat
      BY <1>b, <2>1, <2>2, StageTypes
    <3>2. /\ v[k][p] = a[k][p].directories + FolderShare(t)[p]
          /\ v[k + 1][p] = a[k + 1][p].directories + FolderShare(t)[p]
          /\ v[k + 1][k] = a[k + 1][k].directories + FolderShare(t)[k]
      BY <1>1, <2>1, <2>2
    <3>. QED
      BY <2>3, <3>1, <3>2, SMTT(30)
  <2>6. v[k + 1][p] + v[k + 1][k] \in Nat
    <3>1. v[k + 1][p] \in Nat /\ v[k + 1][k] \in Nat
      BY <1>1, <2>1, <2>2
    <3>. QED
      BY <3>1, SMTT(30)
  <2>. QED
    BY <1>2, <2>2, <2>4, <2>5, <2>6, ZenonT(30)
<1>6. v[0] = v[1]
  <2>1. 0 \in 0 .. n /\ 1 \in 0 .. n /\ a[0] = a[1]
    BY FirstStages
  <2>. QED
    BY <2>1 DEF FoldersByStage
<1>7. \A k \in 0 .. n : \A m \in 0 .. n - 1 : Unbounded[v[k][m]] = v[k][m]
  BY <1>1, <1>2
<1>. QED
  BY <1>4, <1>5, <1>6, <1>7 DEF IsClimb

\* The shares can be summed.
LEMMA SharesAreNatural ==
  ASSUME NEW n \in Nat, NEW t, IsScanTree(t, n), NEW s \in SUBSET (0 .. n - 1)
  PROVE  /\ IsSummable(ByteShare(t), s)
         /\ IsSummable(FileShare(t), s)
         /\ IsSummable(FolderShare(t), s)
<1>1. DOMAIN t = 0 .. n - 1 /\ IsFiniteSet(s)
  BY FiniteInterval DEF IsScanTree, IsVector
<1>2. ASSUME NEW m \in 0 .. n - 1 PROVE t[m].size \in Nat
  <2>1. t[m] \in NodeRecords
    BY DEF IsScanTree, IsVector
  <2>2. \A x \in 0 .. MaxBytes : x \in Nat
    BY LimitsAssumption
  <2>. QED
    BY <2>1, <2>2 DEF NodeRecords
<1>. QED
  BY <1>1, <1>2 DEF IsSummable, ByteShare, FileShare, FolderShare

\* The totals of a tree are the last of its stages.
LEMMA StagesOf ==
  ASSUME NEW n \in Nat, NEW t, IsScanTree(t, n)
  PROVE  /\ Aggregated(t) \in Totals(t)
         /\ \E a : IsStages(n, t, a) /\ a[0] = Aggregated(t)
<1>1. PICK a \in [0 .. n -> Totals(t)] :
           /\ a[n] = OwnTotals(t)
           /\ \A k \in 0 .. n - 1 : a[k] = AddedToParent(t, a[k + 1], k)
           /\ Aggregated(t) = a[0]
  BY AggregatedSteps
<1>2. a[0] \in Totals(t)
  BY <1>1
<1>3. IsStages(n, t, a)
  BY <1>1 DEF IsStages
<1>. QED
  BY <1>1, <1>2, <1>3

\* What one column of the totals comes to, when it climbs from share.
LEMMA ColumnTotals ==
  ASSUME NEW n \in Nat \ {0}, NEW t, IsScanTree(t, n),
         NEW red, IsReduction(red), NEW v, IsClimb(n, Parents(t), red, v),
         NEW share, \A j \in 0 .. n - 1 : v[n][j] = share[j],
         IsSummable(share, 0 .. n - 1)
  PROVE  /\ v[0][0] = red[SumOver(share, 0 .. n - 1)]
         /\ \A m \in 0 .. n - 1 : v[0][m] = red[share[m] + SumOver(v[0], Children(t, m))]
<1>. DEFINE all == 0 .. n - 1
            last == v[n]
<1>1. SumOver(last, all) = SumOver(share, all)
  <2>1. \A j \in all : last[j] = share[j]
    OBVIOUS
  <2>2. IsSummable(last, all) /\ IsSummable(share, all)
    BY <2>1 DEF IsSummable
  <2>. HIDE DEF all, last
  <2>. QED
    BY <2>1, <2>2, SumCongruence
<1>2. v[0][0] = red[SumOver(v[n], 0 .. n - 1)]
  BY ClimbTotal
<1>3. ASSUME NEW m \in 0 .. n - 1
      PROVE  v[0][m] = red[share[m] + SumOver(v[0], Children(t, m))]
  <2>. DEFINE up == Parents(t)
              children == Children(t, m)
  <2>1. IsClimb(n, up, red, v) /\ IsBelow(n, up, m, children)
    BY ChildrenAre
  <2>. HIDE DEF up, children
  <2>2. v[0][m] = red[v[n][m] + SumOver(v[0], children)]
    BY <2>1, ClimbChildren
  <2>. QED
    BY <2>2 DEF children
<1>. QED
  BY <1>1, <1>2, <1>3

\* Children are nodes.
LEMMA ChildrenWithin ==
  ASSUME NEW n \in Nat, NEW t, IsScanTree(t, n), NEW m
  PROVE  Children(t, m) \in SUBSET (0 .. n - 1)
BY DEF Children, IsScanTree, IsVector

\* Columns of the totals.
BytesOf(t, a) == [m \in DOMAIN t |-> a[m].bytes]
FilesOf(t, a) == [m \in DOMAIN t |-> a[m].files]
FoldersOf(t, a) == [m \in DOMAIN t |-> a[m].directories]

\* The columns can be summed.
LEMMA ColumnsAreNatural ==
  ASSUME NEW n \in Nat, NEW t, IsScanTree(t, n), NEW a \in Totals(t),
         NEW s \in SUBSET (0 .. n - 1)
  PROVE  /\ IsSummable(BytesOf(t, a), s)
         /\ IsSummable(FilesOf(t, a), s)
         /\ IsSummable(FoldersOf(t, a), s)
<1>1. DOMAIN t = 0 .. n - 1 /\ IsFiniteSet(s)
  BY FiniteInterval DEF IsScanTree, IsVector
<1>2. ASSUME NEW m \in 0 .. n - 1
      PROVE a[m].bytes \in Nat /\ a[m].files \in Nat /\ a[m].directories \in Nat
  <2>1. a[m] \in NodeTotals
    BY <1>1 DEF Totals
  <2>2. \A x \in 0 .. MaxBytes : x \in Nat
    BY LimitsAssumption
  <2>. QED
    BY <2>1, <2>2 DEF NodeTotals
<1>. QED
  BY <1>1, <1>2 DEF IsSummable, BytesOf, FilesOf, FoldersOf

\* The bytes of the whole tree and of each folder.
LEMMA BytesTotals ==
  ASSUME NEW n \in Nat \ {0}, NEW t, IsScanTree(t, n),
         NEW T, T = Aggregated(t)
  PROVE  /\ T[0].bytes = Bounded[SumOver(ByteShare(t), 0 .. n - 1)]
         /\ \A m \in Directories(t) :
              T[m].bytes = Bounded[SumOver(BytesOf(t, T), Children(t, m))]
<1>0. DOMAIN t = 0 .. n - 1 /\ n \in Nat /\ n \in 0 .. n /\ 0 \in 0 .. n /\ 0 \in 0 .. n - 1
  BY DEF IsScanTree, IsVector
<1>1. PICK a : IsStages(n, t, a) /\ a[0] = T
  BY <1>0, StagesOf
<1>. DEFINE v == [k \in 0 .. n |-> [m \in 0 .. n - 1 |-> a[k][m].bytes]]
<1>2. IsClimb(n, Parents(t), Bounded, v)
  BY <1>1, BytesClimb DEF BytesByStage
<1>3. \A j \in 0 .. n - 1 : v[n][j] = ByteShare(t)[j]
  BY <1>0, <1>1, LastStage
<1>4. v[0] = BytesOf(t, T)
  BY <1>0, <1>1 DEF BytesOf
<1>5. v[0][0] = T[0].bytes /\ \A m \in 0 .. n - 1 : v[0][m] = T[m].bytes
  BY <1>0, <1>1
<1>. HIDE DEF v
<1>6. IsSummable(ByteShare(t), 0 .. n - 1)
  BY <1>0, SharesAreNatural
<1>7. /\ v[0][0] = Bounded[SumOver(ByteShare(t), 0 .. n - 1)]
      /\ \A m \in 0 .. n - 1 :
           v[0][m] = Bounded[ByteShare(t)[m] + SumOver(v[0], Children(t, m))]
  BY <1>2, <1>3, <1>6, BoundedReduces, ColumnTotals
<1>8. ASSUME NEW m \in Directories(t)
      PROVE  T[m].bytes = Bounded[SumOver(BytesOf(t, T), Children(t, m))]
  <2>1. m \in 0 .. n - 1 /\ ByteShare(t)[m] = 0
    BY <1>0 DEF Directories, ByteShare
  <2>2. SumOver(v[0], Children(t, m)) \in Nat
    <3>1. T \in Totals(t)
      BY <1>0, StagesOf
    <3>2. IsSummable(v[0], Children(t, m))
      BY <1>0, <1>4, <3>1, ChildrenWithin, ColumnsAreNatural
    <3>. QED
      BY <3>2, SumType
  <2>3. 0 + SumOver(v[0], Children(t, m)) = SumOver(v[0], Children(t, m))
    BY <2>2
  <2>. QED
    BY <1>4, <1>5, <1>7, <2>1, <2>3
<1>. QED
  BY <1>5, <1>7, <1>8

\* The files of the whole tree and of each folder.
LEMMA FilesTotals ==
  ASSUME NEW n \in Nat \ {0}, NEW t, IsScanTree(t, n),
         NEW T, T = Aggregated(t)
  PROVE  /\ T[0].files = SumOver(FileShare(t), 0 .. n - 1)
         /\ \A m \in Directories(t) :
              T[m].files = SumOver(FilesOf(t, T), Children(t, m))
<1>0. DOMAIN t = 0 .. n - 1 /\ n \in Nat /\ n \in 0 .. n /\ 0 \in 0 .. n /\ 0 \in 0 .. n - 1
  BY DEF IsScanTree, IsVector
<1>1. PICK a : IsStages(n, t, a) /\ a[0] = T
  BY <1>0, StagesOf
<1>. DEFINE v == [k \in 0 .. n |-> [m \in 0 .. n - 1 |-> a[k][m].files]]
<1>2. IsClimb(n, Parents(t), Unbounded, v)
  BY <1>1, FilesClimb DEF FilesByStage
<1>3. \A j \in 0 .. n - 1 : v[n][j] = FileShare(t)[j]
  BY <1>0, <1>1, LastStage
<1>4. v[0] = FilesOf(t, T)
  BY <1>0, <1>1 DEF FilesOf
<1>5. v[0][0] = T[0].files /\ \A m \in 0 .. n - 1 : v[0][m] = T[m].files
  BY <1>0, <1>1
<1>. HIDE DEF v
<1>6. IsSummable(FileShare(t), 0 .. n - 1)
  BY <1>0, SharesAreNatural
<1>7. /\ v[0][0] = Unbounded[SumOver(FileShare(t), 0 .. n - 1)]
      /\ \A m \in 0 .. n - 1 :
           v[0][m] = Unbounded[FileShare(t)[m] + SumOver(v[0], Children(t, m))]
  BY <1>2, <1>3, <1>6, UnboundedReduces, ColumnTotals
<1>8. ASSUME NEW m \in Directories(t)
      PROVE  T[m].files = SumOver(FilesOf(t, T), Children(t, m))
  <2>1. m \in 0 .. n - 1 /\ FileShare(t)[m] = 0
    BY <1>0 DEF Directories, FileShare
  <2>2. SumOver(v[0], Children(t, m)) \in Nat
    <3>1. T \in Totals(t)
      BY <1>0, StagesOf
    <3>2. IsSummable(v[0], Children(t, m))
      BY <1>0, <1>4, <3>1, ChildrenWithin, ColumnsAreNatural
    <3>. QED
      BY <3>2, SumType
  <2>3. 0 + SumOver(v[0], Children(t, m)) = SumOver(v[0], Children(t, m))
    BY <2>2
  <2>4. Unbounded[SumOver(v[0], Children(t, m))] = SumOver(v[0], Children(t, m))
    BY <2>2 DEF Unbounded
  <2>. QED
    BY <1>4, <1>5, <1>7, <2>1, <2>3, <2>4
<1>9. Unbounded[SumOver(FileShare(t), 0 .. n - 1)] = SumOver(FileShare(t), 0 .. n - 1)
  BY <1>6, SumType DEF Unbounded
<1>. QED
  BY <1>5, <1>7, <1>8, <1>9

\* How many members of D there are with and without c.
LEMMA OneMore ==
  ASSUME NEW s, IsFiniteSet(s), NEW c \in s, NEW D
  PROVE  Cardinality(s \cap D) = Cardinality((s \ {c}) \cap D) + IF c \in D THEN 1 ELSE 0
<1>. DEFINE R == (s \ {c}) \cap D
<1>1. IsFiniteSet(R) /\ c \notin R
  BY FS_Subset
<1>2. Cardinality(R) \in Nat /\ Cardinality(R \cup {c}) = Cardinality(R) + 1
  BY <1>1, FS_CardinalityType, FS_AddElement
<1>3. s \cap D = IF c \in D THEN R \cup {c} ELSE R
  OBVIOUS
<1>. HIDE DEF R
<1>4. CASE c \in D
  BY <1>2, <1>3, <1>4 DEF R
<1>5. CASE c \notin D
  BY <1>2, <1>3, <1>5 DEF R
<1>. QED
  BY <1>4, <1>5

\* A sum of which each member of a set gets one more.
LEMMA SumWithOnes ==
  ASSUME NEW S, IsFiniteSet(S), NEW D, NEW f, NEW g, \A x \in S : f[x] \in Nat,
         \A x \in S : g[x] = f[x] + IF x \in D THEN 1 ELSE 0
  PROVE  SumOver(g, S) = SumOver(f, S) + Cardinality(S \cap D)
<1>. DEFINE Good == {s \in SUBSET S : SumOver(g, s) = SumOver(f, s) + Cardinality(s \cap D)}
<1>1. ASSUME NEW s \in SUBSET S,
             \A u \in SUBSET S : Cardinality(u) < Cardinality(s) => u \in Good
      PROVE  s \in Good
  <2>1. IsFiniteSet(s) /\ IsSummable(f, s) /\ IsSummable(g, s)
    <3>1. IsFiniteSet(s)
      BY FS_Subset
    <3>2. ASSUME NEW x \in S PROVE g[x] \in Nat
      <4>1. f[x] \in Nat /\ g[x] = f[x] + IF x \in D THEN 1 ELSE 0
        OBVIOUS
      <4>. QED
        BY <4>1
    <3>. QED
      BY <3>1, <3>2 DEF IsSummable
  <2>2. CASE s = {}
    <3>1. s \cap D = {} /\ Cardinality(s \cap D) = 0
      BY <2>2, FS_EmptySet
    <3>2. SumOver(g, s) = 0 /\ SumOver(f, s) = 0
      BY <2>2, SumEmpty
    <3>. QED
      BY <3>1, <3>2
  <2>3. CASE s # {}
    <3>. DEFINE c == Some(s)
                R == s \ {c}
    <3>1. /\ c \in s
          /\ SumOver(f, s) = f[c] + SumOver(f, R)
          /\ SumOver(g, s) = g[c] + SumOver(g, R)
      BY <2>1, <2>3, SumPicked
    <3>2. IsFiniteSet(R) /\ Cardinality(R) < Cardinality(s) /\ R \in SUBSET S
      <4>1. Cardinality(s) \in Nat /\ Cardinality(R) = Cardinality(s) - 1
        BY <2>1, <3>1, FS_CardinalityType, FS_RemoveElement
      <4>2. IsFiniteSet(R)
        BY <2>1, FS_Subset
      <4>. QED
        BY <4>1, <4>2
    <3>3. SumOver(g, R) = SumOver(f, R) + Cardinality(R \cap D)
      BY <1>1, <3>2
    <3>4. SumOver(f, R) \in Nat
      <4>1. IsSummable(f, R)
        BY <3>2 DEF IsSummable
      <4>. QED
        BY <4>1, SumType
    <3>5. Cardinality(s \cap D) = Cardinality(R \cap D) + IF c \in D THEN 1 ELSE 0
      BY <2>1, <3>1, OneMore
    <3>6. Cardinality(R \cap D) \in Nat /\ f[c] \in Nat /\ g[c] = f[c] + IF c \in D THEN 1 ELSE 0
      <4>1. IsFiniteSet(R \cap D)
        BY <3>2, FS_Subset
      <4>. QED
        BY <3>1, <4>1, FS_CardinalityType
    <3>. DEFINE a == SumOver(f, R)
                b == Cardinality(R \cap D)
                e == IF c \in D THEN 1 ELSE 0
                h == f[c]
    <3>7. SumOver(g, s) = (h + e) + (a + b) /\ SumOver(f, s) + Cardinality(s \cap D) = (h + a) + (b + e)
      BY <3>1, <3>3, <3>5, <3>6
    <3>8. a \in Nat /\ b \in Nat /\ e \in Nat /\ h \in Nat
      BY <3>4, <3>6
    <3>. HIDE DEF a, b, e, h, c, R, Good
    <3>9. (h + e) + (a + b) = (h + a) + (b + e)
      BY <3>8
    <3>. QED
      BY <3>7, <3>9 DEF Good
  <2>. QED
    BY <2>2, <2>3
<1>2. \A s \in SUBSET S : s \in Good
  <2>. HIDE DEF Good
  <2>. QED
    BY <1>1, AllSubsets
<1>. QED
  BY <1>2

\* The folders of the whole tree and of each folder.
LEMMA FoldersTotals ==
  ASSUME NEW n \in Nat \ {0}, NEW t, IsScanTree(t, n),
         NEW T, T = Aggregated(t)
  PROVE  /\ T[0].directories = SumOver(FolderShare(t), 0 .. n - 1)
         /\ \A m \in Directories(t) :
              T[m].directories = SumOver(FoldersOf(t, T), Children(t, m))
                                 + Cardinality(Children(t, m) \cap Directories(t))
<1>0. DOMAIN t = 0 .. n - 1 /\ n \in Nat /\ n \in 0 .. n /\ 0 \in 0 .. n /\ 0 \in 0 .. n - 1
  BY DEF IsScanTree, IsVector
<1>1. PICK a : IsStages(n, t, a) /\ a[0] = T
  BY <1>0, StagesOf
<1>a. T \in Totals(t)
  BY <1>0, StagesOf
<1>b. ASSUME NEW j \in 0 .. n - 1
      PROVE T[j].directories \in Nat /\ FolderShare(t)[j] \in Nat
  BY <1>0, <1>a DEF Totals, NodeTotals, FolderShare
<1>. DEFINE v == [k \in 0 .. n |->
                   [m \in 0 .. n - 1 |-> a[k][m].directories + FolderShare(t)[m]]]
<1>2. IsClimb(n, Parents(t), Unbounded, v)
  BY <1>1, FoldersClimb DEF FoldersByStage
<1>3. \A j \in 0 .. n - 1 : v[n][j] = FolderShare(t)[j]
  <2>1. ASSUME NEW j \in 0 .. n - 1 PROVE v[n][j] = FolderShare(t)[j]
    <3>1. a[n][j].directories = 0
      BY <1>0, <1>1, LastStage
    <3>2. v[n][j] = 0 + FolderShare(t)[j]
      BY <1>0, <3>1
    <3>. QED
      BY <1>b, <3>2
  <2>. QED
    BY <2>1
<1>4. \A j \in 0 .. n - 1 : v[0][j] = T[j].directories + FolderShare(t)[j]
  BY <1>0, <1>1
<1>. HIDE DEF v
<1>6. IsSummable(FolderShare(t), 0 .. n - 1)
  BY <1>0, SharesAreNatural
<1>7. /\ v[0][0] = Unbounded[SumOver(FolderShare(t), 0 .. n - 1)]
      /\ \A m \in 0 .. n - 1 :
           v[0][m] = Unbounded[FolderShare(t)[m] + SumOver(v[0], Children(t, m))]
  BY <1>2, <1>3, <1>6, UnboundedReduces, ColumnTotals
<1>8. ASSUME NEW m \in Directories(t)
      PROVE  T[m].directories = SumOver(FoldersOf(t, T), Children(t, m))
                                + Cardinality(Children(t, m) \cap Directories(t))
  <2>1. m \in 0 .. n - 1
    BY <1>0 DEF Directories
  <2>. DEFINE all == Children(t, m)
              folders == FoldersOf(t, T)
              raised == v[0]
              known == Directories(t)
  <2>2. all \in SUBSET (0 .. n - 1) /\ IsFiniteSet(all) /\ Root \notin all
    <3>1. all \in SUBSET (0 .. n - 1)
      BY <1>0, ChildrenWithin
    <3>2. Root \notin all
      BY <2>1 DEF IsScanTree, IsOfDisk, Children, invalid_node
    <3>. HIDE DEF all
    <3>. QED
      BY <1>0, <3>1, <3>2, FiniteInterval
  <2>3. ASSUME NEW x \in all
        PROVE  folders[x] \in Nat /\ raised[x] = folders[x] + IF x \in known THEN 1 ELSE 0
    <3>1. x \in 0 .. n - 1 /\ x # Root
      BY <2>2
    <3>2. folders[x] = T[x].directories /\ raised[x] = T[x].directories + FolderShare(t)[x]
      BY <1>0, <1>4, <3>1 DEF FoldersOf
    <3>3. FolderShare(t)[x] = IF x \in known THEN 1 ELSE 0
      BY <1>0, <3>1 DEF FolderShare
    <3>. QED
      BY <1>b, <3>1, <3>2, <3>3
  <2>4. IsSummable(folders, all)
    BY <1>0, <1>a, <2>2, ColumnsAreNatural
  <2>. HIDE DEF all, folders, raised, known
  <2>5. SumOver(raised, all) = SumOver(folders, all) + Cardinality(all \cap known)
    BY <2>2, <2>3, SumWithOnes
  <2>6. SumOver(folders, all) \in Nat /\ Cardinality(all \cap known) \in Nat
    <3>1. IsFiniteSet(all \cap known)
      BY <2>2, FS_Subset
    <3>. QED
      BY <2>4, <3>1, SumType, FS_CardinalityType
  <2>7. T[m].directories \in Nat /\ FolderShare(t)[m] \in Nat
        /\ v[0][m] = T[m].directories + FolderShare(t)[m]
    BY <1>b, <1>4, <2>1
  <2>8. v[0][m] = Unbounded[FolderShare(t)[m] + SumOver(raised, all)]
    BY <1>7, <2>1 DEF raised, all
  <2>. DEFINE x == SumOver(folders, all) + Cardinality(all \cap known)
  <2>9. x \in Nat
    BY <2>6
  <2>10. FolderShare(t)[m] + x \in Nat /\ v[0][m] = Unbounded[FolderShare(t)[m] + x]
    BY <2>5, <2>7, <2>8, <2>9
  <2>. HIDE DEF x
  <2>11. v[0][m] = FolderShare(t)[m] + x
    BY <2>10 DEF Unbounded
  <2>12. T[m].directories = x
    BY <2>7, <2>9, <2>11
  <2>. QED
    BY <2>12 DEF x, folders, all, known
<1>9. T[0].directories = SumOver(FolderShare(t), 0 .. n - 1)
  <2>1. Unbounded[SumOver(FolderShare(t), 0 .. n - 1)] = SumOver(FolderShare(t), 0 .. n - 1)
    BY <1>6, SumType DEF Unbounded
  <2>2. FolderShare(t)[0] = 0
    BY <1>0 DEF FolderShare, Root
  <2>3. v[0][0] = T[0].directories + 0
    BY <1>0, <1>4, <2>2
  <2>4. T[0].directories \in Nat
    BY <1>0, <1>b
  <2>. QED
    BY <1>7, <2>1, <2>3, <2>4
<1>. QED
  BY <1>8, <1>9

-----------------------------------------------------------------------------
(***************************************************************************)
(* The totals of a walk.                                                   *)
(***************************************************************************)

\* The progress has what the nodes of the tree come to.
IsTotalled(t, q) ==
  /\ q.logicalBytes = Bounded[SumOver(ByteShare(t), DOMAIN t)]
  /\ q.files = SumOver(FileShare(t), DOMAIN t)
  /\ q.directories = SumOver(FolderShare(t), DOMAIN t)

\* What IInv does not say: the progress agrees with the tree, and the result
\* has the totals of the tree it is returned with.
TInv ==
  /\ IsTotalled(tree, progress)
  /\ completion \in {"Completed", "Cancelled"} =>
       totals = Aggregated(tree) /\ published = progress
  /\ completion = "Completed" => tree # EmptyTree

\* Marks change nothing of what a tree comes to.
LEMMA FlaggedShares ==
  ASSUME NEW n \in Nat, NEW t, IsScanTree(t, n),
         NEW p \in DOMAIN t, NEW f \in SUBSET {"Inaccessible", "Incomplete"},
         NEW a, a = Flagged(t, p, f)
  PROVE  /\ DOMAIN a = DOMAIN t
         /\ ByteShare(a) = ByteShare(t)
         /\ FileShare(a) = FileShare(t)
         /\ FolderShare(a) = FolderShare(t)
<1>1. DOMAIN t = 0 .. n - 1 /\ IsVector(t, n) /\ f \in SUBSET Flags
  BY DEF IsScanTree, IsVector, Flags
<1>2. IsVector(a, n) /\ \A m \in 0 .. n - 1 : a[m].size = t[m].size
  BY <1>1, FlaggedFacts
<1>3. Directories(a) = Directories(t)
  BY <1>1, FlaggedKeepsTree
<1>4. DOMAIN a = DOMAIN t
  BY <1>1, <1>2 DEF IsVector
<1>. QED
  BY <1>1, <1>2, <1>3, <1>4 DEF ByteShare, FileShare, FolderShare

\* What an entry adds to the counts.
FileCount(i) == IF i \in Folders THEN 0 ELSE 1
FolderCount(i) == IF i \in Folders THEN 1 ELSE 0

\* A sum with one more node.
LEMMA SumGrows ==
  ASSUME NEW f, NEW g, NEW S, NEW x, x \notin S,
         IsSummable(g, S \cup {x}), \A y \in S : g[y] = f[y]
  PROVE  SumOver(g, S \cup {x}) = g[x] + SumOver(f, S) /\ SumOver(f, S) \in Nat
         /\ g[x] \in Nat
<1>1. SumOver(g, S \cup {x}) = g[x] + SumOver(g, S)
  BY SumAdded
<1>2. IsSummable(g, S)
  <2>1. S \in SUBSET (S \cup {x})
    OBVIOUS
  <2>. QED
    BY <2>1, SummableParts
<1>3. SumOver(g, S) = SumOver(f, S) /\ SumOver(g, S) \in Nat
  BY <1>2, SumCongruence, SumType
<1>4. g[x] \in Nat
  BY DEF IsSummable
<1>. QED
  BY <1>1, <1>3, <1>4

\* A new node adds its own share to what a tree comes to.
LEMMA AppendedTotals ==
  ASSUME NEW n \in Nat, NEW t, IsScanTree(t, n), NEW p \in 0 .. n - 1,
         t[p].item \in Folders \ Links,
         NEW i \in Contents[t[p].item], i \notin Found(t, p),
         NEW a, a = Appended(t, p, i, SizeOf(i), FlagsOf(i))
  PROVE  /\ SumOver(ByteShare(a), DOMAIN a) = SizeOf(i) + SumOver(ByteShare(t), DOMAIN t)
         /\ SumOver(FileShare(a), DOMAIN a) = FileCount(i) + SumOver(FileShare(t), DOMAIN t)
         /\ SumOver(FolderShare(a), DOMAIN a)
              = FolderCount(i) + SumOver(FolderShare(t), DOMAIN t)
         /\ SizeOf(i) \in Nat
         /\ SumOver(ByteShare(t), DOMAIN t) \in Nat
         /\ SumOver(FileShare(t), DOMAIN t) \in Nat
         /\ SumOver(FolderShare(t), DOMAIN t) \in Nat
<1>. DEFINE before == 0 .. n - 1
<1>1. /\ IsScanTree(a, n + 1) /\ DOMAIN t = before /\ DOMAIN a = before \cup {n}
      /\ \A m \in before : /\ ByteShare(a)[m] = ByteShare(t)[m]
                           /\ FileShare(a)[m] = FileShare(t)[m]
                           /\ FolderShare(a)[m] = FolderShare(t)[m]
      /\ ByteShare(a)[n] = SizeOf(i)
      /\ FileShare(a)[n] = FileCount(i)
      /\ FolderShare(a)[n] = FolderCount(i)
  <2>1. i \in Items
    BY DiskAssumption
  <2>2. /\ IsScanTree(a, n + 1)
        /\ a[n].flags = FlagsOf(i) /\ a[n].size = SizeOf(i)
        /\ \A m \in 0 .. n - 1 : a[m].flags = t[m].flags /\ a[m].size = t[m].size
    BY AppendedKeepsTree
  <2>3. DOMAIN t = 0 .. n - 1 /\ DOMAIN a = (0 .. n - 1) \cup {n}
    <3>1. DOMAIN a = 0 .. (n + 1) - 1 /\ DOMAIN t = 0 .. n - 1
      BY <2>2 DEF IsScanTree, IsVector
    <3>2. 0 .. (n + 1) - 1 = (0 .. n - 1) \cup {n}
      OBVIOUS
    <3>. QED
      BY <3>1, <3>2
  <2>4. n # Root
    BY DEF Root
  <2>5. \A m \in 0 .. n - 1 : m \in Directories(a) <=> m \in Directories(t)
    BY <2>2, <2>3 DEF Directories
  <2>6. n \in Directories(a) <=> i \in Folders
    BY <2>1, <2>2, <2>3, EntryFacts DEF Directories
  <2>7. i \in Folders => SizeOf(i) = 0
    BY DEF SizeOf
  <2>. QED
    BY <2>2, <2>3, <2>4, <2>5, <2>6, <2>7
    DEF ByteShare, FileShare, FolderShare, FileCount, FolderCount
<1>2. n \notin before
  OBVIOUS
<1>3. /\ IsSummable(ByteShare(a), before \cup {n})
      /\ IsSummable(FileShare(a), before \cup {n})
      /\ IsSummable(FolderShare(a), before \cup {n})
  <2>1. before \cup {n} \in SUBSET (0 .. (n + 1) - 1) /\ n + 1 \in Nat
    OBVIOUS
  <2>. HIDE DEF before
  <2>. QED
    BY <1>1, <2>1, SharesAreNatural
<1>. HIDE DEF before
<1>4. /\ SumOver(ByteShare(a), before \cup {n})
           = ByteShare(a)[n] + SumOver(ByteShare(t), before)
      /\ SumOver(ByteShare(t), before) \in Nat /\ ByteShare(a)[n] \in Nat
  <2>. DEFINE was == ByteShare(t)
              is == ByteShare(a)
  <2>1. IsSummable(is, before \cup {n}) /\ \A m \in before : is[m] = was[m]
    BY <1>1, <1>3
  <2>. HIDE DEF was, is
  <2>2. /\ SumOver(is, before \cup {n}) = is[n] + SumOver(was, before)
        /\ SumOver(was, before) \in Nat /\ is[n] \in Nat
    BY <1>2, <2>1, SumGrows
  <2>. QED
    BY <2>2 DEF was, is
<1>5. /\ SumOver(FileShare(a), before \cup {n})
           = FileShare(a)[n] + SumOver(FileShare(t), before)
      /\ SumOver(FileShare(t), before) \in Nat
  <2>. DEFINE was == FileShare(t)
              is == FileShare(a)
  <2>1. IsSummable(is, before \cup {n}) /\ \A m \in before : is[m] = was[m]
    BY <1>1, <1>3
  <2>. HIDE DEF was, is
  <2>2. /\ SumOver(is, before \cup {n}) = is[n] + SumOver(was, before)
        /\ SumOver(was, before) \in Nat /\ is[n] \in Nat
    BY <1>2, <2>1, SumGrows
  <2>. QED
    BY <2>2 DEF was, is
<1>6. /\ SumOver(FolderShare(a), before \cup {n})
           = FolderShare(a)[n] + SumOver(FolderShare(t), before)
      /\ SumOver(FolderShare(t), before) \in Nat
  <2>. DEFINE was == FolderShare(t)
              is == FolderShare(a)
  <2>1. IsSummable(is, before \cup {n}) /\ \A m \in before : is[m] = was[m]
    BY <1>1, <1>3
  <2>. HIDE DEF was, is
  <2>2. /\ SumOver(is, before \cup {n}) = is[n] + SumOver(was, before)
        /\ SumOver(was, before) \in Nat /\ is[n] \in Nat
    BY <1>2, <2>1, SumGrows
  <2>. QED
    BY <2>2 DEF was, is
<1>. QED
  BY <1>1, <1>4, <1>5, <1>6

\* The count of an entry adds the entry's share.
LEMMA CountedEntryTotals ==
  ASSUME NEW i,
         progress \in [entries : Nat, files : Nat, directories : Nat,
                       logicalBytes : 0 .. MaxBytes, errors : Nat],
         NEW b \in Nat, progress.logicalBytes = Bounded[b], SizeOf(i) \in Nat
  PROVE  /\ CountedEntry(i).logicalBytes = Bounded[SizeOf(i) + b]
         /\ CountedEntry(i).files = FileCount(i) + progress.files
         /\ CountedEntry(i).directories = FolderCount(i) + progress.directories
<1>1. CASE i \in Folders
  <2>1. SizeOf(i) = 0 /\ SizeOf(i) + b = b
    BY <1>1 DEF SizeOf
  <2>2. /\ CountedEntry(i).logicalBytes = progress.logicalBytes
        /\ CountedEntry(i).files = progress.files
        /\ CountedEntry(i).directories = progress.directories + 1
    BY <1>1 DEF CountedEntry
  <2>. QED
    BY <1>1, <2>1, <2>2 DEF FileCount, FolderCount
<1>2. CASE i \notin Folders
  <2>. DEFINE s == SizeOf(i)
  <2>1. /\ CountedEntry(i).logicalBytes = AddedBytes(progress.logicalBytes, s)
        /\ CountedEntry(i).files = progress.files + 1
        /\ CountedEntry(i).directories = progress.directories
    BY <1>2 DEF CountedEntry
  <2>2. s \in Nat
    OBVIOUS
  <2>. HIDE DEF s
  <2>3. Bounded[b] \in Nat /\ Bounded[Bounded[b] + s] = Bounded[b + s]
    BY <2>2, BoundedReduces DEF IsReduction
  <2>4. Bounded[b] + s \in Nat /\ s + b = b + s
    BY <2>2, <2>3
  <2>5. AddedBytes(Bounded[b], s) = Bounded[Bounded[b] + s]
    BY <2>4 DEF AddedBytes, Bounded
  <2>6. CountedEntry(i).logicalBytes = Bounded[s + b]
    BY <2>1, <2>3, <2>4, <2>5
  <2>. QED
    BY <1>2, <2>1, <2>6 DEF s, FileCount, FolderCount
<1>. QED
  BY <1>1, <1>2

\* An entry counts in the progress for what its node counts in the tree.
LEMMA AddEntryKeepsTotals ==
  ASSUME IInv, TInv, NEW i, AddEntry(i)
  PROVE  IsTotalled(tree', progress')
<1>1. /\ completion = "None" /\ folder # invalid_node
      /\ i \in left
      /\ tree' = Appended(tree, folder, i, SizeOf(i), FlagsOf(i))
      /\ progress' = CountedEntry(i)
  BY DEF AddEntry, Enumerating
<1>2. PICK n \in 0 .. MaxNodes : /\ n \in Nat
                                 /\ IsScanTree(tree, n)
                                 /\ DOMAIN tree = 0 .. n - 1
  BY StateFacts
<1>3. /\ folder \in DOMAIN tree
      /\ tree[folder].item \in Folders \ Links
      /\ left \subseteq Contents[tree[folder].item]
      /\ left \cap Found(tree, folder) = {}
  BY <1>1, EnumeratingFacts
<1>4. /\ i \in Contents[tree[folder].item] /\ i \notin Found(tree, folder)
      /\ folder \in 0 .. n - 1
  BY <1>1, <1>2, <1>3
<1>. DEFINE bytes(any) == SumOver(ByteShare(any), DOMAIN any)
            files(any) == SumOver(FileShare(any), DOMAIN any)
            folders(any) == SumOver(FolderShare(any), DOMAIN any)
<1>5. /\ bytes(tree') = SizeOf(i) + bytes(tree)
      /\ files(tree') = FileCount(i) + files(tree)
      /\ folders(tree') = FolderCount(i) + folders(tree)
      /\ SizeOf(i) \in Nat
      /\ bytes(tree) \in Nat /\ files(tree) \in Nat /\ folders(tree) \in Nat
  BY <1>1, <1>2, <1>3, <1>4, AppendedTotals
<1>6. /\ progress.logicalBytes = Bounded[bytes(tree)]
      /\ progress.files = files(tree)
      /\ progress.directories = folders(tree)
  BY DEF TInv, IsTotalled
<1>7. progress \in [entries : Nat, files : Nat, directories : Nat,
                    logicalBytes : 0 .. MaxBytes, errors : Nat]
  BY DEF IInv, IsCounted
<1>8. IsTotalled(tree', progress') <=>
         /\ progress'.logicalBytes = Bounded[bytes(tree')]
         /\ progress'.files = files(tree')
         /\ progress'.directories = folders(tree')
  BY DEF IsTotalled
<1>. HIDE DEF bytes, files, folders
<1>9. /\ progress'.logicalBytes = Bounded[SizeOf(i) + bytes(tree)]
      /\ progress'.files = FileCount(i) + progress.files
      /\ progress'.directories = FolderCount(i) + progress.directories
  BY <1>1, <1>5, <1>6, <1>7, CountedEntryTotals
<1>. QED
  BY <1>5, <1>6, <1>8, <1>9

\* The scanned folder itself counts for nothing.
LEMMA AddRootTotals ==
  ASSUME IInv, TInv, AddRoot
  PROVE  IsTotalled(tree', progress')
<1>. DEFINE a == Appended(EmptyTree, invalid_node, Scanned, 0, {"Directory"})
<1>1. tree = EmptyTree /\ tree' = a /\ progress' = progress
  BY DEF AddRoot, AtStart
<1>2. IsScanTree(a, 1) /\ Directories(a) = {Root}
  BY RootTree
<1>. HIDE DEF a
<1>3. DOMAIN tree = {} /\ DOMAIN a = {Root}
  <2>1. 0 .. 1 - 1 = {0}
    OBVIOUS
  <2>2. DOMAIN a = {Root}
    BY <1>2, <2>1 DEF IsScanTree, IsVector, Root
  <2>. QED
    BY <1>1, <2>2 DEF EmptyTree
<1>4. ByteShare(a)[Root] = 0 /\ FileShare(a)[Root] = 0 /\ FolderShare(a)[Root] = 0
  BY <1>2, <1>3 DEF ByteShare, FileShare, FolderShare
<1>5. ASSUME NEW f, f[Root] = 0 PROVE SumOver(f, {Root}) = 0
  <2>1. {} \cup {Root} = {Root} /\ Root \notin {}
    OBVIOUS
  <2>2. IsFiniteSet({Root})
    BY FS_Singleton
  <2>3. IsSummable(f, {} \cup {Root})
    BY <1>5, <2>1, <2>2 DEF IsSummable
  <2>4. SumOver(f, {} \cup {Root}) = f[Root] + SumOver(f, {})
    BY <2>1, <2>3, SumAdded
  <2>5. SumOver(f, {}) = 0
    BY SumEmpty
  <2>. QED
    BY <1>5, <2>1, <2>4, <2>5
<1>6. /\ SumOver(ByteShare(a), {Root}) = 0
      /\ SumOver(FileShare(a), {Root}) = 0
      /\ SumOver(FolderShare(a), {Root}) = 0
  BY <1>4, <1>5
<1>7. /\ SumOver(ByteShare(tree), {}) = 0
      /\ SumOver(FileShare(tree), {}) = 0
      /\ SumOver(FolderShare(tree), {}) = 0
  BY SumEmpty
<1>. QED
  BY <1>1, <1>3, <1>6, <1>7 DEF TInv, IsTotalled

\* Marks leave the totals alone, and so do the errors that come with them.
LEMMA MissedKeepsTotals ==
  ASSUME IInv, TInv, NEW p \in DOMAIN tree, NEW f \in SUBSET {"Inaccessible", "Incomplete"},
         tree' = Flagged(tree, p, f), progress' = [progress EXCEPT !.errors = @ + 1]
  PROVE  IsTotalled(tree', progress') /\ (tree # EmptyTree => tree' # EmptyTree)
<1>1. PICK n \in 0 .. MaxNodes : n \in Nat /\ IsScanTree(tree, n)
  BY StateFacts
<1>2. /\ DOMAIN tree' = DOMAIN tree
      /\ ByteShare(tree') = ByteShare(tree)
      /\ FileShare(tree') = FileShare(tree)
      /\ FolderShare(tree') = FolderShare(tree)
  BY <1>1, FlaggedShares
<1>3. /\ progress'.logicalBytes = progress.logicalBytes
      /\ progress'.files = progress.files
      /\ progress'.directories = progress.directories
  BY DEF IInv, IsCounted
<1>4. DOMAIN EmptyTree = {}
  BY DEF EmptyTree
<1>. QED
  BY <1>2, <1>3, <1>4 DEF TInv, IsTotalled

\* The totals after a step, for the values the step leads to.
LEMMA TInvPrime ==
  ASSUME IsTotalled(tree', progress'),
         completion' \in {"Completed", "Cancelled"} =>
           totals' = Aggregated(tree') /\ published' = progress',
         completion' = "Completed" => tree' # EmptyTree
  PROVE  TInv'
<1>1. IsTotalled(tree, progress)'
  BY DEF IsTotalled, ByteShare, FileShare, FolderShare, Directories
<1>2. Aggregated(tree)' = Aggregated(tree')
  BY DEF Aggregated, MapThenFoldSet, AddedToParent, AddedBytes, OwnTotals, Directories
<1>. QED
  BY <1>1, <1>2 DEF TInv

\* Nothing is counted before the walk starts.
LEMMA InitTInv == Init => TInv
<1>. SUFFICES ASSUME Init PROVE TInv
  OBVIOUS
<1>1. DOMAIN tree = {} /\ completion = "None" /\ progress = NoProgress
  BY DEF Init, EmptyTree
<1>2. /\ SumOver(ByteShare(tree), {}) = 0
      /\ SumOver(FileShare(tree), {}) = 0
      /\ SumOver(FolderShare(tree), {}) = 0
  BY SumEmpty
<1>3. Bounded[0] = 0
  <2>. DEFINE limit == MaxBytes + 1
  <2>1. limit \in Nat \ {0} /\ 0 \in 0 .. limit - 1
    BY LimitsAssumption
  <2>. HIDE DEF limit
  <2>2. 0 % limit = 0
    BY <2>1, ModSmall
  <2>. QED
    BY <2>2 DEF Bounded, limit
<1>. QED
  BY <1>1, <1>2, <1>3 DEF TInv, IsTotalled, NoProgress

\* Every step of the walk keeps progress and tree in agreement.
LEMMA NextTInv == IInv /\ TInv /\ [Next]_vars => TInv'
<1>. SUFFICES ASSUME IInv, TInv, [Next]_vars PROVE TInv'
  OBVIOUS
<1>1. CASE UNCHANGED <<tree, progress, published, totals, completion>>
  BY <1>1, TInvPrime DEF TInv
<1>2. ASSUME completion = "None", UNCHANGED completion, IsTotalled(tree', progress')
      PROVE  TInv'
  BY <1>2, TInvPrime
<1>3. CASE Cancelled
  BY <1>3, TInvPrime DEF Cancelled, Returns, LastPublished, TInv
<1>4. CASE RootUnavailable
  <2>1. /\ tree' = tree /\ completion' = "RootUnavailable"
        /\ progress' = [progress EXCEPT !.errors = 1]
    BY <1>4 DEF RootUnavailable
  <2>2. /\ progress'.logicalBytes = progress.logicalBytes
        /\ progress'.files = progress.files
        /\ progress'.directories = progress.directories
    BY <2>1 DEF IInv, IsCounted
  <2>3. IsTotalled(tree', progress')
    BY <2>1, <2>2 DEF TInv, IsTotalled
  <2>. QED
    BY <2>1, <2>3, TInvPrime
<1>5. CASE AddRoot
  BY <1>2, <1>5, AddRootTotals DEF AddRoot, AtStart
<1>6. CASE OpenFails
  <2>1. Work.node \in DOMAIN tree
    <3>1. Len(pending) \in 1 .. Len(pending)
      BY <1>6, PoppedFacts DEF IInv, IsWork, OpenFails, Opening
    <3>. QED
      BY <3>1, PendingFacts DEF Work
  <2>2. IsTotalled(tree', progress')
    <3>1. {"Inaccessible", "Incomplete"} \in SUBSET {"Inaccessible", "Incomplete"}
      OBVIOUS
    <3>. QED
      BY <1>6, <2>1, <3>1, MissedKeepsTotals DEF OpenFails, Counted
  <2>. QED
    BY <1>2, <1>6, <2>2 DEF OpenFails, Opening
<1>7. CASE OpenFolder
  BY <1>1, <1>7 DEF OpenFolder
<1>8. ASSUME NEW i \in left, AddEntry(i) PROVE TInv'
  BY <1>2, <1>8, AddEntryKeepsTotals DEF AddEntry, Enumerating
<1>9. ASSUME Enumerating, Missed PROVE IsTotalled(tree', progress')
  <2>1. folder \in DOMAIN tree
    BY <1>9, EnumeratingFacts DEF Enumerating
  <2>2. {"Incomplete"} \in SUBSET {"Inaccessible", "Incomplete"}
    OBVIOUS
  <2>. QED
    BY <1>9, <2>1, <2>2, MissedKeepsTotals DEF Missed, Counted
<1>10. ASSUME NEW i \in left, DropEntry(i) PROVE TInv'
  BY <1>2, <1>9, <1>10 DEF DropEntry, Enumerating
<1>11. CASE EndFolder
  BY <1>1, <1>11 DEF EndFolder
<1>12. CASE BreakOff
  BY <1>2, <1>9, <1>12 DEF BreakOff, Enumerating
<1>13. CASE Complete
  BY <1>13, TInvPrime DEF Complete, Returns, LastPublished, TInv
<1>14. CASE RequestStop
  BY <1>1, <1>14 DEF RequestStop
<1>15. CASE UNCHANGED vars
  BY <1>1, <1>15 DEF vars
<1>. QED
  BY <1>3, <1>4, <1>5, <1>6, <1>7, <1>8, <1>10, <1>11, <1>12, <1>13, <1>14, <1>15
  DEF Next, Walk, Ended

\* The counts and the bytes of the progress are at every moment those of the
\* tree, and a result comes with the totals of its tree.
THEOREM TotalsInvariance == Spec => []TInv
<1>1. Init => TInv
  BY InitTInv
<1>2. IInv /\ TInv /\ [Next]_vars => TInv'
  BY NextTInv
<1>. QED
  BY <1>1, <1>2, Invariance, PTL DEF Spec

\* ResultIsForest: the tree of a completed scan is linked as the chart walks
\* it and has the parents, the folders and the sizes the analyzer needs.
THEOREM ResultsAreForests == Spec => []ResultIsForest
<1>1. IInv /\ TInv => ResultIsForest
  <2>. SUFFICES ASSUME IInv, TInv, completion = "Completed"
                PROVE  IsForest([n \in DOMAIN tree |-> tree[n].parent], Directories(tree),
                                [n \in DOMAIN tree |-> totals[n].bytes])
    BY IInvLinks DEF ResultIsForest
  <2>. DEFINE parent == [n \in DOMAIN tree |-> tree[n].parent]
              bytes == [n \in DOMAIN tree |-> totals[n].bytes]
  <2>1. PICK n \in 0 .. MaxNodes : /\ n \in Nat
                                   /\ n = Cardinality(DOMAIN tree)
                                   /\ IsScanTree(tree, n)
                                   /\ DOMAIN tree = 0 .. n - 1
                                   /\ tree = EmptyTree <=> n = 0
    BY StateFacts
  <2>2. n # 0 /\ totals = Aggregated(tree)
    BY <2>1 DEF TInv
  <2>3. DOMAIN parent = 0 .. n - 1 /\ IsFiniteSet(DOMAIN parent) /\ Cardinality(DOMAIN parent) = n
    BY <2>1, SizeOfVector
  <2>4. Root \in DOMAIN tree
    <3>1. n \in Nat /\ n # 0
      BY <2>1, <2>2
    <3>2. 0 \in 0 .. n - 1
      BY <3>1
    <3>. QED
      BY <2>1, <3>2 DEF Root
  <2>5. /\ parent \in [DOMAIN tree -> DOMAIN tree \cup {invalid_node}]
        /\ parent[Root] = invalid_node
        /\ \A m \in DOMAIN tree \ {Root} : parent[m] \in Directories(tree) /\ parent[m] < m
    BY <2>1, <2>4 DEF IsScanTree, IsOfDisk
  <2>6. Root \in Directories(tree)
    BY <2>1, <2>4, DiskAssumption DEF IsScanTree, IsOfDisk
  <2>7. bytes \in [DOMAIN tree -> 0 .. MaxBytes]
    BY <2>1, <2>2, StagesOf DEF Totals, NodeTotals
  <2>8. Directories(tree) \subseteq DOMAIN tree
    BY DEF Directories
  <2>9. DOMAIN parent = DOMAIN tree
    OBVIOUS
  <2>10. ASSUME NEW m \in Directories(tree)
         PROVE  bytes[m] = SumFunctionOnSet(bytes, {c \in DOMAIN parent : parent[c] = m})
                             % (MaxBytes + 1)
    <3>1. n \in Nat \ {0} /\ totals \in Totals(tree)
      BY <2>1, <2>2, StagesOf
    <3>2. {c \in DOMAIN parent : parent[c] = m} = Children(tree, m)
      BY DEF Children
    <3>3. bytes = BytesOf(tree, totals) /\ bytes[m] = totals[m].bytes
      BY <2>8 DEF BytesOf
    <3>4. totals[m].bytes = Bounded[SumOver(BytesOf(tree, totals), Children(tree, m))]
      BY <2>1, <2>2, <3>1, BytesTotals
    <3>5. SumOver(BytesOf(tree, totals), Children(tree, m)) \in Nat
      BY <2>1, <3>1, ChildrenWithin, ColumnsAreNatural, SumType
    <3>. HIDE DEF parent, bytes
    <3>6. SumFunctionOnSet(bytes, Children(tree, m)) = SumOver(bytes, Children(tree, m))
      BY SumOnSetIs
    <3>. QED
      BY <3>2, <3>3, <3>4, <3>5, <3>6 DEF Bounded
  <2>. HIDE DEF parent, bytes
  <2>. QED
    BY <2>3, <2>5, <2>6, <2>7, <2>8, <2>9, <2>10 DEF IsForest, parent, bytes
<1>. QED
  BY <1>1, Invariance, TotalsInvariance, PTL

\* TotalOf as a sum of a column.
LEMMA TotalOfColumn ==
  ASSUME NEW field, NEW S, NEW f, IsSummable(f, S), \A x \in S : f[x] = totals[x][field]
  PROVE  TotalOf(field, S) = SumOver(f, S)
<1>. DEFINE IsTotal(it) ==
              it = [s \in SUBSET S |-> IF s = {} THEN 0
                                       ELSE totals[Some(s)][field] + it[s \ {Some(s)}]]
            total == CHOOSE it : IsTotal(it)
            ofF == CHOOSE it : IsSum(it, f, S)
<1>1. ASSUME NEW s \in SUBSET S, s # {} PROVE f[Some(s)] = totals[Some(s)][field]
  <2>1. Some(s) \in s
    BY <1>1 DEF Some
  <2>. QED
    BY <2>1
<1>2. ASSUME NEW any PROVE IsTotal(any) <=> IsSum(any, f, S)
  <2>1. [s \in SUBSET S |-> IF s = {} THEN 0 ELSE totals[Some(s)][field] + any[s \ {Some(s)}]]
          = [s \in SUBSET S |-> IF s = {} THEN 0 ELSE f[Some(s)] + any[s \ {Some(s)}]]
    BY <1>1
  <2>. QED
    BY <2>1 DEF IsSum
<1>3. TotalOf(field, S) = total[S]
  BY DEF TotalOf, MapThenFoldSet, Some
<1>. HIDE DEF IsTotal
<1>4. IsSum(total, f, S) /\ IsSum(ofF, f, S)
  <2>1. \E it : IsSum(it, f, S)
    BY SumExists
  <2>. QED
    BY <1>2, <2>1
<1>. HIDE DEF total, ofF
<1>5. total[S] = ofF[S]
  BY <1>4, SameSum DEF IsSummable
<1>. QED
  BY <1>3, <1>5, SumOverIs DEF ofF

\* TotalsAgree: what a folder shows is what its children show together, and
\* the result, the last publication and the root agree, whatever the bytes
\* come to.
THEOREM TotalsOfResult == Spec => []TotalsAgree
<1>1. IInv /\ TInv => TotalsAgree
  <2>. SUFFICES ASSUME IInv, TInv, completion \in {"Completed", "Cancelled"}
                PROVE  /\ \A m \in Directories(tree) :
                            LET children == Children(tree, m) IN
                            /\ totals[m].bytes = TotalOf("bytes", children) % (MaxBytes + 1)
                            /\ totals[m].files = TotalOf("files", children)
                            /\ totals[m].directories = TotalOf("directories", children)
                                                        + Cardinality(children \cap Directories(tree))
                       /\ published = progress
                       /\ tree # EmptyTree =>
                            /\ progress.logicalBytes = totals[Root].bytes
                            /\ progress.files = totals[Root].files
                            /\ progress.directories = totals[Root].directories
                            /\ progress.entries = Cardinality(DOMAIN tree) - 1
    BY DEF TotalsAgree
  <2>1. PICK n \in 0 .. MaxNodes : /\ n \in Nat
                                   /\ n = Cardinality(DOMAIN tree)
                                   /\ IsScanTree(tree, n)
                                   /\ DOMAIN tree = 0 .. n - 1
                                   /\ tree = EmptyTree <=> n = 0
    BY StateFacts
  <2>2. totals = Aggregated(tree) /\ published = progress /\ IsTotalled(tree, progress)
    BY DEF TInv
  <2>3. totals \in Totals(tree)
    BY <2>1, <2>2, StagesOf
  <2>4. ASSUME NEW m \in Directories(tree)
        PROVE  /\ totals[m].bytes = TotalOf("bytes", Children(tree, m)) % (MaxBytes + 1)
               /\ totals[m].files = TotalOf("files", Children(tree, m))
               /\ totals[m].directories = TotalOf("directories", Children(tree, m))
                    + Cardinality(Children(tree, m) \cap Directories(tree))
    <3>. DEFINE children == Children(tree, m)
    <3>1. n \in Nat \ {0} /\ children \in SUBSET (0 .. n - 1)
      <4>1. m \in 0 .. n - 1
        BY <2>1 DEF Directories
      <4>. QED
        BY <2>1, <4>1, ChildrenWithin
    <3>2. /\ totals[m].bytes = Bounded[SumOver(BytesOf(tree, totals), children)]
          /\ totals[m].files = SumOver(FilesOf(tree, totals), children)
          /\ totals[m].directories = SumOver(FoldersOf(tree, totals), children)
               + Cardinality(children \cap Directories(tree))
      <4>1. totals[m].bytes = Bounded[SumOver(BytesOf(tree, totals), Children(tree, m))]
        BY <2>1, <2>2, <3>1, BytesTotals
      <4>2. totals[m].files = SumOver(FilesOf(tree, totals), Children(tree, m))
        BY <2>1, <2>2, <3>1, FilesTotals
      <4>3. totals[m].directories = SumOver(FoldersOf(tree, totals), Children(tree, m))
              + Cardinality(Children(tree, m) \cap Directories(tree))
        BY <2>1, <2>2, <3>1, FoldersTotals
      <4>. QED
        BY <4>1, <4>2, <4>3
    <3>. HIDE DEF children
    <3>3. /\ IsSummable(BytesOf(tree, totals), children)
          /\ IsSummable(FilesOf(tree, totals), children)
          /\ IsSummable(FoldersOf(tree, totals), children)
      BY <2>1, <2>3, <3>1, ColumnsAreNatural
    <3>4. \A x \in children : x \in DOMAIN tree
      BY <2>1, <3>1
    <3>5. TotalOf("bytes", children) = SumOver(BytesOf(tree, totals), children)
      <4>1. \A x \in children : BytesOf(tree, totals)[x] = totals[x]["bytes"]
        BY <3>4 DEF BytesOf
      <4>. QED
        BY <3>3, <4>1, TotalOfColumn
    <3>6. TotalOf("files", children) = SumOver(FilesOf(tree, totals), children)
      <4>1. \A x \in children : FilesOf(tree, totals)[x] = totals[x]["files"]
        BY <3>4 DEF FilesOf
      <4>. QED
        BY <3>3, <4>1, TotalOfColumn
    <3>7. TotalOf("directories", children) = SumOver(FoldersOf(tree, totals), children)
      <4>1. \A x \in children : FoldersOf(tree, totals)[x] = totals[x]["directories"]
        BY <3>4 DEF FoldersOf
      <4>. QED
        BY <3>3, <4>1, TotalOfColumn
    <3>8. Bounded[SumOver(BytesOf(tree, totals), children)]
            = SumOver(BytesOf(tree, totals), children) % (MaxBytes + 1)
      BY <3>3, SumType DEF Bounded
    <3>. QED
      BY <3>2, <3>5, <3>6, <3>7, <3>8 DEF children
  <2>5. ASSUME tree # EmptyTree
        PROVE  /\ progress.logicalBytes = totals[Root].bytes
               /\ progress.files = totals[Root].files
               /\ progress.directories = totals[Root].directories
               /\ progress.entries = Cardinality(DOMAIN tree) - 1
    <3>1. n \in Nat \ {0} /\ DOMAIN tree # {}
      <4>1. n \in Nat /\ n # 0
        BY <2>1, <2>5
      <4>2. 0 \in 0 .. n - 1
        BY <4>1
      <4>. QED
        BY <2>1, <4>1, <4>2
    <3>2. /\ totals[0].bytes = Bounded[SumOver(ByteShare(tree), 0 .. n - 1)]
          /\ totals[0].files = SumOver(FileShare(tree), 0 .. n - 1)
          /\ totals[0].directories = SumOver(FolderShare(tree), 0 .. n - 1)
      BY <2>1, <2>2, <3>1, BytesTotals, FilesTotals, FoldersTotals
    <3>3. progress.entries = Cardinality(DOMAIN tree) - 1
      BY <3>1 DEF IInv, IsCounted
    <3>. QED
      BY <2>1, <2>2, <3>2, <3>3 DEF IsTotalled, Root
  <2>. QED
    BY <2>2, <2>4, <2>5
<1>. QED
  BY <1>1, Invariance, TotalsInvariance, PTL
=============================================================================
