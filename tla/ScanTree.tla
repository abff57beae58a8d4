------------------------------- MODULE ScanTree -------------------------------
(***************************************************************************)
(* core::ScanTree (core/scan_tree.cpp): a vector of nodes that a scan      *)
(* appends to and aggregate() finishes.  A tree is a function from the     *)
(* indices 0 .. n - 1 to records                                           *)
(*                                                                         *)
(*   [parent, firstChild, nextSibling, item, size, flags].                 *)
(*                                                                         *)
(* item stands for the name, size for logicalSize before aggregate(); what *)
(* aggregate() computes is kept beside the tree.                           *)
(***************************************************************************)
EXTENDS Integers, FiniteSets, Folds, Functions

CONSTANT MaxBytes  \* the largest std::uint64_t

\* core::invalid_node.  The code uses 2^32-1, which no node has as its index.
invalid_node == -1

\* Node 0, the scanned folder itself.
Root == 0

Flags == {"Directory", "ReparsePoint", "Inaccessible", "Incomplete"}

\* A ScanTree without nodes.
EmptyTree == [n \in {} |-> n]

\* A seeded fault: the node before in the vector is taken for the sibling.
NodeBefore(tree, parent) == Cardinality(DOMAIN tree) - 1

\* The child that was added to the parent before.
SiblingBefore(tree, parent) ==
  IF parent = invalid_node THEN invalid_node ELSE tree[parent].firstChild

\* append_node: the new node becomes the first child of its parent.
Appended(tree, parent, item, size, flags) ==
  LET index == Cardinality(DOMAIN tree)
      node  == [parent |-> parent, firstChild |-> invalid_node,
                nextSibling |-> SiblingBefore(tree, parent),
                item |-> item, size |-> size, flags |-> flags]
  IN  [n \in 0 .. index |->
         IF n = index THEN node
         ELSE IF n = parent THEN [tree[n] EXCEPT !.firstChild = index]
         ELSE tree[n]]

\* add_flags
Flagged(tree, n, flags) == [tree EXCEPT ![n].flags = @ \cup flags]

Directories(tree) == {n \in DOMAIN tree : "Directory" \in tree[n].flags}
Children(tree, n) == {c \in DOMAIN tree : tree[c].parent = n}

-----------------------------------------------------------------------------
(***************************************************************************)
(* aggregate(): every node starts with what it is itself and is added to   *)
(* its parent, the last node first.                                        *)
(***************************************************************************)
OwnTotals(tree) ==
  [n \in DOMAIN tree |->
     IF n \in Directories(tree)
     THEN [bytes |-> 0, files |-> 0, directories |-> 0]
     ELSE [bytes |-> tree[n].size, files |-> 1, directories |-> 0]]

AddedBytes(a, b) == (a + b) % (MaxBytes + 1)

AddedToParent(tree, totals, n) ==
  LET itself == IF n \in Directories(tree) THEN 1 ELSE 0
  IN  IF tree[n].parent = invalid_node THEN totals
      ELSE [totals EXCEPT ![tree[n].parent] =
              [bytes |-> AddedBytes(@.bytes, totals[n].bytes),
               files |-> @.files + totals[n].files,
               directories |-> @.directories + totals[n].directories + itself]]

\* A seeded fault: the first node is added first.
AggregatedForward(tree) ==
  MapThenFoldSet(LAMBDA n, totals : AddedToParent(tree, totals, n),
                 OwnTotals(tree), LAMBDA n : n,
                 LAMBDA S : CHOOSE n \in S : \A m \in S : m <= n,
                 DOMAIN tree)

\* MapThenFoldSet adds the node it chooses last first.
Aggregated(tree) ==
  MapThenFoldSet(LAMBDA n, totals : AddedToParent(tree, totals, n),
                 OwnTotals(tree), LAMBDA n : n,
                 LAMBDA S : CHOOSE n \in S : \A m \in S : n <= m,
                 DOMAIN tree)

-----------------------------------------------------------------------------
\* What the analyzer relies on in a finished tree: parent names a directory
\* with a smaller index, for every node but the first, and a directory has the
\* bytes of its children, as far as a counter holds them.
IsForest(parent, directory, bytes) ==
  LET nodes == DOMAIN parent
  IN  /\ IsFiniteSet(nodes)
      /\ nodes = 0 .. Cardinality(nodes) - 1
      /\ parent \in [nodes -> nodes \cup {invalid_node}]
      /\ parent[Root] = invalid_node
      /\ \A n \in nodes \ {Root} : parent[n] \in directory /\ parent[n] < n
      /\ Root \in directory
      /\ directory \subseteq nodes
      /\ bytes \in [nodes -> 0 .. MaxBytes]
      /\ \A n \in directory :
           bytes[n] = SumFunctionOnSet(bytes, {c \in nodes : parent[c] = n}) % (MaxBytes + 1)
=============================================================================
