----------------------------- MODULE ScanForest -----------------------------
(***************************************************************************)
(* The finished scan trees that the analyzer reads (core/scan_tree.h).     *)
(*                                                                         *)
(* A ScanTree is a vector of nodes in which every node but node 0 names a  *)
(* parent with a smaller index.  The analyzer only reads three fields of a *)
(* finished tree: parent, the Directory flag and logicalSize.  They are    *)
(* constants here, one function per field and per tree, so that a session  *)
(* that replaces one scan by another is a session that moves between the   *)
(* members of Trees.                                                       *)
(***************************************************************************)
EXTENDS ScanTree

CONSTANTS
  Trees,      \* the scans that may complete
  Parent,     \* Parent[t][n]    : ScanNode::parent
  Directory,  \* Directory[t]    : the nodes that carry ScanNodeFlags::Directory
  Bytes       \* Bytes[t][n]     : ScanNode::logicalSize after aggregate()

Nodes(t) == DOMAIN Parent[t]

\* FileScanner shows that a scan leaves such trees.
ASSUME TreesAssumption ==
  /\ MaxBytes \in Nat
  /\ \A t \in Trees : IsForest(Parent[t], Directory[t], Bytes[t])

-----------------------------------------------------------------------------
(***************************************************************************)
(* The loops that climb from a node to its ancestors.  A set of nodes is   *)
(* parent-closed when it contains the parent of each of its members; the   *)
(* nodes a climb from n visits are those in every parent-closed set that   *)
(* contains n.                                                             *)
(***************************************************************************)
ParentClosed(t, S) ==
  \A n \in S : Parent[t][n] # invalid_node => Parent[t][n] \in S

\* Above[t][n]: n and its ancestors.
Above ==
  [t \in Trees |-> [n \in Nodes(t) |->
    {a \in Nodes(t) :
       \A S \in SUBSET Nodes(t) : n \in S /\ ParentClosed(t, S) => a \in S}]]

Below(t, a) == {n \in Nodes(t) : a \in Above[t][n]}

\* What aggregate() computes when nothing overflows: the files' own sizes.
Files(t) == Nodes(t) \ Directory[t]

BytesIn(t, S) == SumFunctionOnSet(Bytes[t], S)

\* The members of S, each after those that are before it.
InOrder(S, Before(_, _)) ==
  [k \in 1 .. Cardinality(S) |->
     CHOOSE a \in S : Cardinality({b \in S : Before(b, a)}) = k - 1]

Ascending(I) == InOrder(I, LAMBDA a, b : a < b)

\* The members of the sequence s at the indices in I, in their order.
MembersAt(s, I) == [k \in 1 .. Cardinality(I) |-> s[Ascending(I)[k]]]

\* A tree whose scanned folder holds more bytes than std::uint64_t can count
\* has wrapped totals; the size properties are stated for the others.
TotalsFit(t) == BytesIn(t, Files(t)) <= MaxBytes
=============================================================================
