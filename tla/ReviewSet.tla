------------------------------ MODULE ReviewSet ------------------------------
(***************************************************************************)
(* DeletionReview (app/deletion_review.cpp), the items the user collected  *)
(* for deletion, and ScanTreeExclusion (core/scan_tree_exclusion.cpp), the *)
(* projection of the tree without them.                                    *)
(*                                                                         *)
(* The review is a set of nodes: the order of nodes_ only decides the      *)
(* order of the rows in the collector panel.  sizes_ repeats logicalSize,  *)
(* which never changes while a scan is shown.  reductions_ is a function   *)
(* of the tree and the roots, rebuilt and cleared together with them.      *)
(***************************************************************************)
EXTENDS ScanForest

\* DeletionReview::add refuses the scanned folder, an index outside the tree,
\* and a node that is covered by a collected node.
CanCollect(t, review, n) ==
  /\ n \in Nodes(t) \ {Root}
  /\ Above[t][n] \cap review = {}

\* A seeded fault: collected nodes inside n stay.
WithCollectedOnTop(t, review, n) == review \cup {n}

\* The review after add() took n: collected nodes inside n are dropped.
WithCollected(t, review, n) ==
  {r \in review : n \notin Above[t][r]} \cup {n}

\* The sum of sizes, pinned to the largest std::uint64_t.
SaturatedBytes(t, S) ==
  LET sum == BytesIn(t, S) IN IF sum \in 0 .. MaxBytes THEN sum ELSE MaxBytes

\* DeletionReview::total_bytes
TotalBytes(t, review) == SaturatedBytes(t, review)

-----------------------------------------------------------------------------
\* The roots rebuild() keeps: nodes of the tree that have a parent and are
\* not inside another one.  The code visits them in index order, so an
\* ancestor is decided before its descendants.
ExclusionRoots(t, requested) ==
  LET valid == {c \in requested : c \in Nodes(t) /\ Parent[t][c] # invalid_node}
  IN  {c \in valid : Above[t][c] \cap valid = {c}}

IsVisible(t, excluded, n) ==
  n \in Nodes(t) /\ Above[t][n] \cap excluded = {}

\* A seeded fault: only the parent loses the bytes of an excluded root.
ParentReduction(t, excluded, n) ==
  SaturatedBytes(t, {r \in excluded : n = Parent[t][r]})

\* The bytes that the excluded roots take from their ancestor n.
Reduction(t, excluded, n) ==
  SaturatedBytes(t, {r \in excluded : n # r /\ n \in Above[t][r]})

EffectiveSize(t, excluded, n) ==
  LET reduction == Reduction(t, excluded, n)
  IN  IF IsVisible(t, excluded, n) /\ reduction < Bytes[t][n]
      THEN Bytes[t][n] - reduction
      ELSE 0
=============================================================================
