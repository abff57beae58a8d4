---------------------------- MODULE SunburstLayout ----------------------------
(***************************************************************************)
(* The chart of a folder (core/sunburst_layout.cpp) and the list of its    *)
(* largest children beside it (core/child_ranking.cpp), as operators.      *)
(*                                                                         *)
(* An arc is a record [node, aggregate, depth, from, to, bytes].  Angles   *)
(* are whole parts of a circle of Circle parts; a share of an angle is     *)
(* rounded to the nearest part, as a float is to the nearest float.        *)
(* Palettes and radii are left out.                                        *)
(***************************************************************************)
EXTENDS ReviewSet, SequencesExt

CONSTANTS
  Circle,       \* the parts of a full circle
  MinSweep,     \* SunburstLayoutOptions::minSweepRadians, in parts
  MaxSegments,  \* SunburstLayoutOptions::maxSegments
  MaxDepth      \* SunburstLayoutOptions::maxDepth

ASSUME LayoutAssumption ==
  /\ Circle \in Nat \ {0}
  /\ {MinSweep, MaxSegments, MaxDepth} \subseteq Nat \ {0}

\* The list of children from firstChild on, the newest first, without those
\* that have nothing to show.
CountedChildren(t, x, n) ==
  InOrder({c \in Nodes(t) : Parent[t][c] = n /\ EffectiveSize(t, x, c) > 0},
          LAMBDA a, b : a > b)

-----------------------------------------------------------------------------
\* Part of an angle, rounded to the nearest whole.
Share(bytes, sweep, total) == (2 * bytes * sweep + total) \div (2 * total)

\* What saturating_add makes of a sum.
Saturated(sum) == IF sum > MaxBytes THEN MaxBytes ELSE sum

\* How many children have an arc of their own: when not all do, one arc is
\* kept for the rest of them.
IndividualLimit(wide, counted, remaining) ==
  IF wide = counted /\ Len(wide) <= remaining THEN Len(wide)
  ELSE IF Len(wide) <= remaining - 1 THEN Len(wide) ELSE remaining - 1

\* The arcs of the counted children of current = [node, depth, from, to], which
\* has room for remaining arcs.  A child has size[c] bytes and would take
\* sweep[c].
ArcsOfChildren(current, counted, size, sweep, remaining) ==
  LET wide      == MembersAt(counted, {k \in DOMAIN counted : sweep[counted[k]] >= MinSweep})
      single    == SubSeq(wide, 1, IndividualLimit(wide, counted, remaining))
      others    == ToSet(counted) \ ToSet(single)
      rest      == Saturated(SumFunctionOnSet(size, others))
      start(k)  == current.from + SumFunctionOnSet([j \in DOMAIN single |-> sweep[single[j]]],
                                                   1 .. k - 1)
      arc(k)    == [node |-> single[k], aggregate |-> FALSE, depth |-> current.depth,
                    from |-> start(k), to |-> start(k + 1), bytes |-> size[single[k]]]
      restArc   == [node |-> current.node, aggregate |-> TRUE, depth |-> current.depth,
                    from |-> start(Len(single) + 1), to |-> current.to, bytes |-> rest]
  IN  [k \in DOMAIN single |-> arc(k)] \o (IF rest > 0 THEN <<restArc>> ELSE <<>>)

\* The ring of one folder on the work list, its last arc where rounding left it.
Ring(t, x, current, remaining) ==
  LET total   == EffectiveSize(t, x, current.node)
      counted == CountedChildren(t, x, current.node)
      size    == [c \in ToSet(counted) |-> EffectiveSize(t, x, c)]
      sweep   == [c \in DOMAIN size |-> Share(size[c], current.to - current.from, total)]
  IN  IF total = 0 THEN <<>>
      ELSE ArcsOfChildren(current, counted, size, sweep, remaining)

\* The folders of a ring that get rings of their own.  They are on the work
\* list before the last arc of the ring is closed.
FoldersOf(t, ring) ==
  LET folders == MembersAt(ring, {k \in DOMAIN ring :
                   /\ ~ring[k].aggregate /\ ring[k].node \in Directory[t]
                   /\ ring[k].depth + 1 < MaxDepth})
  IN  [k \in DOMAIN folders |->
         [node |-> folders[k].node, depth |-> folders[k].depth + 1,
          from |-> folders[k].from, to |-> folders[k].to]]

\* The last arc ends where its folder does, whatever the rounding lost.
Closed(ring, end) ==
  IF ring = <<>> THEN ring ELSE [ring EXCEPT ![Len(ring)].to = end]

\* A seeded fault: the newest folder comes first, and rings are laid depth
\* first.
PushedInFront(work, k, folders) == SubSeq(work, 1, k) \o folders \o SubSeq(work, k + 1, Len(work))

\* The work list: a folder waits until those found before it are done.
PushedBack(work, k, folders) == work \o folders

\* A ring goes behind the arcs there are, and its folders on the work list.
WithRing(t, done, k, ring) ==
  [arcs |-> done.arcs \o Closed(ring, done.work[k].to),
   work |-> PushedBack(done.work, k, FoldersOf(t, ring))]

\* The k-th round of the loop over the work list.
Round(t, x, done, k) ==
  IF k > Len(done.work) \/ Len(done.arcs) >= MaxSegments THEN done
  ELSE WithRing(t, done, k, Ring(t, x, done.work[k], MaxSegments - Len(done.arcs)))

\* The work list begins with the folder of the chart.
FirstWork(root) == [node |-> root, depth |-> 0, from |-> 0, to |-> Circle]

\* What is done after each round; no folder is on the work list twice.
Rounds(t, x, root) ==
  LET done[k \in 0 .. Cardinality(Directory[t])] ==
        IF k = 0 THEN [arcs |-> <<>>, work |-> <<FirstWork(root)>>]
        ELSE Round(t, x, done[k - 1], k)
  IN  done

\* build_sunburst_layout
ArcsOf(t, x, root) ==
  IF EffectiveSize(t, x, root) = 0 THEN <<>>
  ELSE Rounds(t, x, root)[Cardinality(Directory[t])].arcs

\* build_depth_ranges: the last run of arcs of a depth is its range.
DepthRange(arcs, depth) ==
  LET ofDepth == {k \in DOMAIN arcs : arcs[k].depth = depth}
  IN  {k \in ofDepth : k .. Max(ofDepth) \subseteq ofDepth}

\* The number of rings, depthRanges.size().
Rings(arcs) == IF arcs = <<>> THEN 0 ELSE 1 + Max({arcs[k].depth : k \in DOMAIN arcs})

\* hit_test_sunburst at an angle of the ring of a depth; 0 is no arc.
HitAt(arcs, depth, angle) ==
  LET hit == {k \in DepthRange(arcs, depth) : arcs[k].from <= angle /\ angle < arcs[k].to}
  IN  IF hit = {} THEN 0 ELSE Min(hit)

-----------------------------------------------------------------------------
\* better()
Better(t, x, a, b) ==
  \/ EffectiveSize(t, x, a) > EffectiveSize(t, x, b)
  \/ EffectiveSize(t, x, a) = EffectiveSize(t, x, b) /\ a < b

\* What the queue of the best holds after another candidate: the worst goes.
Challenged(t, x, top, candidate, limit) ==
  LET worst == CHOOSE a \in top : \A b \in top \ {a} : Better(t, x, b, a)
  IN  IF Cardinality(top) < limit THEN top \cup {candidate}
      ELSE IF Better(t, x, candidate, worst) THEN (top \ {worst}) \cup {candidate}
      ELSE top

\* rank_children
RankedChildren(t, x, n, limit) ==
  InOrder(FoldLeft(LAMBDA top, c : Challenged(t, x, top, c, limit),
                   {}, CountedChildren(t, x, n)),
          LAMBDA a, b : Better(t, x, a, b))
=============================================================================
