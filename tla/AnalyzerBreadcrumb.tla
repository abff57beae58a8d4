-------------------------- MODULE AnalyzerBreadcrumb --------------------------
(***************************************************************************)
(* The trail of folders above the chart (app/analyzer_breadcrumb.cpp), as  *)
(* operators.                                                              *)
(*                                                                         *)
(* An item is a record [kind, node]; its label is known by its width.      *)
(* A laid out trail is a record [visible, hidden]: the segments [item,     *)
(* from, to] from left to right, where item 0 is the ellipsis, and the     *)
(* items that the ellipsis stands for.  Widths are whole.                  *)
(***************************************************************************)
EXTENDS ReviewSet, SequencesExt

CONSTANTS
  Unscanned,       \* the components of the scanned path above the scan
  OverviewWidth,  \* the measured widths of the labels
  PrefixWidth,
  NodeWidth       \* NodeWidth[n]

\* A measured width of less than nothing counts as none.
ASSUME TrailAssumption ==
  /\ {Unscanned, OverviewWidth, PrefixWidth} \subseteq Nat
  /\ \A t \in Trees : \A n \in Nodes(t) : NodeWidth[n] \in Nat

\* build_analyzer_breadcrumb: an ancestor has a smaller index.
TrailTo(t, n) ==
  <<[kind |-> "Overview", node |-> invalid_node]>>
  \o [k \in 1 .. Unscanned |-> [kind |-> "UnscannedPrefix", node |-> invalid_node]]
  \o LET way == InOrder(Above[t][n], LAMBDA a, b : a < b)
     IN  [k \in DOMAIN way |-> [kind |-> "ScanNode", node |-> way[k]]]

\* The places that a click on an item leads to.
LeadsTo(item) == IF item.kind = "ScanNode" THEN {item.node} ELSE {}

LabelWidth(item) == CASE item.kind = "Overview" -> OverviewWidth
                      [] item.kind = "UnscannedPrefix" -> PrefixWidth
                      [] item.kind = "ScanNode" -> NodeWidth[item.node]

-----------------------------------------------------------------------------
segmentChromeWidth  == 38
ellipsisWidth       == 48
minimumSegmentWidth == 44

NoTrail == [visible |-> <<>>, hidden |-> {}]

\* What a trail that does not fit still shows.
Retained(trail, scanRoot) == {1, scanRoot, Len(trail) - 1, Len(trail)}

TotalWidth(width) == SumFunction(width)

\* reduce: item i gives up what is too much, down to the least width.
Reduced(width, i, available) ==
  LET excess == TotalWidth(width) - available
      spare  == width[i] - minimumSegmentWidth
      cut    == IF spare < excess THEN spare ELSE excess
  IN  IF cut > 0 THEN [width EXCEPT ![i] = @ - cut] ELSE width

\* The items give up in this order.
ReducedInOrder(width, order, available) ==
  LET reduced[k \in 0 .. Len(order)] ==
        IF k = 0 THEN width ELSE Reduced(reduced[k - 1], order[k], available)
  IN  reduced[Len(order)]

\* Where that is not enough all items become equally wide.
Squeezed(width, available) ==
  IF TotalWidth(width) <= available THEN width
  ELSE [i \in DOMAIN width |-> Max({0, available}) \div Cardinality(DOMAIN width)]

\* The segments of parts, a sequence of [item, width], side by side.
SideBySide(parts, room) ==
  LET at[k \in 0 .. Len(parts)] ==
        IF k = 0 THEN 0 ELSE Min({room, at[k - 1] + parts[k].width})
  IN  [k \in DOMAIN parts |-> [item |-> parts[k].item, from |-> at[k - 1], to |-> at[k]]]

\* layout_analyzer_breadcrumb in room.
TrailLayout(trail, room) ==
  LET items     == DOMAIN trail
      preferred == [i \in items |-> LabelWidth(trail[i]) + segmentChromeWidth]
      scanRoot  == Min({i \in items : trail[i].kind = "ScanNode"})
      retained  == Retained(trail, scanRoot)
      hidden    == items \ retained
      forItems  == room - (IF hidden # {} THEN ellipsisWidth ELSE 0)
      reduced   == ReducedInOrder([i \in retained |-> preferred[i]],
                                  <<Len(trail) - 1>> \o Ascending(retained), forItems)
      width     == Squeezed(reduced, forItems)
      part(i)   == [item |-> i, width |-> width[i]]
      dots      == IF hidden = {} THEN <<>> ELSE <<[item |-> 0, width |-> ellipsisWidth]>>
      before    == Ascending({i \in retained : i < scanRoot
                                             \/ (i = scanRoot /\ scanRoot # Len(trail))})
      after     == Ascending(retained \ ToSet(before))
  IN  IF trail = <<>> \/ room <= 0 THEN NoTrail
      ELSE IF TotalWidth(preferred) <= room
      THEN [visible |-> SideBySide([i \in items |-> [item |-> i, width |-> preferred[i]]], room),
            hidden |-> {}]
      ELSE [visible |-> SideBySide([k \in DOMAIN before |-> part(before[k])] \o dots
                                   \o [k \in DOMAIN after |-> part(after[k])], room),
            hidden |-> hidden]

\* hit_test_analyzer_breadcrumb: the segments that contain x, the ellipsis
\* last.
TrailHits(layout, x) ==
  LET segments == layout.visible
      hit      == {k \in DOMAIN segments : segments[k].from <= x /\ x < segments[k].to}
      dots     == {k \in hit : segments[k].item = 0}
  IN  MembersAt(segments, hit \ dots) \o MembersAt(segments, dots)
=============================================================================
