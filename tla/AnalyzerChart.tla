----------------------------- MODULE AnalyzerChart -----------------------------
(***************************************************************************)
(* The chart and the trail of the analyzer (app/analyzer_view.cpp) while   *)
(* the user moves through a scan, collects and restores items, and resizes *)
(* the window: what is drawn, the transition that is under way, and what a *)
(* click on the trail would find.                                          *)
(*                                                                         *)
(* AnalyzerSession models the same operations of the window with the state *)
(* that is left out here: the history, the selection and the order of the  *)
(* updates.  How far a transition is depends on the clock alone; any       *)
(* progress may be found at any time, but not less than before.            *)
(***************************************************************************)
EXTENDS SunburstTransition, AnalyzerBreadcrumb

CONSTANTS
  scan,         \* the scan that is shown
  Collectable,  \* bound: the items the user collects
  Rooms,        \* the widths of the trail's bounds, by the sizes of the window
  MaxTurns      \* bound: transitions begun before one is over

ASSUME ChartAssumption ==
  /\ scan \in Trees
  /\ Collectable \subseteq Nodes(scan) \ {Root}
  /\ Rooms \subseteq Nat
  /\ MaxTurns \in Nat

VARIABLES
  root,      \* root_
  review,    \* reviewNodes_ and exclusion_
  arcs,      \* sunburst_.segments
  plan,      \* transitionPlan_, empty when no transition is active
  progress,  \* the eased progress of transitionFrame_
  turns,     \* the transitions begun since the last one was over
  trail,     \* breadcrumb_
  laidOut,   \* breadcrumbLayout_
  laidRoom,  \* breadcrumbLayoutWidth_, 0 when there is none
  room       \* the width of layout_.breadcrumbBounds

chartVars == <<root, review, arcs, plan, progress, turns>>
trailVars == <<trail, laidOut, laidRoom, room>>
vars == <<chartVars, trailVars>>

Navigation == INSTANCE AnalyzerNavigation WITH HistoryCapacity <- 2

Visible(n) == IsVisible(scan, review, n)

Init ==
  /\ root = Root
  /\ review = {}
  /\ arcs = ArcsOf(scan, {}, Root)
  /\ plan = NoPlan
  /\ progress = 0
  /\ turns = 0
  /\ trail = TrailTo(scan, Root)
  /\ laidOut = NoTrail
  /\ laidRoom = 0
  /\ room \in Rooms

Active == plan.morphs # <<>>

\* A seeded fault: the layout of the trail before stays.
TrailReplaced == UNCHANGED <<laidOut, laidRoom>>

\* set_breadcrumb
LayoutDropped == laidOut' = NoTrail /\ laidRoom' = 0

SetBreadcrumb(n) ==
  /\ trail' = TrailTo(scan, n)
  /\ LayoutDropped

\* cancel_transition
Cancelled == plan' = NoPlan /\ progress' = 0 /\ turns' = 0

\* A seeded fault: the chart that was left is taken for what is on display.
ChartLeft(e) == PolarStates(arcs)

\* What a transition starts from: the frame on display, or the chart when
\* the transition under way has come to its end.
OnDisplay(e) ==
  IF Active /\ e < Full THEN Snapshot(FrameOf(plan, e)) ELSE PolarStates(arcs)

\* A transition from what is on display, after advance_transition, to the
\* chart that is there in the next state.
TurnedTo(n) ==
  \E e \in progress .. Full :
    /\ turns < MaxTurns
    /\ plan' = Plan(OnDisplay(e), PolarStates(arcs'), n)
    /\ progress' = 0
    /\ turns' = IF Active /\ e < Full THEN turns + 1 ELSE 1

-----------------------------------------------------------------------------
\* navigate_to_root, and set_root without animations.
NavigateToRoot(n) ==
  /\ n # root
  /\ n \in Directory[scan] /\ Visible(n)
  /\ root' = n
  /\ arcs' = ArcsOf(scan, review, n)
  /\ TurnedTo(n) \/ Cancelled
  /\ SetBreadcrumb(n)
  /\ UNCHANGED <<review, room>>

\* reflow_review_change
Reflow(reviewed) ==
  /\ review' = reviewed
  /\ root' = Navigation!NearestVisibleDirectory(scan, reviewed, root)
  /\ arcs' = ArcsOf(scan, reviewed, root')
  /\ TurnedTo(root') \/ Cancelled
  /\ SetBreadcrumb(root')
  /\ UNCHANGED room

AddToReview(n) ==
  /\ CanCollect(scan, review, n)
  /\ Reflow(WithCollected(scan, review, n))

RestoreReviewItem(n) == n \in review /\ Reflow(review \ {n})

\* advance_transition
AdvanceTransition ==
  /\ Active
  /\ \/ progress' \in progress + 1 .. Full - 1 /\ UNCHANGED <<plan, turns>>
     \/ Cancelled
  /\ UNCHANGED <<root, review, arcs, trailVars>>

\* The clients of cancel_transition: a change of the settings, and a draw that
\* finds the chart elsewhere or has no geometry for it.
CancelTransition ==
  /\ Active
  /\ Cancelled
  /\ UNCHANGED <<root, review, arcs, trailVars>>

\* WM_SIZE
Resize(r) ==
  /\ r # room
  /\ room' = r
  /\ Cancelled
  /\ UNCHANGED <<root, review, arcs, trail, laidOut, laidRoom>>

\* ensure_breadcrumb_layout
Draw ==
  /\ laidRoom # room
  /\ laidOut' = TrailLayout(trail, room)
  /\ laidRoom' = room
  /\ UNCHANGED <<chartVars, trail, room>>

Next ==
  \/ \E n \in Nodes(scan) : NavigateToRoot(n) \/ RestoreReviewItem(n)
  \/ \E n \in Collectable : AddToReview(n)
  \/ AdvanceTransition \/ CancelTransition
  \/ \E r \in Rooms : Resize(r)
  \/ Draw

Spec == Init /\ [][Next]_vars

-----------------------------------------------------------------------------
(***************************************************************************)
(* Properties.                                                             *)
(***************************************************************************)

\* The arcs that show the children of the folder n.
RingOf(n) ==
  MembersAt(arcs, {k \in DOMAIN arcs : IF arcs[k].aggregate THEN arcs[k].node = n
                                       ELSE Parent[scan][arcs[k].node] = n})

\* What the angles of k arcs lose or gain when each is rounded, at most.
Lost(k) == k \div 2

\* The folders that may have a ring: the one on display, and those that have an
\* arc, whose end rounding may have left elsewhere.
Charted ==
  {[node |-> root, from |-> 0, to |-> Circle, lost |-> 0]}
  \cup {[node |-> s.node, from |-> s.from, to |-> s.to,
         lost |-> Lost(Len(RingOf(Parent[scan][s.node])))] :
          s \in {arcs[k] : k \in {j \in DOMAIN arcs : ~arcs[j].aggregate}}}

IsTiled(f) ==
  LET ring == RingOf(f.node)
  IN  ring # <<>> =>
        /\ SumFunction([k \in DOMAIN ring |-> ring[k].bytes]) = EffectiveSize(scan, review, f.node)
        /\ Head(ring).from = f.from
        /\ Last(ring).to \in f.to - f.lost .. f.to + f.lost
        /\ \A k \in 2 .. Len(ring) : ring[k].from = ring[k - 1].to

IsFound(k) ==
  \A angle \in arcs[k].from .. arcs[k].to - 1 :
    LET hit == HitAt(arcs, arcs[k].depth, angle)
    IN  hit = k \/ (hit \in 1 .. k - 1 /\ arcs[hit].to - arcs[k].from <= Lost(Len(arcs)))

\* The chart does not lie about a folder: if any of what it holds is drawn
\* then all its bytes are, in arcs without a gap that begin where its own arc
\* does and end there but for the rounding of its siblings, however little room
\* is left for arcs.  A point of an arc is found, as this arc where arcs do not
\* overlap for that reason.
RingTilesFolder ==
  TotalsFit(scan) =>
    /\ EffectiveSize(scan, review, root) > 0 => RingOf(root) # <<>>
    /\ Len(arcs) <= MaxSegments
    /\ \A f \in Charted : IsTiled(f)
    /\ \A k \in DOMAIN arcs : IsFound(k)

\* What is to be seen of a frame: where arcs are and how strong.
Seen(frame) ==
  {[from |-> f.from, to |-> f.to, inner |-> f.inner, opacity |-> Opacity(f)] :
     f \in {g \in ToSet(frame) : Opacity(g) > 0}}

SeenChart(S) ==
  {[from |-> s.from, to |-> s.to, inner |-> s.inner, opacity |-> s.opacity] :
     s \in {t \in ToSet(S) : t.opacity > 0}}

\* However a transition is interrupted and by what, it goes on from what is on
\* display, and one that begins at rest begins with the chart: nothing jumps.
FrameContinues ==
  [][plan' # plan /\ plan' # NoPlan =>
       IF turns' = 1 THEN Seen(FrameOf(plan', 0)) = SeenChart(PolarStates(arcs))
       ELSE \E e \in progress .. Full - 1 :
              Seen(FrameOf(plan', 0)) = Seen(FrameOf(plan, e))]_vars

\* A transition ends with the chart that is shown after it: the two are built
\* apart, and the review or the folder may have changed under way.
TransitionLands == Active => Seen(FrameOf(plan, Full)) = SeenChart(PolarStates(arcs))

\* The trail shows the overview, the scanned folder, the folder on display
\* and the one above it, from left to right within its bounds; the ellipsis
\* stands for all the others.  What is found under the pointer is one item of
\* the trail, of the way to the folder on display, even before the next draw.
TrailFits ==
  laidRoom # 0 =>
    LET shown == laidOut.visible
        items == {shown[k].item : k \in DOMAIN shown}
    IN  /\ (items \ {0}) \cup laidOut.hidden = DOMAIN trail
        /\ (items \cap laidOut.hidden = {}) /\ (0 \in items <=> laidOut.hidden # {})
        /\ {1, Unscanned + 2, Len(trail) - 1, Len(trail)} \subseteq items
        /\ \A k \in DOMAIN shown :
             /\ 0 <= shown[k].from /\ shown[k].from <= shown[k].to /\ shown[k].to <= laidRoom
             /\ k > 1 => shown[k].from = shown[k - 1].to
        /\ \A x \in {shown[k].from : k \in DOMAIN shown} :
             LET hits == TrailHits(laidOut, x)
             IN  /\ Len(hits) <= 1
                 /\ \A s \in ToSet(hits) : s.item # 0 =>
                      LeadsTo(trail[s.item]) \subseteq Above[scan][root]
=============================================================================
