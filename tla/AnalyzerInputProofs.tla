------------------------ MODULE AnalyzerInputProofs -------------------------
(***************************************************************************)
(* Capture, drag and batch of AnalyzerInput, for every tree, window and    *)
(* length of a transition.                                                 *)
(*                                                                         *)
(* The invariant is CaptureIsDrag with the shape of the view.  What is     *)
(* dragged stays on display because everything that changes the root or    *)
(* the list is a command, and a command is dispatched only once the        *)
(* capture, and with it the drag, is gone.  A pressed row keeps its item   *)
(* for a like reason: the release forgets the press before the command.    *)
(***************************************************************************)
EXTENDS AnalyzerInput, ScanForestProofs

Fields == {"root", "reviewed", "rows", "scroll", "panel", "hovered", "overflow",
           "pressed", "drag", "left"}

DragValues == {NoDrag} \cup [phase : {"Pending", "Active"}, node : Nodes(Scanned)]

\* v is a view, with a drag and the rest of a transition.
Shaped(v) ==
  /\ v = [f \in Fields |-> v[f]]
  /\ v.drag \in DragValues
  /\ v.left \in Nat

\* The chart of the view w offers what the one of v does.
Same(w, v) == w.root = v.root /\ w.reviewed = v.reviewed

IInv == Shaped(view) /\ CaptureIsDrag

-----------------------------------------------------------------------------
(***************************************************************************)
(* Operators on the view.                                                  *)
(***************************************************************************)

\* What is on offer depends on the root and the list alone.
LEMMA OfferedSame ==
  ASSUME NEW v, NEW w, Same(w, v)
  PROVE  Offered(w) = Offered(v)
BY DEF Same, Offered, Reviewed

\* Only nodes of the scan are on offer.
LEMMA OfferedAreNodes ==
  ASSUME NEW v
  PROVE  Offered(v) \subseteq Nodes(Scanned)
BY DEF Offered, Below

\* The pointer moves over the chart and a drag goes on.
LEMMA MovedShape ==
  ASSUME NEW v, Shaped(v), NEW p, NEW far \in BOOLEAN
  PROVE  LET w == PointerMoved(v, p, far)
         IN  /\ Shaped(w) /\ Same(w, v)
             /\ w.left = v.left
             /\ Dragging(w) <=> Dragging(v)
             /\ w.drag.node = v.drag.node
<1>. DEFINE phase == IF v.drag.phase = "Pending" /\ far THEN "Active" ELSE v.drag.phase
            drag == [v.drag EXCEPT !.phase = phase]
            w == PointerMoved(v, p, far)
<1>1. /\ drag \in DragValues
      /\ drag # NoDrag <=> v.drag # NoDrag
      /\ drag.node = v.drag.node
  BY DEF Shaped, DragValues, NoDrag
<1>2. w = [f \in Fields |-> w[f]]
  BY DEF PointerMoved, Shaped, Fields
<1>3. w.drag = drag
  BY DEF PointerMoved, Shaped, Fields
<1>4. w.left = v.left /\ Same(w, v)
  BY DEF PointerMoved, Shaped, Fields, Same
<1>. QED
  BY <1>1, <1>2, <1>3, <1>4 DEF Shaped, Dragging

\* cancel_drag and cancel_transition leave the rest of the view alone.
LEMMA StilledShape ==
  ASSUME NEW v, Shaped(v)
  PROVE  Shaped(Stilled(v)) /\ Same(Stilled(v), v) /\ Stilled(v).drag = NoDrag
BY DEF Stilled, Shaped, Fields, Same, DragValues

\* pointer_left ends a drag.
LEMMA LeftShape ==
  ASSUME NEW v, Shaped(v)
  PROVE  /\ Shaped(PointerLeft(v)) /\ Same(PointerLeft(v), v)
         /\ PointerLeft(v).drag = NoDrag
BY DEF PointerLeft, Shaped, Fields, Same, DragValues

\* A drag begins only on what the chart offers, while it stands still.
LEMMA DownShape ==
  ASSUME NEW v, Shaped(v), NEW p \in Places(v), NEW w, w = PointerDown(v, p)
  PROVE  /\ Shaped(w) /\ Same(w, v)
         /\ Dragging(w) <=> w.drag.phase = "Pending"
         /\ Dragging(w) => ~Blocked /\ ~Moving(w) /\ w.drag.node \in Offered(w)
<1>. DEFINE bare == [v EXCEPT !.drag = NoDrag]
            moved == PointerMoved(bare, p, FALSE)
            drag == [phase |-> "Pending", node |-> p.under]
<1>1. Shaped(bare) /\ Same(bare, v) /\ ~Dragging(bare)
  BY DEF Shaped, Fields, Same, DragValues, Dragging
<1>2. Shaped(moved) /\ Same(moved, v) /\ ~Dragging(moved)
  BY <1>1, MovedShape DEF Same
<1>. HIDE DEF moved
<1>3. CASE w = moved
  BY <1>2, <1>3 DEF Dragging, NoDrag
<1>4. CASE w = [moved EXCEPT !.pressed = RestoreAt(moved, p)]
  <2>1. w = [f \in Fields |-> w[f]] /\ w.drag = moved.drag /\ w.left = moved.left
    BY <1>2, <1>4 DEF Shaped, Fields
  <2>2. Same(w, v)
    BY <1>2, <1>4 DEF Shaped, Fields, Same
  <2>. QED
    BY <1>2, <2>1, <2>2 DEF Shaped, Dragging, NoDrag
<1>5. CASE Drags(moved, p) /\ w = [moved EXCEPT !.drag = drag]
  <2>1. w = [f \in Fields |-> w[f]] /\ w.drag = drag /\ w.left = moved.left
    BY <1>2, <1>5 DEF Shaped, Fields
  <2>2. Same(w, v)
    BY <1>2, <1>5 DEF Shaped, Fields, Same
  <2>3. p.under \in Offered(v)
    BY <1>5 DEF Drags, Places
  <2>4. p.under \in Offered(w) /\ p.under \in Nodes(Scanned)
    BY <2>2, <2>3, OfferedSame, OfferedAreNodes
  <2>5. drag \in DragValues /\ drag # NoDrag
    BY <2>4 DEF DragValues, NoDrag
  <2>6. ~Blocked /\ ~Moving(w)
    BY <1>5, <2>1 DEF Drags, Moving
  <2>. QED
    BY <1>2, <2>1, <2>2, <2>4, <2>5, <2>6 DEF Shaped, Dragging
<1>. QED
  BY <1>3, <1>4, <1>5 DEF PointerDown, moved

\* What is left after the button went up, and the command that follows.  A
\* drag may still be there after a row was pressed.  While a batch is recycled
\* nothing is collected, restored or confirmed.
LEMMA ReleasedShape ==
  ASSUME NEW v, Shaped(v), NEW p, NEW far \in BOOLEAN,
         NEW r \in PointerReleased(v, p, far)
  PROVE  /\ Shaped(r.view) /\ Same(r.view, v)
         /\ ~Dragging(v) => ~Dragging(r.view)
         /\ Blocked => r.command.kind \notin {"Add", "Restore", "Confirm"}
<1>1. CASE r \in RestoreReleased(v, p)
  <2>1. r.view = [v EXCEPT !.pressed = 0]
    BY <1>1 DEF RestoreReleased
  <2>2. Blocked => r.command = NoCommand
    BY <1>1 DEF RestoreReleased
  <2>3. Shaped(r.view) /\ Same(r.view, v) /\ r.view.drag = v.drag
    BY <2>1 DEF Shaped, Fields, Same
  <2>. QED
    BY <2>2, <2>3 DEF NoCommand, Dragging
<1>2. CASE r \in DragReleased(v, p)
  <2>1. r.view = [v EXCEPT !.drag = NoDrag]
    BY <1>2 DEF DragReleased
  <2>2. Blocked => r.command = NoCommand
    BY <1>2 DEF DragReleased
  <2>3. Shaped(r.view) /\ Same(r.view, v) /\ r.view.drag = NoDrag
    BY <2>1 DEF Shaped, Fields, Same, DragValues
  <2>. QED
    BY <2>2, <2>3 DEF NoCommand, Dragging
<1>3. CASE r \in Clicked([v EXCEPT !.drag = NoDrag], p)
  <2>. DEFINE bare == [v EXCEPT !.drag = NoDrag]
  <2>1. Shaped(bare) /\ Same(bare, v) /\ ~Dragging(bare)
    BY DEF Shaped, Fields, Same, DragValues, Dragging
  <2>2. PICK c \in ClickCommands(bare, p) :
          r = [view |-> [bare EXCEPT !.overflow = OverflowAfterClick(bare, p)],
               command |-> c]
    BY <1>3 DEF Clicked
  <2>3. Blocked => c.kind \notin {"Add", "Restore", "Confirm"}
    BY DEF ClickCommands, Command, NoCommand, Overview, AddButton
  <2>4. Shaped(r.view) /\ Same(r.view, bare) /\ r.view.drag = bare.drag
    BY <2>1, <2>2 DEF Shaped, Fields, Same
  <2>. QED
    BY <2>1, <2>2, <2>3, <2>4 DEF Same, Dragging
<1>. QED
  BY <1>1, <1>2, <1>3 DEF PointerReleased

\* No command brings a drag, and only collecting and restoring change the
\* list.
LEMMA DispatchShape ==
  ASSUME NEW v, Shaped(v), ~Dragging(v), NEW c, Dispatch(v, c)
  PROVE  /\ Shaped(view') /\ ~Dragging(view')
         /\ c.kind \notin {"Add", "Restore"} => view'.reviewed = v.reviewed
<1>. Frames \in Nat
  BY InputAssumption
<1>1. CASE Nothing(v)
  BY <1>1 DEF Nothing
<1>2. CASE Navigate(v, c)
  <2>1. CASE view' = v
    BY <2>1
  <2>2. ASSUME NEW h, view' = [v EXCEPT !.overflow = "Closed", !.hovered = h]
        PROVE  Shaped(view') /\ ~Dragging(view') /\ view'.reviewed = v.reviewed
    BY <2>2 DEF Shaped, Fields, Dragging
  <2>3. CASE view' \in Navigated(v, c.node)
    <3>1. \/ \E h \in {v.hovered, FALSE}, p \in {v.panel, FALSE} :
               view' = [v EXCEPT !.root = c.node, !.drag = NoDrag,
                                 !.overflow = "Closed", !.hovered = h,
                                 !.left = 0, !.panel = p]
          \/ \E h \in {v.hovered, FALSE} :
               view' = [v EXCEPT !.root = c.node, !.drag = NoDrag,
                                 !.overflow = "Closed", !.hovered = h,
                                 !.left = Frames, !.panel = FALSE]
      BY <2>3 DEF Navigated
    <3>2. view' = [f \in Fields |-> view'[f]]
      BY <3>1 DEF Shaped, Fields
    <3>3. view'.drag = NoDrag /\ view'.left \in {0, Frames}
      BY <3>1 DEF Shaped, Fields
    <3>4. view'.reviewed = v.reviewed
      BY <3>1 DEF Shaped, Fields
    <3>. QED
      BY <3>2, <3>3, <3>4 DEF Shaped, Dragging, DragValues
  <2>. QED
    BY <1>2, <2>1, <2>2, <2>3 DEF Navigate
<1>3. CASE ReturnToOverview(v)
  <2>1. PICK h : view' = [Stilled(v) EXCEPT !.overflow = "Closed", !.hovered = h]
    BY <1>3 DEF ReturnToOverview
  <2>. QED
    BY <2>1, StilledShape DEF Shaped, Fields, Dragging, Same
<1>4. CASE Confirm(v)
  <2>1. PICK h : view' = [Stilled(v) EXCEPT !.overflow = "Closed", !.hovered = h,
                                            !.panel = FALSE, !.pressed = 0]
    BY <1>4 DEF Confirm, RecyclingView
  <2>. QED
    BY <2>1, StilledShape DEF Shaped, Fields, Dragging, Same
<1>5. CASE ChangesReview(v, c) /\ Reflow(v, ReviewAfter(v, c))
  <2>1. c.kind \in {"Add", "Restore"}
    BY <1>5 DEF ChangesReview
  <2>2. Shaped(view') /\ ~Dragging(view')
    <3>. DEFINE next == ReviewAfter(v, c)
                rows == RowsOf(v.rows.capacity, Len(next), v.scroll)
                root == NearestVisibleDirectory(Scanned, Range(next), v.root)
    <3>1. PICK h \in {v.hovered, FALSE}, left \in {0, Frames} :
            view' = [v EXCEPT !.root = root, !.reviewed = next, !.rows = rows,
                              !.scroll = rows.offset,
                              !.panel = PanelAfter(v, next),
                              !.hovered = h, !.overflow = "Closed",
                              !.drag = NoDrag, !.left = left,
                              !.pressed = IF left = 0 THEN @ ELSE 0]
      BY <1>5 DEF Reflow, Reflowed
    <3>. HIDE DEF next, rows, root
    <3>2. view' = [f \in Fields |-> view'[f]]
      BY <3>1 DEF Shaped, Fields
    <3>3. view'.drag = NoDrag /\ view'.left = left
      BY <3>1 DEF Shaped, Fields
    <3>. QED
      BY <3>2, <3>3 DEF Shaped, DragValues, Dragging
  <2>. QED
    BY <2>1, <2>2
<1>. QED
  BY <1>1, <1>2, <1>3, <1>4, <1>5 DEF Dispatch

-----------------------------------------------------------------------------
(***************************************************************************)
(* The messages.                                                           *)
(***************************************************************************)

\* Where nothing is captured, nothing is dragged; then any view without a drag
\* keeps the invariant.
LEMMA NoDragKeeps ==
  ASSUME Shaped(view'), ~Dragging(view'), captured' = FALSE
  PROVE  IInv'
BY DEF IInv, CaptureIsDrag, Dragging

\* A drag that goes on, over the same chart.
LEMMA DragGoesOn ==
  ASSUME IInv, Shaped(view'), Same(view', view), view'.left = view.left,
         Dragging(view') <=> Dragging(view), view'.drag.node = view.drag.node,
         UNCHANGED <<content, recycle, captured, held>>
  PROVE  IInv'
<1>1. Offered(view') = Offered(view)
  BY OfferedSame
<1>. QED
  BY <1>1 DEF IInv, CaptureIsDrag, Moving, Blocked

\* A message of the mouse keeps capture and drag together.
LEMMA MouseKeepsInv ==
  ASSUME IInv, Pointer
  PROVE  IInv'
<1>1. ASSUME NEW p, NEW far \in BOOLEAN, Move(p, far) PROVE IInv'
  BY <1>1, MovedShape, DragGoesOn DEF Move, IInv
<1>2. ASSUME NEW p, NEW far \in BOOLEAN, Up(p, far) PROVE IInv'
  <2>1. PICK r \in PointerReleased(view, p, far) :
          Dispatch(IF captured THEN Stilled(r.view) ELSE r.view, r.command)
    BY <1>2 DEF Up
  <2>2. Shaped(r.view) /\ (~Dragging(view) => ~Dragging(r.view))
    BY ReleasedShape DEF IInv
  <2>. DEFINE v == IF captured THEN Stilled(r.view) ELSE r.view
  <2>3. Shaped(v) /\ ~Dragging(v)
    BY <2>2, StilledShape DEF IInv, CaptureIsDrag, Dragging
  <2>. HIDE DEF v
  <2>4. Shaped(view') /\ ~Dragging(view')
    BY <2>1, <2>3, DispatchShape DEF v
  <2>. QED
    BY <1>2, <2>4, NoDragKeeps DEF Up
<1>3. ASSUME NEW p \in Places(view), Down(p) PROVE IInv'
  <2>1. /\ Shaped(view')
        /\ Dragging(view') <=> view'.drag.phase = "Pending"
        /\ Dragging(view') => ~Blocked /\ ~Moving(view') /\ view'.drag.node \in Offered(view')
    BY <1>3, DownShape DEF Down, IInv
  <2>2. ~captured
    BY <1>3 DEF Down, IInv, CaptureIsDrag
  <2>. QED
    BY <1>3, <2>1, <2>2 DEF Down, IInv, CaptureIsDrag, Blocked
<1>4. ASSUME NEW p, NEW rows, Wheel(p, rows) PROVE IInv'
  <2>1. /\ Shaped(view') /\ Same(view', view)
        /\ view'.left = view.left /\ view'.drag = view.drag
    BY <1>4 DEF Wheel, IInv, Shaped, Fields, Same
  <2>. QED
    BY <1>4, <2>1, DragGoesOn DEF Wheel, Dragging
<1>5. CASE DownElsewhere
  BY <1>5 DEF DownElsewhere, IInv, CaptureIsDrag, Dragging, Moving, Blocked, Offered,
              Reviewed, Shaped
<1>6. CASE UpElsewhere
  BY <1>6, NoDragKeeps DEF UpElsewhere, IInv, CaptureIsDrag, Dragging, Shaped
<1>7. CASE Leave
  <2>1. Shaped(view') /\ ~Dragging(view')
    BY <1>7, LeftShape, StilledShape DEF Leave, IInv, Dragging
  <2>. QED
    BY <1>7, <2>1, NoDragKeeps DEF Leave
<1>8. CASE CaptureLost
  BY <1>8, StilledShape, NoDragKeeps DEF CaptureLost, IInv, Dragging
<1>. QED
  BY <1>1, <1>2, <1>3, <1>4, <1>5, <1>6, <1>7, <1>8 DEF Pointer

\* A step without the pointer.
LEMMA OthersKeepInv ==
  ASSUME IInv,
         \/ Escape
         \/ \E c \in Capacities : Paint(c)
         \/ Tick
         \/ StopTransition
         \/ NewScan
         \/ RecycleEnds
         \/ PollRecycleFailed
         \/ PollRecycleSucceeded
  PROVE  IInv'
<1>1. CASE Escape
  <2>1. /\ Shaped(view') /\ Same(view', view)
        /\ view'.left = view.left /\ view'.drag = view.drag
    BY <1>1 DEF Escape, IInv, Shaped, Fields, Same
  <2>. QED
    BY <1>1, <2>1, DragGoesOn DEF Escape, Dragging
<1>2. ASSUME NEW c \in Capacities, Paint(c) PROVE IInv'
  <2>. DEFINE rows == RowsOf(c, Len(view.reviewed), view.scroll)
  <2>1. PICK left \in {view.left, 0} :
          view' = [view EXCEPT !.rows = rows, !.scroll = rows.offset, !.left = left,
                               !.overflow = IF @ = "Asked" THEN "Open" ELSE @]
    BY <1>2 DEF Paint
  <2>. HIDE DEF rows
  <2>2. Same(view', view) /\ view'.drag = view.drag
    BY <2>1 DEF IInv, Shaped, Fields, Same
  <2>3. view' = [f \in Fields |-> view'[f]] /\ view'.left = left
    BY <2>1 DEF IInv, Shaped, Fields
  <2>4. Shaped(view')
    BY <2>2, <2>3 DEF IInv, Shaped
  <2>5. Dragging(view) => view'.left = view.left
    BY <2>3 DEF IInv, CaptureIsDrag, Moving, Shaped
  <2>6. CASE Dragging(view)
    BY <1>2, <2>2, <2>4, <2>5, <2>6, DragGoesOn DEF Paint, Dragging
  <2>7. CASE ~Dragging(view)
    BY <1>2, <2>2, <2>4, <2>7, NoDragKeeps DEF Paint, Dragging, IInv, CaptureIsDrag
  <2>. QED
    BY <2>6, <2>7
<1>3. CASE Tick \/ StopTransition
  <2>1. PICK left \in Nat : /\ view' = [view EXCEPT !.left = left]
                            /\ left <= view.left
    BY <1>3 DEF Tick, StopTransition, IInv, Shaped
  <2>2. /\ Shaped(view') /\ Same(view', view) /\ view'.drag = view.drag
        /\ view'.left = left
    BY <2>1 DEF IInv, Shaped, Fields, Same
  <2>3. Dragging(view) => view'.left = view.left
    BY <2>1, <2>2 DEF IInv, CaptureIsDrag, Moving, Shaped
  <2>4. UNCHANGED <<content, recycle, captured, held>>
    BY <1>3 DEF Tick, StopTransition
  <2>5. CASE Dragging(view)
    BY <2>2, <2>3, <2>4, <2>5, DragGoesOn DEF Dragging
  <2>6. CASE ~Dragging(view)
    BY <2>2, <2>4, <2>6, NoDragKeeps DEF Dragging, IInv, CaptureIsDrag
  <2>. QED
    BY <2>5, <2>6
<1>4. CASE NewScan \/ PollRecycleSucceeded
  <2>1. PICK root : view' \in Emptied(view, root)
    BY <1>4 DEF NewScan, PollRecycleSucceeded
  <2>2. PICK rows, h :
          view' = [Stilled(view) EXCEPT !.root = root, !.reviewed = <<>>, !.rows = rows,
                                        !.scroll = 0, !.panel = FALSE, !.hovered = h,
                                        !.overflow = "Closed"]
    BY <2>1 DEF Emptied
  <2>3. Shaped(Stilled(view)) /\ Stilled(view).drag = NoDrag
    BY StilledShape DEF IInv
  <2>4. Shaped(view') /\ view'.drag = NoDrag
    BY <2>2, <2>3 DEF Shaped, Fields
  <2>. QED
    BY <1>4, <2>4, NoDragKeeps DEF NewScan, PollRecycleSucceeded, Dragging
<1>5. CASE RecycleEnds \/ PollRecycleFailed
  <2>1. ~Dragging(view) /\ ~captured
    BY <1>5 DEF RecycleEnds, PollRecycleFailed, IInv, CaptureIsDrag, Blocked
  <2>2. view' = view /\ captured' = captured
    BY <1>5 DEF RecycleEnds, PollRecycleFailed
  <2>. QED
    BY <2>1, <2>2, NoDragKeeps DEF IInv, CaptureIsDrag
<1>. QED
  BY <1>1, <1>2, <1>3, <1>4, <1>5

-----------------------------------------------------------------------------
\* Capture and drag stay together in every behaviour.
LEMMA Invariant == Spec => []IInv
<1>1. Init => IInv
  BY DEF Init, IInv, Shaped, Fields, EmptyView, DragValues, CaptureIsDrag, Dragging, NoDrag
<1>2. IInv /\ [Next]_vars => IInv'
  <2>. SUFFICES ASSUME IInv, [Next]_vars PROVE IInv'
    OBVIOUS
  <2>1. CASE Next
    BY <2>1, MouseKeepsInv, OthersKeepInv DEF Next
  <2>2. CASE UNCHANGED vars
    BY <2>2 DEF vars, IInv, Shaped, CaptureIsDrag, Dragging, Moving, Blocked, Offered,
                Reviewed
  <2>. QED
    BY <2>1, <2>2
<1>. QED
  BY <1>1, <1>2, PTL DEF Spec

\* Capture and drag begin and end together, whatever message comes in between,
\* and what is dragged is on display in a chart that stands still.
THEOREM DragHasCapture == Spec => []CaptureIsDrag
BY Invariant, PTL DEF IInv

\* Nothing that the user does in the analyzer changes the list while what it
\* named when it was confirmed is recycled.
THEOREM RecycledListStays == Spec => BatchKept
<1>. DEFINE Kept == content = "Analyzer" /\ Blocked /\ recycle' # "None"
                      => view'.reviewed = view.reviewed
<1>1. IInv /\ [Next]_vars => [Kept]_vars
  <2>. SUFFICES ASSUME IInv, Next, content = "Analyzer", Blocked, recycle' # "None"
                PROVE  view'.reviewed = view.reviewed
    BY DEF Kept
  <2>. Shaped(view)
    BY DEF IInv
  <2>1. ASSUME NEW p, NEW far \in BOOLEAN, Move(p, far)
        PROVE  view'.reviewed = view.reviewed
    BY <2>1, MovedShape DEF Move, Same
  <2>2. ASSUME NEW p, NEW far \in BOOLEAN, Up(p, far)
        PROVE  view'.reviewed = view.reviewed
    <3>1. PICK r \in PointerReleased(view, p, far) :
            Dispatch(IF captured THEN Stilled(r.view) ELSE r.view, r.command)
      BY <2>2 DEF Up
    <3>2. /\ Shaped(r.view) /\ r.view.reviewed = view.reviewed
          /\ ~Dragging(view) => ~Dragging(r.view)
          /\ r.command.kind \notin {"Add", "Restore"}
      BY ReleasedShape DEF Same
    <3>3. ~captured /\ ~Dragging(view)
      BY DEF IInv, CaptureIsDrag
    <3>. QED
      BY <3>1, <3>2, <3>3, DispatchShape
  <2>3. ASSUME NEW p \in Places(view), Down(p)
        PROVE  view'.reviewed = view.reviewed
    BY <2>3, DownShape DEF Down, Same
  <2>4. ASSUME NEW p, NEW rows, Wheel(p, rows)
        PROVE  view'.reviewed = view.reviewed
    BY <2>4 DEF Wheel, Shaped, Fields
  <2>5. CASE DownElsewhere \/ UpElsewhere \/ RecycleEnds \/ PollRecycleFailed
    BY <2>5 DEF DownElsewhere, UpElsewhere, RecycleEnds, PollRecycleFailed
  <2>6. CASE Leave \/ CaptureLost
    BY <2>6, LeftShape, StilledShape DEF Leave, CaptureLost, Same
  <2>7. CASE Escape \/ Tick \/ StopTransition
    BY <2>7 DEF Escape, Tick, StopTransition, Shaped, Fields
  <2>8. ASSUME NEW c \in Capacities, Paint(c)
        PROVE  view'.reviewed = view.reviewed
    BY <2>8 DEF Paint, Shaped, Fields
  <2>9. CASE NewScan \/ PollRecycleSucceeded
    BY <2>9 DEF NewScan, PollRecycleSucceeded
  <2>. QED
    BY <2>1, <2>2, <2>3, <2>4, <2>5, <2>6, <2>7, <2>8, <2>9 DEF Next, Pointer
<1>. QED
  BY <1>1, Invariant, PTL DEF Spec, BatchKept

-----------------------------------------------------------------------------
(***************************************************************************)
(* The pressed row.  A row is pressed only in the analyzer and only while  *)
(* nothing is recycled, and the release that ends a press comes before the *)
(* command that may change the list.                                       *)
(***************************************************************************)
PressInv == Blocked \/ content = "Overview" => view.pressed = 0

\* Whatever is released, no row is pressed any more.
LEMMA ReleasedPress ==
  ASSUME NEW v, Shaped(v), NEW p, NEW far \in BOOLEAN,
         NEW r \in PointerReleased(v, p, far)
  PROVE  r.view.pressed = 0
<1>1. CASE v.pressed # 0
  <2>1. r.view = [v EXCEPT !.pressed = 0]
    BY <1>1 DEF PointerReleased, RestoreReleased
  <2>. QED
    BY <2>1 DEF Shaped, Fields
<1>2. CASE v.pressed = 0 /\ r \in DragReleased(v, p)
  <2>1. r.view = [v EXCEPT !.drag = NoDrag]
    BY <1>2 DEF DragReleased
  <2>. QED
    BY <1>2, <2>1 DEF Shaped, Fields
<1>3. CASE v.pressed = 0 /\ r \in Clicked([v EXCEPT !.drag = NoDrag], p)
  <2>. DEFINE bare == [v EXCEPT !.drag = NoDrag]
  <2>1. Shaped(bare) /\ bare.pressed = 0
    BY <1>3 DEF Shaped, Fields, DragValues
  <2>2. PICK c \in ClickCommands(bare, p) :
          r = [view |-> [bare EXCEPT !.overflow = OverflowAfterClick(bare, p)],
               command |-> c]
    BY <1>3 DEF Clicked
  <2>. HIDE DEF bare
  <2>. QED
    BY <2>1, <2>2 DEF Shaped, Fields
<1>. QED
  BY <1>1, <1>2, <1>3 DEF PointerReleased

\* No command presses a row.
LEMMA DispatchPress ==
  ASSUME NEW v, Shaped(v), v.pressed = 0, NEW c, Dispatch(v, c)
  PROVE  view'.pressed = 0
<1>1. CASE Nothing(v)
  BY <1>1 DEF Nothing
<1>2. CASE Navigate(v, c)
  <2>1. CASE view' = v
    BY <2>1
  <2>2. ASSUME NEW h, view' = [v EXCEPT !.overflow = "Closed", !.hovered = h]
        PROVE  view'.pressed = 0
    BY <2>2 DEF Shaped, Fields
  <2>3. CASE view' \in Navigated(v, c.node)
    <3>1. \/ \E h \in {v.hovered, FALSE}, p \in {v.panel, FALSE} :
               view' = [v EXCEPT !.root = c.node, !.drag = NoDrag,
                                 !.overflow = "Closed", !.hovered = h,
                                 !.left = 0, !.panel = p]
          \/ \E h \in {v.hovered, FALSE} :
               view' = [v EXCEPT !.root = c.node, !.drag = NoDrag,
                                 !.overflow = "Closed", !.hovered = h,
                                 !.left = Frames, !.panel = FALSE]
      BY <2>3 DEF Navigated
    <3>. QED
      BY <3>1 DEF Shaped, Fields
  <2>. QED
    BY <1>2, <2>1, <2>2, <2>3 DEF Navigate
<1>3. CASE ReturnToOverview(v)
  <2>1. PICK h : view' = [Stilled(v) EXCEPT !.overflow = "Closed", !.hovered = h]
    BY <1>3 DEF ReturnToOverview
  <2>. QED
    BY <2>1 DEF Shaped, Fields, Stilled
<1>4. CASE Confirm(v)
  <2>1. PICK h : view' = [Stilled(v) EXCEPT !.overflow = "Closed", !.hovered = h,
                                            !.panel = FALSE, !.pressed = 0]
    BY <1>4 DEF Confirm, RecyclingView
  <2>. QED
    BY <2>1 DEF Shaped, Fields, Stilled
<1>5. CASE Reflow(v, ReviewAfter(v, c))
  <2>. DEFINE next == ReviewAfter(v, c)
              rows == RowsOf(v.rows.capacity, Len(next), v.scroll)
              root == NearestVisibleDirectory(Scanned, Range(next), v.root)
  <2>1. PICK h \in {v.hovered, FALSE}, left \in {0, Frames} :
          view' = [v EXCEPT !.root = root, !.reviewed = next, !.rows = rows,
                            !.scroll = rows.offset,
                            !.panel = PanelAfter(v, next),
                            !.hovered = h, !.overflow = "Closed",
                            !.drag = NoDrag, !.left = left,
                            !.pressed = IF left = 0 THEN @ ELSE 0]
    BY <1>5 DEF Reflow, Reflowed
  <2>. HIDE DEF next, rows, root
  <2>. QED
    BY <2>1 DEF Shaped, Fields
<1>. QED
  BY <1>1, <1>2, <1>3, <1>4, <1>5 DEF Dispatch

\* The pointer over a row or elsewhere, and the list: what a press can change.
LEMMA DownPress ==
  ASSUME NEW v, Shaped(v), NEW p, NEW w, w = PointerDown(v, p), Blocked
  PROVE  w.pressed = v.pressed
<1>. DEFINE bare == [v EXCEPT !.drag = NoDrag]
            moved == PointerMoved(bare, p, FALSE)
<1>1. Shaped(bare) /\ bare.pressed = v.pressed
  BY DEF Shaped, Fields, DragValues
<1>2. moved.pressed = v.pressed /\ Shaped(moved)
  <2>1. Shaped(moved)
    BY <1>1, MovedShape
  <2>2. moved.pressed = bare.pressed
    <3>. HIDE DEF bare
    <3>. QED
      BY <1>1 DEF PointerMoved, Shaped, Fields
  <2>. QED
    BY <1>1, <2>1, <2>2
<1>. HIDE DEF moved
<1>3. w = moved \/ w = [moved EXCEPT !.drag = [phase |-> "Pending", node |-> p.under]]
  BY DEF PointerDown, moved
<1>. QED
  BY <1>2, <1>3 DEF Shaped, Fields

\* The list stays, and a row is pressed only in the analyzer while nothing is
\* recycled.
Holds ==
  /\ view'.reviewed = view.reviewed
  /\ view'.pressed # view.pressed => view'.pressed = 0 \/ (~Blocked /\ content = "Analyzer")
  /\ Blocked \/ content = "Overview" \/ UNCHANGED <<content, recycle>>

\* A release, and a scan that opens or closes the analyzer, come with no row
\* pressed; all other steps leave the list alone.
LEMMA StepsHold ==
  ASSUME IInv, PressInv, Next
  PROVE  Holds \/ view'.pressed = 0
<1>. Shaped(view)
  BY DEF IInv
<1>1. ASSUME NEW p, NEW far \in BOOLEAN, Move(p, far) PROVE Holds
  <2>1. view'.pressed = view.pressed
    BY <1>1 DEF Move, PointerMoved, Shaped, Fields
  <2>2. view'.reviewed = view.reviewed
    BY <1>1, MovedShape DEF Move, Same
  <2>. QED
    BY <1>1, <2>1, <2>2 DEF Holds, Move
<1>2. ASSUME NEW p, NEW far \in BOOLEAN, Up(p, far) PROVE view'.pressed = 0
  <2>1. PICK r \in PointerReleased(view, p, far) :
          Dispatch(IF captured THEN Stilled(r.view) ELSE r.view, r.command)
    BY <1>2 DEF Up
  <2>2. Shaped(r.view) /\ r.view.pressed = 0
    BY ReleasedShape, ReleasedPress
  <2>. DEFINE v == IF captured THEN Stilled(r.view) ELSE r.view
  <2>3. Shaped(v)
    BY <2>2, StilledShape
  <2>4. v.pressed = 0
    BY <2>2 DEF Stilled, Shaped, Fields
  <2>. HIDE DEF v
  <2>. QED
    BY <2>1, <2>3, <2>4, DispatchPress DEF v
<1>3. ASSUME NEW p \in Places(view), Down(p)
      PROVE  Holds
  <2>1. view'.reviewed = view.reviewed
    BY <1>3, DownShape DEF Down, Same
  <2>2. Blocked => view'.pressed = view.pressed
    BY <1>3, DownPress DEF Down
  <2>. QED
    BY <1>3, <2>1, <2>2 DEF Down, Holds
<1>4. ASSUME NEW p, NEW rows, Wheel(p, rows) PROVE Holds
  BY <1>4 DEF Wheel, Shaped, Fields, Holds
<1>5. CASE DownElsewhere \/ UpElsewhere \/ RecycleEnds \/ PollRecycleFailed
  BY <1>5 DEF DownElsewhere, UpElsewhere, RecycleEnds, PollRecycleFailed, Holds, Blocked
<1>6. CASE Leave \/ CaptureLost
  <2>1. PointerLeft(view).pressed \in {view.pressed, 0} /\ Shaped(PointerLeft(view))
    BY LeftShape DEF PointerLeft, Shaped, Fields
  <2>2. \A v : Shaped(v) => Stilled(v).pressed = v.pressed
    BY DEF Stilled, Shaped, Fields
  <2>3. view'.pressed \in {view.pressed, 0}
    BY <1>6, <2>1, <2>2 DEF Leave, CaptureLost
  <2>4. view'.reviewed = view.reviewed
    BY <1>6, LeftShape, StilledShape DEF Leave, CaptureLost, Same
  <2>. QED
    BY <1>6, <2>3, <2>4 DEF Holds, Leave, CaptureLost
<1>7. CASE Escape \/ Tick \/ StopTransition
  BY <1>7 DEF Escape, Tick, StopTransition, Shaped, Fields, Holds
<1>8. ASSUME NEW c \in Capacities, Paint(c) PROVE Holds
  BY <1>8 DEF Paint, Shaped, Fields, Holds
<1>9. CASE NewScan \/ PollRecycleSucceeded
  <2>1. PICK root : view' \in Emptied(view, root)
    BY <1>9 DEF NewScan, PollRecycleSucceeded
  <2>2. PICK rows, h :
          view' = [Stilled(view) EXCEPT !.root = root, !.reviewed = <<>>, !.rows = rows,
                                        !.scroll = 0, !.panel = FALSE, !.hovered = h,
                                        !.overflow = "Closed"]
    BY <2>1 DEF Emptied
  <2>3. view'.pressed = view.pressed
    BY <2>2 DEF Stilled, Shaped, Fields
  <2>4. view.pressed = 0
    BY <1>9 DEF NewScan, PollRecycleSucceeded, PressInv, Blocked
  <2>. QED
    BY <2>3, <2>4
<1>. QED
  BY <1>1, <1>2, <1>3, <1>4, <1>5, <1>6, <1>7, <1>8, <1>9 DEF Next, Pointer

\* No row is pressed outside the analyzer or while a batch is recycled.
LEMMA PressInvariant == Spec => []PressInv
<1>1. Init => PressInv
  BY DEF Init, PressInv, EmptyView
<1>2. IInv /\ PressInv /\ [Next]_vars => PressInv'
  <2>. SUFFICES ASSUME IInv, PressInv, [Next]_vars PROVE PressInv'
    OBVIOUS
  <2>1. CASE Next
    BY <2>1, StepsHold DEF PressInv, Holds, Blocked
  <2>2. CASE UNCHANGED vars
    BY <2>2 DEF vars, PressInv, Blocked
  <2>. QED
    BY <2>1, <2>2
<1>. QED
  BY <1>1, <1>2, Invariant, PTL DEF Spec

\* PressedItemStays: while a row is pressed the list does not change, so that the
\* release restores the item that was pressed.
THEOREM PressedRowIsKept == Spec => PressedItemStays
<1>1. IInv /\ PressInv /\ [Next]_vars
        => [view.pressed # 0 /\ view'.pressed # 0 => view'.reviewed = view.reviewed]_vars
  BY StepsHold DEF Holds
<1>. QED
  BY <1>1, Invariant, PressInvariant, PTL DEF Spec, PressedItemStays

-----------------------------------------------------------------------------
(***************************************************************************)
(* Types.  A row index is never beyond the list, as the list is laid out   *)
(* anew whenever it becomes shorter and no row is pressed then.            *)
(***************************************************************************)
Items == Nodes(Scanned) \ {Root}

TypedViews ==
  [root : Directory[Scanned] \cup {invalid_node}, reviewed : Seq(Items),
   rows : [capacity : Nat, offset : Nat, visible : Nat], scroll : Nat,
   panel : BOOLEAN, hovered : BOOLEAN, overflow : {"Closed", "Asked", "Open"},
   pressed : Nat, drag : DragStates, left : 0 .. Frames]

Typed(v) ==
  /\ v \in TypedViews
  /\ v.rows.offset + v.rows.visible <= Len(v.reviewed)
  /\ v.scroll <= Len(v.reviewed)
  /\ v.pressed <= Len(v.reviewed)

TInv ==
  /\ Typed(view)
  /\ content \in Views
  /\ content = "Analyzer" => view.root # invalid_node
  /\ captured \in BOOLEAN /\ timer \in BOOLEAN /\ held \in BOOLEAN
  /\ inside \in BOOLEAN
  /\ recycle \in {"None", "Running", "Ended"}

\* Nothing below a directory is the scanned folder.
LEMMA OfferedAreItems ==
  ASSUME NEW v, v.root \in Directory[Scanned] \cup {invalid_node}
  PROVE  Offered(v) \subseteq Items
<1>. SUFFICES ASSUME NEW n \in Offered(v) PROVE n \in Items
  OBVIOUS
<1>0. Scanned \in Trees
  BY InputAssumption
<1>1. v.root \in Directory[Scanned] /\ n \in Nodes(Scanned) /\ v.root \in Above[Scanned][n] /\ n # v.root
  BY DEF Offered, Below
<1>2. v.root \in Nodes(Scanned) /\ v.root <= n
  BY <1>0, <1>1, TreeFacts, AboveSmaller
<1>3. v.root \in Nat /\ n \in Nat
  BY <1>0, <1>1, <1>2, TreeFacts
<1>4. n # 0
  BY <1>1, <1>2, <1>3
<1>. QED
  BY <1>1, <1>4 DEF Items, Root

\* The rows fit the list.
LEMMA RowsFit ==
  ASSUME NEW capacity \in Nat, NEW items \in Nat, NEW scroll \in Nat
  PROVE  LET rows == RowsOf(capacity, items, scroll)
         IN  /\ rows \in [capacity : Nat, offset : Nat, visible : Nat]
             /\ rows.offset + rows.visible <= items
             /\ rows.offset <= items
             /\ rows.offset <= scroll
BY DEF RowsOf

\* The pointer moves.
LEMMA MovedTyped ==
  ASSUME NEW v, Typed(v), NEW p, NEW far \in BOOLEAN
  PROVE  Typed(PointerMoved(v, p, far))
<1>. DEFINE w == PointerMoved(v, p, far)
            phase == IF v.drag.phase = "Pending" /\ far THEN "Active" ELSE v.drag.phase
            drag == [v.drag EXCEPT !.phase = phase]
<1>1. drag \in DragStates
  BY DEF Typed, TypedViews, DragStates, NoDrag
<1>2. PICK overflow \in {"Closed", v.overflow}, panel \in BOOLEAN, hovered \in BOOLEAN :
        w = [v EXCEPT !.overflow = overflow, !.panel = panel, !.hovered = hovered,
                      !.drag.phase = phase]
  BY DEF PointerMoved
<1>3. w = [v EXCEPT !.overflow = overflow, !.panel = panel, !.hovered = hovered, !.drag = drag]
  BY <1>2 DEF Typed, TypedViews
<1>. HIDE DEF w, drag
<1>. QED
  BY <1>1, <1>3, ZenonT(30) DEF Typed, TypedViews, w

\* cancel_drag and cancel_transition
LEMMA StilledTyped ==
  ASSUME NEW v, Typed(v)
  PROVE  Typed(Stilled(v)) /\ Stilled(v).root = v.root /\ Stilled(v).pressed = v.pressed
<1>1. NoDrag \in DragStates /\ 0 \in 0 .. Frames
  BY InputAssumption DEF DragStates
<1>2. Stilled(v) = [v EXCEPT !.drag = NoDrag, !.left = 0]
  BY DEF Stilled
<1>. QED
  BY <1>1, <1>2 DEF Typed, TypedViews

\* pointer_left
LEMMA LeftTyped ==
  ASSUME NEW v, Typed(v)
  PROVE  Typed(PointerLeft(v)) /\ PointerLeft(v).root = v.root
<1>1. NoDrag \in DragStates
  BY DEF DragStates
<1>2. CASE PointerLeft(v) = [v EXCEPT !.drag = NoDrag]
  BY <1>1, <1>2 DEF Typed, TypedViews
<1>3. ASSUME NEW w, w = [v EXCEPT !.drag = NoDrag, !.hovered = FALSE, !.panel = FALSE,
                                  !.overflow = "Closed", !.pressed = 0]
      PROVE  Typed(w) /\ w.root = v.root
  <2>1. w \in TypedViews
    BY <1>1, <1>3 DEF Typed, TypedViews
  <2>2. w.rows = v.rows /\ w.reviewed = v.reviewed /\ w.scroll = v.scroll /\ w.pressed = 0 /\ w.root = v.root
    BY <1>3 DEF Typed, TypedViews
  <2>. QED
    BY <2>1, <2>2 DEF Typed, TypedViews
<1>4. \/ PointerLeft(v) = [v EXCEPT !.drag = NoDrag]
      \/ PointerLeft(v) = [v EXCEPT !.drag = NoDrag, !.hovered = FALSE, !.panel = FALSE,
                                    !.overflow = "Closed", !.pressed = 0]
  BY DEF PointerLeft
<1>. QED
  BY <1>2, <1>3, <1>4
\* pointer_down: a press on a row names a row of the list.
LEMMA DownTyped ==
  ASSUME NEW v, Typed(v), NEW p \in Places(v), NEW w, w = PointerDown(v, p)
  PROVE  Typed(w) /\ w.root = v.root
<1>. DEFINE bare == [v EXCEPT !.drag = NoDrag]
            moved == PointerMoved(bare, p, FALSE)
<1>1. Typed(bare) /\ bare.root = v.root /\ Shaped(bare) /\ Same(bare, v)
  BY DEF Typed, TypedViews, DragStates, Shaped, Fields, DragValues, Same
<1>2. Typed(moved) /\ Same(moved, v)
  <2>. HIDE DEF bare
  <2>1. Typed(moved) /\ Same(moved, bare)
    BY <1>1, MovedTyped, MovedShape
  <2>. QED
    BY <1>1, <2>1 DEF Same
<1>. HIDE DEF moved
<1>3. ASSUME NEW row \in 1 .. Len(moved.reviewed), w = [moved EXCEPT !.pressed = row]
      PROVE  Typed(w) /\ w.root = v.root
  <2>1. row \in Nat /\ row <= Len(moved.reviewed)
    BY <1>2 DEF Typed, TypedViews
  <2>. QED
    BY <1>2, <1>3, <2>1 DEF Typed, TypedViews, Same
<1>4. ASSUME Drags(moved, p), w = [moved EXCEPT !.drag = [phase |-> "Pending", node |-> p.under]]
      PROVE  Typed(w) /\ w.root = v.root
  <2>1. p.under \in Offered(v)
    BY <1>4 DEF Drags, Places
  <2>2. p.under \in Items
    BY <2>1, OfferedAreItems DEF Typed, TypedViews
  <2>3. [phase |-> "Pending", node |-> p.under] \in DragStates
    BY <2>2 DEF DragStates, Items
  <2>. QED
    BY <1>2, <1>4, <2>3 DEF Typed, TypedViews, Same
<1>5. CASE w = moved
  BY <1>2, <1>5 DEF Same
<1>6. \/ w = moved
      \/ \E row \in 1 .. Len(moved.reviewed) : w = [moved EXCEPT !.pressed = row]
      \/ Drags(moved, p) /\ w = [moved EXCEPT !.drag = [phase |-> "Pending", node |-> p.under]]
  <2>. DEFINE row == RestoreAt(moved, p)
  <2>. HIDE DEF row
  <2>1. w = IF ~Blocked /\ moved.panel /\ row \in 1 .. Len(moved.reviewed)
            THEN [moved EXCEPT !.pressed = row]
            ELSE IF Drags(moved, p)
            THEN [moved EXCEPT !.drag = [phase |-> "Pending", node |-> p.under]]
            ELSE moved
    BY DEF PointerDown, moved, row
  <2>. QED
    BY <2>1
<1>7. CASE \E row \in 1 .. Len(moved.reviewed) : w = [moved EXCEPT !.pressed = row]
  <2>1. PICK row \in 1 .. Len(moved.reviewed) : w = [moved EXCEPT !.pressed = row]
    BY <1>7
  <2>. QED
    BY <1>3, <2>1
<1>8. CASE Drags(moved, p) /\ w = [moved EXCEPT !.drag = [phase |-> "Pending", node |-> p.under]]
  BY <1>4, <1>8
<1>. QED
  BY <1>5, <1>6, <1>7, <1>8

\* A click leads to directories.
LEMMA ClickFits ==
  ASSUME NEW v, v.root \in Directory[Scanned], NEW p,
         p.on \in {"History", "Crumb"} => p.under \notin Directory[Scanned],
         NEW c \in ClickCommands(v, p), c.kind \in {"Navigate", "History"}
  PROVE  c.node \in Directory[Scanned]
<1>0. Scanned \in Trees
  BY InputAssumption
<1>1. v.root \in Nodes(Scanned)
  BY <1>0, TreeFacts
<1>2. Above[Scanned][v.root] \subseteq Directory[Scanned]
  BY <1>0, <1>1, AboveDirectory
<1>3. Destinations(v) \subseteq Directory[Scanned]
  BY DEF Destinations
<1>4. \/ c \in Command("History", Destinations(v)) \cup Overview \cup {NoCommand}
      \/ c \in Command("Navigate", Above[Scanned][v.root]) \cup Overview
      \/ c \in Command("Navigate", {p.under}) /\ p.under \in Directory[Scanned]
      \/ c \in AddButton(v)
      \/ c \in Command("Confirm", {invalid_node})
      \/ c = NoCommand
  BY DEF ClickCommands
<1>. QED
  BY <1>2, <1>3, <1>4 DEF Command, Overview, NoCommand, AddButton

\* The way up from a directory finds one that is visible.
LEMMA NearestIsDirectory ==
  ASSUME NEW ex, Root \notin ex, NEW n \in Nodes(Scanned)
  PROVE  NearestVisibleDirectory(Scanned, ex, n) \in Directory[Scanned]
<1>. DEFINE found == {a \in Nodes(Scanned) : /\ n \in Nodes(Scanned)
                                             /\ a \in Above[Scanned][n]
                                             /\ VisibleDirectory(Scanned, ex, a)}
<1>0. Scanned \in Trees
  BY InputAssumption
<1>1. Root \in found
  <2>1. Above[Scanned][Root] \subseteq {Root}
    <3>1. ASSUME NEW a \in Above[Scanned][Root] PROVE a = Root
      BY <1>0, TreeFacts, AboveSelf, AboveRoot, AboveAntisymmetric
    <3>. QED
      BY <3>1
  <2>. QED
    BY <1>0, <2>1, TreeFacts, AboveRoot DEF VisibleDirectory, IsVisible
<1>2. PICK last \in Nat : Nodes(Scanned) = 0 .. last
  BY <1>0, TreeFacts
<1>3. \E a \in found : \A b \in found : b <= a
  <2>1. found \in SUBSET (0 .. last) /\ found # {}
    BY <1>1, <1>2
  <2>. HIDE DEF found
  <2>. QED
    BY <1>2, <2>1, GreatestMember
<1>4. NearestVisibleDirectory(Scanned, ex, n) \in found
  <2>1. NearestVisibleDirectory(Scanned, ex, n) = CHOOSE a \in found : \A b \in found : b <= a
    BY <1>1 DEF NearestVisibleDirectory
  <2>. HIDE DEF found
  <2>. QED
    BY <1>3, <2>1
<1>. QED
  BY <1>4 DEF VisibleDirectory

\* What add and remove make of the list.
LEMMA ListAfter ==
  ASSUME NEW v, Typed(v), NEW c, ChangesReview(v, c)
  PROVE  ReviewAfter(v, c) \in Seq(Items)
<1>1. v.reviewed \in Seq(Items)
  BY DEF Typed, TypedViews
<1>2. CASE c.kind = "Add"
  <2>1. c.node \in Items
    BY <1>2 DEF ChangesReview, CanCollect, Items
  <2>. DEFINE I == {k \in DOMAIN v.reviewed : c.node \notin Above[Scanned][v.reviewed[k]]}
  <2>2. MembersAt(v.reviewed, I) \in Seq(Items)
    BY <1>1, MembersAtSeq
  <2>. HIDE DEF I
  <2>3. Append(MembersAt(v.reviewed, I), c.node) \in Seq(Items)
    BY <2>1, <2>2
  <2>. QED
    BY <1>2, <2>3 DEF ReviewAfter, WithItem, I
<1>3. CASE c.kind # "Add"
  <2>. DEFINE I == {k \in DOMAIN v.reviewed : v.reviewed[k] # c.node}
  <2>2. MembersAt(v.reviewed, I) \in Seq(Items)
    BY <1>1, MembersAtSeq
  <2>. QED
    BY <1>3, <2>2 DEF ReviewAfter
<1>. QED
  BY <1>2, <1>3

\* The view after a command, for a view without a pressed row.
LEMMA DispatchTyped ==
  ASSUME NEW v, Typed(v), v.root \in Directory[Scanned], v.pressed = 0, NEW c,
         c.kind \in {"Navigate", "History"} => c.node \in Directory[Scanned],
         Dispatch(v, c), TInv
  PROVE  /\ Typed(view') /\ view'.root \in Directory[Scanned]
         /\ content' \in Views /\ timer' \in BOOLEAN
         /\ recycle' \in {"None", "Running", "Ended"}
<1>. DEFINE Good == /\ Typed(view') /\ view'.root \in Directory[Scanned]
                    /\ content' \in Views /\ timer' \in BOOLEAN
                    /\ recycle' \in {"None", "Running", "Ended"}
<1>0. NoDrag \in DragStates /\ {0, Frames} \subseteq 0 .. Frames
  BY InputAssumption DEF DragStates
<1>00. v.hovered \in BOOLEAN /\ v.panel \in BOOLEAN
  BY DEF Typed, TypedViews
<1>1. CASE Nothing(v)
  BY <1>1 DEF Nothing, TInv
<1>2. CASE Navigate(v, c) /\ c.node \in Directory[Scanned]
  <2>1. content' \in Views /\ timer' \in BOOLEAN /\ recycle' \in {"None", "Running", "Ended"}
    <3>1. timer \in BOOLEAN /\ content \in Views /\ recycle \in {"None", "Running", "Ended"}
      BY DEF TInv
    <3>2. content' = content /\ recycle' = recycle
      BY <1>2 DEF Navigate
    <3>3. timer' = (timer /\ (Moving(v) \/ ~Moving(view))) \/ timer' = Moving(view')
      BY <1>2 DEF Navigate
    <3>4. timer' \in BOOLEAN
      <4>1. (timer /\ (Moving(v) \/ ~Moving(view))) \in BOOLEAN
        OBVIOUS
      <4>2. Moving(view') \in BOOLEAN
        BY DEF Moving
      <4>. QED
        BY <3>3, <4>1, <4>2
    <3>. QED
      BY <3>1, <3>2, <3>4
  <2>2. CASE view' = v
    BY <2>1, <2>2
  <2>3. ASSUME NEW h \in BOOLEAN, view' = [v EXCEPT !.overflow = "Closed", !.hovered = h]
        PROVE  Good
    BY <2>1, <2>3 DEF Typed, TypedViews
  <2>4. ASSUME NEW h \in BOOLEAN, NEW p \in BOOLEAN, NEW left \in {0, Frames},
               view' = [v EXCEPT !.root = c.node, !.drag = NoDrag, !.overflow = "Closed",
                                 !.hovered = h, !.left = left, !.panel = p]
        PROVE  Good
    <3>1. view' \in TypedViews
      BY <1>0, <1>2, <2>4 DEF Typed, TypedViews
    <3>2. /\ view'.rows = v.rows /\ view'.reviewed = v.reviewed /\ view'.scroll = v.scroll
          /\ view'.pressed = v.pressed /\ view'.root = c.node
      BY <2>4 DEF Typed, TypedViews
    <3>. QED
      BY <1>2, <2>1, <3>1, <3>2 DEF Typed
  <2>5. \/ view' = v
        \/ \E h \in BOOLEAN : view' = [v EXCEPT !.overflow = "Closed", !.hovered = h]
        \/ \E h \in BOOLEAN, p \in BOOLEAN, left \in {0, Frames} :
             view' = [v EXCEPT !.root = c.node, !.drag = NoDrag, !.overflow = "Closed",
                               !.hovered = h, !.left = left, !.panel = p]
    <3>1. CASE c.node = v.root
      BY <1>00, <1>2, <3>1, ZenonT(30) DEF Navigate
    <3>2. CASE view' \in Navigated(v, c.node)
      <4>1. \/ \E h \in {v.hovered, FALSE}, p \in {v.panel, FALSE} :
                 view' = [v EXCEPT !.root = c.node, !.drag = NoDrag,
                                   !.overflow = "Closed", !.hovered = h,
                                   !.left = 0, !.panel = p]
            \/ \E h \in {v.hovered, FALSE} :
                 view' = [v EXCEPT !.root = c.node, !.drag = NoDrag,
                                   !.overflow = "Closed", !.hovered = h,
                                   !.left = Frames, !.panel = FALSE]
        BY <3>2 DEF Navigated
      <4>. QED
        BY <1>00, <4>1
    <3>. QED
      BY <1>2, <3>1, <3>2 DEF Navigate
  <2>. QED
    BY <2>2, <2>3, <2>4, <2>5
<1>3. CASE ReturnToOverview(v)
  <2>1. PICK h \in BOOLEAN : view' = [Stilled(v) EXCEPT !.overflow = "Closed", !.hovered = h]
    BY <1>00, <1>3, StilledTyped DEF ReturnToOverview
  <2>2. Typed(view') /\ view'.root = v.root
    BY <2>1, StilledTyped DEF Typed, TypedViews
  <2>. QED
    BY <1>3, <2>2 DEF ReturnToOverview, TInv, Views
<1>4. CASE Confirm(v)
  <2>1. PICK h \in BOOLEAN :
          view' = [Stilled(v) EXCEPT !.overflow = "Closed", !.hovered = h,
                                     !.panel = FALSE, !.pressed = 0]
    BY <1>00, <1>4 DEF Confirm, RecyclingView
  <2>. DEFINE s == Stilled(v)
  <2>2. Typed(s) /\ s.root = v.root
    BY StilledTyped
  <2>. HIDE DEF s
  <2>3. view' = [s EXCEPT !.overflow = "Closed", !.hovered = h, !.panel = FALSE, !.pressed = 0]
    BY <2>1 DEF s
  <2>4. view' \in TypedViews
    BY <2>2, <2>3 DEF Typed, TypedViews
  <2>5. /\ view'.rows = s.rows /\ view'.reviewed = s.reviewed /\ view'.scroll = s.scroll
        /\ view'.pressed = 0 /\ view'.root = s.root
    BY <2>2, <2>3 DEF Typed, TypedViews
  <2>6. Typed(view')
    BY <2>2, <2>4, <2>5 DEF Typed, TypedViews
  <2>. QED
    BY <1>4, <2>2, <2>5, <2>6 DEF Confirm, TInv
<1>5. CASE ChangesReview(v, c) /\ Reflow(v, ReviewAfter(v, c))
  <2>. DEFINE next == ReviewAfter(v, c)
              rows == RowsOf(v.rows.capacity, Len(next), v.scroll)
              root == NearestVisibleDirectory(Scanned, Range(next), v.root)
              panel == PanelAfter(v, next)
  <2>1. next \in Seq(Items)
    BY <1>5, ListAfter
  <2>2. PICK h \in {v.hovered, FALSE}, left \in {0, Frames} :
          view' = [v EXCEPT !.root = root, !.reviewed = next, !.rows = rows,
                            !.scroll = rows.offset, !.panel = panel,
                            !.hovered = h, !.overflow = "Closed",
                            !.drag = NoDrag, !.left = left,
                            !.pressed = IF left = 0 THEN @ ELSE 0]
    BY <1>5 DEF Reflow, Reflowed
  <2>20. h \in BOOLEAN
    BY <1>00, <2>2
  <2>3. root \in Directory[Scanned]
    <3>1. Root \notin Range(next)
      BY <2>1 DEF Items, Range
    <3>2. v.root \in Nodes(Scanned)
      BY InputAssumption, TreeFacts
    <3>. QED
      BY <3>1, <3>2, NearestIsDirectory
  <2>4. /\ rows \in [capacity : Nat, offset : Nat, visible : Nat]
        /\ rows.offset + rows.visible <= Len(next)
        /\ rows.offset <= Len(next)
    <3>1. v.rows.capacity \in Nat /\ Len(next) \in Nat /\ v.scroll \in Nat
      BY <2>1 DEF Typed, TypedViews
    <3>. HIDE DEF next
    <3>. QED
      BY <3>1, RowsFit
  <2>5. panel \in BOOLEAN
    BY <1>00 DEF PanelAfter
  <2>. HIDE DEF next, rows, root, panel
  <2>6. view' \in TypedViews
    BY <1>0, <2>1, <2>2, <2>20, <2>3, <2>4, <2>5 DEF Typed, TypedViews
  <2>7. /\ view'.rows = rows /\ view'.reviewed = next /\ view'.scroll = rows.offset
        /\ view'.pressed = 0 /\ view'.root = root
    BY <2>2 DEF Typed, TypedViews
  <2>8. Typed(view')
    BY <2>1, <2>4, <2>6, <2>7 DEF Typed
  <2>9. content' \in Views /\ timer' \in BOOLEAN /\ recycle' \in {"None", "Running", "Ended"}
    BY <1>5 DEF Reflow, TInv, Moving
  <2>. QED
    BY <2>3, <2>7, <2>8, <2>9
<1>. QED
  BY <1>1, <1>2, <1>3, <1>4, <1>5 DEF Dispatch

\* What is left after the button went up, and a command that fits it.
LEMMA ReleasedTyped ==
  ASSUME NEW v, Typed(v), v.root \in Directory[Scanned], NEW p \in Places(v),
         NEW far \in BOOLEAN, NEW r \in PointerReleased(v, p, far)
  PROVE  /\ Typed(r.view) /\ r.view.root = v.root
         /\ r.command.kind \in {"Navigate", "History"}
              => r.command.node \in Directory[Scanned]
<1>0. NoDrag \in DragStates /\ 0 \in Nat /\ 0 <= Len(v.reviewed)
  BY DEF DragStates, Typed, TypedViews
<1>1. CASE r \in RestoreReleased(v, p)
  <2>1. r.view = [v EXCEPT !.pressed = 0]
    BY <1>1 DEF RestoreReleased
  <2>2. r.command.kind \notin {"Navigate", "History"}
    BY <1>1 DEF RestoreReleased, NoCommand
  <2>. QED
    BY <1>0, <2>1, <2>2 DEF Typed, TypedViews
<1>2. CASE r \in DragReleased(v, p)
  <2>1. r.view = [v EXCEPT !.drag = NoDrag]
    BY <1>2 DEF DragReleased
  <2>2. r.command.kind \notin {"Navigate", "History"}
    BY <1>2 DEF DragReleased, NoCommand
  <2>. QED
    BY <1>0, <2>1, <2>2 DEF Typed, TypedViews
<1>3. CASE r \in Clicked([v EXCEPT !.drag = NoDrag], p)
  <2>. DEFINE bare == [v EXCEPT !.drag = NoDrag]
  <2>1. Typed(bare) /\ bare.root = v.root
    BY <1>0 DEF Typed, TypedViews
  <2>2. PICK c \in ClickCommands(bare, p) :
          r = [view |-> [bare EXCEPT !.overflow = OverflowAfterClick(bare, p)],
               command |-> c]
    BY <1>3 DEF Clicked
  <2>3. OverflowAfterClick(bare, p) \in {"Closed", "Asked", "Open"}
    BY <2>1 DEF OverflowAfterClick, Typed, TypedViews
  <2>4. p.on \in {"History", "Crumb"} => p.under \notin Directory[Scanned]
    <3>1. p.on \in {"History", "Crumb"} => p.under = invalid_node
      BY DEF Places
    <3>2. invalid_node \notin Directory[Scanned]
      BY InputAssumption, TreeFacts DEF invalid_node
    <3>. QED
      BY <3>1, <3>2
  <2>. HIDE DEF bare
  <2>5. c.kind \in {"Navigate", "History"} => c.node \in Directory[Scanned]
    BY <2>1, <2>4, ClickFits
  <2>6. Typed(r.view) /\ r.view.root = v.root
    BY <2>1, <2>2, <2>3 DEF Typed, TypedViews
  <2>. QED
    BY <2>2, <2>5, <2>6
<1>. QED
  BY <1>1, <1>2, <1>3 DEF PointerReleased

\* The pointer keeps the types.
LEMMA PointerKeepsTypes ==
  ASSUME IInv, TInv, Pointer
  PROVE  TInv'
<1>. Typed(view) /\ Shaped(view)
  BY DEF TInv, IInv
<1>1. ASSUME NEW p \in Places(view), NEW far \in BOOLEAN, Move(p, far) PROVE TInv'
  <2>1. Typed(view') /\ view'.root = view.root
    BY <1>1, MovedTyped, MovedShape DEF Move, Same
  <2>. QED
    BY <1>1, <2>1 DEF Move, TInv
<1>2. ASSUME NEW p \in Places(view), NEW far \in BOOLEAN, Up(p, far) PROVE TInv'
  <2>1. PICK r \in PointerReleased(view, p, far) :
          Dispatch(IF captured THEN Stilled(r.view) ELSE r.view, r.command)
    BY <1>2 DEF Up
  <2>2. view.root \in Directory[Scanned]
    BY <1>2 DEF Up, TInv, Typed, TypedViews
  <2>3. /\ Typed(r.view) /\ r.view.root = view.root
        /\ r.command.kind \in {"Navigate", "History"}
             => r.command.node \in Directory[Scanned]
    BY <2>2, ReleasedTyped
  <2>4. r.view.pressed = 0
    BY ReleasedPress
  <2>. DEFINE v == IF captured THEN Stilled(r.view) ELSE r.view
  <2>5. Typed(v) /\ v.root \in Directory[Scanned] /\ v.pressed = 0
    BY <2>2, <2>3, <2>4, StilledTyped
  <2>6. Dispatch(v, r.command)
    BY <2>1
  <2>. HIDE DEF v
  <2>7. /\ Typed(view') /\ view'.root \in Directory[Scanned]
        /\ content' \in Views /\ timer' \in BOOLEAN
        /\ recycle' \in {"None", "Running", "Ended"}
    BY <2>3, <2>5, <2>6, DispatchTyped
  <2>8. view'.root # invalid_node
    BY <2>7, InputAssumption, TreeFacts DEF invalid_node
  <2>. QED
    BY <1>2, <2>7, <2>8 DEF Up, TInv
<1>3. ASSUME NEW p \in Places(view), Down(p) PROVE TInv'
  <2>1. Typed(view') /\ view'.root = view.root
    BY <1>3, DownTyped DEF Down
  <2>2. captured' \in BOOLEAN
    <3>1. captured' = (captured \/ view'.drag.phase = "Pending")
      BY <1>3 DEF Down
    <3>. QED
      BY <3>1
  <2>. QED
    BY <1>3, <2>1, <2>2 DEF Down, TInv
<1>4. ASSUME NEW p \in Places(view), NEW rows \in {1, -1}, Wheel(p, rows) PROVE TInv'
  <2>. DEFINE last == RowsOf(view.rows.capacity, Len(view.reviewed), Len(view.reviewed)).offset
  <2>1. last \in Nat /\ last <= Len(view.reviewed)
    <3>1. view.rows.capacity \in Nat /\ Len(view.reviewed) \in Nat
      BY DEF Typed, TypedViews
    <3>. QED
      BY <3>1, RowsFit
  <2>2. CASE view.scroll + rows \in 0 .. last /\ view' = [view EXCEPT !.scroll = view.scroll + rows]
    <3>. HIDE DEF last
    <3>. DEFINE scroll == view.scroll + rows
    <3>1. scroll \in Nat /\ scroll <= Len(view.reviewed)
      BY <2>1, <2>2 DEF Typed, TypedViews
    <3>2. view' = [view EXCEPT !.scroll = scroll]
      BY <2>2
    <3>. HIDE DEF scroll
    <3>3. Typed(view') /\ view'.root = view.root
      BY <3>1, <3>2 DEF Typed, TypedViews
    <3>. QED
      BY <1>4, <3>3 DEF Wheel, TInv
  <2>3. CASE view' = [view EXCEPT !.hovered = FALSE]
    <3>1. Typed(view') /\ view'.root = view.root
      BY <2>3 DEF Typed, TypedViews
    <3>. QED
      BY <1>4, <3>1 DEF Wheel, TInv
  <2>. QED
    BY <1>4, <2>2, <2>3 DEF Wheel
<1>5. CASE DownElsewhere \/ UpElsewhere
  BY <1>5 DEF DownElsewhere, UpElsewhere, TInv
<1>6. CASE Leave
  <2>1. Typed(view') /\ view'.root = view.root
    BY <1>6, LeftTyped, StilledTyped DEF Leave
  <2>2. timer' \in BOOLEAN
    <3>1. timer' = (timer /\ (Moving(view') \/ ~Moving(view)))
      BY <1>6 DEF Leave
    <3>. QED
      BY <3>1
  <2>. QED
    BY <1>6, <2>1, <2>2 DEF Leave, TInv
<1>7. CASE CaptureLost
  <2>1. Typed(view') /\ view'.root = view.root
    BY <1>7, StilledTyped DEF CaptureLost
  <2>2. timer' \in BOOLEAN
    <3>1. timer' = (timer /\ ~Moving(view))
      BY <1>7 DEF CaptureLost
    <3>. QED
      BY <3>1
  <2>. QED
    BY <1>7, <2>1, <2>2 DEF CaptureLost, TInv
<1>. QED
  BY <1>1, <1>2, <1>3, <1>4, <1>5, <1>6, <1>7 DEF Pointer

\* So does everything else.
LEMMA OthersKeepTypes ==
  ASSUME IInv, PressInv, TInv,
         \/ Escape
         \/ \E c \in Capacities : Paint(c)
         \/ Tick \/ StopTransition \/ NewScan
         \/ RecycleEnds \/ PollRecycleFailed \/ PollRecycleSucceeded
  PROVE  TInv'
<1>. Typed(view)
  BY DEF TInv
<1>0. view.hovered \in BOOLEAN /\ Frames \in Nat
  BY InputAssumption DEF Typed, TypedViews
<1>1. CASE Escape
  <2>1. PICK h \in BOOLEAN : view' = [view EXCEPT !.overflow = "Closed", !.hovered = h]
    BY <1>0, <1>1 DEF Escape
  <2>2. Typed(view') /\ view'.root = view.root
    BY <2>1 DEF Typed, TypedViews
  <2>. QED
    BY <1>1, <2>2 DEF Escape, TInv
<1>2. ASSUME NEW c \in Capacities, Paint(c) PROVE TInv'
  <2>. DEFINE rows == RowsOf(c, Len(view.reviewed), view.scroll)
              overflow == IF view.overflow = "Asked" THEN "Open" ELSE view.overflow
  <2>1. PICK left \in {view.left, 0} :
          view' = [view EXCEPT !.rows = rows, !.scroll = rows.offset, !.left = left,
                               !.overflow = overflow]
    BY <1>2 DEF Paint
  <2>2. /\ rows \in [capacity : Nat, offset : Nat, visible : Nat]
        /\ rows.offset + rows.visible <= Len(view.reviewed)
        /\ rows.offset <= Len(view.reviewed)
    <3>1. c \in Nat /\ Len(view.reviewed) \in Nat /\ view.scroll \in Nat
      BY InputAssumption DEF Typed, TypedViews
    <3>. QED
      BY <3>1, RowsFit
  <2>3. overflow \in {"Closed", "Asked", "Open"} /\ left \in 0 .. Frames
    BY <1>0 DEF Typed, TypedViews
  <2>. HIDE DEF rows, overflow
  <2>4. view' \in TypedViews
    BY <2>1, <2>2, <2>3 DEF Typed, TypedViews
  <2>5. /\ view'.rows = rows /\ view'.scroll = rows.offset /\ view'.root = view.root
        /\ view'.reviewed = view.reviewed /\ view'.pressed = view.pressed
    BY <2>1 DEF Typed, TypedViews
  <2>6. Typed(view')
    BY <2>2, <2>4, <2>5 DEF Typed
  <2>. QED
    BY <1>2, <2>5, <2>6 DEF Paint, TInv
<1>3. CASE Tick
  <2>1. PICK left \in 0 .. view.left : view' = [view EXCEPT !.left = left] /\ timer' = (left > 0)
    BY <1>3 DEF Tick
  <2>2. left \in 0 .. Frames
    BY <1>0, <2>1 DEF Typed, TypedViews
  <2>3. Typed(view') /\ view'.root = view.root
    BY <2>1, <2>2 DEF Typed, TypedViews
  <2>. QED
    BY <1>3, <2>1, <2>3 DEF Tick, TInv
<1>4. CASE StopTransition
  <2>1. 0 \in 0 .. Frames
    BY <1>0
  <2>2. Typed(view') /\ view'.root = view.root
    BY <1>4, <2>1 DEF StopTransition, Typed, TypedViews
  <2>. QED
    BY <1>4, <2>2 DEF StopTransition, TInv
<1>5. ASSUME NEW root \in Directory[Scanned] \cup {invalid_node}, view' \in Emptied(view, root),
             view.pressed = 0
      PROVE  Typed(view') /\ view'.root = root
  <2>. DEFINE s == Stilled(view)
              rows == IF view.reviewed = <<>> THEN s.rows ELSE NoRows
  <2>1. PICK h \in BOOLEAN :
          view' = [s EXCEPT !.root = root, !.reviewed = <<>>, !.rows = rows, !.scroll = 0,
                            !.panel = FALSE, !.hovered = h, !.overflow = "Closed"]
    <3>. HIDE DEF s
    <3>1. PICK h \in {view.hovered, FALSE} :
            view' = [s EXCEPT !.root = root, !.reviewed = <<>>,
                              !.rows = IF view.reviewed = <<>> THEN @ ELSE NoRows, !.scroll = 0,
                              !.panel = FALSE, !.hovered = h, !.overflow = "Closed"]
      BY <1>5 DEF Emptied, s
    <3>2. Typed(s)
      BY StilledTyped DEF s
    <3>3. view' = [s EXCEPT !.root = root, !.reviewed = <<>>, !.rows = rows, !.scroll = 0,
                            !.panel = FALSE, !.hovered = h, !.overflow = "Closed"]
      BY <3>1, <3>2 DEF Typed, TypedViews
    <3>. QED
      BY <1>0, <3>1, <3>3
  <2>2. Typed(s) /\ s.pressed = 0 /\ s.rows = view.rows
    <3>1. s.rows = view.rows
      BY DEF Stilled, Typed, TypedViews
    <3>. QED
      BY <1>5, <3>1, StilledTyped
  <2>3. rows \in [capacity : Nat, offset : Nat, visible : Nat] /\ rows.offset + rows.visible <= 0
    <3>1. CASE view.reviewed = <<>>
      BY <2>2, <3>1 DEF Typed, TypedViews
    <3>2. CASE view.reviewed # <<>>
      BY <3>2 DEF NoRows
    <3>. QED
      BY <3>1, <3>2
  <2>. HIDE DEF s, rows
  <2>4. <<>> \in Seq(Items) /\ Len(<<>>) = 0
    OBVIOUS
  <2>5. view' \in TypedViews
    BY <2>1, <2>2, <2>3, <2>4 DEF Typed, TypedViews
  <2>6. /\ view'.rows = rows /\ view'.scroll = 0 /\ view'.root = root
        /\ view'.reviewed = <<>> /\ view'.pressed = 0
    BY <2>1, <2>2 DEF Typed, TypedViews
  <2>. QED
    BY <2>3, <2>4, <2>5, <2>6 DEF Typed
<1>6. CASE NewScan
  <2>1. Root \in Directory[Scanned] /\ Root # invalid_node
    BY InputAssumption, TreeFacts DEF Root, invalid_node
  <2>2. view.pressed = 0
    BY <1>6 DEF NewScan, PressInv
  <2>3. Typed(view') /\ view'.root # invalid_node
    BY <1>5, <1>6, <2>1, <2>2 DEF NewScan
  <2>4. timer' \in BOOLEAN
    <3>1. timer' = (timer /\ ~Moving(view))
      BY <1>6 DEF NewScan
    <3>. QED
      BY <3>1
  <2>. QED
    BY <1>6, <2>3, <2>4 DEF NewScan, TInv, Views
<1>7. CASE RecycleEnds \/ PollRecycleFailed
  BY <1>7 DEF RecycleEnds, PollRecycleFailed, TInv
<1>8. CASE PollRecycleSucceeded
  <2>1. view.pressed = 0
    BY <1>8 DEF PollRecycleSucceeded, PressInv, Blocked
  <2>2. Typed(view')
    BY <1>5, <1>8, <2>1 DEF PollRecycleSucceeded
  <2>3. timer' \in BOOLEAN
    <3>1. timer' = (timer /\ ~Moving(view))
      BY <1>8 DEF PollRecycleSucceeded
    <3>. QED
      BY <3>1
  <2>. QED
    BY <1>8, <2>2, <2>3 DEF PollRecycleSucceeded, TInv, Views
<1>. QED
  BY <1>1, <1>2, <1>3, <1>4, <1>6, <1>7, <1>8

\* TypeOK: the index of a row, pressed or at the edge of the panel, is never
\* beyond the list, whatever is collected, restored and recycled in between.
THEOREM TypeCorrect == Spec => []TypeOK
<1>1. Init => TInv
  <2>. SUFFICES ASSUME Init PROVE TInv
    OBVIOUS
  <2>1. EmptyView \in TypedViews
    BY InputAssumption DEF EmptyView, TypedViews, NoRows, DragStates
  <2>2. Typed(view)
    BY <2>1 DEF Init, Typed, EmptyView, NoRows
  <2>. QED
    BY <2>2 DEF Init, TInv, Views
<1>2. IInv /\ PressInv /\ TInv /\ [Next]_vars => TInv'
  <2>. SUFFICES ASSUME IInv, PressInv, TInv, [Next]_vars PROVE TInv'
    OBVIOUS
  <2>1. CASE Pointer
    BY <2>1, PointerKeepsTypes
  <2>2. CASE Next /\ ~Pointer
    BY <2>2, OthersKeepTypes DEF Next
  <2>3. CASE UNCHANGED vars
    BY <2>3 DEF vars, TInv
  <2>. QED
    BY <2>1, <2>2, <2>3
<1>3. TInv => TypeOK
  <2>. SUFFICES ASSUME TInv PROVE TypeOK
    OBVIOUS
  <2>1. view \in TypedViews /\ Typed(view)
    BY DEF TInv, Typed
  <2>2. Range(view.reviewed) \subseteq Nodes(Scanned) \ {Root}
    BY <2>1 DEF TypedViews, Range, Items
  <2>. QED
    BY <2>1, <2>2 DEF TInv, Typed, TypedViews, TypeOK
<1>. QED
  BY <1>1, <1>2, <1>3, Invariant, PressInvariant, PTL DEF Spec
=============================================================================
