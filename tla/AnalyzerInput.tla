---------------------------- MODULE AnalyzerInput ----------------------------
(***************************************************************************)
(* The pointer in the analyzer: press, drag and release in AnalyzerView    *)
(* (app/analyzer_view.cpp), ReviewDragState and the rows of the collector  *)
(* panel (app/review_collector_interaction.cpp), what                      *)
(* compute_analyzer_input_actions makes the window do with the mouse       *)
(* capture, and the transition that a command starts and a timer ends.     *)
(*                                                                         *)
(* AnalyzerSession takes commands as given; here they come from gestures.  *)
(* Each message of the window procedure is one action.  A release of the   *)
(* button is one action with the capture change it causes and the command  *)
(* it dispatches, as they are nested calls.                                *)
(*                                                                         *)
(* The layout is abstracted to places: what a point of the client area     *)
(* hits.  The history, the selected node and the size of the moves are     *)
(* left to choice.                                                         *)
(***************************************************************************)
EXTENDS AnalyzerNavigation

CONSTANTS
  Scanned,     \* the tree of every completed scan
  Capacities,  \* how many rows the panel can show, in windows of any height
  Frames       \* at most how many timer ticks a transition takes

ASSUME InputAssumption ==
  /\ Scanned \in Trees
  /\ Capacities \subseteq Nat
  /\ Frames \in Nat \ {0}

VARIABLES
  content,   \* navigation_.view
  view,      \* the members of AnalyzerView described below
  captured,  \* GetCapture() == window_
  timer,     \* the animation timer is set
  recycle,   \* recycleSession_: none, running, or ended and not yet polled
  held,      \* the left button is down, pressed wherever
  inside     \* trackingMouse_: the pointer was seen and has not left

vars == <<content, view, captured, timer, recycle, held, inside>>

NoDrag == [phase |-> "None", node |-> invalid_node]
NoRows == [capacity |-> 0, offset |-> 0, visible |-> 0]

(***************************************************************************)
(* AnalyzerView: root_, reviewNodes_, reviewLayout_, reviewScrollOffset_,  *)
(* reviewPanelOpen_, whether anything else is hovered, the breadcrumb      *)
(* overflow (asked for, and open once it was drawn), pressedReviewRestore_ *)
(* counted from 1 and 0 when empty, reviewDrag_, and the ticks that are    *)
(* left of the transition.                                                 *)
(***************************************************************************)
EmptyView ==
  [root |-> invalid_node, reviewed |-> <<>>, rows |-> NoRows, scroll |-> 0,
   panel |-> FALSE, hovered |-> FALSE, overflow |-> "Closed", pressed |-> 0,
   drag |-> NoDrag, left |-> 0]

Init ==
  /\ content = "Overview"
  /\ view = EmptyView
  /\ captured = FALSE
  /\ timer = FALSE
  /\ recycle = "None"
  /\ held = FALSE
  /\ inside = FALSE

\* recycleInProgress_: until the window has noticed the end.
Blocked == recycle # "None"

Moving(v) == v.left > 0
Dragging(v) == v.drag # NoDrag

Reviewed(v) == Range(v.reviewed)

\* What the chart and the list of children offer.
Offered(v) ==
  IF v.root = invalid_node THEN {}
  ELSE {n \in Below(Scanned, v.root) \ {v.root} :
          EffectiveSize(Scanned, Reviewed(v), n) > 0}

-----------------------------------------------------------------------------
(***************************************************************************)
(* Places.  The boxes of the restore buttons are counted from the lowest   *)
(* one, as the panel grows upwards; slot 0 is the rest of the panel.  The  *)
(* panel and the flyout lie over the chart, which is hit when they are     *)
(* closed.  A button of the history or of the caption is at "History", a   *)
(* button of the history that is disabled at "Disabled".                   *)
(***************************************************************************)
Slots == 0 .. CHOOSE c \in Capacities : \A d \in Capacities : d <= c

Places(v) ==
  LET under == Offered(v) \cup {invalid_node}
  IN  [on : {"Summary", "History", "Disabled", "Crumb", "Ellipsis", "Add", "Delete"},
       slot : {0}, under : {invalid_node}]
      \cup [on : {"Chart", "Flyout"}, slot : {0}, under : under]
      \cup [on : {"Panel"}, slot : Slots, under : under]

\* A seeded fault: the list may be scrolled beyond its end.
RowsUnclamped(capacity, items, scroll) ==
  [capacity |-> capacity, offset |-> scroll,
   visible  |-> IF items < capacity THEN items ELSE capacity]

\* compute_review_collector_layout: the scroll offset fits the list.
RowsOf(capacity, items, scroll) ==
  LET last == IF items > capacity THEN items - capacity ELSE 0
  IN  [capacity |-> capacity,
       offset   |-> IF scroll < last THEN scroll ELSE last,
       visible  |-> IF items < capacity THEN items ELSE capacity]

\* hit_test_review_restore: the item whose button is in the slot, or 0.  The
\* rows are hit whether or not the panel is open.
RestoreAt(v, p) ==
  IF p.on = "Panel" /\ p.slot \in 1 .. v.rows.visible
  THEN v.rows.offset + v.rows.visible - p.slot + 1
  ELSE 0

OverPanel(v, p) ==
  v.panel /\ p.on = "Panel" /\ p.slot <= v.rows.visible

OverBreadcrumb(v, p) ==
  \/ p.on \in {"Crumb", "Ellipsis"}
  \/ p.on = "Flyout" /\ v.overflow = "Open"

-----------------------------------------------------------------------------
(***************************************************************************)
(* What the handlers of AnalyzerView do to it.                             *)
(***************************************************************************)

\* pointer_moved.  far: the pointer is at least six DIP from where it went
\* down.
PointerMoved(v, p, far) ==
  LET leaves  == v.overflow = "Open" /\ ~OverBreadcrumb(v, p)
      panel   == /\ ~Blocked
                 /\ v.reviewed # <<>>
                 /\ ~OverBreadcrumb(v, p)
                 /\ p.on = "Summary" \/ OverPanel(v, p)
      hovered == \/ p.on = "History"
                 \/ OverBreadcrumb(v, p)
                 \/ p.on \in {"Add", "Delete"} /\ ~Moving(v)
                 \/ panel /\ RestoreAt(v, p) # 0
                 \/ p.under # invalid_node /\ ~OverPanel(v, p) /\ ~Moving(v)
  IN  [v EXCEPT !.overflow = IF leaves THEN "Closed" ELSE @,
                !.panel = panel,
                !.hovered = hovered,
                !.drag.phase = IF @ = "Pending" /\ far THEN "Active" ELSE @]

\* pointer_left after cancel_drag.  When nothing is hovered a pressed row
\* stays pressed.
PointerLeft(v) ==
  IF v.hovered \/ v.panel \/ v.overflow # "Closed"
  THEN [v EXCEPT !.drag = NoDrag, !.hovered = FALSE, !.panel = FALSE,
                 !.overflow = "Closed", !.pressed = 0]
  ELSE [v EXCEPT !.drag = NoDrag]

\* A press there may begin a drag.
Drags(v, p) ==
  /\ ~Blocked
  /\ ~Moving(v)
  /\ ~OverBreadcrumb(v, p)
  /\ ~OverPanel(v, p)
  /\ p.under # invalid_node

\* pointer_down: a row is pressed, or a drag may begin.  The row of an
\* earlier press is not forgotten.
PointerDown(v, p) ==
  LET moved == PointerMoved([v EXCEPT !.drag = NoDrag], p, FALSE)
      row   == RestoreAt(moved, p)
  IN  IF ~Blocked /\ moved.panel /\ row \in 1 .. Len(moved.reviewed)
      THEN [moved EXCEPT !.pressed = row]
      ELSE IF Drags(moved, p)
      THEN [moved EXCEPT !.drag = [phase |-> "Pending", node |-> p.under]]
      ELSE moved

-----------------------------------------------------------------------------
(***************************************************************************)
(* Commands, and the view that is left once one was decided.               *)
(***************************************************************************)
NoCommand == [kind |-> "None", node |-> invalid_node]
Command(kind, nodes) == [kind : {kind}, node : nodes]

\* What Back, Forward and the breadcrumb can lead to.
Overview == Command("ReturnToOverview", {invalid_node})
Destinations(v) ==
  {d \in Directory[Scanned] : VisibleDirectory(Scanned, Reviewed(v), d)}

\* A seeded fault: the add button works while the batch is recycled.
AddAnyTime(v) == Command("Add", Offered(v) \cup {v.root})

\* The add button offers the selected node, which lies under the root.
AddButton(v) ==
  IF Blocked THEN {NoCommand} ELSE Command("Add", Offered(v) \cup {v.root})

\* The overflow is closed by whatever is clicked but the history buttons.
OverflowAfterClick(v, p) ==
  IF p.on = "Ellipsis" THEN (IF v.overflow = "Closed" THEN "Asked" ELSE "Closed")
  ELSE IF p.on \in {"History", "Disabled"} THEN v.overflow
  ELSE "Closed"

\* pointer_pressed: the commands a click may give.  A click below the header
\* is lost while the overflow is open or the chart moves.
ClickCommands(v, p) ==
  LET heeded == v.overflow = "Closed" /\ ~Moving(v) /\ ~OverPanel(v, p)
  IN  CASE p.on = "History" ->
             Command("History", Destinations(v)) \cup Overview \cup {NoCommand}
        [] p.on = "Crumb" \/ (p.on = "Flyout" /\ v.overflow = "Open") ->
             Command("Navigate", Above[Scanned][v.root]) \cup Overview
        [] p.under \in Directory[Scanned] /\ heeded ->
             Command("Navigate", {p.under})
        [] p.on = "Add" /\ heeded -> AddButton(v)
        [] p.on = "Delete" /\ heeded /\ ~Blocked /\ v.reviewed # <<>> ->
             Command("Confirm", {invalid_node})
        [] OTHER -> {NoCommand}

Clicked(v, p) ==
  {[view |-> [v EXCEPT !.overflow = OverflowAfterClick(v, p)], command |-> c] :
     c \in ClickCommands(v, p)}

\* A seeded fault: the row stays pressed.
RestoreKeepsPressed(v, p) ==
  {[view |-> v,
    command |-> IF ~Blocked /\ RestoreAt(v, p) = v.pressed
                THEN [kind |-> "Restore", node |-> v.reviewed[v.pressed]]
                ELSE NoCommand]}

\* The release after a row was pressed: it is restored when it is hit again.
\* A drag is left to the capture change that follows.
RestoreReleased(v, p) ==
  LET again == ~Blocked /\ RestoreAt(v, p) = v.pressed /\ v.pressed <= Len(v.reviewed)
  IN  {[view |-> [v EXCEPT !.pressed = 0],
        command |-> IF again THEN [kind |-> "Restore", node |-> v.reviewed[v.pressed]]
                    ELSE NoCommand]}

\* The release of a drag that became active over the collector, or elsewhere.
DragReleased(v, p) ==
  {[view |-> [v EXCEPT !.drag = NoDrag],
    command |-> IF p.on = "Summary" /\ ~Blocked
                THEN [kind |-> "Add", node |-> v.drag.node]
                ELSE NoCommand]}

\* pointer_released
PointerReleased(v, p, far) ==
  IF v.pressed # 0 THEN RestoreReleased(v, p)
  ELSE IF v.drag.phase = "Active" \/ (v.drag.phase = "Pending" /\ far)
  THEN DragReleased(v, p)
  ELSE Clicked([v EXCEPT !.drag = NoDrag], p)

-----------------------------------------------------------------------------
(***************************************************************************)
(* handle_analyzer_command.  The commands are ignored while the recycle    *)
(* session runs, not while it waits to be polled.                          *)
(***************************************************************************)

\* cancel_drag and cancel_transition
Stilled(v) == [v EXCEPT !.drag = NoDrag, !.left = 0]

\* navigate_to_root, with and without animation.  Parts of what is hovered
\* are forgotten.
Navigated(v, root) ==
  {[v EXCEPT !.root = root, !.drag = NoDrag, !.overflow = "Closed",
             !.hovered = h, !.left = 0, !.panel = p] :
     h \in {v.hovered, FALSE}, p \in {v.panel, FALSE}}
  \cup {[v EXCEPT !.root = root, !.drag = NoDrag, !.overflow = "Closed",
                  !.hovered = h, !.left = Frames, !.panel = FALSE] :
          h \in {v.hovered, FALSE}}

\* set_review_summary
PanelAfter(v, items) == v.panel /\ items # <<>>

\* apply_review_change and reflow_review_change for the accepted review next.
\* Only the animated reflow forgets the pressed row.
Reflowed(v, next) ==
  LET rows == RowsOf(v.rows.capacity, Len(next), v.scroll)
  IN  {[v EXCEPT !.root = NearestVisibleDirectory(Scanned, Range(next), v.root),
                 !.reviewed = next,
                 !.rows = rows,
                 !.scroll = rows.offset,
                 !.panel = PanelAfter(v, next),
                 !.hovered = h,
                 !.overflow = "Closed",
                 !.drag = NoDrag,
                 !.left = left,
                 !.pressed = IF left = 0 THEN @ ELSE 0] :
         h \in {v.hovered, FALSE}, left \in {0, Frames}}

\* DeletionReview keeps the order in which the items were collected.
WithItem(items, n) ==
  Append(MembersAt(items, {k \in DOMAIN items : n \notin Above[Scanned][items[k]]}), n)

ReviewAfter(v, c) ==
  IF c.kind = "Add" THEN WithItem(v.reviewed, c.node)
  ELSE MembersAt(v.reviewed, {k \in DOMAIN v.reviewed : v.reviewed[k] # c.node})

ChangesReview(v, c) ==
  \/ c.kind = "Add" /\ CanCollect(Scanned, Reviewed(v), c.node)
  \/ c.kind = "Restore" /\ c.node \in Reviewed(v)

\* Back and Forward rebuild the breadcrumb although the place is the same.
Navigate(v, c) ==
  IF c.node = v.root
  THEN /\ view' \in IF c.kind = "History"
                    THEN {[v EXCEPT !.overflow = "Closed", !.hovered = h] :
                            h \in {v.hovered, FALSE}}
                    ELSE {v}
       /\ timer' = (timer /\ (Moving(v) \/ ~Moving(view)))
       /\ UNCHANGED <<content, recycle>>
  ELSE /\ view' \in Navigated(v, c.node)
       /\ timer' = Moving(view')
       /\ UNCHANGED <<content, recycle>>

ReturnToOverview(v) ==
  /\ content' = "Overview"
  /\ view' \in {[Stilled(v) EXCEPT !.overflow = "Closed", !.hovered = h] :
                  h \in {v.hovered, FALSE}}
  /\ timer' = (timer /\ ~Moving(view))
  /\ UNCHANGED recycle

\* A seeded fault: the transition of a reflow is started without its timer.
ReflowUntimed(v, next) ==
  /\ view' \in Reflowed(v, next)
  /\ UNCHANGED <<timer, content, recycle>>

Reflow(v, next) ==
  /\ view' \in Reflowed(v, next)
  /\ timer' = Moving(view')
  /\ UNCHANGED <<content, recycle>>

\* set_recycle_in_progress(true)
RecyclingView(v) ==
  {[Stilled(v) EXCEPT !.overflow = "Closed", !.hovered = h, !.panel = FALSE,
                      !.pressed = 0] : h \in {v.hovered, FALSE}}

\* confirm_review_deletion, answered with yes.
Confirm(v) ==
  /\ recycle' = "Running"
  /\ view' \in RecyclingView(v)
  /\ timer' = FALSE
  /\ UNCHANGED content

\* A command that is empty, ignored, answered with no, or changes nothing.
Nothing(v) ==
  /\ view' = v
  /\ timer' = (timer /\ (Moving(v) \/ ~Moving(view)))
  /\ UNCHANGED <<content, recycle>>

Dispatch(v, c) ==
  IF recycle = "Running" THEN Nothing(v)
  ELSE CASE c.kind \in {"Navigate", "History"} -> Navigate(v, c)
         [] c.kind = "ReturnToOverview" -> ReturnToOverview(v)
         [] c.kind = "Confirm" -> Confirm(v) \/ Nothing(v)
         [] ChangesReview(v, c) -> Reflow(v, ReviewAfter(v, c))
         [] OTHER -> Nothing(v)

-----------------------------------------------------------------------------
(***************************************************************************)
(* Messages of the mouse.                                                  *)
(***************************************************************************)

\* WM_MOUSEMOVE
Move(p, far) ==
  /\ content = "Analyzer"
  /\ view' = PointerMoved(view, p, far)
  /\ inside' = TRUE
  /\ UNCHANGED <<content, captured, timer, recycle, held>>

\* WM_LBUTTONDOWN; a drag that may begin takes the capture.
Down(p) ==
  /\ content = "Analyzer" /\ inside
  /\ ~held
  /\ held' = TRUE
  /\ view' = PointerDown(view, p)
  /\ captured' = (captured \/ view'.drag.phase = "Pending")
  /\ UNCHANGED <<content, timer, recycle, inside>>

\* WM_LBUTTONUP: the capture is released, which cancels drag and transition,
\* before the command is dispatched.
Up(p, far) ==
  /\ content = "Analyzer" /\ inside
  /\ held
  /\ held' = FALSE
  /\ captured' = FALSE
  /\ UNCHANGED inside
  /\ \E r \in PointerReleased(view, p, far) :
       Dispatch(IF captured THEN Stilled(r.view) ELSE r.view, r.command)

\* The button goes down over another window, the title bar or the overview.
DownElsewhere ==
  /\ ~inside \/ content = "Overview"
  /\ ~held
  /\ held' = TRUE
  /\ UNCHANGED <<content, view, captured, timer, recycle, inside>>

\* It goes up there; the window that has the capture hears of it all the same.
UpElsewhere ==
  /\ ~inside \/ content = "Overview"
  /\ held /\ ~captured
  /\ held' = FALSE
  /\ UNCHANGED <<content, view, captured, timer, recycle, inside>>

\* WM_MOUSELEAVE
Leave ==
  /\ content = "Analyzer" /\ inside
  /\ inside' = FALSE
  /\ view' = IF captured THEN Stilled(PointerLeft(view)) ELSE PointerLeft(view)
  /\ timer' = (timer /\ (Moving(view') \/ ~Moving(view)))
  /\ captured' = FALSE
  /\ UNCHANGED <<content, recycle, held>>

\* A seeded fault: only the transition is given up.
CaptureLostDragKept ==
  /\ captured' = FALSE
  /\ view' = [view EXCEPT !.left = 0]
  /\ timer' = (timer /\ ~Moving(view))
  /\ UNCHANGED <<content, recycle, held, inside>>

\* WM_CAPTURECHANGED: another window, a menu or the system's loop for moving
\* the window took or gave up the capture.
CaptureLost ==
  /\ captured' = FALSE
  /\ view' = Stilled(view)
  /\ timer' = (timer /\ ~Moving(view))
  /\ UNCHANGED <<content, recycle, held, inside>>

\* WM_MOUSEWHEEL: the panel under the pointer scrolls, or the list of
\* children, whose hovered row is then forgotten.
Wheel(p, rows) ==
  LET items == Len(view.reviewed)
      last  == RowsOf(view.rows.capacity, items, items).offset
  IN  /\ content = "Analyzer" /\ inside
      /\ ~Moving(view)
      /\ IF OverPanel(view, p)
         THEN /\ view.scroll + rows \in 0 .. last
              /\ view' = [view EXCEPT !.scroll = view.scroll + rows]
         ELSE view' = [view EXCEPT !.hovered = FALSE]
      /\ UNCHANGED <<content, captured, timer, recycle, held, inside>>

\* WM_KEYDOWN with Escape
Escape ==
  /\ view.overflow # "Closed"
  /\ \E h \in {view.hovered, FALSE} :
       view' = [view EXCEPT !.overflow = "Closed", !.hovered = h]
  /\ UNCHANGED <<content, captured, timer, recycle, held, inside>>

-----------------------------------------------------------------------------
(***************************************************************************)
(* Drawing and timers.                                                     *)
(***************************************************************************)

\* WM_PAINT lays the panel out for the height the window has now.  When the
\* chart has another geometry than the transition was made for, the
\* transition is cancelled; the timer finds out at its next tick.
Paint(capacity) ==
  /\ content = "Analyzer"
  /\ LET rows == RowsOf(capacity, Len(view.reviewed), view.scroll)
     IN  \E left \in {view.left, 0} :
           view' = [view EXCEPT !.rows = rows, !.scroll = rows.offset, !.left = left,
                                !.overflow = IF @ = "Asked" THEN "Open" ELSE @]
  /\ UNCHANGED <<content, captured, timer, recycle, held, inside>>

\* WM_TIMER of the animation: some of the time is over.
Tick ==
  /\ timer
  /\ \E left \in 0 .. view.left :
       /\ Moving(view) => left < view.left
       /\ view' = [view EXCEPT !.left = left]
       /\ timer' = (left > 0)
  /\ UNCHANGED <<content, captured, recycle, held, inside>>

\* WM_SIZE, or WM_SETTINGCHANGE and the menu when they turn animations off.
StopTransition ==
  /\ Moving(view)
  /\ view' = [view EXCEPT !.left = 0]
  /\ timer' = FALSE
  /\ UNCHANGED <<content, captured, recycle, held, inside>>

-----------------------------------------------------------------------------
(***************************************************************************)
(* Scans and recycling, as far as they reach the view.                     *)
(***************************************************************************)

\* ContentChanging, and a view whose review is empty.  A view that had none
\* keeps its rows: there are none either way.
Emptied(v, root) ==
  {[Stilled(v) EXCEPT !.root = root, !.reviewed = <<>>,
                      !.rows = IF v.reviewed = <<>> THEN @ ELSE NoRows,
                      !.scroll = 0, !.panel = FALSE, !.hovered = h,
                      !.overflow = "Closed"] : h \in {v.hovered, FALSE}}

\* start_scan and, after a while in the overview, poll_scan_session.  The
\* pointer may be anywhere by then.
NewScan ==
  /\ content = "Overview"
  /\ content' = "Analyzer"
  /\ view' \in Emptied(view, Root)
  /\ timer' = (timer /\ ~Moving(view))
  /\ captured' = FALSE
  /\ inside' \in BOOLEAN
  /\ UNCHANGED <<recycle, held>>

RecycleEnds ==
  /\ recycle = "Running"
  /\ recycle' = "Ended"
  /\ UNCHANGED <<content, view, captured, timer, held, inside>>

\* poll_recycle_session, after a failure or a success.
PollRecycleFailed ==
  /\ recycle = "Ended"
  /\ recycle' = "None"
  /\ UNCHANGED <<content, view, captured, timer, held, inside>>

PollRecycleSucceeded ==
  /\ recycle = "Ended"
  /\ recycle' = "None"
  /\ content' = "Overview"
  /\ view' \in Emptied(view, invalid_node)
  /\ timer' = (timer /\ ~Moving(view))
  /\ captured' = FALSE
  /\ UNCHANGED <<held, inside>>

Pointer ==
  \/ \E p \in Places(view), far \in BOOLEAN : Move(p, far) \/ Up(p, far)
  \/ \E p \in Places(view) : Down(p) \/ Wheel(p, 1) \/ Wheel(p, -1)
  \/ DownElsewhere
  \/ UpElsewhere
  \/ Leave
  \/ CaptureLost

Next ==
  \/ Pointer
  \/ Escape
  \/ \E c \in Capacities : Paint(c)
  \/ Tick
  \/ StopTransition
  \/ NewScan
  \/ RecycleEnds
  \/ PollRecycleFailed
  \/ PollRecycleSucceeded

\* The timer goes off every 16 ms and the message loop always comes round to
\* it: WM_TIMER waits only for messages that were there before.
Spec == Init /\ [][Next]_vars /\ WF_vars(Tick)

-----------------------------------------------------------------------------
(***************************************************************************)
(* Properties.                                                             *)
(***************************************************************************)
DragStates ==
  {NoDrag} \cup [phase : {"Pending", "Active"}, node : Nodes(Scanned) \ {Root}]

\* The values the variables range over; an index of a row is never beyond the
\* list it was laid out for.
TypeOK ==
  /\ content \in Views
  /\ view.root \in Directory[Scanned] \cup {invalid_node}
  /\ content = "Analyzer" => view.root # invalid_node
  /\ Range(view.reviewed) \subseteq Nodes(Scanned) \ {Root}
  /\ view.rows.offset + view.rows.visible <= Len(view.reviewed)
  /\ view.scroll \in 0 .. Len(view.reviewed)
  /\ view.overflow \in {"Closed", "Asked", "Open"}
  /\ view.pressed \in 0 .. Len(view.reviewed)
  /\ view.drag \in DragStates
  /\ view.left \in 0 .. Frames
  /\ view.panel \in BOOLEAN /\ view.hovered \in BOOLEAN
  /\ captured \in BOOLEAN /\ timer \in BOOLEAN /\ held \in BOOLEAN
  /\ inside \in BOOLEAN
  /\ recycle \in {"None", "Running", "Ended"}

\* The window has the mouse capture exactly while a node is held by the
\* pointer, and only while the button is down: whatever message ends the one
\* ends the other.  What is held can still be collected when it is dropped: it
\* is on display in the chart, and the chart neither moves nor is being
\* recycled.
CaptureIsDrag ==
  /\ captured <=> Dragging(view)
  /\ captured => held
  /\ Dragging(view) =>
       /\ content = "Analyzer" /\ ~Moving(view) /\ ~Blocked
       /\ view.drag.node \in Offered(view)

\* While a row is pressed its index goes on to name the same item: the list
\* changes under no press, however long ago that was.
PressedItemStays ==
  [][view.pressed # 0 /\ view'.pressed # 0 => view'.reviewed = view.reviewed]_vars

\* From the answer to the confirmation until the window has noticed the end of
\* the recycling, the analyzer goes on to list what was handed over.
BatchKept ==
  [][content = "Analyzer" /\ Blocked /\ recycle' # "None"
       => view'.reviewed = view.reviewed]_vars

\* A transition that is not started anew again and again ends: the timer is
\* set as long as there is one, whatever interrupts it.
TransitionEnds ==
  []<>(~Moving(view)) \/ []<><<view'.left > view.left>>_vars

\* The collector design: "On release elsewhere, cancel without changing the
\* review collection."
DragCollectsOnly ==
  [][view.drag.phase = "Active" /\ view'.reviewed # view.reviewed
       => view'.reviewed = WithItem(view.reviewed, view.drag.node)]_vars
=============================================================================
