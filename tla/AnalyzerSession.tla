--------------------------- MODULE AnalyzerSession ---------------------------
(***************************************************************************)
(* The analyzer as the main window drives it (app/main_window.cpp): the    *)
(* completed scan, the navigation, the review and its exclusion, and the   *)
(* copies of them that AnalyzerView keeps and from which it makes the next *)
(* command.  A command is only ever built from what the view shows, so     *)
(* each handler below reads the view to know what it can be asked and the  *)
(* window's own state to answer.                                           *)
(*                                                                         *)
(* The scan and the recycle sessions appear as the steps with which they   *)
(* enter the window; ScanSession models the first of them.                 *)
(***************************************************************************)
EXTENDS AnalyzerNavigation

CONSTANT NoTree  \* completedScan_ holds nothing

ASSUME NoTreeAssumption == NoTree \notin Trees

VARIABLES
  tree,      \* completedScan_
  review,    \* deletionReview_
  excluded,  \* reviewExclusion_
  nav,       \* navigation_
  shown,     \* what analyzer_ keeps of the above
  scanning,  \* scanSession_ # nullptr
  recycle    \* recycleSession_: none, running, or ended and not yet polled

vars == <<tree, review, excluded, nav, shown, scanning, recycle>>

(***************************************************************************)
(* The part of AnalyzerView that depends on the scan: root_,               *)
(* selectedNode_, the node its breadcrumb was built for, canNavigateBack_, *)
(* canNavigateForward_, reviewNodes_ and reviewTotalBytes_.                *)
(***************************************************************************)
NothingShown ==
  [root |-> invalid_node, selected |-> invalid_node, crumb |-> invalid_node,
   canBack |-> FALSE, canForward |-> FALSE, reviewed |-> {}, total |-> 0]

\* A seeded fault: the view is not told that the review was emptied.
StillReviewed(view) == view

\* set_review_summary(0, 0) and set_review_nodes of an empty review.
NothingReviewed(view) == [view EXCEPT !.reviewed = {}, !.total = 0]

\* A seeded fault: only the Back button is brought up to date.
SyncedBackOnly(view, n, t, ex) ==
  [view EXCEPT !.canBack = NavigationCanBack(n, t, ex),
               !.crumb = IF n.view = "Analyzer" THEN n.root ELSE invalid_node]

\* sync_analyzer_navigation_chrome
Synced(view, n, t, ex) ==
  [view EXCEPT !.canBack = NavigationCanBack(n, t, ex),
               !.canForward = NavigationCanForward(n, t, ex),
               !.crumb = IF n.view = "Analyzer" THEN n.root ELSE invalid_node]

Init ==
  /\ tree = NoTree
  /\ review = {}
  /\ excluded = {}
  /\ nav = NoNavigation
  /\ shown = NothingShown
  /\ scanning = FALSE
  /\ recycle = "None"

-----------------------------------------------------------------------------
(***************************************************************************)
(* Scans.                                                                  *)
(***************************************************************************)

\* A seeded fault: the review outlives the scan it was made in.
ReviewKept == UNCHANGED <<review, excluded>>

\* deletionReview_.clear() and reviewExclusion_.clear(), always one after the
\* other.
ReviewCleared == review' = {} /\ excluded' = {}

\* start_scan, from an overview tile.  When the session cannot be started
\* the review is already gone.
StartScan ==
  /\ nav.view = "Overview"
  /\ ~scanning
  /\ scanning' \in BOOLEAN
  /\ ReviewCleared
  /\ shown' = NothingReviewed(shown)
  /\ UNCHANGED <<tree, nav, recycle>>

\* poll_scan_session on a completed scan: the analyzer opens on its root.
FinishScan(t) ==
  /\ scanning
  /\ scanning' = FALSE
  /\ tree' = t
  /\ ReviewCleared
  /\ nav' = Opened
  /\ shown' = Synced([NothingShown EXCEPT !.root = Root, !.selected = Root],
                     Opened, t, {})
  /\ UNCHANGED recycle

\* poll_scan_session on a cancelled or failed scan: its result is dropped.
DropScan ==
  /\ scanning
  /\ scanning' = FALSE
  /\ UNCHANGED <<tree, review, excluded, nav, shown, recycle>>

-----------------------------------------------------------------------------
(***************************************************************************)
(* Commands of the analyzer.  handle_analyzer_command ignores them while   *)
(* the recycle session runs.                                               *)
(***************************************************************************)
CommandsHandled == nav.view = "Analyzer" /\ recycle # "Running"

\* What the chart and the list of children can name: below the shown root,
\* still visible, and not empty.
Offered ==
  {n \in Nodes(tree) \ {shown.root} :
     shown.root \in Above[tree][n] /\ EffectiveSize(tree, excluded, n) > 0}

\* The tail of handle_analyzer_command after apply_analyzer_command succeeded.
Present(next, historyMove) ==
  LET placed == IF next.view = "Overview" THEN shown
                ELSE [shown EXCEPT !.root = next.root, !.selected = next.selected]
      moved == historyMove \/ next.root # nav.root \/ next.view # nav.view
  IN  /\ nav' = next
      /\ shown' = IF moved THEN Synced(placed, next, tree, excluded) ELSE placed

ReturnToOverview ==
  /\ CommandsHandled
  /\ Present(ReturnedToOverview(nav), FALSE)
  /\ UNCHANGED <<tree, review, excluded, scanning, recycle>>

\* A directory of the chart or the list, or a node of the breadcrumb.
NavigateTo(n) ==
  /\ CommandsHandled
  /\ n \in (Offered \cap Directory[tree]) \cup Above[tree][shown.crumb]
  /\ VisibleDirectory(tree, excluded, n)
  /\ Present(NavigatedTo(nav, n), FALSE)
  /\ UNCHANGED <<tree, review, excluded, scanning, recycle>>

\* A file of the chart or the list.
SelectNode(n) ==
  /\ CommandsHandled
  /\ n \in Offered \ Directory[tree]
  /\ IsVisible(tree, excluded, n)
  /\ nav' = [nav EXCEPT !.selected = n]
  /\ shown' = [shown EXCEPT !.selected = n]
  /\ UNCHANGED <<tree, review, excluded, scanning, recycle>>

\* The buttons are live when the view was last told that they lead somewhere.
\* A move that finds no visible entry returns before the view is told.
NavigateBack ==
  /\ CommandsHandled
  /\ shown.canBack
  /\ IF NavigationCanBack(nav, tree, excluded)
     THEN Present(MovedBack(nav, tree, excluded), TRUE)
     ELSE nav' = MovedBack(nav, tree, excluded) /\ UNCHANGED shown
  /\ UNCHANGED <<tree, review, excluded, scanning, recycle>>

NavigateForward ==
  /\ CommandsHandled
  /\ shown.canForward
  /\ IF NavigationCanForward(nav, tree, excluded)
     THEN Present(MovedForward(nav, tree, excluded), TRUE)
     ELSE nav' = MovedForward(nav, tree, excluded) /\ UNCHANGED shown
  /\ UNCHANGED <<tree, review, excluded, scanning, recycle>>

-----------------------------------------------------------------------------
(***************************************************************************)
(* The review.                                                             *)
(***************************************************************************)

\* apply_review_change after DeletionReview accepted the change: the
\* exclusion is rebuilt, the navigation leaves what is now hidden, and the
\* view is told all of it.
ReviewBecomes(next) ==
  LET hidden == ExclusionRoots(tree, next)
      place  == Reconciled(nav, tree, hidden)
  IN  /\ review' = next
      /\ excluded' = hidden
      /\ nav' = place
      /\ shown' = Synced([shown EXCEPT !.root = place.root,
                                       !.selected = place.selected,
                                       !.reviewed = next,
                                       !.total = TotalBytes(tree, next)],
                         place, tree, hidden)
      /\ UNCHANGED <<tree, scanning, recycle>>

\* The add button offers the selected node, a drag any node on display.
AddToReview(n) ==
  /\ CommandsHandled
  /\ recycle = "None"
  /\ n \in Offered \cup {shown.selected}
  /\ CanCollect(tree, review, n)
  /\ ReviewBecomes(WithCollected(tree, review, n))

RestoreReviewItem(n) ==
  /\ CommandsHandled
  /\ recycle = "None"
  /\ n \in shown.reviewed
  /\ n \in review
  /\ ReviewBecomes(review \ {n})

\* confirm_review_deletion, answered with yes and followed by a thread that
\* could be started.
ConfirmReview ==
  /\ CommandsHandled
  /\ recycle = "None"
  /\ shown.reviewed # {}
  /\ review # {}
  /\ recycle' = "Running"
  /\ UNCHANGED <<tree, review, excluded, nav, shown, scanning>>

\* The recycle thread publishes its result.
RecycleEnds ==
  /\ recycle = "Running"
  /\ recycle' \in {"Succeeded", "Failed"}
  /\ UNCHANGED <<tree, review, excluded, nav, shown, scanning>>

\* poll_recycle_session on a failed or cancelled operation.
PollRecycleFailed ==
  /\ recycle = "Failed"
  /\ recycle' = "None"
  /\ UNCHANGED <<tree, review, excluded, nav, shown, scanning>>

\* poll_recycle_session and finish_recycle_success: everything that refers to
\* the old tree goes, and its target is scanned again unless the user already
\* started a scan.
PollRecycleSucceeded ==
  /\ recycle = "Succeeded"
  /\ recycle' = "None"
  /\ tree' = NoTree
  /\ ReviewCleared
  /\ nav' = NoNavigation
  /\ shown' = NothingShown
  /\ IF scanning THEN UNCHANGED scanning ELSE scanning' \in BOOLEAN

-----------------------------------------------------------------------------
Scan == StartScan \/ DropScan \/ \E t \in Trees : FinishScan(t)

Navigate ==
  \/ ReturnToOverview
  \/ NavigateBack
  \/ NavigateForward
  \/ \E n \in Nodes(tree) : NavigateTo(n) \/ SelectNode(n)

EditReview == \E n \in Nodes(tree) : AddToReview(n) \/ RestoreReviewItem(n)

Recycle ==
  ConfirmReview \/ RecycleEnds \/ PollRecycleFailed \/ PollRecycleSucceeded

Next == \/ Scan
        \/ tree # NoTree /\ (Navigate \/ EditReview)
        \/ Recycle

Spec == Init /\ [][Next]_vars

-----------------------------------------------------------------------------
(***************************************************************************)
(* Properties.                                                             *)
(***************************************************************************)

\* The indices that may appear while t is the completed scan.
Indices(t) == {invalid_node} \cup IF t = NoTree THEN {} ELSE Nodes(t)

Navigations(t) == [view : Views, root : Indices(t), selected : Indices(t),
                   history : Histories]

Displays(t) == [root : Indices(t), selected : Indices(t), crumb : Indices(t),
                canBack : BOOLEAN, canForward : BOOLEAN,
                reviewed : SUBSET Indices(t), total : 0 .. MaxBytes]

\* The values the variables range over.
TypeOK ==
  /\ tree \in Trees \cup {NoTree}
  /\ review \subseteq Indices(tree) \ {invalid_node}
  /\ nav \in Navigations(tree)
  /\ shown \in Displays(tree)
  /\ scanning \in BOOLEAN
  /\ recycle \in {"None", "Running", "Succeeded", "Failed"}
  /\ tree = NoTree => nav = NoNavigation

\* No collected item contains another one, and none is the scanned folder:
\* confirm_review_deletion hands each collected path to the recycle bin, and
\* a path inside another one is gone when its turn comes.
ReviewAntichain ==
  /\ Root \notin review
  /\ \A a, b \in review : a # b => a \notin Above[tree][b]

\* The three places that know what is collected agree after every step: the
\* review, the exclusion that hides it, and the view that lists it.
ReviewAgreement == excluded = review /\ shown.reviewed = review

\* A directory to show and a node to select: both visible, one in the other.
PlaceVisible(n, t, ex) ==
  /\ VisibleDirectory(t, ex, n.root)
  /\ IsVisible(t, ex, n.selected)
  /\ n.root \in Above[t][n.selected]

\* The analyzer shows a visible directory, and the selected node is visible
\* and lies under it; the view and the window agree on both.
ShownPlaceVisible ==
  nav.view = "Analyzer" =>
    /\ PlaceVisible(nav, tree, excluded)
    /\ shown.root = nav.root
    /\ shown.selected = nav.selected
    /\ shown.crumb = nav.root

EntriesOf(t) == {OverviewEntry} \cup {AnalyzerEntry(n) : n \in Directory[t]}

HistoryFits(h, t) ==
  /\ Len(h.entries) <= HistoryCapacity
  /\ h.cursor \in (IF h.entries = <<>> THEN {0} ELSE 1 .. Len(h.entries))
  /\ \A i \in 1 .. Len(h.entries) : h.entries[i] \in EntriesOf(t)
  /\ \A i \in 2 .. Len(h.entries) : h.entries[i] # h.entries[i - 1]

\* Each history entry names a directory of the scan that is open, whichever
\* scans came and went; no entry repeats the one before it, so Back and
\* Forward always lead to another place or over a hidden one.
HistoryOfThisScan == HistoryFits(nav.history, tree)

\* The view is told about the history only after some steps, and between them
\* places are hidden, restored and recorded.  Still, while the overview has
\* not been pushed out of the history, Back is live exactly when an earlier
\* place can be shown, and no later place is ever out of Forward's reach.
ButtonsFollowHistory ==
  nav.view = "Analyzer" /\ nav.history.entries[1] = OverviewEntry =>
    /\ shown.canBack <=> NavigationCanBack(nav, tree, excluded)
    /\ NavigationCanForward(nav, tree, excluded) => shown.canForward

\* The size shown for each visible node is the bytes of the visible files
\* under it: what rebuild() subtracts is counted once, wherever the excluded
\* roots lie.
EffectiveSizesExact ==
  tree # NoTree /\ TotalsFit(tree) =>
    \A n \in Nodes(tree) :
      IsVisible(tree, excluded, n) =>
        EffectiveSize(tree, excluded, n) =
          BytesIn(tree, {f \in Files(tree) \cap Below(tree, n) :
                           IsVisible(tree, excluded, f)})

\* Collecting and restoring move the analyzer no further than they must: to
\* the closest directory above the current one that is still visible.  The
\* history is left as it is.
ReviewKeepsPlace ==
  [][nav.view = "Analyzer" /\ tree' = tree /\ review' # review /\ nav'.view = "Analyzer" =>
       /\ nav'.history = nav.history
       /\ nav'.root \in Above[tree][nav.root]
       /\ \A a \in Above[tree][nav.root] :
            VisibleDirectory(tree, excluded', a) => a \in Above[tree][nav'.root]]_vars
=============================================================================
