------------------------------ MODULE MainWindow ------------------------------
(***************************************************************************)
(* The life cycle of scans and of recycling in the main window             *)
(* (app/main_window.cpp), with the tiles of the overview                   *)
(* (app/scan_ui_state.cpp).  The scan session is the ScanTask that         *)
(* ScanSession implements; AnalyzerSession models what the analyzer does   *)
(* with a completed scan.                                                  *)
(*                                                                         *)
(* Everything below but the two sessions runs in the window's thread, one  *)
(* message at a time.  A dialog takes the clicks away from the window, but *)
(* it runs a message loop of its own in which the timers go on: the        *)
(* handler that opened it resumes in a state that it has not checked.      *)
(***************************************************************************)
EXTENDS Naturals, FiniteSets, Sequences

CONSTANTS
  Volumes,   \* the volumes of the overview, and the paths of their roots
  Paths,     \* the folders the user may pick
  Nothing    \* no result, no completed scan

\* platform::windows::ScanCompletion
Completions == {"Completed", "Cancelled", "RootUnavailable"}

ASSUME NamesAssumption ==
  /\ "Folder" \notin Volumes
  /\ Volumes \cap Paths = {}
  /\ Nothing \notin Completions

Tiles == Volumes \cup {"Folder"}

ASSUME NothingAssumption == Nothing \notin [path : Volumes \cup Paths, target : Tiles]

VARIABLES
  tile,       \* scanUi_.volumes[v].state and scanUi_.folder.state
  active,     \* scanUi_.activeVolume and scanUi_.folderActive, as a set
  status,     \* scanSession_->state(), Idle while there is no session
  found,      \* the result that waits in the session
  scanned,    \* the path it scans
  completed,  \* completedScan_ and completedScanTarget_
  view,       \* navigation_.view
  recycle,    \* recycleSession_->state(), None while there is no session
  dialogs,    \* the dialogs that are open, the last opened first
  open        \* the window exists

scanVars == <<tile, active, status, found, scanned>>
vars == <<scanVars, completed, view, recycle, dialogs, open>>

Init ==
  /\ tile = [t \in Tiles |-> "Idle"]
  /\ active = {}
  /\ status = "Idle"
  /\ found = Nothing
  /\ scanned = Nothing
  /\ completed = Nothing
  /\ view = "Overview"
  /\ recycle = "None"
  /\ dialogs = <<>>
  /\ open = TRUE

Task == INSTANCE ScanTask WITH handed <- <<>>

Terminal == {"Completed", "Cancelled", "Failed"}

-----------------------------------------------------------------------------
(***************************************************************************)
(* The tiles.                                                              *)
(***************************************************************************)

\* What activate_volume and activate_folder answer to a click on tile t.
Answer(t) ==
  CASE active = {} -> "Start"
    [] active = {t} /\ tile[t] = "Running" -> "Cancel"
    [] OTHER -> "None"

\* A seeded fault: a tile keeps showing the cancellation after the end.
CancellingKept(sessionState, shown) ==
  IF shown = "Cancelling" THEN "Cancelling" ELSE sessionState

\* to_volume_state
VolumeState(sessionState, shown) ==
  IF sessionState = "Running" /\ shown = "Cancelling" THEN "Cancelling" ELSE sessionState

\* apply_scan_snapshot
Snapshot(sessionState) ==
  [t \in Tiles |-> IF t \in active THEN VolumeState(sessionState, tile[t]) ELSE tile[t]]

\* A seeded fault: the tile of a scan that could not be started stays active.
StillActive(t) == active' = {t}

NotActive(t) == UNCHANGED active

\* start_scan; the thread of the session may not be available.
StartScan(t, path) ==
  /\ Answer(t) = "Start"
  /\ \/ /\ tile' = [tile EXCEPT ![t] = "Running"]
        /\ active' = {t}
        /\ status' = "Running"
        /\ scanned' = path
     \/ /\ tile' = [tile EXCEPT ![t] = "Failed"]
        /\ NotActive(t)
        /\ UNCHANGED <<status, scanned>>
  /\ UNCHANGED found

ShowCancelling(t) ==
  /\ Answer(t) = "Cancel"
  /\ tile' = [tile EXCEPT ![t] = "Cancelling"]

CancelScan(t) ==
  /\ ShowCancelling(t)
  /\ IF status = "Running" THEN Task!AskToStop ELSE UNCHANGED <<status, found>>
  /\ UNCHANGED <<active, scanned>>

\* A cancellation that activate_folder asked for and its caller ignores.
CancelIgnored(t) == ShowCancelling(t) /\ UNCHANGED <<active, status, found, scanned>>

NoAnswer(t) == Answer(t) = "None" /\ UNCHANGED scanVars

HandleVolumeScan(v) == StartScan(v, v) \/ CancelScan(v) \/ NoAnswer(v)

\* Two callers of activate_folder only look for Start.
StartFolderScan(path) ==
  StartScan("Folder", path) \/ CancelIgnored("Folder") \/ NoAnswer("Folder")

-----------------------------------------------------------------------------
(***************************************************************************)
(* Clicks.                                                                 *)
(***************************************************************************)
Clickable(v) == open /\ dialogs = <<>> /\ view = v

ClickVolume(v) ==
  /\ Clickable("Overview")
  /\ HandleVolumeScan(v)
  /\ UNCHANGED <<completed, view, recycle, dialogs, open>>

\* handle_folder_scan while a folder is scanned.
ClickScannedFolder ==
  /\ Clickable("Overview")
  /\ "Folder" \in active
  /\ CancelScan("Folder") \/ NoAnswer("Folder")
  /\ UNCHANGED <<completed, view, recycle, dialogs, open>>

\* handle_folder_scan up to pick_folder.
ClickFolder ==
  /\ Clickable("Overview")
  /\ active = {}
  /\ dialogs' = <<"Picking">>
  /\ UNCHANGED <<scanVars, completed, view, recycle, open>>

ReturnToOverview ==
  /\ Clickable("Analyzer")
  /\ recycle # "Running"
  /\ view' = "Overview"
  /\ UNCHANGED <<scanVars, completed, recycle, dialogs, open>>

\* confirm_review_deletion up to the question.  The button is drawn and
\* answers while no recycle session is known to the view.
ClickConfirm ==
  /\ Clickable("Analyzer")
  /\ recycle = "None"
  /\ completed # Nothing
  /\ dialogs' = <<"Confirming">>
  /\ UNCHANGED <<scanVars, completed, view, recycle, open>>

\* WM_DESTROY ends both sessions and joins them.
CloseWindow ==
  /\ open /\ dialogs = <<>>
  /\ open' = FALSE
  /\ status' = "Idle" /\ found' = Nothing
  /\ recycle' = "None"
  /\ UNCHANGED <<tile, active, scanned, completed, view, dialogs>>

-----------------------------------------------------------------------------
(***************************************************************************)
(* Dialogs end, the last opened first.                                     *)
(***************************************************************************)
Answered(d) == dialogs # <<>> /\ Head(dialogs) = d

Picked(path) ==
  /\ Answered("Picking")
  /\ dialogs' = Tail(dialogs)
  /\ StartFolderScan(path)
  /\ UNCHANGED <<completed, view, recycle, open>>

\* The picker was left, or it failed and a message says so.
NotPicked ==
  /\ Answered("Picking")
  /\ dialogs' \in {Tail(dialogs), <<"Notice">> \o Tail(dialogs)}
  /\ UNCHANGED <<scanVars, completed, view, recycle, open>>

Confirmed ==
  /\ Answered("Confirming")
  /\ recycle' = "Running"
  /\ dialogs' = Tail(dialogs)
  /\ UNCHANGED <<scanVars, completed, view, open>>

\* The answer was no, or the thread could not be started.
NotConfirmed ==
  /\ Answered("Confirming")
  /\ dialogs' \in {Tail(dialogs), <<"Notice">> \o Tail(dialogs)}
  /\ UNCHANGED <<scanVars, completed, view, recycle, open>>

NoticeRead ==
  /\ Answered("Notice")
  /\ dialogs' = Tail(dialogs)
  /\ UNCHANGED <<scanVars, completed, view, recycle, open>>

-----------------------------------------------------------------------------
(***************************************************************************)
(* Timers.                                                                 *)
(***************************************************************************)
PollRunningScan ==
  /\ open
  /\ status \in {"Running", "Cancelling"}
  /\ tile' = Snapshot(status)
  /\ UNCHANGED <<active, status, found, scanned,
                 completed, view, recycle, dialogs, open>>

\* release_terminal_scan
Released == active' = {}

\* A seeded fault: the scan is recorded by its path alone.
ScanOfPath == [path |-> scanned, target |-> scanned]

\* completedScanTarget_ is that of the tile the end was shown on.
ScanOfTile == [path |-> scanned, target |-> CHOOSE t \in active : TRUE]

\* The window takes the result and destroys the session.
PollEndedScan ==
  /\ open
  /\ status \in Terminal
  /\ tile' = Snapshot(status)
  /\ Released
  /\ IF found = "Completed"
     THEN /\ completed' = ScanOfTile
          /\ view' = "Analyzer"
     ELSE UNCHANGED <<completed, view>>
  /\ status' = "Idle" /\ found' = Nothing
  /\ UNCHANGED <<scanned, recycle, dialogs, open>>

PollRecycleFailed ==
  /\ open
  /\ recycle = "Failed"
  /\ recycle' = "None"
  /\ dialogs' = <<"Notice">> \o dialogs
  /\ UNCHANGED <<scanVars, completed, view, open>>

PollRecycleCancelled ==
  /\ open
  /\ recycle = "Cancelled"
  /\ recycle' = "None"
  /\ UNCHANGED <<scanVars, completed, view, dialogs, open>>

\* A seeded fault: the tree goes, and the view stays.
TreeGone == completed' = Nothing /\ UNCHANGED view

LeaveTree == completed' = Nothing /\ view' = "Overview"

\* finish_recycle_success: the tree goes and its target is scanned again.
PollRecycleSucceeded ==
  /\ open
  /\ recycle = "Succeeded"
  /\ recycle' = "None"
  /\ completed # Nothing
  /\ LeaveTree
  /\ IF completed.target \in Volumes THEN HandleVolumeScan(completed.target)
     ELSE StartFolderScan(completed.path)
  /\ UNCHANGED <<dialogs, open>>

-----------------------------------------------------------------------------
(***************************************************************************)
(* The sessions' own threads.                                              *)
(***************************************************************************)
ScanEnds ==
  /\ Task!Break \/ \E c \in Completions : Task!End(c)
  /\ UNCHANGED <<tile, active, scanned, completed, view, recycle, dialogs, open>>

RecycleEnds ==
  /\ recycle = "Running"
  /\ recycle' \in {"Succeeded", "Failed", "Cancelled"}
  /\ UNCHANGED <<scanVars, completed, view, dialogs, open>>

-----------------------------------------------------------------------------
Click == \/ \E v \in Volumes : ClickVolume(v)
         \/ ClickScannedFolder \/ ClickFolder
         \/ ReturnToOverview \/ ClickConfirm \/ CloseWindow

Dialog == \/ \E p \in Paths : Picked(p)
          \/ NotPicked \/ Confirmed \/ NotConfirmed \/ NoticeRead

Timer == \/ PollRunningScan \/ PollEndedScan
         \/ PollRecycleFailed \/ PollRecycleCancelled \/ PollRecycleSucceeded

\* The window is gone.
Ended == ~open /\ UNCHANGED vars

Next == Click \/ Dialog \/ Timer \/ ScanEnds \/ RecycleEnds \/ Ended

\* The timers run in every message loop, and a scan ends (FileScanner).
Spec == Init /\ [][Next]_vars /\ WF_vars(PollEndedScan) /\ WF_vars(ScanEnds)

-----------------------------------------------------------------------------
(***************************************************************************)
(* Properties.                                                             *)
(***************************************************************************)
TileStates == {"Idle", "Running", "Cancelling"} \cup Terminal

\* The values the variables range over.
TypeOK ==
  /\ tile \in [Tiles -> TileStates]
  /\ active \subseteq Tiles
  /\ status \in TileStates
  /\ found \in Completions \cup {Nothing}
  /\ scanned \in Volumes \cup Paths \cup {Nothing}
  /\ completed \in [path : Volumes \cup Paths, target : Tiles] \cup {Nothing}
  /\ view \in {"Overview", "Analyzer"}
  /\ recycle \in {"None", "Running", "Succeeded", "Failed", "Cancelled"}
  /\ dialogs \in Seq({"Picking", "Confirming", "Notice"})
  /\ open \in BOOLEAN

Busy == {"Running", "Cancelling"}

\* The scan session and the tiles are kept apart and changed by clicks,
\* timers and dialogs in turn.  Still there is a session if and only if one
\* tile is active; that tile and no other looks busy, it stands for what the
\* session scans, and it shows the cancellation of a session that was asked
\* to stop.  A start would otherwise destroy a running session.
SessionHasTile ==
  open =>
    /\ Cardinality(active) <= 1
    /\ status # "Idle" <=> active # {}
    /\ \A t \in Tiles : tile[t] \in Busy <=> t \in active
    /\ \A t \in active :
         /\ IF t \in Volumes THEN scanned = t ELSE scanned \in Paths
         /\ status = "Cancelling" => tile[t] = "Cancelling"

\* The analyzer never shows a tree that is gone, and a completed scan is the
\* scan of the tile it is recorded for, so that scanning it again after a
\* recycling finds the same place.
ShownTreeExists ==
  /\ view = "Analyzer" => completed # Nothing
  /\ completed # Nothing =>
       IF completed.target \in Volumes THEN completed.path = completed.target
                                       ELSE completed.path \in Paths

\* The tile of a scan does not stay busy: whatever dialogs are open and
\* whichever way the scan ends, its end is shown.
TileSettles ==
  \A t \in Tiles : tile[t] \in Busy ~> tile[t] \notin Busy \/ ~open
=============================================================================
