---------------------------- MODULE RecycleSession ----------------------------
(***************************************************************************)
(* Recycling what the review holds: the question and the polls of the main *)
(* window (app/main_window.cpp), the worker thread of RecycleSession       *)
(* (app/recycle_session.cpp) and the shell operation it runs               *)
(* (platform/windows/recycle_bin.cpp).                                     *)
(*                                                                         *)
(* An item of the disk is the node that the scan found it as.  What the    *)
(* shell does between the calls of recycle_paths is external: it removes   *)
(* the items in any order and a folder at once or piece by piece, it may   *)
(* give up at any point, and it may ask the user something in a dialog     *)
(* that the main window owns and whose answer needs the window's thread.   *)
(* Other programs remove items at any time.                                *)
(***************************************************************************)
EXTENDS ReviewSet

CONSTANTS
  scan,       \* the scan that is shown first
  Elsewhere,  \* bound: the items other programs remove
  Nothing     \* no result

ASSUME ScanAssumption == scan \in Trees /\ Elsewhere \subseteq Nodes(scan) \ {Root}

\* platform::windows::RecycleResult
Results == {"Succeeded", "Cancelled", "InvalidPath", "NotFound", "Failed"}

ASSUME NothingAssumption == Nothing \notin Results

VARIABLES
  disk,      \* the items that are there
  deleted,   \* the items that the shell removed for the window
  listed,    \* the items of the scan that is shown, none when there is none
  review,    \* deletionReview_ and reviewExclusion_
  asking,    \* the question of confirm_review_deletion is open
  batch,     \* the items whose paths it collected
  state,     \* recycleSession_->state(), None while there is no session
  result,    \* result_
  worker,    \* where the worker thread is
  returned,  \* what recycle_paths returned
  skipped,   \* the user skipped something in a dialog of the shell
  window     \* the window's thread: Loop, Joining (WM_DESTROY), Gone

atWindow == <<listed, review, asking, batch, window>>
atWorker == <<worker, returned, skipped>>
vars == <<disk, deleted, state, result, atWindow, atWorker>>

Init ==
  /\ disk = Nodes(scan)
  /\ deleted = {}
  /\ listed = Nodes(scan)
  /\ review = {}
  /\ asking = FALSE
  /\ batch = {}
  /\ state = "None"
  /\ result = Nothing
  /\ worker = "None"
  /\ returned = Nothing
  /\ skipped = FALSE
  /\ window = "Loop"

\* What goes with an item: it and all it contains.
Inside == [n \in Nodes(scan) |-> Below(scan, n)]

InBatch == UNION {Inside[n] : n \in batch}

-----------------------------------------------------------------------------
(***************************************************************************)
(* The window.  While the session is Running it takes no command that      *)
(* would change the review; a session that has ended does not hold it up,  *)
(* polled or not.                                                          *)
(***************************************************************************)
Free == window = "Loop" /\ ~asking /\ state # "Running"

Collect(n) ==
  /\ Free
  /\ n \in listed
  /\ CanCollect(scan, review, n)
  /\ review' = WithCollected(scan, review, n)
  /\ UNCHANGED <<disk, deleted, state, result, listed, asking, batch, window, atWorker>>

Restore(n) ==
  /\ Free
  /\ n \in review
  /\ review' = review \ {n}
  /\ UNCHANGED <<disk, deleted, state, result, listed, asking, batch, window, atWorker>>

\* confirm_review_deletion up to the answer: the paths are built first.
Ask ==
  /\ Free
  /\ state = "None"
  /\ review # {}
  /\ asking' = TRUE
  /\ batch' = review
  /\ UNCHANGED <<disk, deleted, state, result, listed, review, window, atWorker>>

AnswerNo ==
  /\ asking
  /\ asking' = FALSE
  /\ UNCHANGED <<disk, deleted, state, result, listed, review, batch, window, atWorker>>

\* The session starts; without a thread for it the window keeps none.
AnswerYes ==
  /\ asking
  /\ asking' = FALSE
  /\ \/ /\ state' = "Running"
        /\ worker' = "Checking"
        /\ returned' = Nothing
        /\ skipped' = FALSE
     \/ UNCHANGED <<state, atWorker>>
  /\ UNCHANGED <<disk, deleted, result, listed, review, batch, window>>

\* A seeded fault: the review is cleared whatever the result is.
KeepNothing == review' = {} /\ UNCHANGED listed

\* The items that were not removed are still collected; those that were are
\* hidden with them.
KeepReview == UNCHANGED <<listed, review>>

\* poll_recycle_session: the result is taken, the session goes (its thread is
\* joined), and the result decides.
Poll ==
  /\ window = "Loop"
  /\ state \notin {"None", "Running"}
  /\ worker = "Done"
  /\ IF result = "Succeeded" THEN review' = {} /\ listed' = {} ELSE KeepReview
  /\ state' = "None"
  /\ result' = Nothing
  /\ worker' = "None"
  /\ UNCHANGED <<disk, deleted, asking, batch, window, returned, skipped>>

\* The scan that finish_recycle_success started completes.
ScanCompletes ==
  /\ window = "Loop"
  /\ listed = {}
  /\ listed' = disk
  /\ UNCHANGED <<disk, deleted, state, result, review, asking, batch, window, atWorker>>

\* WM_DESTROY destroys the session and waits for its thread.  A dialog of the
\* shell that is open already has disabled the window.
Close ==
  /\ window = "Loop"
  /\ ~asking
  /\ worker # "Asking"
  /\ window' = "Joining"
  /\ UNCHANGED <<disk, deleted, state, result, listed, review, asking, batch, atWorker>>

Join ==
  /\ window = "Joining"
  /\ worker \in {"None", "Done"}
  /\ window' = "Gone"
  /\ state' = "None"
  /\ result' = Nothing
  /\ UNCHANGED <<disk, deleted, listed, review, asking, batch, atWorker>>

-----------------------------------------------------------------------------
(***************************************************************************)
(* The worker thread.                                                      *)
(***************************************************************************)

\* build_node_path joins the names of the node's ancestors.
PathIsThere(n) == Above[scan][n] \subseteq disk

Returns(r) == returned' = r /\ worker' = "Returned"

AllPathsThere == \A n \in batch : PathIsThere(n)

\* validate_paths: one path that is missing or cannot be read, and the batch
\* is refused as a whole.
ValidatePaths ==
  /\ worker = "Checking"
  /\ \/ AllPathsThere /\ worker' = "Preparing" /\ UNCHANGED returned
     \/ ~AllPathsThere /\ Returns("NotFound")
     \/ Returns("Failed")
  /\ UNCHANGED <<disk, deleted, state, result, skipped, atWindow>>

\* The COM apartment, the operation, its flags and one DeleteItem for each
\* path: any of them may fail, a path that has gone in the meantime does.
Prepare ==
  /\ worker = "Preparing"
  /\ \/ AllPathsThere /\ worker' = "Performing" /\ UNCHANGED returned
     \/ Returns("Failed")
  /\ UNCHANGED <<disk, deleted, state, result, skipped, atWindow>>

\* PerformOperations removes an item with what it contains.
Remove(n) ==
  /\ worker = "Performing"
  /\ n \in InBatch \cap disk
  /\ disk' = disk \ Inside[n]
  /\ deleted' = deleted \cup (disk \cap Inside[n])
  /\ UNCHANGED <<state, result, atWindow, atWorker>>

\* The shell asks, say before it deletes what does not fit the recycle bin.
ShellAsks ==
  /\ worker = "Performing"
  /\ batch \cap disk # {}
  /\ ~skipped
  /\ worker' = "Asking"
  /\ UNCHANGED <<disk, deleted, state, result, returned, skipped, atWindow>>

ShellAnswered ==
  /\ worker = "Asking"
  /\ window = "Loop"
  /\ worker' = "Performing"
  /\ skipped' \in BOOLEAN
  /\ UNCHANGED <<disk, deleted, state, result, returned, atWindow>>

\* A seeded fault: GetAnyOperationsAborted is not asked.
AbortsIgnored == Returns("Succeeded")

AbortsAsked == Returns(IF skipped THEN "Cancelled" ELSE "Succeeded")

\* PerformOperations and GetAnyOperationsAborted return.
Performed ==
  /\ worker = "Performing"
  /\ \/ /\ skipped \/ batch \cap disk = {}
        /\ AbortsAsked
     \/ Returns("Failed")
  /\ UNCHANGED <<disk, deleted, state, result, skipped, atWindow>>

\* A seeded fault: the state is the result.
StateIsResult(r) == r

\* A seeded fault: the switch forgets a path that is missing.
StateOfOpened(r) == CASE r = "Succeeded" -> "Succeeded"
                      [] r = "Cancelled" -> "Cancelled"
                      [] r \in {"InvalidPath", "Failed"} -> "Failed"
                      [] OTHER -> state

StateOf(r) == CASE r = "Succeeded" -> "Succeeded"
                [] r = "Cancelled" -> "Cancelled"
                [] r \in {"InvalidPath", "NotFound", "Failed"} -> "Failed"

\* A seeded fault: the state is stored before the result.
StateStoredFirst ==
  \/ /\ worker = "Returned"
     /\ state' = StateOf(returned)
     /\ worker' = "Stored"
     /\ UNCHANGED <<disk, deleted, result, returned, skipped, atWindow>>
  \/ /\ worker = "Stored"
     /\ result' = returned
     /\ worker' = "Done"
     /\ UNCHANGED <<disk, deleted, state, returned, skipped, atWindow>>

\* run() stores the result and then the state.
StoreResult ==
  /\ worker = "Returned"
  /\ result' = returned
  /\ worker' = "Stored"
  /\ UNCHANGED <<disk, deleted, state, returned, skipped, atWindow>>

StoreState ==
  /\ worker = "Stored"
  /\ state' = StateOf(returned)
  /\ worker' = "Done"
  /\ UNCHANGED <<disk, deleted, result, returned, skipped, atWindow>>

-----------------------------------------------------------------------------
RemoveElsewhere(n) ==
  /\ n \in disk
  /\ disk' = disk \ Inside[n]
  /\ UNCHANGED <<deleted, state, result, atWindow, atWorker>>

\* Nothing goes on after the window; or it waits for a thread that waits for
\* it.
Deadlocked == window = "Joining" /\ worker = "Asking"

Ended == (window = "Gone" \/ Deadlocked) /\ UNCHANGED vars

Window ==
  \/ \E n \in Nodes(scan) : Collect(n) \/ Restore(n)
  \/ Ask \/ AnswerNo \/ AnswerYes \/ Poll \/ ScanCompletes \/ Close \/ Join

Worker ==
  \/ ValidatePaths \/ Prepare
  \/ \E n \in Nodes(scan) : Remove(n)
  \/ ShellAsks \/ ShellAnswered \/ Performed \/ StoreResult \/ StoreState

Next == Window \/ Worker \/ (\E n \in Elsewhere : RemoveElsewhere(n)) \/ Ended

\* The thread runs, the user answers the dialogs of the shell and the timer
\* polls; the shell removes and asks only so often and then returns.
Spec ==
  Init /\ [][Next]_vars /\ WF_vars(Worker) /\ SF_vars(Performed) /\ WF_vars(Poll \/ Join)

-----------------------------------------------------------------------------
(***************************************************************************)
(* Properties.                                                             *)
(***************************************************************************)

\* The values the variables range over.
TypeOK ==
  /\ disk \subseteq Nodes(scan)
  /\ deleted \subseteq Nodes(scan)
  /\ listed \subseteq Nodes(scan)
  /\ review \subseteq Nodes(scan)
  /\ asking \in BOOLEAN
  /\ batch \subseteq Nodes(scan)
  /\ state \in {"None", "Running", "Succeeded", "Cancelled", "Failed"}
  /\ result \in Results \cup {Nothing}
  /\ worker \in {"None", "Checking", "Preparing", "Performing", "Asking",
                 "Returned", "Stored", "Done"}
  /\ returned \in Results \cup {Nothing}
  /\ skipped \in BOOLEAN
  /\ window \in {"Loop", "Joining", "Gone"}

\* A batch that the user confirmed is a recycling as he understands it:
\* nothing outside it is removed, Succeeded means that all of it is gone, and
\* the end is shown together with the result, once.
Task == INSTANCE RecycleTask WITH
          Items <- Nodes(scan),
          Inside <- Inside,
          status <- state,
          named <- batch,
          answer <- IF state \in {"None", "Running"} THEN Nothing ELSE result,
          present <- disk,
          removed <- deleted

IsRecycleTask == Task!TaskSpec

\* The scan shows n and counts its bytes.
Shows(n) == n \in listed /\ IsVisible(scan, review, n)

\* A batch that stops half way has removed items that the tree still holds.
\* None of them comes back into view by itself, with the end of the batch or
\* later: only the user can bring it back, by restoring what hides it.
GoneStaysHidden ==
  [][\A n \in deleted' : Shows(n)' =>
       \/ Shows(n)
       \/ UNCHANGED <<state, listed>> /\ \E r \in review : review' = review \ {r}]_vars

\* A confirmed batch comes to its end, and the window learns of it, unless the
\* window was closed and the shell then asked what nobody can answer.
BatchSettles == state = "Running" ~> state = "None" \/ Deadlocked
=============================================================================
