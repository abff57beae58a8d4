----------------------------- MODULE ScanSession -----------------------------
(***************************************************************************)
(* ScanSession (scan/scan_session.cpp): the worker thread of one scan and  *)
(* the window's thread, which owns the session.  They share the atomic     *)
(* state, the stop token, the progress counters and result_.               *)
(*                                                                         *)
(* Each action is one access to what the threads share.  result_ is moved  *)
(* under resultMutex_ and is one access.                                   *)
(*                                                                         *)
(* The counters are written and read with memory_order_relaxed, one by     *)
(* one: a reader may find any mixture of published values, but never an    *)
(* older value of a counter than it found before, and after it has read    *)
(* (acquire) the state that the worker stored last (release) it finds the  *)
(* last of each.  So published is the number of the publication stored     *)
(* last, and seen[f] that of the one counter f was last read from.         *)
(***************************************************************************)
EXTENDS Naturals, Sequences

CONSTANTS
  Fields,        \* the counters of ScanProgress
  MaxPublished,  \* bound: publications of one scan
  Nothing        \* result_ holds nothing

ASSUME MaxPublishedAssumption == MaxPublished \in Nat \ {0}

\* platform::windows::ScanCompletion
Completions == {"Completed", "Cancelled", "RootUnavailable"}

ASSUME NothingAssumption == Nothing \notin Completions

Terminal == {"Completed", "Cancelled", "Failed"}

VARIABLES
  state,      \* state_
  stop,       \* the stop token of worker_
  result,     \* result_, by its completion
  published,  \* the last publication into the counters
  worker,     \* where the worker thread is
  returned,   \* the worker's local result, by its completion
  total,      \* and its progress, numbered like the publications
  owner,      \* where the owning thread is
  observed,   \* the state the owner read last
  seen,       \* seen[f]: the publication counter f was last read from
  handed      \* the results take_result returned

vars == <<state, stop, result, published, worker, returned, total,
          owner, observed, seen, handed>>

AtWorker == <<worker, returned, total>>
AtOwner == <<owner, observed, seen, handed>>

Init ==
  /\ state = "Idle"
  /\ stop = FALSE
  /\ result = Nothing
  /\ published = 0
  /\ worker = "None"
  /\ returned = Nothing
  /\ total = 0
  /\ owner = "Free"
  /\ observed = "Idle"
  /\ seen = [f \in Fields |-> 0]
  /\ handed = <<>>

-----------------------------------------------------------------------------
(***************************************************************************)
(* The owning thread.                                                      *)
(***************************************************************************)

\* start(): the state is Running before the thread exists; when the thread
\* cannot be created it is Failed at once.
Start ==
  /\ owner = "Free"
  /\ state = "Idle"
  /\ \/ state' = "Running" /\ worker' = "Scanning"
     \/ state' = "Failed" /\ UNCHANGED worker
  /\ UNCHANGED <<stop, result, published, returned, total, owner, observed, seen, handed>>

\* cancel(): the exchange of the state, and then the request.
Cancel ==
  /\ owner = "Free"
  /\ state = "Running"
  /\ state' = "Cancelling"
  /\ owner' = "Stopping"
  /\ UNCHANGED <<stop, result, published, AtWorker, observed, seen, handed>>

RequestStop ==
  /\ owner = "Stopping"
  /\ stop' = TRUE
  /\ owner' = "Free"
  /\ UNCHANGED <<state, result, published, AtWorker, observed, seen, handed>>

\* poll_scan_session: state(), progress() and, at the end, take_result().
ReadState ==
  /\ owner = "Free"
  /\ state # "Idle"
  /\ observed' = state
  /\ owner' = "Polling"
  /\ UNCHANGED <<state, stop, result, published, worker, returned, total, seen, handed>>

\* What counter f may be found to hold.
ProgressOf(f) == IF observed \in Terminal THEN {published} ELSE seen[f] .. published

ReadProgress ==
  /\ owner = "Polling"
  /\ seen' \in {s \in [Fields -> 0 .. published] : \A f \in Fields : s[f] \in ProgressOf(f)}
  /\ owner' = IF observed \in Terminal THEN "Taking" ELSE "Free"
  /\ UNCHANGED <<state, stop, result, published, AtWorker, observed, handed>>

\* What result_ would hand over, as a sequence of at most one result.
Waiting == IF result = Nothing THEN <<>> ELSE <<result>>

\* A seeded fault: the result is copied and not moved.
ResultCopied == UNCHANGED result

\* result_ is moved out and reset.
ResultMoved == result' = Nothing

TakeResult ==
  /\ owner = "Taking"
  /\ ResultMoved
  /\ handed' = handed \o Waiting
  /\ owner' = "Free"
  /\ UNCHANGED <<state, stop, published, AtWorker, observed, seen>>

\* ~ScanSession: cancel(), then, when there is a thread, the request and the
\* join.  The request in cancel() is the one that follows.
Destroy ==
  /\ owner = "Free"
  /\ state' = IF state = "Running" THEN "Cancelling" ELSE state
  /\ owner' = IF worker = "None" THEN "Gone" ELSE "Ending"
  /\ UNCHANGED <<stop, result, published, AtWorker, observed, seen, handed>>

\* A seeded fault: the destructor only joins.
JoinWithoutStop == UNCHANGED stop

StopForJoin == stop' = TRUE

EndWorker ==
  /\ owner = "Ending"
  /\ StopForJoin
  /\ owner' = "Joining"
  /\ UNCHANGED <<state, result, published, AtWorker, observed, seen, handed>>

Join ==
  /\ owner = "Joining"
  /\ worker = "Done"
  /\ owner' = "Gone"
  /\ UNCHANGED <<state, stop, result, published, AtWorker, observed, seen, handed>>

-----------------------------------------------------------------------------
(***************************************************************************)
(* The worker thread.                                                      *)
(***************************************************************************)

\* The scan reports progress.
PublishProgress ==
  /\ worker = "Scanning"
  /\ published < MaxPublished
  /\ published' = published + 1
  /\ UNCHANGED <<state, stop, result, worker, returned, total, AtOwner>>

\* The scan function returns.  scan_directory looks at the stop token before
\* each entry and is cancelled by nothing else.
ScanReturns(c) ==
  /\ worker = "Scanning"
  /\ c = "Cancelled" => stop
  /\ returned' = c
  /\ total' = published + 1
  /\ worker' = "Returned"
  /\ UNCHANGED <<state, stop, result, published, AtOwner>>

\* The handler of run(): there is no result.
ScanThrows ==
  /\ worker = "Scanning"
  /\ state' = "Failed"
  /\ worker' = "Done"
  /\ UNCHANGED <<stop, result, published, returned, total, AtOwner>>

\* A seeded fault: run() leaves it to the scan to have reported the end.
TotalUnpublished == UNCHANGED published

TotalPublished == published' = total

PublishTotal ==
  /\ worker = "Returned"
  /\ TotalPublished
  /\ worker' = "Published"
  /\ UNCHANGED <<state, stop, result, returned, total, AtOwner>>

\* A seeded fault: the switch forgets a scan without a root.
StateOfOpened(c) == CASE c = "Completed" -> "Completed"
                      [] c = "Cancelled" -> "Cancelled"
                      [] OTHER -> state

StateOf(c) == CASE c = "Completed" -> "Completed"
                [] c = "Cancelled" -> "Cancelled"
                [] c = "RootUnavailable" -> "Failed"

\* A seeded fault: the state is stored before the result.
StateStoredFirst ==
  \/ /\ worker = "Published"
     /\ state' = StateOf(returned)
     /\ worker' = "Stored"
     /\ UNCHANGED <<stop, result, published, returned, total, AtOwner>>
  \/ /\ worker = "Stored"
     /\ result' = returned
     /\ worker' = "Done"
     /\ UNCHANGED <<state, stop, published, returned, total, AtOwner>>

StoreResult ==
  /\ worker = "Published"
  /\ result' = returned
  /\ worker' = "Stored"
  /\ UNCHANGED <<state, stop, published, returned, total, AtOwner>>

StoreState ==
  /\ worker = "Stored"
  /\ state' = StateOf(returned)
  /\ worker' = "Done"
  /\ UNCHANGED <<stop, result, published, returned, total, AtOwner>>

-----------------------------------------------------------------------------
Owner == \/ Start \/ Cancel \/ RequestStop
         \/ ReadState \/ ReadProgress \/ TakeResult
         \/ Destroy \/ EndWorker \/ Join

Worker == \/ PublishProgress \/ ScanThrows
          \/ PublishTotal \/ StoreResult \/ StoreState
          \/ \E c \in Completions : ScanReturns(c)

\* The session is gone; only its owner goes on.
Ended == owner = "Gone" /\ UNCHANGED vars

Next == Owner \/ Worker \/ Ended

\* Nothing says that a scan of a large or remote folder ends by itself.  Once
\* it is asked to stop it does, and a worker whose scan has returned runs to
\* its end.  The owner finishes a call that it began, and polls by a timer.
Fairness ==
  /\ WF_vars(stop /\ \E c \in Completions : ScanReturns(c))
  /\ WF_vars(PublishTotal \/ StoreResult \/ StoreState)
  /\ WF_vars(RequestStop \/ ReadProgress \/ TakeResult \/ EndWorker \/ Join)
  /\ WF_vars(ReadState)

Spec == Init /\ [][Next]_vars /\ Fairness

-----------------------------------------------------------------------------
(***************************************************************************)
(* Properties.                                                             *)
(***************************************************************************)

\* The values the variables range over.
TypeOK ==
  /\ state \in {"Idle", "Running", "Cancelling"} \cup Terminal
  /\ stop \in BOOLEAN
  /\ result \in Completions \cup {Nothing}
  /\ published \in 0 .. MaxPublished + 1
  /\ worker \in {"None", "Scanning", "Returned", "Published", "Stored", "Done"}
  /\ returned \in Completions \cup {Nothing}
  /\ total \in 0 .. MaxPublished + 1
  /\ owner \in {"Free", "Stopping", "Polling", "Taking", "Ending", "Joining", "Gone"}
  /\ observed \in {"Idle", "Running", "Cancelling"} \cup Terminal
  /\ seen \in [Fields -> 0 .. MaxPublished + 1]
  /\ handed \in Seq(Completions)

\* A session that says it has completed or was cancelled has exactly one
\* result that says the same, taken or still to be taken; one that failed has
\* none or that of an unavailable root; before the end nothing can be taken.
ResultOnce ==
  handed \o (IF state \in Terminal THEN Waiting ELSE <<>>) \in
    CASE state = "Failed" -> {<<>>, <<"RootUnavailable">>}
      [] state \in {"Completed", "Cancelled"} -> {<<state>>}
      [] OTHER -> {<<>>}

\* The progress that goes with the end of a scan is that of its result, every
\* counter of it, although the counters are read without a lock.
FinalProgress ==
  owner = "Taking" /\ observed \in {"Completed", "Cancelled"} =>
    \A f \in Fields : seen[f] = total

\* A cancel that comes too late does not take the end back, and nothing else
\* does: window code may act on a terminal state it read.
EndIsFinal == [][(state \in Terminal) => state' = state]_vars

\* Once destroying the session began it comes to its end: the window that
\* waits in the destructor does not hang, however large the folder.
DestroyReturns == owner = "Ending" ~> owner = "Gone"

\* What a scan found reaches the window unless the session is destroyed.
ResultReachesOwner ==
  result # Nothing ~> handed # <<>> \/ owner \in {"Ending", "Joining", "Gone"}

\* The session is a background task as the window understands it: seen from
\* outside, the result and the terminal state appear in one step.
Task == INSTANCE ScanTask WITH
          status <- state,
          found <- IF state \in Terminal THEN result ELSE Nothing

IsTask == Task!TaskSpec
=============================================================================
