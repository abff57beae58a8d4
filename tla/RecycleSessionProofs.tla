------------------------- MODULE RecycleSessionProofs -------------------------
(***************************************************************************)
(* The safety of RecycleSession for every scan and every set of items that *)
(* other programs remove, and that it implements RecycleTask.              *)
(*                                                                         *)
(* The invariant says what holds at each point of the worker thread: which *)
(* state goes with it, where the result is, and that nothing of the batch  *)
(* is on the disk when the shell has said that it is done.                 *)
(***************************************************************************)
EXTENDS RecycleSession, TLAPS

Active == {"Checking", "Preparing", "Performing", "Asking", "Returned", "Stored"}

\* The state is Running while the thread is in run(), and the window asks no
\* question meanwhile.
RunningIsActive ==
  /\ worker \in Active <=> state = "Running"
  /\ worker = "None" => state = "None"
  /\ asking => state = "None" /\ window = "Loop"
  /\ window = "Gone" => worker \notin Active

\* What the shell said when it was done.
ReturnedIsTrue ==
  worker \in {"Returned", "Stored"} =>
    /\ returned \in Results
    /\ returned = "Succeeded" => batch \cap disk = {}

\* The result is there before the state that announces it.
ResultBeforeState ==
  /\ worker = "Stored" => result = returned
  /\ state \notin {"None", "Running"} => result \in Results /\ state = StateOf(result)

IInv == TypeOK /\ RunningIsActive /\ ReturnedIsTrue /\ ResultBeforeState

-----------------------------------------------------------------------------
\* The states that a recycling ends in, as the task sees them.
LEMMA StateOfResult ==
  ASSUME NEW r \in Results
  PROVE  /\ StateOf(r) \in {"Succeeded", "Cancelled", "Failed"}
         /\ Task!EndOf(r) = StateOf(r)
BY DEF Results, StateOf, Task!EndOf

\* Collecting and restoring stay in the scan.
LEMMA CollectedAreNodes ==
  ASSUME NEW n \in Nodes(scan), review \subseteq Nodes(scan)
  PROVE  WithCollected(scan, review, n) \subseteq Nodes(scan)
BY DEF WithCollected

\* The session starts with the invariant.
LEMMA InitIInv == Init => IInv
BY DEF Init, IInv, TypeOK, RunningIsActive, ReturnedIsTrue, ResultBeforeState, Active

\* A step of the window keeps the invariant.
LEMMA WindowKeepsIInv == IInv /\ Window => IInv'
<1>. SUFFICES ASSUME IInv, Window PROVE IInv'
  OBVIOUS
<1>. USE DEF IInv, TypeOK, RunningIsActive, ReturnedIsTrue, ResultBeforeState, Active,
             atWindow, atWorker, Free
<1>1. CASE \E n \in Nodes(scan) : Collect(n) \/ Restore(n)
  <2>1. review' \subseteq Nodes(scan)
    BY <1>1, CollectedAreNodes DEF Collect, Restore
  <2>2. UNCHANGED <<disk, deleted, state, result, listed, asking, batch, window, atWorker>>
    BY <1>1 DEF Collect, Restore
  <2>. QED
    BY <2>1, <2>2 DEF StateOf
<1>2. CASE Ask
  BY <1>2 DEF Ask, StateOf
<1>3. CASE AnswerNo \/ AnswerYes
  BY <1>3 DEF AnswerNo, AnswerYes, StateOf
<1>4. CASE Poll
  BY <1>4 DEF Poll, KeepReview, StateOf
<1>5. CASE ScanCompletes \/ Close
  <2>1. TypeOK'
    BY <1>5 DEF ScanCompletes, Close
  <2>2. RunningIsActive' /\ ReturnedIsTrue'
    BY <1>5 DEF ScanCompletes, Close
  <2>3. ResultBeforeState'
    BY <1>5 DEF ScanCompletes, Close, StateOf
  <2>. QED
    BY <2>1, <2>2, <2>3
<1>6. CASE Join
  BY <1>6 DEF Join, StateOf
<1>. QED
  BY <1>1, <1>2, <1>3, <1>4, <1>5, <1>6 DEF Window

\* A step of the worker, or of another program, keeps the invariant.
LEMMA WorkerKeepsIInv ==
  IInv /\ (Worker \/ \E n \in Elsewhere : RemoveElsewhere(n)) => IInv'
<1>. SUFFICES ASSUME IInv, Worker \/ \E n \in Elsewhere : RemoveElsewhere(n) PROVE IInv'
  OBVIOUS
<1>. USE DEF IInv, TypeOK, RunningIsActive, ReturnedIsTrue, ResultBeforeState, Active,
             atWindow, atWorker
<1>1. CASE ValidatePaths \/ Prepare
  BY <1>1 DEF ValidatePaths, Prepare, Returns, Results, StateOf
<1>2. CASE \E n \in Nodes(scan) : Remove(n)
  BY <1>2 DEF Remove, StateOf
<1>3. CASE ShellAsks \/ ShellAnswered
  BY <1>3 DEF ShellAsks, ShellAnswered, StateOf
<1>4. CASE Performed
  BY <1>4 DEF Performed, AbortsAsked, Returns, Results, StateOf
<1>5. CASE StoreResult
  BY <1>5 DEF StoreResult, StateOf
<1>6. CASE StoreState
  <2>1. returned \in Results /\ result = returned /\ state' = StateOf(returned)
    BY <1>6 DEF StoreState
  <2>2. state' \in {"Succeeded", "Cancelled", "Failed"}
    BY <2>1, StateOfResult
  <2>. QED
    BY <1>6, <2>1, <2>2 DEF StoreState, StateOf
<1>7. CASE \E n \in Elsewhere : RemoveElsewhere(n)
  <2>1. TypeOK'
    BY <1>7 DEF RemoveElsewhere
  <2>2. RunningIsActive' /\ ReturnedIsTrue'
    BY <1>7 DEF RemoveElsewhere
  <2>3. ResultBeforeState'
    BY <1>7 DEF RemoveElsewhere, StateOf
  <2>. QED
    BY <2>1, <2>2, <2>3
<1>. QED
  BY <1>1, <1>2, <1>3, <1>4, <1>5, <1>6, <1>7 DEF Worker

\* A step that changes nothing keeps the invariant.
LEMMA StutterKeepsIInv == IInv /\ UNCHANGED vars => IInv'
<1>. SUFFICES ASSUME IInv, UNCHANGED vars PROVE IInv'
  OBVIOUS
<1>1. TypeOK'
  BY DEF IInv, TypeOK, vars, atWindow, atWorker
<1>2. RunningIsActive' /\ ReturnedIsTrue'
  BY DEF IInv, RunningIsActive, ReturnedIsTrue, vars, atWindow, atWorker
<1>3. ResultBeforeState'
  BY DEF IInv, ResultBeforeState, vars, atWindow, atWorker, StateOf
<1>. QED
  BY <1>1, <1>2, <1>3 DEF IInv

\* The invariant holds in every behaviour.
LEMMA RecycleInvariant == Spec => []IInv
<1>1. IInv /\ [Next]_vars => IInv'
  BY WindowKeepsIInv, WorkerKeepsIInv, StutterKeepsIInv DEF Next, Ended
<1>. QED
  BY InitIInv, <1>1, PTL DEF Spec

-----------------------------------------------------------------------------
\* The variables of the recycle session keep to their values, whatever the
\* scan and whatever other programs remove.
THEOREM TypeCorrect == Spec => []TypeOK
<1>1. IInv => TypeOK
  BY DEF IInv
<1>. QED
  BY <1>1, RecycleInvariant, PTL

-----------------------------------------------------------------------------
\* The session starts as the task does.
LEMMA InitIsTaskInit == Init => Task!TaskInit
BY DEF Init, Task!TaskInit

\* Each step of the window is one of the task, or none.
LEMMA WindowStepIsTaskStep ==
  IInv /\ Window => Task!TaskNext \/ UNCHANGED Task!taskVars
<1>. SUFFICES ASSUME IInv, Window PROVE Task!TaskNext \/ UNCHANGED Task!taskVars
  OBVIOUS
<1>. USE DEF Task!taskVars, atWindow, atWorker
<1>1. CASE (\E n \in Nodes(scan) : Collect(n) \/ Restore(n)) \/ AnswerNo
           \/ ScanCompletes \/ Close
  BY <1>1 DEF Collect, Restore, AnswerNo, ScanCompletes, Close
<1>2. CASE Ask
  <2>1. review \in SUBSET Nodes(scan)
    BY DEF IInv, TypeOK
  <2>. QED
    BY <1>2, <2>1 DEF Ask, Task!TaskNext, Task!Question
<1>3. CASE AnswerYes
  <2>1. state = "None"
    BY <1>3 DEF AnswerYes, IInv, RunningIsActive
  <2>. QED
    BY <1>3, <2>1 DEF AnswerYes, Task!TaskNext, Task!Begin
<1>4. CASE Poll
  <2>1. state \notin {"None", "Running"} /\ result \in Results /\ state = StateOf(result)
    BY <1>4 DEF Poll, IInv, ResultBeforeState
  <2>2. Task!EndOf(result) = state /\ result # Nothing
    BY <2>1, StateOfResult, NothingAssumption
  <2>. QED
    BY <1>4, <2>1, <2>2 DEF Poll, Task!TaskNext, Task!HandOver
<1>5. CASE Join
  BY <1>5 DEF Join, Task!TaskNext, Task!Abandon
<1>. QED
  BY <1>1, <1>2, <1>3, <1>4, <1>5 DEF Window

\* So is each step of the worker and of another program.
LEMMA WorkerStepIsTaskStep ==
  IInv /\ (Worker \/ \E n \in Elsewhere : RemoveElsewhere(n)) =>
    Task!TaskNext \/ UNCHANGED Task!taskVars
<1>. SUFFICES ASSUME IInv, Worker \/ \E n \in Elsewhere : RemoveElsewhere(n)
              PROVE  Task!TaskNext \/ UNCHANGED Task!taskVars
  OBVIOUS
<1>. USE DEF Task!taskVars, atWindow, atWorker
<1>1. CASE ValidatePaths \/ Prepare \/ ShellAsks \/ ShellAnswered \/ Performed
  BY <1>1 DEF ValidatePaths, Prepare, ShellAsks, ShellAnswered, Performed
<1>2. ASSUME NEW n \in Nodes(scan), Remove(n)
      PROVE  Task!TaskNext
  <2>1. state = "Running"
    BY <1>2 DEF Remove, IInv, RunningIsActive, Active
  <2>2. Task!Remove(n)
    BY <1>2, <2>1 DEF Remove, Task!Remove, InBatch
  <2>. QED
    BY <2>2 DEF Task!TaskNext
<1>3. CASE StoreResult
  <2>1. state = "Running"
    BY <1>3 DEF StoreResult, IInv, RunningIsActive, Active
  <2>. QED
    BY <1>3, <2>1 DEF StoreResult
<1>4. CASE StoreState
  <2>1. /\ state = "Running" /\ state' = StateOf(returned)
        /\ result' = result /\ result = returned /\ returned \in Results
        /\ returned = "Succeeded" => batch \cap disk = {}
    BY <1>4 DEF StoreState, IInv, RunningIsActive, ReturnedIsTrue, ResultBeforeState, Active
  <2>2. state' = Task!EndOf(returned) /\ state' \notin {"None", "Running"}
    BY <2>1, StateOfResult
  <2>3. Task!End(returned)
    BY <1>4, <2>1, <2>2 DEF StoreState, Task!End
  <2>. QED
    BY <2>1, <2>3 DEF Task!TaskNext
<1>5. ASSUME NEW n \in Elsewhere, RemoveElsewhere(n)
      PROVE  Task!TaskNext
  <2>1. n \in Nodes(scan)
    BY <1>5, ScanAssumption
  <2>2. Task!RemovedElsewhere(n)
    BY <1>5 DEF RemoveElsewhere, Task!RemovedElsewhere
  <2>. QED
    BY <2>1, <2>2 DEF Task!TaskNext
<1>. QED
  BY <1>1, <1>2, <1>3, <1>4, <1>5 DEF Worker

\* Whatever the scan, whatever fails and whoever else removes what: a batch
\* that was confirmed is recycled as RecycleTask says, nothing outside it is
\* touched, Succeeded is said of a batch that is gone, and the window takes
\* one result that says the same as the state.
THEOREM SessionIsRecycleTask == Spec => IsRecycleTask
<1>1. IInv /\ [Next]_vars => [Task!TaskNext]_Task!taskVars
  <2>. SUFFICES ASSUME IInv, [Next]_vars
                PROVE  Task!TaskNext \/ UNCHANGED Task!taskVars
    OBVIOUS
  <2>1. CASE Ended \/ UNCHANGED vars
    BY <2>1 DEF Ended, vars, Task!taskVars, atWindow, atWorker
  <2>. QED
    BY <2>1, WindowStepIsTaskStep, WorkerStepIsTaskStep DEF Next
<1>2. Spec => Task!TaskSpec
  BY <1>1, InitIsTaskInit, RecycleInvariant, PTL DEF Spec, Task!TaskSpec
<1>. QED
  BY <1>2 DEF IsRecycleTask

-----------------------------------------------------------------------------
\* What the shell removed is not on the disk any more.
DeletedIsGone == deleted \cap disk = {}

\* What was deleted stays off the disk.
LEMMA DeletedStaysGone == Spec => []DeletedIsGone
<1>1. Init => DeletedIsGone
  BY DEF Init, DeletedIsGone
<1>2. DeletedIsGone /\ [Next]_vars => DeletedIsGone'
  <2>. SUFFICES ASSUME DeletedIsGone, [Next]_vars PROVE DeletedIsGone'
    OBVIOUS
  <2>1. CASE UNCHANGED <<disk, deleted>>
    BY <2>1 DEF DeletedIsGone
  <2>2. CASE Window
    <3>1. UNCHANGED <<disk, deleted>>
      BY <2>2 DEF Window, Collect, Restore, Ask, AnswerNo, AnswerYes, Poll, ScanCompletes,
                  Close, Join
    <3>. QED
      BY <2>1, <3>1
  <2>3. ASSUME NEW n \in Nodes(scan), Remove(n) PROVE DeletedIsGone'
    BY <2>3 DEF Remove, DeletedIsGone
  <2>4. CASE \/ ValidatePaths \/ Prepare \/ ShellAsks \/ ShellAnswered
             \/ Performed \/ StoreResult \/ StoreState
    <3>1. UNCHANGED <<disk, deleted>>
      BY <2>4 DEF ValidatePaths, Prepare, ShellAsks, ShellAnswered, Performed, StoreResult,
                  StoreState
    <3>. QED
      BY <2>1, <3>1
  <2>5. ASSUME NEW n \in Elsewhere, RemoveElsewhere(n) PROVE DeletedIsGone'
    BY <2>5 DEF RemoveElsewhere, DeletedIsGone
  <2>6. CASE Ended \/ UNCHANGED vars
    BY <2>1, <2>6 DEF Ended, vars
  <2>. QED
    BY <2>2, <2>3, <2>4, <2>5, <2>6 DEF Next, Worker
<1>. QED
  BY <1>1, <1>2, PTL DEF Spec

\* What is above something above a node is above the node.
LEMMA AboveIsTransitive ==
  ASSUME NEW n \in Nodes(scan), NEW m \in Above[scan][n], NEW a \in Above[scan][m]
  PROVE  a \in Above[scan][n]
<1>1. \A k \in Nodes(scan) :
        Above[scan][k] = {b \in Nodes(scan) :
                            \A S \in SUBSET Nodes(scan) : k \in S /\ ParentClosed(scan, S) => b \in S}
  BY ScanAssumption DEF Above
<1>2. m \in Nodes(scan)
  BY <1>1
<1>3. a \in Nodes(scan)
  BY <1>1, <1>2
<1>4. ASSUME NEW S \in SUBSET Nodes(scan), n \in S, ParentClosed(scan, S)
      PROVE  a \in S
  <2>1. m \in S
    BY <1>1, <1>4
  <2>. QED
    BY <1>1, <1>2, <1>4, <2>1
<1>. QED
  BY <1>1, <1>3, <1>4

\* Collecting hides more than before: a collected item that is dropped from
\* the review is inside the one that replaces it.
LEMMA CollectingHides ==
  ASSUME review \subseteq Nodes(scan), NEW c \in Nodes(scan), NEW n \in Nodes(scan),
         IsVisible(scan, WithCollected(scan, review, c), n)
  PROVE  IsVisible(scan, review, n)
<1>1. ASSUME NEW r \in review, r \in Above[scan][n] PROVE FALSE
  <2>1. CASE c \in Above[scan][r]
    <3>1. c \in Above[scan][n]
      BY <1>1, <2>1, AboveIsTransitive
    <3>. QED
      BY <3>1 DEF IsVisible, WithCollected
  <2>2. CASE c \notin Above[scan][r]
    BY <1>1, <2>2 DEF IsVisible, WithCollected
  <2>. QED
    BY <2>1, <2>2
<1>. QED
  BY <1>1 DEF IsVisible

\* GoneStaysHidden: whatever the scan, and wherever a batch stops, what the
\* shell removed for the window comes back into view only when the user
\* restores what hides it.
THEOREM GoneItemsStayHidden == Spec => GoneStaysHidden
<1>. DEFINE Hidden ==
              \A n \in deleted' : Shows(n)' =>
                \/ Shows(n)
                \/ UNCHANGED <<state, listed>> /\ \E r \in review : review' = review \ {r}
<1>1. IInv /\ DeletedIsGone /\ [Next]_vars => Hidden
  <2>. DEFINE Restored == UNCHANGED <<state, listed>> /\ \E r \in review : review' = review \ {r}
  <2>. SUFFICES ASSUME IInv, DeletedIsGone, [Next]_vars,
                       NEW n \in deleted', n \in listed', IsVisible(scan, review', n)
                PROVE  Shows(n) \/ Restored
    BY DEF Shows, IsVisible
  <2>1. CASE UNCHANGED <<listed, review>>
    BY <2>1 DEF Shows
  <2>2. ASSUME NEW c \in Nodes(scan), Collect(c)
        PROVE  Shows(n)
    <3>1. /\ listed' = listed /\ review' = WithCollected(scan, review, c)
          /\ listed \subseteq Nodes(scan) /\ review \subseteq Nodes(scan)
      BY <2>2 DEF Collect, IInv, TypeOK
    <3>2. n \in Nodes(scan) /\ IsVisible(scan, review, n)
      BY <3>1, CollectingHides
    <3>. QED
      BY <3>1, <3>2 DEF Shows
  <2>3. ASSUME NEW r \in Nodes(scan), Restore(r)
        PROVE  Restored
    BY <2>3 DEF Restore, Free, atWindow, atWorker
  <2>4. CASE Poll
    <3>1. (review' = {} /\ listed' = {}) \/ UNCHANGED <<listed, review>>
      BY <2>4 DEF Poll, KeepReview
    <3>. QED
      BY <2>1, <3>1
  <2>5. CASE ScanCompletes
    BY <2>5 DEF ScanCompletes, DeletedIsGone
  <2>6. CASE Ask \/ AnswerNo \/ AnswerYes \/ Close \/ Join
    <3>1. UNCHANGED <<listed, review>>
      BY <2>6 DEF Ask, AnswerNo, AnswerYes, Close, Join
    <3>. QED
      BY <2>1, <3>1
  <2>7. CASE Worker \/ (\E i \in Elsewhere : RemoveElsewhere(i))
    <3>1. UNCHANGED <<listed, review>>
      BY <2>7 DEF Worker, ValidatePaths, Prepare, Remove, ShellAsks, ShellAnswered, Performed,
                  StoreResult, StoreState, RemoveElsewhere, atWindow
    <3>. QED
      BY <2>1, <3>1
  <2>8. CASE Ended \/ UNCHANGED vars
    BY <2>1, <2>8 DEF Ended, vars, atWindow
  <2>. QED
    BY <2>2, <2>3, <2>4, <2>5, <2>6, <2>7, <2>8 DEF Next, Window
<1>2. IInv /\ DeletedIsGone /\ [Next]_vars => [Hidden]_vars
  BY <1>1
<1>. QED
  BY <1>2, RecycleInvariant, DeletedStaysGone, PTL DEF Spec, GoneStaysHidden
=============================================================================
