-------------------------- MODULE ScanSessionProofs --------------------------
(***************************************************************************)
(* The safety of ScanSession for any set of counters and any number of     *)
(* publications, and the steps of the refinement: each access to the       *)
(* shared state is a step of the background task that ScanTask describes,  *)
(* or none.                                                                *)
(*                                                                         *)
(* The invariant says where the result is at each point of the worker, and *)
(* what the owner may conclude from a terminal state it has read.          *)
(***************************************************************************)
EXTENDS ScanSession, SequenceTheorems, TLAPS

Active == {"Running", "Cancelling"}

\* Before the end there is no result to take, and none of the states that a
\* window acts on has been stored.
BeforeEnd ==
  /\ worker = "None" => /\ state \in {"Idle", "Failed"}
                        /\ result = Nothing
                        /\ handed = <<>>
  /\ worker \in {"None", "Scanning"} => published <= MaxPublished
  /\ worker \in {"Scanning", "Returned", "Published", "Stored"} =>
       state \in Active /\ handed = <<>>
  /\ worker \in {"Scanning", "Returned", "Published"} => result = Nothing
  /\ worker \in {"None", "Scanning"} => returned = Nothing
  /\ worker \in {"Returned", "Published", "Stored"} => returned \in Completions
  /\ worker \in {"Published", "Stored"} => published = total
  /\ worker = "Stored" => result = returned

\* A worker that was not stopped was not cancelled.
StoppedWhenAsked ==
  /\ stop \/ owner \in {"Stopping", "Ending", "Joining"} =>
       state \notin {"Idle", "Running"}
  /\ worker \in {"Returned", "Published", "Stored"} /\ returned = "Cancelled" =>
       state = "Cancelling"

\* At the end the result is that of the scan, in one place.
AtEnd ==
  worker = "Done" =>
    \/ state = "Failed" /\ result = Nothing /\ handed = <<>>
    \/ /\ returned \in Completions
       /\ state = StateOf(returned)
       /\ published = total
       /\ \/ result = returned /\ handed = <<>>
          \/ result = Nothing /\ handed = <<returned>>

\* What the owner knows of the end is so.
OwnerKnows ==
  /\ observed \in Terminal => observed = state
  /\ owner = "Taking" => /\ observed \in Terminal
                         /\ \A f \in Fields : seen[f] = published

IInv == TypeOK /\ BeforeEnd /\ StoppedWhenAsked /\ AtEnd /\ OwnerKnows

-----------------------------------------------------------------------------
\* A thread that has begun the scan and stored a terminal state is done.
LEMMA TerminalIsDone ==
  ASSUME IInv, state \in Terminal
  PROVE  worker = "Done" \/ (worker = "None" /\ state = "Failed")
BY DEF IInv, TypeOK, BeforeEnd, Active, Terminal

\* The session starts with the invariant.
LEMMA InitIInv == Init => IInv
<1>. SUFFICES ASSUME Init PROVE IInv
  OBVIOUS
<1>1. TypeOK
  <2>1. 0 \in 0 .. MaxPublished + 1 /\ <<>> \in Seq(Completions)
    BY MaxPublishedAssumption
  <2>. QED
    BY <2>1 DEF Init, TypeOK, Terminal
<1>. QED
  BY <1>1, MaxPublishedAssumption
    DEF Init, IInv, BeforeEnd, StoppedWhenAsked, AtEnd, OwnerKnows, Terminal

\* Each call of the owner keeps the invariant.
LEMMA OwnerKeepsIInv == ASSUME IInv, Owner PROVE IInv'
<1>. USE DEF IInv, AtWorker, AtOwner
<1>1. CASE Start
  <2>1. TypeOK'
    BY <1>1 DEF Start, TypeOK, Terminal, BeforeEnd, AtEnd, StateOf,
      Completions, Active
  <2>2. BeforeEnd'
    BY <1>1, MaxPublishedAssumption DEF Start, TypeOK, BeforeEnd, Active,
      Terminal, AtEnd, StateOf, Completions
  <2>3. StoppedWhenAsked'
    BY <1>1 DEF Start, TypeOK, BeforeEnd, StoppedWhenAsked, Active, AtEnd,
      StateOf, Completions, Terminal
  <2>4. AtEnd'
    BY <1>1 DEF Start, TypeOK, BeforeEnd, AtEnd, StateOf, Completions, Active,
      Terminal
  <2>5. OwnerKnows'
    BY <1>1 DEF Start, TypeOK, BeforeEnd, OwnerKnows, Terminal, Active, AtEnd,
      StateOf, Completions
  <2>. QED
    BY <2>1, <2>2, <2>3, <2>4, <2>5
<1>2. CASE Cancel
  <2>1. TypeOK'
    BY <1>2 DEF Cancel, TypeOK, Terminal
  <2>2. BeforeEnd'
    BY <1>2 DEF Cancel, TypeOK, BeforeEnd, Active
  <2>3. StoppedWhenAsked'
    BY <1>2 DEF Cancel, TypeOK, BeforeEnd, StoppedWhenAsked, Active, AtEnd,
      StateOf, Completions
  <2>4. AtEnd'
    BY <1>2 DEF Cancel, TypeOK, BeforeEnd, AtEnd, StateOf, Completions, Active
  <2>5. OwnerKnows'
    BY <1>2 DEF Cancel, TypeOK, BeforeEnd, OwnerKnows, Terminal, Active
  <2>. QED
    BY <2>1, <2>2, <2>3, <2>4, <2>5
<1>3. CASE RequestStop
  <2>1. TypeOK'
    BY <1>3 DEF RequestStop, TypeOK, Terminal
  <2>2. BeforeEnd'
    BY <1>3 DEF RequestStop, TypeOK, BeforeEnd, Active
  <2>3. StoppedWhenAsked'
    BY <1>3 DEF RequestStop, TypeOK, BeforeEnd, StoppedWhenAsked, Active,
      AtEnd, StateOf, Completions
  <2>4. AtEnd'
    BY <1>3 DEF RequestStop, TypeOK, BeforeEnd, AtEnd, StateOf, Completions,
      Active
  <2>5. OwnerKnows'
    BY <1>3 DEF RequestStop, TypeOK, BeforeEnd, OwnerKnows, Terminal, Active
  <2>. QED
    BY <2>1, <2>2, <2>3, <2>4, <2>5
<1>4. CASE ReadState
  <2>1. TypeOK'
    BY <1>4 DEF ReadState, TypeOK, Terminal
  <2>2. BeforeEnd'
    BY <1>4 DEF ReadState, TypeOK, BeforeEnd, Active
  <2>3. StoppedWhenAsked'
    BY <1>4 DEF ReadState, TypeOK, BeforeEnd, StoppedWhenAsked, Active, AtEnd,
      StateOf, Completions
  <2>4. AtEnd'
    BY <1>4 DEF ReadState, TypeOK, BeforeEnd, AtEnd, StateOf, Completions,
      Active
  <2>5. OwnerKnows'
    BY <1>4 DEF ReadState, TypeOK, BeforeEnd, OwnerKnows, Terminal, Active
  <2>. QED
    BY <2>1, <2>2, <2>3, <2>4, <2>5
<1>5. CASE ReadProgress
  <2>1. TypeOK'
    <3>1. 0 .. published \in SUBSET (0 .. MaxPublished + 1)
      BY MaxPublishedAssumption DEF TypeOK
    <3>2. seen' \in [Fields -> 0 .. published]
      BY <1>5 DEF ReadProgress
    <3>3. seen' \in [Fields -> 0 .. MaxPublished + 1]
      BY <3>1, <3>2
    <3>. QED
      BY <1>5, <3>3 DEF ReadProgress, TypeOK, Terminal
  <2>2. BeforeEnd'
    BY <1>5 DEF ReadProgress, ProgressOf, TypeOK, BeforeEnd, Active
  <2>3. StoppedWhenAsked'
    BY <1>5 DEF ReadProgress, ProgressOf, TypeOK, BeforeEnd, StoppedWhenAsked,
      Active, AtEnd, StateOf, Completions
  <2>4. AtEnd'
    BY <1>5 DEF ReadProgress, ProgressOf, TypeOK, BeforeEnd, AtEnd, StateOf,
      Completions, Active
  <2>5. OwnerKnows'
    BY <1>5 DEF ReadProgress, ProgressOf, TypeOK, BeforeEnd, OwnerKnows,
      Terminal, Active
  <2>. QED
    BY <2>1, <2>2, <2>3, <2>4, <2>5
<1>6. CASE TakeResult
  <2>1. TypeOK'
    BY <1>6, TerminalIsDone DEF TakeResult, ResultMoved, Waiting, TypeOK,
      Terminal, OwnerKnows, AtEnd
  <2>2. BeforeEnd'
    BY <1>6, TerminalIsDone DEF TakeResult, ResultMoved, Waiting, TypeOK,
      BeforeEnd, Active, OwnerKnows, AtEnd
  <2>3. StoppedWhenAsked'
    BY <1>6, TerminalIsDone DEF TakeResult, ResultMoved, Waiting, TypeOK,
      BeforeEnd, StoppedWhenAsked, Active, AtEnd, StateOf, Completions,
      OwnerKnows
  <2>4. AtEnd'
    <3>1. handed \in Seq(Completions) /\ <<>> \o <<result>> = <<result>>
      BY DEF TypeOK
    <3>2. CASE result = Nothing
      <4>1. handed' = handed /\ result' = result
        BY <1>6, <3>1, <3>2, ConcatEmptySeq DEF TakeResult, ResultMoved, Waiting
      <4>. QED
        BY <1>6, <4>1 DEF TakeResult, AtEnd
    <3>3. CASE result # Nothing
      <4>1. handed' = handed \o <<result>> /\ result' = Nothing
        BY <1>6, <3>3 DEF TakeResult, ResultMoved, Waiting
      <4>. QED
        BY <1>6, <3>1, <3>3, <4>1 DEF TakeResult, AtEnd
    <3>. QED
      BY <3>2, <3>3
  <2>5. OwnerKnows'
    BY <1>6, TerminalIsDone DEF TakeResult, ResultMoved, Waiting, TypeOK,
      BeforeEnd, OwnerKnows, Terminal, Active, AtEnd
  <2>. QED
    BY <2>1, <2>2, <2>3, <2>4, <2>5
<1>7. CASE Destroy
  <2>1. TypeOK'
    BY <1>7 DEF Destroy, TypeOK, Terminal
  <2>2. BeforeEnd'
    BY <1>7 DEF Destroy, TypeOK, BeforeEnd, Active
  <2>3. StoppedWhenAsked'
    BY <1>7 DEF Destroy, TypeOK, BeforeEnd, StoppedWhenAsked, Active, AtEnd,
      StateOf, Completions
  <2>4. AtEnd'
    BY <1>7 DEF Destroy, TypeOK, BeforeEnd, AtEnd, StateOf, Completions, Active
  <2>5. OwnerKnows'
    BY <1>7 DEF Destroy, TypeOK, BeforeEnd, OwnerKnows, Terminal, Active
  <2>. QED
    BY <2>1, <2>2, <2>3, <2>4, <2>5
<1>8. CASE EndWorker
  <2>1. TypeOK'
    BY <1>8 DEF EndWorker, StopForJoin, TypeOK, Terminal
  <2>2. BeforeEnd'
    BY <1>8 DEF EndWorker, StopForJoin, TypeOK, BeforeEnd, Active
  <2>3. StoppedWhenAsked'
    BY <1>8 DEF EndWorker, StopForJoin, TypeOK, BeforeEnd, StoppedWhenAsked,
      Active, AtEnd, StateOf, Completions
  <2>4. AtEnd'
    BY <1>8 DEF EndWorker, StopForJoin, TypeOK, BeforeEnd, AtEnd, StateOf,
      Completions, Active
  <2>5. OwnerKnows'
    BY <1>8 DEF EndWorker, StopForJoin, TypeOK, BeforeEnd, OwnerKnows,
      Terminal, Active
  <2>. QED
    BY <2>1, <2>2, <2>3, <2>4, <2>5
<1>9. CASE Join
  <2>1. TypeOK'
    BY <1>9 DEF Join, TypeOK, Terminal
  <2>2. BeforeEnd'
    BY <1>9 DEF Join, TypeOK, BeforeEnd, Active
  <2>3. StoppedWhenAsked'
    BY <1>9 DEF Join, TypeOK, BeforeEnd, StoppedWhenAsked, Active, AtEnd,
      StateOf, Completions
  <2>4. AtEnd'
    BY <1>9 DEF Join, TypeOK, BeforeEnd, AtEnd, StateOf, Completions, Active
  <2>5. OwnerKnows'
    BY <1>9 DEF Join, TypeOK, BeforeEnd, OwnerKnows, Terminal, Active
  <2>. QED
    BY <2>1, <2>2, <2>3, <2>4, <2>5
<1>. QED
  BY <1>1, <1>2, <1>3, <1>4, <1>5, <1>6, <1>7, <1>8, <1>9 DEF Owner

\* Each access of the worker keeps the invariant.
LEMMA WorkerKeepsIInv == ASSUME IInv, Worker PROVE IInv'
<1>. USE DEF IInv, AtWorker, AtOwner
<1>1. CASE PublishProgress
  <2>1. TypeOK'
    BY <1>1, MaxPublishedAssumption DEF PublishProgress, TypeOK, Terminal
  <2>2. BeforeEnd'
    BY <1>1, MaxPublishedAssumption DEF PublishProgress, TypeOK, BeforeEnd,
      Active
  <2>3. StoppedWhenAsked'
    BY <1>1 DEF PublishProgress, TypeOK, BeforeEnd, StoppedWhenAsked, Active,
      AtEnd, StateOf, Completions
  <2>4. AtEnd'
    BY <1>1 DEF PublishProgress, TypeOK, BeforeEnd, AtEnd, StateOf,
      Completions, Active
  <2>5. OwnerKnows'
    BY <1>1 DEF PublishProgress, TypeOK, BeforeEnd, OwnerKnows, Terminal,
      Active
  <2>. QED
    BY <2>1, <2>2, <2>3, <2>4, <2>5
<1>2. CASE ScanThrows
  <2>1. TypeOK'
    BY <1>2 DEF ScanThrows, TypeOK, Terminal
  <2>2. BeforeEnd'
    BY <1>2 DEF ScanThrows, TypeOK, BeforeEnd, Active
  <2>3. StoppedWhenAsked'
    BY <1>2 DEF ScanThrows, TypeOK, BeforeEnd, StoppedWhenAsked, Active, AtEnd,
      StateOf, Completions
  <2>4. AtEnd'
    BY <1>2 DEF ScanThrows, TypeOK, BeforeEnd, AtEnd, StateOf, Completions,
      Active
  <2>5. OwnerKnows'
    BY <1>2 DEF ScanThrows, TypeOK, BeforeEnd, OwnerKnows, Terminal, Active
  <2>. QED
    BY <2>1, <2>2, <2>3, <2>4, <2>5
<1>3. CASE PublishTotal
  <2>1. TypeOK'
    BY <1>3 DEF PublishTotal, TotalPublished, TypeOK, Terminal
  <2>2. BeforeEnd'
    BY <1>3 DEF PublishTotal, TotalPublished, TypeOK, BeforeEnd, Active
  <2>3. StoppedWhenAsked'
    BY <1>3 DEF PublishTotal, TotalPublished, TypeOK, BeforeEnd,
      StoppedWhenAsked, Active, AtEnd, StateOf, Completions
  <2>4. AtEnd'
    BY <1>3 DEF PublishTotal, TotalPublished, TypeOK, BeforeEnd, AtEnd,
      StateOf, Completions, Active
  <2>5. OwnerKnows'
    BY <1>3 DEF PublishTotal, TotalPublished, TypeOK, BeforeEnd, OwnerKnows,
      Terminal, Active
  <2>. QED
    BY <2>1, <2>2, <2>3, <2>4, <2>5
<1>4. CASE StoreResult
  <2>1. TypeOK'
    BY <1>4 DEF StoreResult, TypeOK, Terminal
  <2>2. BeforeEnd'
    BY <1>4 DEF StoreResult, TypeOK, BeforeEnd, Active
  <2>3. StoppedWhenAsked'
    BY <1>4 DEF StoreResult, TypeOK, BeforeEnd, StoppedWhenAsked, Active,
      AtEnd, StateOf, Completions
  <2>4. AtEnd'
    BY <1>4 DEF StoreResult, TypeOK, BeforeEnd, AtEnd, StateOf, Completions,
      Active
  <2>5. OwnerKnows'
    BY <1>4 DEF StoreResult, TypeOK, BeforeEnd, OwnerKnows, Terminal, Active
  <2>. QED
    BY <2>1, <2>2, <2>3, <2>4, <2>5
<1>5. CASE StoreState
  <2>1. TypeOK'
    BY <1>5 DEF StoreState, TypeOK, Terminal, StateOf, BeforeEnd, Completions,
      Active
  <2>2. BeforeEnd'
    BY <1>5 DEF StoreState, TypeOK, BeforeEnd, Active, StateOf, Completions
  <2>3. StoppedWhenAsked'
    BY <1>5 DEF StoreState, TypeOK, BeforeEnd, StoppedWhenAsked, Active, AtEnd,
      StateOf, Completions
  <2>4. AtEnd'
    BY <1>5 DEF StoreState, TypeOK, BeforeEnd, AtEnd, StateOf, Completions,
      Active
  <2>5. OwnerKnows'
    BY <1>5 DEF StoreState, TypeOK, BeforeEnd, OwnerKnows, Terminal, Active,
      StateOf, Completions
  <2>. QED
    BY <2>1, <2>2, <2>3, <2>4, <2>5
<1>6. ASSUME NEW c \in Completions, ScanReturns(c) PROVE IInv'
  <2>1. TypeOK'
    BY <1>6, MaxPublishedAssumption DEF ScanReturns, TypeOK, Terminal,
      StoppedWhenAsked, Completions, BeforeEnd
  <2>2. BeforeEnd'
    BY <1>6 DEF ScanReturns, TypeOK, BeforeEnd, Active, StoppedWhenAsked,
      Completions
  <2>3. StoppedWhenAsked'
    BY <1>6 DEF ScanReturns, TypeOK, BeforeEnd, StoppedWhenAsked, Active,
      AtEnd, StateOf, Completions
  <2>4. AtEnd'
    BY <1>6 DEF ScanReturns, TypeOK, BeforeEnd, AtEnd, StateOf, Completions,
      Active, StoppedWhenAsked
  <2>5. OwnerKnows'
    BY <1>6 DEF ScanReturns, TypeOK, BeforeEnd, OwnerKnows, Terminal, Active,
      StoppedWhenAsked, Completions
  <2>. QED
    BY <2>1, <2>2, <2>3, <2>4, <2>5
<1>. QED
  BY <1>1, <1>2, <1>3, <1>4, <1>5, <1>6 DEF Worker

\* Every step keeps the invariant.
LEMMA NextKeepsIInv == IInv /\ [Next]_vars => IInv'
<1>. SUFFICES ASSUME IInv, [Next]_vars PROVE IInv'
  OBVIOUS
<1>1. CASE UNCHANGED vars
  BY <1>1 DEF vars, IInv, TypeOK, BeforeEnd, StoppedWhenAsked, AtEnd, OwnerKnows
<1>2. CASE Ended
  BY <1>2 DEF Ended, vars, IInv, TypeOK, BeforeEnd, StoppedWhenAsked, AtEnd, OwnerKnows
<1>. QED
  BY <1>1, <1>2, OwnerKeepsIInv, WorkerKeepsIInv DEF Next

\* The invariant holds in every behaviour.
THEOREM SessionInvariant == Spec => []IInv
BY InitIInv, NextKeepsIInv, PTL DEF Spec

\* scan_session.h: the values of the members.
THEOREM TypeCorrect == Spec => []TypeOK
<1>1. IInv => TypeOK
  BY DEF IInv
<1>. QED
  BY <1>1, SessionInvariant, PTL

\* run() and take_result: a terminal state has one result that agrees with it.
THEOREM ResultIsTakenOnce == Spec => []ResultOnce
<1>1. IInv => ResultOnce
  <2>. SUFFICES ASSUME IInv PROVE ResultOnce
    OBVIOUS
  <2>1. handed \in Seq(Completions)
    BY DEF IInv, TypeOK
  <2>2. CASE state \notin Terminal
    <3>1. handed = <<>>
      BY <2>2 DEF IInv, TypeOK, BeforeEnd, AtEnd, StateOf, Completions, Terminal
    <3>2. handed \o (IF state \in Terminal THEN Waiting ELSE <<>>) = <<>>
      BY <2>1, <2>2, <3>1, ConcatEmptySeq
    <3>3. state \notin {"Failed", "Completed", "Cancelled"}
      BY <2>2 DEF Terminal
    <3>. QED
      BY <3>2, <3>3 DEF ResultOnce
  <2>3. CASE state \in Terminal
    <3>. DEFINE results == handed \o Waiting
    <3>1. CASE state = "Failed" /\ result = Nothing /\ handed = <<>>
      <4>1. results = <<>>
        BY <2>1, <3>1, ConcatEmptySeq DEF Waiting
      <4>. QED
        BY <2>3, <3>1, <4>1 DEF ResultOnce
    <3>2. CASE /\ returned \in Completions
               /\ state = StateOf(returned)
               /\ \/ result = returned /\ handed = <<>>
                  \/ result = Nothing /\ handed = <<returned>>
      <4>1. results = <<returned>>
        <5>1. CASE result = Nothing
          BY <2>1, <3>2, <5>1, NothingAssumption, ConcatEmptySeq DEF Waiting
        <5>2. CASE result # Nothing
          <6>1. Waiting = <<returned>> /\ handed = <<>>
            BY <3>2, <5>2 DEF Waiting
          <6>2. <<returned>> \in Seq(Completions)
            BY <3>2
          <6>. QED
            BY <6>1, <6>2, ConcatEmptySeq
        <5>. QED
          BY <5>1, <5>2
      <4>. HIDE DEF results
      <4>2. \/ returned = "Completed" /\ state = "Completed"
            \/ returned = "Cancelled" /\ state = "Cancelled"
            \/ returned = "RootUnavailable" /\ state = "Failed"
        BY <3>2 DEF StateOf, Completions
      <4>. QED
        BY <2>3, <4>1, <4>2 DEF ResultOnce, results
    <3>. QED
      BY <2>3, <3>1, <3>2, TerminalIsDone DEF IInv, AtEnd, BeforeEnd
  <2>. QED
    BY <2>2, <2>3
<1>. QED
  BY <1>1, SessionInvariant, PTL

\* publish_progress and progress(): the progress of an ended scan is whole.
THEOREM ProgressIsFinal == Spec => []FinalProgress
<1>1. IInv => FinalProgress
  BY TerminalIsDone DEF IInv, OwnerKnows, AtEnd, FinalProgress, Terminal
<1>. QED
  BY <1>1, SessionInvariant, PTL

\* cancel() and run(): no state follows a terminal one.
THEOREM EndStaysFinal == Spec => EndIsFinal
<1>1. IInv /\ [Next]_vars => [(state \in Terminal) => state' = state]_vars
  <2>. SUFFICES ASSUME IInv, Next, state \in Terminal PROVE state' = state
    BY DEF vars
  <2>1. worker \in {"Done", "None"}
    BY TerminalIsDone
  <2>2. CASE Owner
    BY <2>2 DEF Owner, Start, Cancel, RequestStop, ReadState, ReadProgress,
      TakeResult, Destroy, EndWorker, Join, Terminal
  <2>3. CASE Worker
    BY <2>1, <2>3 DEF Worker, PublishProgress, ScanThrows, PublishTotal,
      StoreResult, StoreState, ScanReturns
  <2>. QED
    BY <2>2, <2>3 DEF Next, Ended, vars
<1>. QED
  BY <1>1, SessionInvariant, PTL DEF Spec, EndIsFinal

-----------------------------------------------------------------------------
\* The steps of the session are steps of the task, or change nothing of it.
THEOREM SessionIsTask == Spec => Task!TaskInit /\ [][Task!TaskNext]_Task!taskVars
<1>1. Init => Task!TaskInit
  BY DEF Init, Task!TaskInit, Terminal
<1>2. IInv /\ [Next]_vars => [Task!TaskNext]_Task!taskVars
  <2>. SUFFICES ASSUME IInv, [Next]_vars PROVE [Task!TaskNext]_Task!taskVars
    OBVIOUS
  <2>. USE DEF Task!taskVars, Terminal
  <2>1. CASE UNCHANGED vars \/ Ended
    BY <2>1 DEF vars, Ended
  <2>2. CASE Start
    <3>1. worker = "None" /\ result = Nothing
      BY <2>2 DEF Start, IInv, TypeOK, BeforeEnd, AtEnd, StateOf, Completions, Active
    <3>. QED
      BY <2>2, <3>1 DEF Start, Task!TaskNext, Task!Begin
  <2>3. CASE Cancel
    BY <2>3 DEF Cancel, Task!TaskNext, Task!AskToStop
  <2>4. CASE Destroy
    <3>1. CASE state = "Running"
      BY <2>4, <3>1 DEF Destroy, Task!TaskNext, Task!AskToStop
    <3>2. CASE state # "Running"
      BY <2>4, <3>2 DEF Destroy
    <3>. QED
      BY <3>1, <3>2
  <2>5. CASE RequestStop \/ ReadState \/ ReadProgress \/ EndWorker \/ Join
    BY <2>5 DEF RequestStop, ReadState, ReadProgress, EndWorker, Join
  <2>6. CASE TakeResult
    <3>1. state \in Terminal /\ state' = state /\ handed \in Seq(Completions)
      BY <2>6 DEF TakeResult, IInv, TypeOK, OwnerKnows
    <3>2. CASE result = Nothing
      <4>1. handed' = handed
        BY <2>6, <3>1, <3>2, ConcatEmptySeq DEF TakeResult, Waiting
      <4>. QED
        BY <2>6, <3>1, <3>2, <4>1 DEF TakeResult, ResultMoved
    <3>3. CASE result # Nothing
      <4>1. handed' = handed \o <<result>> /\ result' = Nothing
        BY <2>6, <3>3 DEF TakeResult, ResultMoved, Waiting
      <4>2. handed \o <<result>> = Append(handed, result)
        BY <3>1, AppendIsConcat, <3>3 DEF IInv, TypeOK
      <4>. QED
        BY <3>1, <3>3, <4>1, <4>2 DEF Task!TaskNext, Task!HandOver
    <3>. QED
      BY <3>2, <3>3
  <2>7. CASE PublishProgress \/ PublishTotal \/ \E c \in Completions : ScanReturns(c)
    BY <2>7 DEF PublishProgress, PublishTotal, ScanReturns, AtOwner
  <2>8. CASE StoreResult
    <3>1. state \in Active
      BY <2>8 DEF StoreResult, IInv, BeforeEnd
    <3>. QED
      BY <2>8, <3>1 DEF StoreResult, AtOwner, Active
  <2>9. CASE ScanThrows
    <3>1. state \in Active /\ result = Nothing
      BY <2>9 DEF ScanThrows, IInv, BeforeEnd
    <3>. QED
      BY <2>9, <3>1 DEF ScanThrows, AtOwner, Active, Task!TaskNext, Task!Break
  <2>10. CASE StoreState
    <3>1. /\ state \in Active
          /\ returned \in Completions
          /\ result = returned
          /\ returned = "Cancelled" => state = "Cancelling"
      BY <2>10 DEF StoreState, IInv, BeforeEnd, StoppedWhenAsked
    <3>2. state' = Task!EndOf(returned) /\ state' \in Terminal
      BY <2>10, <3>1 DEF StoreState, StateOf, Task!EndOf, Completions
    <3>3. Task!End(returned)
      BY <2>10, <3>1, <3>2 DEF StoreState, AtOwner, Active, Task!End
    <3>. QED
      BY <3>1, <3>3 DEF Task!TaskNext
  <2>. QED
    BY <2>1, <2>2, <2>3, <2>4, <2>5, <2>6, <2>7, <2>8, <2>9, <2>10
      DEF Next, Owner, Worker
<1>. QED
  BY <1>1, <1>2, SessionInvariant, PTL DEF Spec
=============================================================================
