----------------------------- MODULE RecycleTask -----------------------------
(***************************************************************************)
(* What a recycling promises the user who confirmed it: it touches what    *)
(* the question named and nothing else, it says that it succeeded only     *)
(* when all of that is gone, and its answer is given once.  RecycleSession *)
(* implements it with a thread, an atomic state and the Windows shell.     *)
(***************************************************************************)
CONSTANTS
  Items,      \* what is on the disk before
  Inside,     \* Inside[n]: n and all it contains
  Results,    \* platform::windows::RecycleResult
  Nothing     \* no result

VARIABLES
  status,   \* RecycleSessionState as the window reads it, None without one
  named,    \* the items the question named
  answer,   \* the result that waits to be taken
  present,  \* the items on the disk
  removed   \* the items that recycling took from the disk

taskVars == <<status, named, answer, present, removed>>

\* How a recycling that returned r ends.
EndOf(r) == IF r \in {"Succeeded", "Cancelled"} THEN r ELSE "Failed"

TaskInit ==
  /\ status = "None"
  /\ named = {}
  /\ answer = Nothing
  /\ present = Items
  /\ removed = {}

Question(batch) ==
  /\ status = "None"
  /\ named' = batch
  /\ UNCHANGED <<status, answer, present, removed>>

Begin ==
  /\ status = "None"
  /\ status' = "Running"
  /\ UNCHANGED <<named, answer, present, removed>>

Remove(n) ==
  /\ status = "Running"
  /\ n \in UNION {Inside[m] : m \in named}
  /\ removed' = removed \cup (present \cap Inside[n])
  /\ present' = present \ Inside[n]
  /\ UNCHANGED <<status, named, answer>>

\* Another program removes something.
RemovedElsewhere(n) ==
  /\ present' = present \ Inside[n]
  /\ UNCHANGED <<status, named, answer, removed>>

End(r) ==
  /\ status = "Running"
  /\ r = "Succeeded" => named \cap present = {}
  /\ status' = EndOf(r)
  /\ answer' = r
  /\ UNCHANGED <<named, present, removed>>

HandOver ==
  /\ answer # Nothing
  /\ status = EndOf(answer)
  /\ status' = "None"
  /\ answer' = Nothing
  /\ UNCHANGED <<named, present, removed>>

\* The window is gone, and with it the session.
Abandon ==
  /\ status' = "None"
  /\ answer' = Nothing
  /\ UNCHANGED <<named, present, removed>>

TaskNext ==
  \/ Begin \/ HandOver \/ Abandon
  \/ \E batch \in SUBSET Items : Question(batch)
  \/ \E n \in Items : Remove(n) \/ RemovedElsewhere(n)
  \/ \E r \in Results : End(r)

TaskSpec == TaskInit /\ [][TaskNext]_taskVars
=============================================================================
