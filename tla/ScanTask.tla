------------------------------- MODULE ScanTask -------------------------------
(***************************************************************************)
(* What ScanSession promises the window: a background task that is started *)
(* once, can be asked to stop, ends once with all it found, and hands that *)
(* over once.  ScanSession implements it with a thread, an atomic state, a *)
(* stop token and a mutex; this module has none of them.                   *)
(***************************************************************************)
EXTENDS Sequences

CONSTANTS
  Completions,  \* platform::windows::ScanCompletion
  Nothing       \* no result

VARIABLES
  status,    \* ScanSessionState as the window reads it
  found,     \* the result that waits to be taken
  handed     \* the results that were taken

taskVars == <<status, found, handed>>

\* How a scan that returned c ends.
EndOf(c) == CASE c = "Completed" -> "Completed"
              [] c = "Cancelled" -> "Cancelled"
              [] OTHER -> "Failed"

TaskInit == status = "Idle" /\ found = Nothing /\ handed = <<>>

Begin ==
  /\ status = "Idle"
  /\ status' \in {"Running", "Failed"}
  /\ UNCHANGED <<found, handed>>

AskToStop ==
  /\ status = "Running"
  /\ status' = "Cancelling"
  /\ UNCHANGED <<found, handed>>

\* The task ends with its result in place.  Nobody asked a task that was
\* cancelled to do otherwise; one that was asked to stop may still complete.
End(c) ==
  /\ status \in {"Running", "Cancelling"}
  /\ c = "Cancelled" => status = "Cancelling"
  /\ status' = EndOf(c)
  /\ found' = c
  /\ UNCHANGED handed

\* The scan gave up with an exception; there is no result.
Break ==
  /\ status \in {"Running", "Cancelling"}
  /\ status' = "Failed"
  /\ UNCHANGED <<found, handed>>

HandOver ==
  /\ found # Nothing
  /\ found' = Nothing
  /\ handed' = Append(handed, found)
  /\ UNCHANGED status

TaskNext == Begin \/ AskToStop \/ Break \/ HandOver \/ \E c \in Completions : End(c)

\* A task that was asked to stop ends.
TaskFairness ==
  WF_taskVars(status = "Cancelling" /\ (Break \/ \E c \in Completions : End(c)))

TaskSpec == TaskInit /\ [][TaskNext]_taskVars /\ TaskFairness
=============================================================================
