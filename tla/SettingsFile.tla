----------------------------- MODULE SettingsFile -----------------------------
(***************************************************************************)
(* What the user is promised about the appearance settings: each window    *)
(* starts from the settings that were saved last, and a setting the user   *)
(* changes is either saved and active or neither.  There is nothing in     *)
(* between, wherever the program stops.                                    *)
(*                                                                         *)
(* SettingsStore implements this with files, for one window at a time.     *)
(***************************************************************************)
CONSTANTS
  Windows,     \* the windows that share the settings
  Keys,        \* the settings
  Values,      \* what a setting can be
  Defaults,    \* Defaults[k]: what k is before anything was saved
  Arguments    \* the settings a launch argument can override

VARIABLES
  saved,       \* the settings that were saved last
  running,     \* the windows that are open
  active       \* active[w]: the settings window w shows

vars == <<saved, running, active>>

Settings == [Keys -> Values]

Overridden(settings) ==
  {settings} \cup {[settings EXCEPT ![k] = v] : k \in Arguments, v \in Values}

\* The settings cannot be read: the window starts with the defaults.
Start(w) ==
  /\ w \notin running
  /\ running' = running \cup {w}
  /\ \E settings \in Overridden(saved) \cup Overridden(Defaults) :
       active' = [active EXCEPT ![w] = settings]
  /\ UNCHANGED saved

Change(w, k, v) ==
  /\ w \in running
  /\ saved' = [active[w] EXCEPT ![k] = v]
  /\ active' = [active EXCEPT ![w] = saved']
  /\ UNCHANGED running

Stop(w) ==
  /\ running' = running \ {w}
  /\ UNCHANGED <<saved, active>>

Init == saved \in Settings /\ running = {} /\ active = [w \in Windows |-> Defaults]

Next == \E w \in Windows : \/ Start(w) \/ Stop(w)
                           \/ \E k \in Keys, v \in Values : Change(w, k, v)

Spec == Init /\ [][Next]_vars
=============================================================================
