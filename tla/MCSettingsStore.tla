--------------------------- MODULE MCSettingsStore ---------------------------
(* Two settings: a launch argument can override the first, the second is   *)
(* the one settings-v1.ini holds.  The defaults are one of the values.     *)
EXTENDS SettingsStore

MCDefaults == [k \in Keys |-> CHOOSE v \in Values : TRUE]
=============================================================================
