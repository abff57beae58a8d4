---------------------------- MODULE SettingsStore ----------------------------
(***************************************************************************)
(* How the settings are kept (platform/windows/settings_store.cpp), with   *)
(* the start of the program (app/win_main.cpp) and the settings menu       *)
(* (app/main_window.cpp).                                                  *)
(*                                                                         *)
(* Each window is a process of its own, and all use the same two names: a  *)
(* save writes settings-v2.ini.tmp and moves it over settings-v2.ini.  One *)
(* step is one call into the file system with what follows it up to the    *)
(* next.  A process may end between any two.                               *)
(*                                                                         *)
(* What a file holds is a sequence of the values the settings are stored   *)
(* with, in the order in which serialize_settings writes them; a shorter   *)
(* one is a file that ends early.                                          *)
(***************************************************************************)
EXTENDS Naturals, Sequences

CONSTANTS
  Windows,        \* the processes
  KeyCount,       \* the settings are 1 .. KeyCount
  Values,         \* what a setting can be
  Defaults,       \* the settings of a first start
  Arguments,      \* the settings a launch argument can override
  TransitionKey,  \* directoryTransitions, which settings-v1.ini holds too
  Absent,         \* there is no file
  Headless,       \* what a file without the first line holds
  Nobody          \* no process has the file open

Keys == 1 .. KeyCount
Settings == [Keys -> Values]

ASSUME SettingsAssumption ==
  /\ KeyCount \in Nat
  /\ Defaults \in Settings
  /\ Arguments \subseteq Keys
  /\ TransitionKey \in Keys
  /\ Nobody \notin Windows

VARIABLES
  legacy,     \* what settings-v1.ini says, or Absent
  file,       \* what settings-v2.ini holds, or Absent
  temp,       \* what settings-v2.ini.tmp holds, or Absent
  holder,     \* the process that has it open, with no access for others
  pc,         \* where a process is
  appearance, \* its appearance_
  candidate   \* candidate in show_settings_menu

disk == <<legacy, file, temp, holder>>
storeVars == <<disk, pc, appearance, candidate>>

Endings(settings) == {SubSeq(settings, 1, n) : n \in 0 .. KeyCount - 1}
Contents == {Headless} \cup Settings \cup UNION {Endings(s) : s \in Settings}

ASSUME FilesAssumption ==
  /\ Headless \notin Settings \cup {Absent}
  /\ Absent \notin Contents

\* The user may have edited the file, and a save may have been interrupted.
StoreInit ==
  /\ legacy \in Values \cup {Absent}
  /\ file \in Contents \cup {Absent}
  /\ temp \in {Absent, Headless}
  /\ holder = Nobody
  /\ pc = [w \in Windows |-> "Off"]
  /\ appearance = [w \in Windows |-> Defaults]
  /\ candidate = [w \in Windows |-> Defaults]

GoTo(w, place) == pc' = [pc EXCEPT ![w] = place]
At(w, place) == pc[w] = place

-----------------------------------------------------------------------------
(***************************************************************************)
(* The start.                                                              *)
(***************************************************************************)

\* load_settings: what the file does not say stays as it is by default.
Loaded(contents) ==
  IF contents = Headless THEN Defaults
  ELSE [k \in Keys |-> IF k \in DOMAIN contents THEN contents[k] ELSE Defaults[k]]

\* The settings of a start without settings-v2.ini.
Migrated ==
  IF legacy = Absent THEN Defaults ELSE [Defaults EXCEPT ![TransitionKey] = legacy]

\* apply_launch_argument, for at most one argument.
Overridden(settings) ==
  {settings} \cup {[settings EXCEPT ![k] = v] : k \in Arguments, v \in Values}

StartWith(w, settings) ==
  /\ \E s \in Overridden(settings) : appearance' = [appearance EXCEPT ![w] = s]
  /\ GoTo(w, "Idle")
  /\ UNCHANGED <<disk, candidate>>

Load(w) ==
  /\ At(w, "Off")
  /\ file \notin {Absent, Headless}
  /\ StartWith(w, Loaded(file))

\* There is no file, or it cannot be opened, read or understood.
LoadNothing(w) ==
  /\ At(w, "Off")
  /\ GoTo(w, "Checking")
  /\ UNCHANGED <<disk, appearance, candidate>>

\* settings-v1.ini counts only when settings-v2.ini is known not to exist.
Migrate(w) ==
  /\ At(w, "Checking")
  /\ file = Absent
  /\ StartWith(w, Migrated)

\* It exists, or nobody can say.
StartAnew(w) ==
  /\ At(w, "Checking")
  /\ StartWith(w, Defaults)

-----------------------------------------------------------------------------
(***************************************************************************)
(* A save: show_settings_menu with write_atomic.                           *)
(***************************************************************************)

\* DeleteFileW fails on a file that is open, and whenever it likes.
DeleteTemp == IF holder = Nobody THEN temp' \in {Absent, temp} ELSE UNCHANGED temp

Choose(w, k, v) ==
  /\ At(w, "Idle")
  /\ appearance[w][k] # v
  /\ candidate' = [candidate EXCEPT ![w] = [appearance[w] EXCEPT ![k] = v]]
  /\ DeleteTemp
  /\ GoTo(w, "Creating")
  /\ UNCHANGED <<legacy, file, holder, appearance>>

Create(w) ==
  /\ At(w, "Creating")
  /\ temp = Absent
  /\ temp' = Headless
  /\ holder' = w
  /\ GoTo(w, "Writing")
  /\ UNCHANGED <<legacy, file, appearance, candidate>>

\* The directory or the file cannot be created.
CreateFails(w) ==
  /\ At(w, "Creating")
  /\ GoTo(w, "Idle")
  /\ UNCHANGED <<disk, appearance, candidate>>

Interrupted(w) == {Headless} \cup Endings(candidate[w])

\* WriteFile, FlushFileBuffers and CloseHandle.
Write(w) ==
  /\ At(w, "Writing")
  /\ temp' = candidate[w]
  /\ holder' = Nobody
  /\ GoTo(w, "Moving")
  /\ UNCHANGED <<legacy, file, appearance, candidate>>

\* A seeded fault: the answers of WriteFile and FlushFileBuffers are ignored.
WriteUnchecked(w) ==
  /\ At(w, "Writing")
  /\ temp' \in Interrupted(w) \cup {candidate[w]}
  /\ holder' = Nobody
  /\ GoTo(w, "Moving")
  /\ UNCHANGED <<legacy, file, appearance, candidate>>

WriteFails(w) ==
  /\ At(w, "Writing")
  /\ temp' \in Interrupted(w) \cup {candidate[w]}
  /\ holder' = Nobody
  /\ GoTo(w, "Discarding")
  /\ UNCHANGED <<legacy, file, appearance, candidate>>

\* MoveFileExW; then the candidate becomes active.
Move(w) ==
  /\ At(w, "Moving")
  /\ temp # Absent /\ holder = Nobody
  /\ file' = temp
  /\ temp' = Absent
  /\ appearance' = [appearance EXCEPT ![w] = candidate[w]]
  /\ GoTo(w, "Idle")
  /\ UNCHANGED <<legacy, holder, candidate>>

MoveFails(w) ==
  /\ At(w, "Moving")
  /\ GoTo(w, "Discarding")
  /\ UNCHANGED <<disk, appearance, candidate>>

\* The message that the action failed; active stays.
Discard(w) ==
  /\ At(w, "Discarding")
  /\ DeleteTemp
  /\ GoTo(w, "Idle")
  /\ UNCHANGED <<legacy, file, holder, appearance, candidate>>

\* The process ends, by itself or not, and the system closes its file.
End(w) ==
  /\ ~At(w, "Off")
  /\ GoTo(w, "Off")
  /\ IF holder = w
     THEN holder' = Nobody /\ temp' \in Interrupted(w) \cup {candidate[w]}
     ELSE UNCHANGED <<holder, temp>>
  /\ UNCHANGED <<legacy, file, appearance, candidate>>

-----------------------------------------------------------------------------
Startup(w) == Load(w) \/ LoadNothing(w) \/ Migrate(w) \/ StartAnew(w)

Save(w) == \/ \E k \in Keys, v \in Values : Choose(w, k, v)
           \/ Create(w) \/ CreateFails(w) \/ Write(w) \/ WriteFails(w)
           \/ Move(w) \/ MoveFails(w) \/ Discard(w)

StoreNext == \E w \in Windows : Startup(w) \/ Save(w) \/ End(w)

StoreSpec == StoreInit /\ [][StoreNext]_storeVars

-----------------------------------------------------------------------------
(***************************************************************************)
(* Properties.                                                             *)
(***************************************************************************)

\* The values the variables range over; a process holds the temporary file
\* open exactly while it writes it.
StoreTypeOK ==
  /\ legacy \in Values \cup {Absent}
  /\ file \in Contents \cup {Absent}
  /\ temp \in Contents \cup {Absent}
  /\ holder \in Windows \cup {Nobody}
  /\ pc \in [Windows -> {"Off", "Checking", "Idle", "Creating", "Writing",
                         "Moving", "Discarding"}]
  /\ appearance \in [Windows -> Settings]
  /\ candidate \in [Windows -> Settings]
  /\ \A w \in Windows : holder = w <=> At(w, "Writing")

\* The settings the next start is to find.
Preferences == IF file = Absent THEN Migrated ELSE Loaded(file)

Promise == INSTANCE SettingsFile
  WITH saved <- Preferences,
       active <- appearance,
       running <- {w \in Windows : pc[w] \notin {"Off", "Checking"}}

\* While one window runs at a time, the files keep what SettingsFile promises:
\* no failure and no end of the process leaves settings that were not chosen,
\* loses settings that were saved, or activates settings that were not.
IsSettingsFile == Promise!Spec

\* The plan of the settings: "Settings changes are persisted before
\* activation; a failed write keeps the prior active snapshot."
PersistedBeforeActivation ==
  [][\A w \in Windows :
       At(w, "Moving") /\ appearance'[w] # appearance[w] => file' = appearance'[w]]_storeVars
=============================================================================
