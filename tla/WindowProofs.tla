----------------------------- MODULE WindowProofs -----------------------------
(***************************************************************************)
(* The theorems about the window: the safety of MainWindow for every set   *)
(* of volumes and folders, and, in the second part, that the files of      *)
(* SettingsStore keep the promise of SettingsFile while there is one       *)
(* window.                                                                 *)
(*                                                                         *)
(* A scan starts only when no tile is active, and a tile is released only  *)
(* with the session it stands for: that is the invariant of MainWindow.    *)
(* It is what makes the one tile that a scan ends on the tile the scan was *)
(* started for, and so the recorded target the place that was scanned.     *)
(***************************************************************************)
EXTENDS MainWindow, SettingsStore, FiniteSetTheorems, SequenceTheorems, TLAPS

\* The variables of the scan range over what TypeOK says.
ScanTypes ==
  /\ tile \in [Tiles -> TileStates]
  /\ active \subseteq Tiles
  /\ status \in TileStates
  /\ found \in Completions \cup {Nothing}
  /\ scanned \in Volumes \cup Paths \cup {Nothing}

\* SessionHasTile while the window is there, without the count.
OneTile ==
  /\ active = {} \/ \E t \in Tiles : active = {t}
  /\ status # "Idle" <=> active # {}
  /\ \A t \in Tiles : tile[t] \in Busy <=> t \in active
  /\ \A t \in active :
       /\ IF t \in Volumes THEN scanned = t ELSE scanned \in Paths
       /\ status = "Cancelling" => tile[t] = "Cancelling"

\* The tile t may stand for a scan of path.
Fits(t, path) == IF t \in Volumes THEN path = t ELSE path \in Paths

IInv == TypeOK /\ (open => OneTile) /\ ShownTreeExists

-----------------------------------------------------------------------------
(***************************************************************************)
(* The operations on the scan, in whichever handler they are.              *)
(***************************************************************************)

\* No scan is started over another one.
LEMMA StartKeepsTile ==
  ASSUME NEW t \in Tiles, NEW path \in Volumes \cup Paths, Fits(t, path),
         ScanTypes, open => OneTile, StartScan(t, path)
  PROVE  ScanTypes' /\ (open => OneTile')
<1>1. active = {}
  BY DEF StartScan, Answer
<1>2. CASE /\ tile' = [tile EXCEPT ![t] = "Running"]
           /\ active' = {t}
           /\ status' = "Running"
           /\ scanned' = path
  <2>1. ScanTypes'
    BY <1>2 DEF ScanTypes, StartScan, TileStates
  <2>2. ASSUME open PROVE OneTile'
    BY <1>1, <1>2, <2>2 DEF OneTile, ScanTypes, Busy, Fits
  <2>. QED
    BY <2>1, <2>2
<1>3. CASE /\ tile' = [tile EXCEPT ![t] = "Failed"]
           /\ NotActive(t)
           /\ UNCHANGED <<status, scanned>>
  <2>1. ScanTypes'
    BY <1>3 DEF ScanTypes, StartScan, TileStates, Terminal, NotActive
  <2>2. ASSUME open PROVE OneTile'
    BY <1>1, <1>3, <2>2 DEF OneTile, ScanTypes, Busy, NotActive
  <2>. QED
    BY <2>1, <2>2
<1>. QED
  BY <1>2, <1>3 DEF StartScan

\* A cancellation changes how its own tile looks, and no other.
LEMMA CancelKeepsTile ==
  ASSUME NEW t \in Tiles, ScanTypes, open => OneTile,
         CancelScan(t) \/ CancelIgnored(t)
  PROVE  ScanTypes' /\ (open => OneTile')
<1>1. active = {t} /\ tile[t] = "Running" /\ tile' = [tile EXCEPT ![t] = "Cancelling"]
  BY DEF CancelScan, CancelIgnored, ShowCancelling, Answer
<1>2. UNCHANGED <<active, scanned, found>> /\ status' \in {status, "Cancelling"}
  BY DEF CancelScan, CancelIgnored, Task!AskToStop
<1>3. status' # "Idle" <=> status # "Idle"
  BY DEF CancelScan, CancelIgnored, Task!AskToStop
<1>4. ScanTypes'
  BY <1>1, <1>2 DEF ScanTypes, TileStates
<1>5. ASSUME open PROVE OneTile'
  BY <1>1, <1>2, <1>3, <1>5 DEF OneTile, ScanTypes, Busy
<1>. QED
  BY <1>4, <1>5

\* What a handler may do with the scan after a click on a tile or after a
\* recycling.
LEMMA HandlersKeepTile ==
  ASSUME ScanTypes, open => OneTile,
         \/ \E v \in Volumes : HandleVolumeScan(v)
         \/ CancelScan("Folder") \/ NoAnswer("Folder")
         \/ \E path \in Paths : StartFolderScan(path)
  PROVE  ScanTypes' /\ (open => OneTile')
<1>1. CASE UNCHANGED scanVars
  BY <1>1 DEF scanVars, ScanTypes, OneTile
<1>2. ASSUME NEW t \in Tiles, NEW path \in Volumes \cup Paths, Fits(t, path), StartScan(t, path)
      PROVE  ScanTypes' /\ (open => OneTile')
  BY <1>2, StartKeepsTile
<1>3. ASSUME NEW t \in Tiles, CancelScan(t) \/ CancelIgnored(t)
      PROVE  ScanTypes' /\ (open => OneTile')
  BY <1>3, CancelKeepsTile
<1>4. \/ UNCHANGED scanVars
      \/ \E t \in Tiles : \E path \in Volumes \cup Paths : Fits(t, path) /\ StartScan(t, path)
      \/ \E t \in Tiles : CancelScan(t) \/ CancelIgnored(t)
  BY NamesAssumption DEF HandleVolumeScan, StartFolderScan, NoAnswer, Tiles, Fits
<1>. QED
  BY <1>1, <1>2, <1>3, <1>4

-----------------------------------------------------------------------------
DialogKinds == {"Picking", "Confirming", "Notice"}

\* A notice may open over any dialog, and a dialog is answered and gone.
LEMMA DialogsStack ==
  ASSUME NEW ds \in Seq(DialogKinds)
  PROVE  /\ <<"Notice">> \o ds \in Seq(DialogKinds)
         /\ ds # <<>> => Tail(ds) \in Seq(DialogKinds)
<1>1. <<"Notice">> \in Seq(DialogKinds) /\ <<"Picking">> \in Seq(DialogKinds)
  BY DEF DialogKinds
<1>2. <<"Notice">> \o ds \in Seq(DialogKinds)
  BY <1>1, ConcatProperties
<1>3. ds # <<>> => Tail(ds) \in Seq(DialogKinds)
  BY HeadTailProperties
<1>. QED
  BY <1>2, <1>3

\* The window starts with the invariant.
LEMMA InitIInv == Init => IInv
BY DEF Init, IInv, TypeOK, OneTile, ShownTreeExists, TileStates, Busy

\* The parts of TypeOK that are not about the scan.
LEMMA TypesSplit ==
  TypeOK <=>
    /\ ScanTypes
    /\ completed \in [path : Volumes \cup Paths, target : Tiles] \cup {Nothing}
    /\ view \in {"Overview", "Analyzer"}
    /\ recycle \in {"None", "Running", "Succeeded", "Failed", "Cancelled"}
    /\ dialogs \in Seq({"Picking", "Confirming", "Notice"})
    /\ open \in BOOLEAN
BY DEF TypeOK, ScanTypes

\* Clicks keep the invariant.
LEMMA ClicksKeepIInv == IInv /\ Click => IInv'
<1>. SUFFICES ASSUME IInv, Click PROVE IInv'
  OBVIOUS
<1>. USE DEF IInv, ShownTreeExists
<1>1. CASE (\E v \in Volumes : ClickVolume(v)) \/ ClickScannedFolder
  <2>1. ScanTypes' /\ (open => OneTile')
    BY <1>1, HandlersKeepTile, TypesSplit DEF ClickVolume, ClickScannedFolder
  <2>2. UNCHANGED <<completed, view, recycle, dialogs, open>>
    BY <1>1 DEF ClickVolume, ClickScannedFolder
  <2>3. TypeOK'
    BY <2>1, <2>2 DEF TypeOK, ScanTypes
  <2>. QED
    BY <2>1, <2>2, <2>3
<1>2. CASE ClickFolder \/ ReturnToOverview \/ ClickConfirm
  <2>1. UNCHANGED scanVars /\ UNCHANGED <<completed, recycle, open>> /\ view' \in {view, "Overview"}
    BY <1>2 DEF ClickFolder, ReturnToOverview, ClickConfirm
  <2>2. dialogs' \in Seq({"Picking", "Confirming", "Notice"})
    <3>1. <<"Picking">> \in Seq({"Picking", "Confirming", "Notice"})
      OBVIOUS
    <3>2. <<"Confirming">> \in Seq({"Picking", "Confirming", "Notice"})
      OBVIOUS
    <3>. QED
      BY <1>2, <3>1, <3>2 DEF ClickFolder, ReturnToOverview, ClickConfirm, TypeOK
  <2>3. OneTile => OneTile'
    BY <2>1 DEF OneTile, scanVars
  <2>4. TypeOK'
    BY <2>1, <2>2 DEF TypeOK, scanVars
  <2>. QED
    BY <2>1, <2>3, <2>4
<1>3. CASE CloseWindow
  BY <1>3 DEF CloseWindow, TypeOK, TileStates
<1>. QED
  BY <1>1, <1>2, <1>3 DEF Click

\* What dialogs answer keeps the invariant.
LEMMA DialogsKeepIInv == IInv /\ Dialog => IInv'
<1>. SUFFICES ASSUME IInv, Dialog PROVE IInv'
  OBVIOUS
<1>. USE DEF IInv, ShownTreeExists
<1>1. CASE \E path \in Paths : Picked(path)
  <2>1. ScanTypes' /\ (open => OneTile')
    BY <1>1, HandlersKeepTile, TypesSplit DEF Picked
  <2>2. UNCHANGED <<completed, view, recycle, open>> /\ dialogs # <<>> /\ dialogs' = Tail(dialogs)
    BY <1>1 DEF Picked, Answered
  <2>3. TypeOK'
    BY <2>1, <2>2 DEF TypeOK, ScanTypes
  <2>. QED
    BY <2>1, <2>2, <2>3
<1>2. CASE NotPicked \/ Confirmed \/ NotConfirmed \/ NoticeRead
  <2>1. UNCHANGED scanVars /\ UNCHANGED <<completed, view, open>> /\ recycle' \in {recycle, "Running"}
    BY <1>2 DEF NotPicked, Confirmed, NotConfirmed, NoticeRead
  <2>2. dialogs # <<>> /\ dialogs' \in {Tail(dialogs), <<"Notice">> \o Tail(dialogs)}
    BY <1>2 DEF NotPicked, Confirmed, NotConfirmed, NoticeRead, Answered
  <2>3. OneTile => OneTile'
    BY <2>1 DEF OneTile, scanVars
  <2>4. dialogs' \in Seq({"Picking", "Confirming", "Notice"})
    <3>1. dialogs \in Seq(DialogKinds) /\ Tail(dialogs) \in Seq(DialogKinds)
      BY <2>2, DialogsStack DEF TypeOK, DialogKinds
    <3>2. <<"Notice">> \o Tail(dialogs) \in Seq(DialogKinds)
      BY <3>1, DialogsStack
    <3>. QED
      BY <2>2, <3>1, <3>2 DEF DialogKinds
  <2>5. TypeOK'
    BY <2>1, <2>4 DEF TypeOK, scanVars
  <2>. QED
    BY <2>1, <2>3, <2>5
<1>. QED
  BY <1>1, <1>2 DEF Dialog

\* The end of a scan is shown on its tile, and recorded with it.
LEMMA EndedScanKeepsIInv == IInv /\ PollEndedScan => IInv'
<1>. SUFFICES ASSUME IInv, PollEndedScan PROVE IInv'
  OBVIOUS
<1>1. OneTile /\ status \in Terminal
  BY DEF IInv, PollEndedScan
<1>2. PICK t \in Tiles : active = {t}
  BY <1>1 DEF OneTile, Terminal
<1>3. \A u \in Tiles : tile'[u] = IF u = t THEN status ELSE tile[u]
  BY <1>1, <1>2 DEF PollEndedScan, Snapshot, VolumeState, Terminal
<1>4. tile' \in [Tiles -> TileStates]
  BY <1>1, <1>2 DEF PollEndedScan, Snapshot, VolumeState, Terminal, IInv, TypeOK, TileStates
<1>5. active' = {} /\ status' = "Idle" /\ found' = Nothing
      /\ UNCHANGED <<scanned, recycle, dialogs, open>>
  BY DEF PollEndedScan, Released
<1>6. OneTile'
  BY <1>1, <1>2, <1>3, <1>5 DEF OneTile, Busy, Terminal
<1>7. (CHOOSE u \in active : TRUE) = t
  BY <1>2
<1>8. \/ UNCHANGED <<completed, view>>
      \/ completed' = [path |-> scanned, target |-> t] /\ view' = "Analyzer"
  BY <1>7 DEF PollEndedScan, ScanOfTile
<1>9. Fits(t, scanned) /\ scanned \in Volumes \cup Paths
  BY <1>1, <1>2 DEF OneTile, Fits
<1>10. ShownTreeExists'
  <2>1. CASE UNCHANGED <<completed, view>>
    BY <2>1 DEF IInv, ShownTreeExists
  <2>2. CASE completed' = [path |-> scanned, target |-> t] /\ view' = "Analyzer"
    <3>1. completed'.path = scanned /\ completed'.target = t
      BY <2>2
    <3>2. completed' # Nothing
      BY <2>2, NothingAssumption, <1>9
    <3>. QED
      BY <3>1, <3>2, <1>9 DEF ShownTreeExists, Fits
  <2>. QED
    BY <1>8, <2>1, <2>2
<1>11. TypeOK'
  BY <1>4, <1>5, <1>8, <1>9 DEF TypeOK, IInv, TileStates
<1>. QED
  BY <1>6, <1>10, <1>11 DEF IInv

\* The other timers.
LEMMA TimersKeepIInv == IInv /\ Timer => IInv'
<1>. SUFFICES ASSUME IInv, Timer PROVE IInv'
  OBVIOUS
<1>. USE DEF IInv, ShownTreeExists
<1>1. CASE PollRunningScan
  <2>1. OneTile /\ UNCHANGED <<active, status, found, scanned, completed, view, recycle, dialogs, open>>
    BY <1>1 DEF PollRunningScan
  <2>2. PICK t \in Tiles : active = {t}
    BY <1>1, <2>1 DEF OneTile, PollRunningScan
  <2>3. tile'[t] = (IF tile[t] = "Cancelling" THEN "Cancelling" ELSE status)
    BY <1>1, <2>2 DEF PollRunningScan, Snapshot, VolumeState
  <2>4. \A u \in Tiles \ {t} : tile'[u] = tile[u]
    BY <1>1, <2>2 DEF PollRunningScan, Snapshot
  <2>5. tile' \in [Tiles -> TileStates]
    BY <1>1 DEF PollRunningScan, Snapshot, VolumeState, TypeOK, TileStates
  <2>6. OneTile'
    BY <1>1, <2>1, <2>2, <2>3, <2>4 DEF OneTile, Busy, PollRunningScan
  <2>7. TypeOK'
    BY <2>1, <2>5 DEF TypeOK
  <2>. QED
    BY <2>1, <2>6, <2>7
<1>2. CASE PollEndedScan
  BY <1>2, EndedScanKeepsIInv
<1>3. CASE PollRecycleFailed \/ PollRecycleCancelled
  <2>1. UNCHANGED scanVars /\ UNCHANGED <<completed, view, open>> /\ recycle' = "None"
    BY <1>3 DEF PollRecycleFailed, PollRecycleCancelled
  <2>2. dialogs' \in Seq({"Picking", "Confirming", "Notice"})
    <3>1. dialogs \in Seq(DialogKinds)
      BY DEF TypeOK, DialogKinds
    <3>2. <<"Notice">> \o dialogs \in Seq(DialogKinds)
      BY <3>1, DialogsStack
    <3>. QED
      BY <1>3, <3>1, <3>2 DEF PollRecycleFailed, PollRecycleCancelled, DialogKinds
  <2>3. OneTile => OneTile'
    BY <2>1 DEF OneTile, scanVars
  <2>4. TypeOK'
    BY <2>1, <2>2 DEF TypeOK, scanVars
  <2>. QED
    BY <2>1, <2>3, <2>4
<1>4. CASE PollRecycleSucceeded
  <2>1. completed \in [path : Volumes \cup Paths, target : Tiles]
    BY <1>4 DEF PollRecycleSucceeded, TypeOK
  <2>2. completed.target \notin Volumes => completed.path \in Paths
    BY <1>4 DEF PollRecycleSucceeded
  <2>3. ScanTypes' /\ (open => OneTile')
    BY <1>4, <2>1, <2>2, HandlersKeepTile, TypesSplit DEF PollRecycleSucceeded
  <2>4. completed' = Nothing /\ view' = "Overview" /\ recycle' = "None" /\ UNCHANGED <<dialogs, open>>
    BY <1>4 DEF PollRecycleSucceeded, LeaveTree
  <2>5. TypeOK'
    BY <2>3, <2>4 DEF TypeOK, ScanTypes
  <2>. QED
    BY <2>3, <2>4, <2>5
<1>. QED
  BY <1>1, <1>2, <1>3, <1>4 DEF Timer

\* A scan that ends leaves its tile to the next poll.
LEMMA SessionsKeepIInv == IInv /\ (ScanEnds \/ RecycleEnds) => IInv'
<1>. SUFFICES ASSUME IInv, ScanEnds \/ RecycleEnds PROVE IInv'
  OBVIOUS
<1>. USE DEF IInv, ShownTreeExists
<1>1. CASE ScanEnds
  <2>1. status \in {"Running", "Cancelling"} /\ status' \in Terminal
    BY <1>1 DEF ScanEnds, Task!Break, Task!End, Task!EndOf, Terminal
  <2>2. found' \in Completions \cup {Nothing}
    BY <1>1 DEF ScanEnds, Task!Break, Task!End, TypeOK
  <2>3. UNCHANGED <<tile, active, scanned, completed, view, recycle, dialogs, open>>
    BY <1>1 DEF ScanEnds
  <2>4. OneTile => OneTile'
    BY <2>1, <2>3 DEF OneTile, Terminal
  <2>5. TypeOK'
    BY <2>1, <2>2, <2>3 DEF TypeOK, TileStates
  <2>. QED
    BY <2>3, <2>4, <2>5
<1>2. CASE RecycleEnds
  <2>1. UNCHANGED scanVars /\ UNCHANGED <<completed, view, dialogs, open>>
    BY <1>2 DEF RecycleEnds
  <2>2. OneTile => OneTile'
    BY <2>1 DEF OneTile, scanVars
  <2>3. TypeOK'
    BY <1>2, <2>1 DEF RecycleEnds, TypeOK, scanVars
  <2>. QED
    BY <2>1, <2>2, <2>3
<1>. QED
  BY <1>1, <1>2

\* Every step keeps the invariant.
LEMMA NextKeepsIInv == IInv /\ [Next]_vars => IInv'
<1>. SUFFICES ASSUME IInv, [Next]_vars PROVE IInv'
  OBVIOUS
<1>1. CASE Click \/ Dialog \/ Timer \/ ScanEnds \/ RecycleEnds
  BY <1>1, ClicksKeepIInv, DialogsKeepIInv, TimersKeepIInv, SessionsKeepIInv
<1>2. CASE UNCHANGED vars
  BY <1>2 DEF vars, scanVars, IInv, TypeOK, OneTile, ShownTreeExists
<1>. QED
  BY <1>1, <1>2 DEF Next, Ended

\* The invariant holds for every set of volumes and folders.
THEOREM WindowInvariant == Spec => []IInv
<1>1. Init => IInv
  BY InitIInv
<1>2. IInv /\ [Next]_vars => IInv'
  BY NextKeepsIInv
<1>. QED
  BY <1>1, <1>2, PTL DEF Spec

\* Window, tiles and dialogs keep to their types.
THEOREM TypeCorrect == Spec => []TypeOK
<1>1. IInv => TypeOK
  BY DEF IInv
<1>. QED
  BY <1>1, WindowInvariant, PTL

\* However clicks, dialogs, timers and both sessions interleave, one tile
\* stands for the one scan session.
THEOREM SessionKeepsItsTile == Spec => []SessionHasTile
<1>1. IInv => SessionHasTile
  <2>. SUFFICES ASSUME IInv, open PROVE SessionHasTile
    BY DEF SessionHasTile
  <2>1. OneTile
    BY DEF IInv
  <2>2. Cardinality(active) <= 1
    BY <2>1, FS_EmptySet, FS_Singleton DEF OneTile
  <2>. QED
    BY <2>1, <2>2 DEF OneTile, SessionHasTile
<1>. QED
  BY <1>1, WindowInvariant, PTL

\* The analyzer shows only a tree that is there, and what a recycling scans
\* again is the place that was scanned.
THEOREM ShownTreeIsThere == Spec => []ShownTreeExists
<1>1. IInv => ShownTreeExists
  BY DEF IInv
<1>. QED
  BY <1>1, WindowInvariant, PTL

-----------------------------------------------------------------------------
(***************************************************************************)
(* The settings: their type invariant for any windows, and the promise of  *)
(* SettingsFile.                                                           *)
(***************************************************************************)
(* What the operators return.                                              *)

\* The beginning of settings has keys and values of them.
LEMMA EndingType ==
  ASSUME NEW s \in Settings, NEW e \in Endings(s)
  PROVE  /\ DOMAIN e \subseteq Keys
         /\ \A k \in DOMAIN e : e[k] \in Values
<1>1. KeyCount \in Nat
  BY SettingsAssumption
<1>2. PICK n \in 0 .. KeyCount - 1 : e = SubSeq(s, 1, n)
  BY DEF Endings
<1>3. s \in Seq(Values) /\ Len(s) = KeyCount
  <2>1. s \in Seq(Values)
    BY <1>1 DEF Settings, Keys, Seq
  <2>2. DOMAIN s = 1 .. KeyCount
    BY DEF Settings, Keys
  <2> QED
    BY <1>1, <2>1, <2>2, LenProperties
<1>4. /\ SubSeq(s, 1, n) \in Seq(Values)
      /\ Len(SubSeq(s, 1, n)) = n
  BY <1>1, <1>3, SubSeqProperties
<1>5. e \in Seq(Values) /\ DOMAIN e = 1 .. n
  BY <1>2, <1>4, LenProperties
<1>6. DOMAIN e \subseteq Keys
  BY <1>1, <1>5 DEF Keys
<1>7. \A k \in DOMAIN e : e[k] \in Values
  BY <1>5, ElementOfSeq, LenProperties
<1> QED
  BY <1>6, <1>7

\* What load() returns are settings.
LEMMA LoadedType ==
  ASSUME NEW contents \in Contents
  PROVE  Loaded(contents) \in Settings
<1>1. CASE contents = Headless
  BY <1>1, SettingsAssumption DEF Loaded
<1>2. CASE contents # Headless
  <2>1. \A k \in DOMAIN contents : k \in Keys => contents[k] \in Values
    <3>1. CASE contents \in Settings
      BY <3>1 DEF Settings
    <3>2. CASE \E s \in Settings : contents \in Endings(s)
      BY <3>2, EndingType
    <3> QED
      BY <1>2, <3>1, <3>2 DEF Contents
  <2>2. \A k \in Keys : Defaults[k] \in Values
    BY SettingsAssumption DEF Settings
  <2>3. \A k \in Keys :
          (IF k \in DOMAIN contents THEN contents[k] ELSE Defaults[k]) \in Values
    BY <2>1, <2>2
  <2> QED
    BY <1>2, <2>3 DEF Loaded, Settings
<1> QED
  BY <1>1, <1>2

\* A complete file is loaded as it was saved.
LEMMA LoadedSaved ==
  ASSUME NEW s \in Settings
  PROVE  Loaded(s) = s
BY FilesAssumption DEF Loaded, Settings

\* Migrated settings are settings.
LEMMA MigratedType ==
  ASSUME legacy \in Values \cup {Absent}
  PROVE  Migrated \in Settings
BY SettingsAssumption DEF Migrated, Settings

\* So are overridden ones.
LEMMA OverriddenType ==
  ASSUME NEW s \in Settings
  PROVE  Overridden(s) \subseteq Settings
BY SettingsAssumption DEF Overridden, Settings

\* A file that was being written holds settings or the beginning of some.
LEMMA InterruptedType ==
  ASSUME NEW w, candidate[w] \in Settings
  PROVE  /\ Interrupted(w) \cup {candidate[w]} \subseteq Contents
         /\ Absent \notin Interrupted(w) \cup {candidate[w]}
BY FilesAssumption DEF Interrupted, Contents

-----------------------------------------------------------------------------
(* The type invariant.                                                     *)

\* The temporary file exists while it is open.
OpenExists == holder # Nobody => temp # Absent

TypeInv == StoreTypeOK /\ OpenExists

\* The start is of the types.
LEMMA TypeInit == StoreInit => TypeInv
BY SettingsAssumption DEF StoreInit, TypeInv, StoreTypeOK, OpenExists, At, Contents

\* A start with given settings keeps the types.
LEMMA StartWithType ==
  ASSUME TypeInv, NEW w \in Windows, NEW s \in Settings,
         StartWith(w, s), ~At(w, "Writing")
  PROVE  TypeInv'
<1>1. appearance' \in [Windows -> Settings]
  BY OverriddenType DEF TypeInv, StoreTypeOK, StartWith
<1>2. pc' = [pc EXCEPT ![w] = "Idle"] /\ UNCHANGED <<disk, candidate>>
  BY DEF StartWith, GoTo
<1> QED
  BY <1>1, <1>2 DEF TypeInv, StoreTypeOK, OpenExists, At, disk

\* Every start keeps the types.
LEMMA StartupType ==
  ASSUME TypeInv, NEW w \in Windows, Startup(w)
  PROVE  TypeInv'
<1>1. CASE Load(w)
  <2>1. Loaded(file) \in Settings
    BY <1>1, LoadedType DEF Load, TypeInv, StoreTypeOK
  <2> QED
    BY <1>1, <2>1, StartWithType DEF Load, At
<1>2. CASE LoadNothing(w)
  BY <1>2 DEF LoadNothing, TypeInv, StoreTypeOK, OpenExists, At, GoTo, disk
<1>3. CASE Migrate(w)
  <2>1. Migrated \in Settings
    BY MigratedType DEF TypeInv, StoreTypeOK
  <2> QED
    BY <1>3, <2>1, StartWithType DEF Migrate, At
<1>4. CASE StartAnew(w)
  BY <1>4, SettingsAssumption, StartWithType DEF StartAnew, At
<1> QED
  BY <1>1, <1>2, <1>3, <1>4 DEF Startup

\* The steps of a save keep the types.
LEMMA SaveType ==
  ASSUME TypeInv, NEW w \in Windows, Save(w)
  PROVE  TypeInv'
<1> USE SettingsAssumption DEF TypeInv, OpenExists, At, GoTo, disk
<1>1. ASSUME NEW k \in Keys, NEW v \in Values, Choose(w, k, v)
      PROVE  TypeInv'
  <2>1. candidate' \in [Windows -> Settings]
    BY <1>1 DEF StoreTypeOK, Choose, Settings
  <2>2. temp' \in Contents \cup {Absent} /\ (holder # Nobody => temp' = temp)
    BY <1>1 DEF StoreTypeOK, Choose, DeleteTemp
  <2> QED
    BY <1>1, <2>1, <2>2 DEF StoreTypeOK, Choose
<1>2. CASE Create(w)
  BY <1>2, FilesAssumption DEF StoreTypeOK, Create, Contents
<1>3. CASE CreateFails(w)
  BY <1>3 DEF StoreTypeOK, CreateFails
<1>4. CASE Write(w)
  <2>1. candidate[w] \in Contents
    BY DEF StoreTypeOK, Contents
  <2> QED
    BY <1>4, <2>1 DEF StoreTypeOK, Write
<1>5. CASE WriteFails(w)
  <2>1. temp' \in Contents
    BY <1>5, InterruptedType DEF StoreTypeOK, WriteFails
  <2> QED
    BY <1>5, <2>1 DEF StoreTypeOK, WriteFails
<1>6. CASE Move(w)
  BY <1>6 DEF StoreTypeOK, Move
<1>7. CASE MoveFails(w)
  BY <1>7 DEF StoreTypeOK, MoveFails
<1>8. CASE Discard(w)
  BY <1>8 DEF StoreTypeOK, Discard, DeleteTemp
<1> QED
  BY <1>1, <1>2, <1>3, <1>4, <1>5, <1>6, <1>7, <1>8 DEF Save

\* The end of a process keeps the types.
LEMMA EndType ==
  ASSUME TypeInv, NEW w \in Windows, End(w)
  PROVE  TypeInv'
<1>1. CASE holder = w
  <2>1. temp' \in Contents
    BY <1>1, InterruptedType DEF TypeInv, StoreTypeOK, End
  <2> QED
    BY <1>1, <2>1, SettingsAssumption
    DEF TypeInv, StoreTypeOK, OpenExists, End, At, GoTo
<1>2. CASE holder # w
  BY <1>2 DEF TypeInv, StoreTypeOK, OpenExists, End, At, GoTo
<1> QED
  BY <1>1, <1>2

\* Every step keeps the types.
LEMMA TypeStep == TypeInv /\ [StoreNext]_storeVars => TypeInv'
<1>1. ASSUME TypeInv, NEW w \in Windows, Startup(w) \/ Save(w) \/ End(w)
      PROVE  TypeInv'
  BY <1>1, StartupType, SaveType, EndType
<1>2. ASSUME TypeInv, UNCHANGED storeVars
      PROVE  TypeInv'
  BY <1>2 DEF TypeInv, StoreTypeOK, OpenExists, At, storeVars, disk
<1> QED
  BY <1>1, <1>2 DEF StoreNext

\* The values the variables range over, whatever windows run: in particular a
\* process has the temporary file open exactly while it writes it.
THEOREM StoreTypeCorrect == StoreSpec => []StoreTypeOK
<1>1. TypeInv => StoreTypeOK
  BY DEF TypeInv
<1> QED
  BY <1>1, TypeInit, TypeStep, PTL DEF StoreSpec

-----------------------------------------------------------------------------
(* One window implements SettingsFile.  What is moved must be the          *)
(* candidate, and the candidate one change away from what is active.       *)

InSave == {"Creating", "Writing", "Moving", "Discarding"}

OneChange(w) ==
  pc[w] \in InSave =>
    \E k \in Keys, v \in Values : candidate[w] = [appearance[w] EXCEPT ![k] = v]

Complete(w) == At(w, "Moving") => temp = candidate[w]

WindowInv(w) == TypeInv /\ OneChange(w) /\ Complete(w)

\* One window at a time has the files to itself.
LEMMA WindowStep ==
  ASSUME NEW w, Windows = {w}, WindowInv(w), [StoreNext]_storeVars
  PROVE  WindowInv(w)'
<1>1. TypeInv'
  BY TypeStep DEF WindowInv
<1>2. pc \in [Windows -> {"Off", "Checking", "Idle", "Creating", "Writing",
                          "Moving", "Discarding"}]
      /\ appearance \in [Windows -> Settings] /\ candidate \in [Windows -> Settings]
  BY DEF WindowInv, TypeInv, StoreTypeOK
<1>3. CASE UNCHANGED storeVars
  BY <1>1, <1>3 DEF WindowInv, OneChange, Complete, At, storeVars, disk
<1>4. CASE Startup(w)
  BY <1>1, <1>2, <1>4
  DEF WindowInv, OneChange, Complete, At, InSave, GoTo, disk,
      Startup, Load, LoadNothing, Migrate, StartAnew, StartWith
<1>5. ASSUME NEW k \in Keys, NEW v \in Values, Choose(w, k, v)
      PROVE  WindowInv(w)'
  BY <1>1, <1>2, <1>5
  DEF WindowInv, OneChange, Complete, At, InSave, GoTo, Choose
<1>6. CASE Create(w) \/ CreateFails(w) \/ Write(w) \/ WriteFails(w)
  BY <1>1, <1>2, <1>6
  DEF WindowInv, OneChange, Complete, At, InSave, GoTo, disk,
      Create, CreateFails, Write, WriteFails
<1>7. CASE Move(w) \/ MoveFails(w) \/ Discard(w)
  BY <1>1, <1>2, <1>7
  DEF WindowInv, OneChange, Complete, At, InSave, GoTo, disk,
      Move, MoveFails, Discard
<1>8. CASE End(w)
  BY <1>1, <1>2, <1>8
  DEF WindowInv, OneChange, Complete, At, InSave, GoTo, End
<1> QED
  BY <1>3, <1>4, <1>5, <1>6, <1>7, <1>8 DEF StoreNext, Save

Running == {w \in Windows : pc[w] \notin {"Off", "Checking"}}

\* What the next start would load are settings.
LEMMA PreferencesType ==
  ASSUME TypeInv
  PROVE  Preferences \in Settings
BY LoadedType, MigratedType DEF Preferences, TypeInv, StoreTypeOK

\* The start is a start of the promise.
LEMMA PromiseInit == StoreInit => Promise!Init
<1> SUFFICES ASSUME StoreInit PROVE Promise!Init
  OBVIOUS
<1>1. Preferences \in Promise!Settings
  BY TypeInit, PreferencesType DEF Promise!Settings, Settings
<1> QED
  BY <1>1 DEF StoreInit, Promise!Init

\* What leaves the settings on the disk, active and the running windows as
\* they are changes nothing of the promise.
LEMMA Unnoticed ==
  ASSUME UNCHANGED <<legacy, file, appearance>>, Running' = Running
  PROVE  UNCHANGED Promise!vars
BY DEF Promise!vars, Running, Preferences, Loaded, Migrated

\* A start of a process keeps the promise.
LEMMA PromiseStart ==
  ASSUME TypeInv, NEW w \in Windows, NEW s \in {Preferences, Defaults},
         StartWith(w, s), pc[w] \in {"Off", "Checking"}
  PROVE  Promise!Start(w)
<1>1. UNCHANGED <<legacy, file>> /\ pc' = [pc EXCEPT ![w] = "Idle"]
  BY DEF StartWith, disk, GoTo
<1>2. Running' = Running \cup {w} /\ w \notin Running
  BY <1>1 DEF Running, TypeInv, StoreTypeOK
<1>3. Preferences' = Preferences
  BY <1>1 DEF Preferences, Loaded, Migrated
<1>4. \E settings \in Overridden(s) : appearance' = [appearance EXCEPT ![w] = settings]
  BY DEF StartWith
<1>5. \E settings \in Promise!Overridden(Preferences) \cup Promise!Overridden(Defaults) :
        appearance' = [appearance EXCEPT ![w] = settings]
  <2>1. Overridden(s) = Promise!Overridden(s)
    BY DEF Overridden, Promise!Overridden
  <2>2. CASE s = Preferences
    BY <1>4, <2>1, <2>2
  <2>3. CASE s = Defaults
    BY <1>4, <2>1, <2>3
  <2> QED
    BY <2>2, <2>3
<1> QED
  BY <1>2, <1>3, <1>5 DEF Promise!Start, Running

\* Moving the temporary file into place is a change of the promise.
LEMMA PromiseMove ==
  ASSUME NEW w \in Windows, WindowInv(w), Move(w)
  PROVE  \E k \in Keys, v \in Values : Promise!Change(w, k, v)
<1>1. PICK k \in Keys, v \in Values : candidate[w] = [appearance[w] EXCEPT ![k] = v]
  BY DEF WindowInv, OneChange, InSave, Move, At
<1>2. candidate[w] \in Settings
  BY DEF WindowInv, TypeInv, StoreTypeOK
<1>3. file' = candidate[w] /\ file' # Absent
  BY DEF WindowInv, Complete, Move
<1>4. Preferences' = candidate[w]
  <2>1. Preferences' = Loaded(candidate[w])
    BY <1>3 DEF Preferences, Loaded
  <2> QED
    BY <1>2, <2>1, LoadedSaved
<1>5. w \in Running /\ Running' = Running
  BY DEF Running, Move, At, GoTo, WindowInv, TypeInv, StoreTypeOK
<1>6. appearance' = [appearance EXCEPT ![w] = candidate[w]]
  BY DEF Move
<1>7. Promise!Change(w, k, v)
  BY <1>1, <1>4, <1>5, <1>6 DEF Promise!Change, Running
<1> QED
  BY <1>7

\* Every step is a step of the promise.
LEMMA PromiseStep ==
  ASSUME NEW w, Windows = {w}, WindowInv(w), [StoreNext]_storeVars
  PROVE  [Promise!Next]_(Promise!vars)
<1>1. pc \in [Windows -> {"Off", "Checking", "Idle", "Creating", "Writing",
                          "Moving", "Discarding"}]
  BY DEF WindowInv, TypeInv, StoreTypeOK
<1>2. CASE UNCHANGED storeVars
  BY <1>2, Unnoticed DEF storeVars, disk, Running
<1>3. CASE Load(w)
  <2>1. Loaded(file) = Preferences
    BY <1>3 DEF Load, Preferences
  <2>2. Promise!Start(w)
    BY <1>3, <2>1, PromiseStart DEF Load, At, WindowInv
  <2> QED
    BY <2>2 DEF Promise!Next
<1>4. CASE Migrate(w)
  <2>1. Migrated = Preferences
    BY <1>4 DEF Migrate, Preferences
  <2>2. Promise!Start(w)
    BY <1>4, <2>1, PromiseStart DEF Migrate, At, WindowInv
  <2> QED
    BY <2>2 DEF Promise!Next
<1>5. CASE StartAnew(w)
  <2>1. Promise!Start(w)
    BY <1>5, PromiseStart DEF StartAnew, At, WindowInv
  <2> QED
    BY <2>1 DEF Promise!Next
<1>6. CASE Move(w)
  BY <1>6, PromiseMove DEF Promise!Next
<1>7. CASE End(w)
  <2>1. Running' = Running \ {w} /\ UNCHANGED <<legacy, file, appearance>>
    BY <1>1, <1>7 DEF End, GoTo, At, Running
  <2>2. Preferences' = Preferences
    BY <2>1 DEF Preferences, Loaded, Migrated
  <2>3. Promise!Stop(w)
    BY <2>1, <2>2 DEF Promise!Stop, Running
  <2> QED
    BY <2>3 DEF Promise!Next
<1>8. CASE LoadNothing(w)
  BY <1>1, <1>8, Unnoticed DEF LoadNothing, At, GoTo, Running, disk
<1>9. ASSUME NEW k \in Keys, NEW v \in Values, Choose(w, k, v)
      PROVE  UNCHANGED Promise!vars
  BY <1>1, <1>9, Unnoticed DEF Choose, At, GoTo, Running
<1>10. CASE Create(w) \/ CreateFails(w) \/ Write(w) \/ WriteFails(w)
  BY <1>1, <1>10, Unnoticed
  DEF Create, CreateFails, Write, WriteFails, At, GoTo, Running, disk
<1>11. CASE MoveFails(w) \/ Discard(w)
  BY <1>1, <1>11, Unnoticed DEF MoveFails, Discard, At, GoTo, Running, disk
<1> QED
  BY <1>2, <1>3, <1>4, <1>5, <1>6, <1>7, <1>8, <1>9, <1>10, <1>11
  DEF StoreNext, Startup, Save

\* While one window runs, the files keep the promise of SettingsFile for any
\* settings, any earlier file, failures of any call and an end of the process
\* between any two.
THEOREM OneWindowKeepsPromise ==
  ASSUME NEW w, Windows = {w}
  PROVE  StoreSpec => IsSettingsFile
<1>1. StoreInit => WindowInv(w)
  BY TypeInit DEF WindowInv, OneChange, Complete, InSave, At, StoreInit
<1>2. WindowInv(w) /\ [StoreNext]_storeVars => WindowInv(w)'
  BY WindowStep
<1>3. WindowInv(w) /\ [StoreNext]_storeVars => [Promise!Next]_(Promise!vars)
  BY PromiseStep
<1> QED
  BY <1>1, <1>2, <1>3, PromiseInit, PTL DEF StoreSpec, IsSettingsFile, Promise!Spec
=============================================================================
