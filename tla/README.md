# DiskBloom in TLA+

DiskBloom is a Windows program that scans a drive or a folder, shows what takes
the space as a sunburst chart, lets the user collect items for deletion and moves
them to the Recycle Bin.  This directory holds specifications of its logic: TLA+
modules that model the components, TLC configurations that check them on small
instances, and TLAPS proofs of what matters most for every instance.  Paths below
are relative to the root of the repository.

## 1. The system

### Components

| component | state it keeps | operations | modelled in |
| --- | --- | --- | --- |
| Scan session `src/scan/scan_session.*` | atomic state, stop token, five atomic counters, the result under a mutex, the worker thread | start, cancel, state, progress, take_result, destructor; run on the worker | `ScanSession`, `ScanTask` |
| File scanner `src/platform/windows/file_scanner.*` | the tree being built, a stack of folders to open, the progress | scan_directory with a progress callback and a stop token | `FileScanner` |
| Scan tree `src/core/scan_tree.*` | a vector of nodes and one of name characters | add_root, add_child, add_flags, aggregate | `ScanTree`; the finished tree `ScanForest` |
| Review and exclusion `src/app/deletion_review.*`, `review_change.*`, `src/core/scan_tree_exclusion.*` | the collected nodes and their total; the hidden roots and what each ancestor loses | add, restore, clear; rebuild, is_visible, effective_size | `ReviewSet` |
| Navigation and history `src/app/analyzer_navigation.*`, `analyzer_history.*` | view, root, selected node; up to 128 entries and a cursor | open, navigate, select, back, forward, overview, reconcile | `AnalyzerNavigation` |
| Main window `src/app/main_window.*` | both sessions, the completed scan, the review, the navigation, timers, the appearance | handlers of clicks, timers, commands, sizes and paints; modal dialogs | `MainWindow`, `AnalyzerSession`, `AnalyzerInput`, `RecycleSession`, `AnalyzerChart`, `Painting`, `SettingsStore`; not the mouse in the overview, tooltips, preview and reveal |
| Scan tiles `src/app/scan_ui_state.*` | a state for each volume and for the folder, which one is active | activate_volume, activate_folder, apply_scan_snapshot, release_terminal_scan | `MainWindow` |
| Analyzer view `src/app/analyzer_view.*` | copies of root, selection, history buttons, review list; drags, scroll positions, transitions; caches to draw from | pointer events to commands; draw | `AnalyzerSession` (the copies and the commands), `AnalyzerInput` (the gestures), `AnalyzerChart` (chart and trail), `Painting` (the caches) |
| Recycle session `src/app/recycle_session.*`, `src/platform/windows/recycle_bin.*` | state, result, thread; the shell's file operation | start, state, take_result, destructor; a batch of deletions | `RecycleSession`, `RecycleTask`; its end also in `MainWindow` and `AnalyzerSession` |
| Settings store `src/platform/windows/settings_store.*`, `src/app/win_main.cpp` | `settings-v2.ini`, its temporary file, `settings-v1.ini` | load, migrate, save atomically | `SettingsStore`, `SettingsFile` |
| Pointer interaction `src/app/review_collector_interaction.*`, `analyzer_input_lifecycle.*`, `analyzer_transition_controller.*`, `directory_transition_policy.*` | press, drag, capture, the clock of a transition | pointer and lifecycle events | `AnalyzerInput`, `AnalyzerChart` |
| Chart and trail `src/core/sunburst_layout.*`, `sunburst_transition.*`, `child_ranking.*`, `node_path.*`, `src/app/analyzer_breadcrumb.*` | none | arcs of a folder, hit testing, ranking, frames of a transition, the trail and its layout | `SunburstLayout`, `SunburstTransition`, `AnalyzerBreadcrumb`, composed in `AnalyzerChart` |
| Graphics device `src/render/graphics_device.*` | Direct3D and Direct2D objects, the drawing target | initialize, resize, begin_draw, end_draw, recover, discard | `GraphicsDevice`, composed in `Painting` |
| Overview `src/app/disk_overview.*` | tiles on display, hover, the pending command, caches to draw from | hit testing, drawing | its caches and statuses, in `Painting`; not its layout and hit testing |
| Hover pulse `src/app/analyzer_hover_pulse.*` | the phase of a highlight | advance | not modelled |
| Appearance `src/app/appearance_settings.*`, `src/core/theme.*`, `string_catalog.*` | none | tables and conversions | not modelled; the settings are in `SettingsStore` and `Painting` |
| System services `src/platform/windows/{shell_actions,folder_picker,volume_service,system_theme}.*` | none | single calls into Windows | not modelled; the picker is a dialog of `MainWindow` |
| Tests, benchmarks, packaging, tools, documents | | | not modelled |

### How they interact

The window thread owns everything but two worker threads.  `MainWindow` starts a
`ScanSession`, whose worker runs `scan_directory` and reports progress through a
callback into atomic counters.  A 33 ms timer reads the session's state; at the
end the window moves the result out, destroys the session, and opens the analyzer
on the tree.  The tiles of the overview follow the session.  `AnalyzerView` turns
pointer events into commands; `MainWindow` applies them to the navigation and the
review and tells the view what became of them.  A confirmed review goes to a
`RecycleSession`; its end is found by a second timer, and success throws the tree
away and scans the same target again.  What is on display is drawn by the two views
with the objects of `GraphicsDevice`, from caches that each draw compares with what
it needs; sizes, settings and commands ask for a paint.  Dialogs (folder picker, message boxes, the
settings menu) run a message loop of their own inside a handler.  Several windows,
each a process, share the settings files.

### What is hard

* **Threads**: the worker and the window share a session; the destructor joins.
* **Dialogs inside handlers**: timers fire while a handler waits for an answer.
* **Polled ends**: between the end of a worker and the next tick the window acts
  on a state that no longer holds.
* **Copies**: review, exclusion and view all know what is collected; the view also
  copies the navigation and the history buttons.
* **Indices into a tree that is replaced**: history, review and view name nodes.
* **Gestures**: what is pressed, dragged or captured outlives other events, and is
  used when the button goes up.
* **Counting once**: exclusion subtracts sizes from every ancestor; links show
  folders twice; 64-bit sums may wrap.
* **Partial failure**: folders that do not open, file operations that stop
  half way, saves cut short by a failure or the end of the process, a device of
  which only some objects could be made.
* **Transitions over transitions**: a chart can change while it is on its way.
* **Keys of caches**: brushes under the address of a context, widths under a
  language; a key that leaves something out shows the past.

`PROJECT.json` lists each such hazard at its line with the properties about it.

### What makes each component correct

* *Scan session*: one result, in place before the state that announces it; a
  terminal state is final; destroying ends; what was found reaches the window.
* *File scanner*: the tree is a forest the analyzer can rely on; sizes, counts and
  progress agree; what is missing is marked; nothing is counted twice; it ends.
* *Review*: no collected item inside another; everybody agrees on what is
  collected; sizes on display are exact.
* *Navigation*: what is shown exists and is visible; history names nodes of the
  open scan only; the buttons say what the history allows.
* *Recycling*: only what was confirmed is removed, success means all of it, and
  what is gone does not come back into view.
* *Chart and trail*: the arcs of a folder add up and are found; nothing on display
  jumps; a transition ends at the chart that is there; the trail leads where it says.
* *Drawing*: a target is one of the buffers that are presented; what is on the
  screen is what is to be seen.
* *Window*: one tile for one session; no tile busy for ever; no view of a tree
  that is gone; a recycling is followed by a scan.
* *Pointer*: capture and drag end together; what is pressed or dragged is still what
  it was when it is released; a transition ends.
* *Settings*: a start finds what was saved last; a change is saved and active or
  neither.

## 2. The modules

    ScanTree --> ScanForest --> ReviewSet --> AnalyzerNavigation --> AnalyzerSession
       |                                                                   |
       v                                                                   v
    FileScanner --> FileScannerProofs                           AnalyzerSessionProofs

    ScanTask <== ScanSession --> ScanSessionProofs
       ^
       | (INSTANCE)
    MainWindow ---------------------+
                                    +--> WindowProofs
    SettingsFile <== SettingsStore -+

    AnalyzerNavigation --> AnalyzerInput --> AnalyzerInputProofs

    ReviewSet --> RecycleSession --> RecycleSessionProofs
                       |
                       +==> RecycleTask

    ReviewSet --> SunburstLayout --> SunburstTransition --+
        |                                                 +--> AnalyzerChart
        +-------> AnalyzerBreadcrumb ---------------------+

    GraphicsDevice --> Painting

    AnalyzerChart, Painting --> DrawingProofs

    ReviewSet --> ScanForestProofs --> AnalyzerSessionProofs, AnalyzerInputProofs,
                                       DrawingProofs

(`-->` is extended by, `==>` implements, `<==` is implemented by.)  `SettingsStore`
and `Painting` are proved about together with another module and name their parts for
it (`StoreInit`, `PaintNext`, ...); so are their specifications `StoreSpec` and
`PaintSpec`.  The modules
`MCAnalyzerSession`, `MCAnalyzerInput`, `MCFileScanner`, `MCSettingsStore`,
`MCRecycleSession` and `MCAnalyzerChart` give the constants their values for TLC.

### ScanTree, FileScanner

`ScanTree` is the vector of nodes: a function from `0 .. n-1` to records with
`parent`, `firstChild`, `nextSibling`, the size and the flags.  A name is the entry
it belongs to.  `Appended` is `append_node`, `Aggregated` is the backward loop of
`aggregate`, with sums modulo `MaxBytes + 1`.  `IsForest` is what the analyzer
needs of a finished tree: parents before their children, no node under a file, and
in each folder the bytes of its children, modulo the counter.  It is the assumption
of `ScanForest`, and the theorem `ResultsAreForests` of `FileScannerProofs`
establishes it for each completed scan.

`FileScanner` is `scan_directory`.  The disk is constant; what the system answers
is not: each folder may fail to open, each enumeration may break off at any entry,
entries come in any order, the stop token may be set at any time, and a callback
may be skipped by its rate limit.  One step runs from one look at the stop token to
the next.  `MaxNodes` and `MaxNames` stand for the two limits of 2^32-1.

### ScanSession, ScanTask

One action for each access to shared memory.  The counters are relaxed atomics: the
reader may find any mixture of published values that does not go back, and after
it read a terminal state (acquire) the last value of each.  `ScanTask` is what the
window relies on, with the result and the state appearing in one step; `ScanSession`
implements it by a refinement mapping that hides a result until the state is
terminal.

### ReviewSet, AnalyzerNavigation, AnalyzerSession

`ScanForest` gives each tree as parent, directories and sizes, with `Above` and
`Below`.  `ReviewSet` is `DeletionReview::add` and `ScanTreeExclusion::rebuild`;
`AnalyzerNavigation` is the history with its moves over hidden entries, and
`Reconciled`.  `AnalyzerSession` is the window around them: `tree` is
`completedScan_`, `review` is `deletionReview_`, `excluded` is `reviewExclusion_`,
`nav` is `navigation_`, and `shown` is what `AnalyzerView` keeps.  A command can
only be one the view offers; the handler decides with the window's own state.

A scan here starts from the overview or after a recycling.  In one case of
`MainWindow` it can start behind the analyzer: a scan that ends while the picker is
open opens the analyzer, and the picked folder is scanned under it.

### MainWindow

`tile` and `active` are `ScanUiModel`; `status`, `found` and `scanned` are the scan
session, moved by the actions of `ScanTask`; `completed` is the completed scan with
its target; `recycle` is the recycle session; `dialogs` is the stack of dialogs
that wait for an answer.  Clicks need an empty stack; timers do not.  `Picked` and
`Confirmed` continue the handler that opened the dialog, in whatever state the
timers left.

### AnalyzerInput

Where `AnalyzerSession` takes commands as given, `AnalyzerInput` has the mouse
messages they come from.  `view` holds the members of `AnalyzerView` that a gesture
reads or writes: root and review list, the rows of the panel as they were last laid
out, the scroll offset, the open panel, the hover, the breadcrumb overflow, the
pressed row, the drag, and what is left of a transition.  `captured` is
`GetCapture() == window_`, `timer` the animation timer, `held` and `inside` the
mouse itself.  One action is one message with everything it calls:
`WM_LBUTTONUP` includes the nested `WM_CAPTURECHANGED` and the command.

The layout is abstracted to `Places`: what a point hits.  Above the panel's slots
lies the chart, which is hit when the panel is closed, and the slots are hit
whether it is open or not, as `hit_test_review_restore` does.  The selection, the
history and the size of moves are left to choice.  Left out: preview, reveal and
the buttons of the window, which change nothing here; the message loop of the
confirmation, which `MainWindow` has; rows of the breadcrumb flyout between its
closing and the next paint; and scans that end behind the analyzer.

### RecycleSession, RecycleTask

One action for each access to the state and the result that window and thread share,
and for each part of `recycle_paths` after which it can fail: the check of the paths,
the preparation of the operation, the operation itself, the question whether
something was skipped.  `disk` is what is there, `listed` the scan that is shown,
`review` what is collected, `batch` the paths that were built before the question.
The shell is external: it removes items in any order, at once or piece by piece, it
may give up anywhere, and it may ask the user in a dialog that the window owns.
Other programs remove items at any time.  Closing the window joins the thread.
`RecycleTask` is the promise to the user who said yes, with result and state ending
in one step; `RecycleSession` implements it by hiding a result until the state
announces it.

### SunburstLayout, SunburstTransition, AnalyzerBreadcrumb, AnalyzerChart

The three first are operators: the arcs of a folder by the work list of
`build_sunburst_layout`, the ranges of a depth and the search in them, the ranking of
children by a bounded queue; the pairs of arcs of a transition and its frames; the
trail, what of it is left in a width, and its search.  Angles, radii and widths are
whole numbers: a share of an angle is rounded to the nearest part of the circle, as a
float is to the nearest float, so that the last arc of a ring is pulled to its end
while the folder it stands for keeps the angle it had on the work list.  Palettes
and label texts are left out.  `AnalyzerChart` composes them in the operations of
`AnalyzerView` that begin, advance, interrupt and cancel a transition or replace the
trail; the clock may be found at any progress.

### GraphicsDevice, Painting

A device is a record of which objects exist, the size of the buffers and of the
target, and how many `BeginDraw` are open.  Each operator is one function of
`graphics_device.cpp`: the set of devices it may leave, one for each call after which
it can stop.  `Painting` is `render_frame` over it with the views' caches.  A cache
holds its keys, as the code does, and what it was made of, which the code does not
keep: that is what the screen shows.  `asked` is the update region, `shown` what was
presented since.  A context that is made anew may lie at the address of the old one.

`moving` is a transition: the frame it is at, the chart it leads to and where that chart
was laid out, which is the window and the scale of the last draw (`laid`).
`AnalyzerDraws` has both ends of `draw`: while a transition runs it needs the batches of
the frame, which serve as long as `transitionGeometryValid` says so (`EnsureFrame`), and
cancels the transition when the chart is to lie elsewhere now or the batches cannot be
made; at rest it needs the chart (`EnsureGeometry`).  `Unframed` clears that flag, as each
advance, start and cancellation does.  `AnalyzerChart` says what is in the frames,
`Painting` which of them is drawn.  The batch of the hover pulse is left out, with the
hover.

`PresentedIsCurrent` and `FrameShownIsCurrent` together name what is on the screen, and
exempt four things.  The widths the trail was measured with are used past the text they
were measured for: that is the finding `stale_trail`, and no part of `Wanted`.  After a
paint that failed nothing is claimed, as nobody asks for another one.  A chart that could
be rebuilt only in part may be in pieces, but it is never the chart of another folder or
place.  A frame may outlast its transition in one state: `WM_SIZE` came with the size the
window has, cancelled the transition, and found no buffers for the next paint.

### SettingsStore, SettingsFile

`file`, `temp` and `legacy` are the three files, by the values they hold in the
order of writing; `pc` is where each process is between two calls into the file
system; `holder` is who has the temporary file open without sharing.  A file that
ends early is loaded key by key with defaults for the rest, as `load_settings` does;
a line that is cut in the middle counts as missing, since no token of a setting is
the beginning of another.  Each call may fail, and `End` may come at any place.
`SettingsFile` has one variable for the saved settings and changes it together with
the active ones.

## 3. The runs

| run | configuration | distinct states | what it shows |
| --- | --- | --- | --- |
| `analyzer` | `AnalyzerSession.cfg` | 54,329 | type, review, agreement, visibility, history, buttons, sizes |
| `scan_session` | `ScanSession.cfg` | 7,170 | result once, final progress, destruction, refinement of `ScanTask` |
| `file_scanner` | `FileScanner.cfg` | 5,348 | forest, totals, marks, no double counting, every step shortens the walk |
| `main_window` | `MainWindow.cfg` | 22,920 | one tile for one session, no view of a missing tree, tiles settle |
| `settings` | `SettingsStore.cfg` | 9,384 | one window at a time implements `SettingsFile` |
| `input` | `AnalyzerInput.cfg` | 145,740 | capture, drag, pressed rows, the list of a batch, transitions |
| `recycle` | `RecycleSession.cfg` | 65,910 | refinement of `RecycleTask`, what is gone stays hidden, batches settle |
| `chart` | `AnalyzerChart.cfg` | 24,180 | arcs add up, frames continue, transitions land, the trail fits; the ranking is a sort |
| `painting` | `Painting.cfg` | 280,812 | the target belongs to the chain, what is shown is what is to be seen, in a transition its frame |
| `stale_press` | `AnalyzerInputDrop.cfg` | | a drag that restores instead of collecting |
| `stale_trail` | `PaintingTrail.cfg` | | labels laid out for another text size |
| `settings_shared` | `SettingsShared.cfg` | | two windows that share a temporary file |

Each property of a passing run has a mutant in `PROJECT.json`: an operator
commented *A seeded fault*, with which the property is violated.

### Bounds, and why they are enough

* `analyzer`: a deep tree (four levels, so that a hidden folder can lie above and
  below the shown one, with a sibling on each level that matters) and a flat one
  with an empty folder, so that scans replace each other and a size of zero occurs;
  the deep tree's sizes reach `MaxBytes = 7`.  `HistoryCapacity = 4` fills up and
  drops the overview within a few steps, as 128 entries do later.
* `scan_session`: two counters show mixtures, three publications show old, middle
  and last values.  There is one session, as the window has at most one.
* `file_scanner`: seven entries with a nested folder, a link to the scanned folder
  and two files whose sum exceeds `MaxBytes = 7`; `MaxNodes = 6` and `MaxNames = 7`
  are reached on some orders of the entries and not on others.
* `main_window`: two volumes and two folders: one to be scanned and one to be
  taken for it.  Volumes and paths have no structure, so more add no behaviour.
  At most three dialogs are open at a time, by the program itself.
* `input`: a tree with a folder, a file in it and two files beside it, so that
  collecting hides the folder on display, replaces an item inside another, and fills
  a list of three; windows that show no row or two, so that the list scrolls and the
  panel can be open over a layout without rows; `Frames = 2` ticks, so that a message
  can come in the middle of a transition.
* `recycle`: a tree of five nodes with a folder in a folder, so that a batch can hold
  a folder, part of it can be gone before, during and after, and what is collected
  later can cover what was removed; other programs remove one item.  The shell asks
  until something is skipped, as often as it likes.
* `chart`: eleven nodes on four levels; eight arcs are fewer than the scan would
  take, so that an arc stands for what is left over, next to arcs that are too narrow;
  without one of the items two shares lie half way between whole angles.  Two turns
  are a transition and its interruption; a third would start from a frame as the
  second does.  One width is enough for all of the trail, in the other it is cut.
* `painting`: an empty window and two sizes, two values for each setting, three
  changes: one to be missed, one to cover it and one between them; or a transition, its
  next frame and what comes across it.  Losses of the device, failures, cancellations and
  paints are not bounded.
* `settings`: two settings, one with a launch argument and one that migrates, with
  two values each; every content of the files at the start, cut off or not.

### Fairness

* `ScanSession`: a scan that was asked to stop returns, since `scan_directory` looks
  at the token before each entry; a worker whose scan returned finishes; the owner
  finishes a call it began and polls by its timer.  No fairness for a scan that was
  not asked to stop.
* `FileScanner`: none.  `WalkShortens` says that every step of the walk takes something
  from what is left, in this order: the entries not seen, the folders to open, what is
  left of the open one.  Nothing but the disk bounds these, not `MaxNodes` either, so
  that on a finite disk there is no endless walk; a step is possible until the walk has
  ended, as an enumeration may break off and a folder fail to open at any time.
* `MainWindow`: weak fairness of the poll, since `WM_TIMER` arrives in every message
  loop, and of its action `ScanEnds`, which rests on `WalkShortens`.  None for the user:
  dialogs may stay open for ever, and the tiles still settle.
* `RecycleSession`: the thread runs, the user answers the shell, the timer polls and
  the window waits (weak fairness); the shell removes and asks only so often and then
  returns (strong fairness of `Performed`, since a question interrupts it).
* `AnalyzerChart`, `Painting`: none; one thread, and only safety is claimed.
* `AnalyzerInput`: weak fairness of the animation timer.  `TransitionEnds` leaves out
  a user who starts transitions for ever.

## 4. The proofs

TLAPS proves the following for all values of the constants under the named
assumptions of the modules.

| module | theorem | statement |
| --- | --- | --- |
| `AnalyzerSessionProofs` | `TypeCorrect` | `Spec => []TypeOK` |
| | `ReviewIsAntichain`, `ReviewIsAgreedOn` | what is collected is an antichain without the root; review, exclusion and view agree |
| | `PlaceIsVisible` | the analyzer shows a visible directory with a visible selection in it |
| | `HistoryIsOfThisScan` | the history names directories of the open scan, repeats nothing and keeps to its capacity |
| | `ReviewKeepsThePlace` | the action property about collecting and restoring |
| | `ButtonsAreRight` | while the history begins at the overview, the buttons say what it allows |
| | `SizesAreExact` | the size shown is that of the visible files, wherever the bytes fit the counter |
| `FileScannerProofs` | `TypeCorrect` | `Spec => []TypeOK` |
| | `EntriesAreOnce`, `MarksAreComplete` | no entry is in the tree twice; what is missing is marked |
| | `ResultsAreForests` | folders are linked through exactly their children; a completed scan leaves what `AnalyzerSession` assumes of its trees |
| | `WalkIsFinite` | every step of the walk leaves less of the disk to walk, links in circles or not |
| | `TotalsOfResult` | the totals of the folders, the progress and the published counts agree |
| `ScanSessionProofs` | `TypeCorrect`, `ResultIsTakenOnce`, `ProgressIsFinal`, `EndStaysFinal` | the safety of the session |
| | `SessionIsTask` | each step of the session is a step of `ScanTask` or stutters |
| `RecycleSessionProofs` | `TypeCorrect` | `Spec => []TypeOK` |
| | `SessionIsRecycleTask` | `Spec => IsRecycleTask`: the session implements `RecycleTask` |
| | `GoneItemsStayHidden` | what was removed comes back into view only when the user restores |
| `DrawingProofs` | `TrailAlwaysFits` | the trail is complete, side by side, within its room, and leads upwards |
| | `RingsTile` | the arcs of each folder hold all of it without a gap, and are found |
| | `TransitionsLand`, `FramesContinue` | a transition ends with the chart that is there, and begins with what is on display |
| | `TargetStaysWithChain`, `ShownIsCurrent`, `FrameIsCurrent` | the three properties of the run `painting`, for any sizes and any number of changes |
| `WindowProofs` | `TypeCorrect`, `SessionKeepsItsTile`, `ShownTreeIsThere` | the safety of the window |
| | `StoreTypeCorrect` | the types of `SettingsStore`, for any number of windows |
| | `OneWindowKeepsPromise` | `StoreSpec => IsSettingsFile` while there is one window |
| `AnalyzerInputProofs` | `TypeCorrect` | `Spec => []TypeOK` |
| | `DragHasCapture`, `RecycledListStays` | capture and drag are one; the list of a batch stays |
| | `PressedRowIsKept` | a pressed row stands for one item until it is released |

`StoreTypeCorrect` of `WindowProofs`, `TypeCorrect` and `EndStaysFinal` of
`ScanSessionProofs` are proved and are not run: the refinement properties and
`FinalProgress` fail wherever they do.

**What the proofs share.**  `ScanForestProofs` proves what the trees give: `Above` is
reflexive, transitive and linear, every node is under the root, and what a visible
folder and a collected item hide and show.  `Above` is the least parent-closed set,
so that a fact about the way up needs a parent-closed set and no induction.  That a set
of nodes has one sum, whatever order the fold takes, is a well-founded induction on its
cardinality.  The same module has the orders of finite sets that sequences are made
from (`Ascending`, `MembersAt`), and that a recursion over numbers has a solution: the
induction is over the set of numbers for which it holds.  The assumption on the trees
is `IsForest`, which `ResultsAreForests` proves of completed scans.

**AnalyzerSession.**  The inductive invariant joins
`TypeOK`, the antichain, the agreement, the visible place and the history.  They need
each other: `Reconciled` finds a visible directory only because the root is never
collected, the antichain is kept because `WithCollected` removes what it covers, and
a click on the view is answered well because view and window agree.

The buttons need a second invariant, `ButtonsInv`: the overview is only ever the
first entry of a history, and while it is there, Back is live and Forward misses
nothing.  The handlers tell the view about the buttons after some steps only; the
invariant says why the others cannot matter.

The sizes need no second invariant but the sums over a tree: sums of disjoint sets
add up, the bytes of a folder are
those of the files below it (by induction from the leaves, with `IsForest` for one
folder, and no wrap where `TotalsFit`), and what two items of an antichain cover is
disjoint, so that `rebuild` subtracts each byte once.

**FileScanner.**  The inductive invariant says in which state the walk is between two
looks at the stop token: the tree is a linked vector of nodes that say of themselves
what their entry is on the disk, each entry once; the folders that wait are different,
empty and not the one that is enumerated; what is left of that one is not in the tree
yet; a folder without a mark is complete, is enumerated and lacks what is left, or
waits; and the counts are those of the nodes.  That `NotFoundYet` holds of the next
entry, links in circles or not, is what `EntryOnce` rests on: an entry is reached
through the folder that holds it, and no folder is opened twice.

`WalkShortens` needs the same: an entry that is added was nowhere in the tree.  That a
walk of such steps ends is then the order of three finite things, one after the other,
and is left to the reader.

`TInv` adds that the progress is the sum of what each node contributes, and that the
totals are `Aggregated` of the tree.  `Aggregated` goes through the nodes from the last
to the root.  The proof follows it as a climb: after the nodes from `k` on were added,
each node holds its own share and the totals of its children from `k` on, for
children come after their parents.  Bytes are reduced at each addition, and the same
total comes out as when the sum is reduced at the end, since each stage stays equal to
the sum modulo `MaxBytes + 1`.

**ScanSession.**  The invariant says for each place of the worker what is stored so
far: nothing in `result` before `Stored`, `result` and `handed` together holding
`returned` once after it, a terminal state only at `Done`, and `published = total`
from `Published` on.

**SettingsStore.**  Type correctness needs that the temporary file exists while it
is open.  The refinement needs two more facts about a window in a save: its
candidate is one change away from its active settings, and when it is about to
move, the temporary file holds the candidate.  The second is what fails with two
windows, as the run `settings_shared` shows.

**RecycleSession.**  The invariant says for each point of the worker what holds there:
the state is `Running` while it works, what it returned is true of the disk (a batch
that `Succeeded` has nothing left there), and the result is there before the state
that announces it.  With the task's state hidden until then, each step is one of
`RecycleTask`.  `GoneItemsStayHidden` needs that what was deleted is off
the disk, so that no later scan lists it; that the poll keeps the review whenever it
keeps the old scan; and that collecting hides more and never less, since `Above` is
transitive and an item leaves the review only for one that contains it.

**The trail.**  `LayoutInv` says that the layout is that of the trail there is, or was
dropped; `PlaceInv`, which the chart uses too, that trail and arcs are those of the
folder on display, which is visible.  The rest is about `TrailLayout`: the items that
are retained have their places, whatever has to be taken from each of them in order;
the widths that are left add up to the room, the last pixels from the left; and segments
side by side hold a point at most once.

**The rings.**  `RingTilesFolder` has no history: it holds of `ArcsOf` for every visible
folder, and `PlaceInv` says that `arcs` is that.  The work is an invariant of the loop
over the work list (`IsDone`): the arcs so far are rings laid end to end, each for the
folder at its place on the list; folders stand on the list once, by rising depth, and by
rising angle within one depth but for the rounding; each but the first has an arc in an
earlier ring.  For one ring (`RingIsGood`): the shares of the children, each rounded,
miss the whole by half a part for each child, so that the last arc can be pulled to the
end and the next folder's ring be off by no more (`Lost`).  That every arc is found needs
that the arcs of a depth are one run, from the order of the list, and that an earlier
arc reaches into a later one by no more than was lost.  The theorem has the guard of the
property, `TotalsFit(scan)`: where the bytes of a scan wrap, the children of a folder
need not add up to it.

**Transitions.**  `PlanIsBetween` is about two charts only: every arc of the one is the
source of a morph and every arc of the other a destination, in no two pairs, what has
no peer is invisible at its end, and an interpolation is exact at both ends.  So the
first frame shows the one chart and the last the other, and a frame in between is a
chart to start from.  `MoveInv` then says that a transition under way is such a plan
for the chart that is there; it is inductive because each step that changes the chart
starts or cancels a transition in the same step.  For this the arcs only need their
types, so that `TransitionsLand` and `FramesContinue` hold without `TotalsFit`.

**Painting.**  The invariant joins two parts.  The device is sound: a target implies
chain and context and has the size of the buffers.  The caches tell the truth: what a
cache holds is what its keys say, as long as its brushes are of the context that is
there; a frame that is kept is the one the transition is at.  A transition leads to the
chart of the folder on display, and to where it lay when the analyzer was drawn last
(`MotionSound`), so that the comparison in `draw` is enough.  What was shown is then
what is to be seen because every change asks for a paint.

**MainWindow.**  `SessionHasTile` is strengthened by what makes it inductive: while the
window is there, there is no active tile or just one, it is busy, and the session is
for its path.  A scan starts only when no tile is active.

**AnalyzerInput.**  The types need what the lists are made of: an item that leaves a list
leaves the others in their order, without a second of any, and an offset or a hovered row
is clamped to the length that is left.  `CaptureIsDrag` is inductive with the shape of
the view.  What is
dragged stays on display because everything that changes the root or the list is a
command, and the capture, with it the drag, is gone before a command is dispatched.
For pressed rows `PressInv` says that none is pressed outside the analyzer or while a
batch is recycled: these are the states in which the list changes under no command, and
a release forgets the press before its command is dispatched.

**Only model-checked**:

* liveness (`DestroyReturns`, `ResultReachesOwner`, `TileSettles`,
  `TransitionEnds`, `BatchSettles` and the fairness of `ScanTask`), since liveness
  under fairness and ENABLED are out of the prover's reach;
* that the ranking of children by a bounded queue is a sort, an assumption of
  `MCAnalyzerChart` that TLC evaluates: a fold over a sequence is an induction over
  data, whose theorem takes an operator as a parameter.

Every invariant and every action property that a passing run checks is a theorem.

## 5. Where code and documents disagree

* **A press that is not forgotten** (`stale_press`, `src/app/analyzer_view.cpp:2148`).
  A row of the collector that is pressed and let go outside the window can stay
  pressed, since a row takes no capture and `pointer_left` returns early when nothing
  is hovered.  The next drag ends in the branch for the row: over the collector it
  collects nothing, and over the place of the row it restores the old item.
* **A trail laid out for another text** (`stale_trail`, `src/app/analyzer_view.cpp:1002`).
  The widths of the labels are kept while their number, the room and the language
  stay.  A change of the text size or the font makes new formats and asks for a paint,
  which draws the new text in the old segments until the trail or the width changes.
* **A shared temporary file** (`settings_shared`,
  `src/platform/windows/settings_store.cpp:182`).  Two windows that save at the same
  time can move each other's file, complete or cut off.

Seen while modelling, with no run of its own:

* A click on the breadcrumb of the folder on display records it again over hidden
  later entries, and Forward stays live, as the buttons are told only when the place
  changes (`src/app/main_window.cpp:487`).
* A hidden selection moves to its nearest visible folder and not to the current root,
  as the design says (`src/app/analyzer_navigation.cpp:157`); `ShownPlaceVisible` holds.
* Two callers of `activate_folder` ignore its answer `Cancel`
  (`src/app/main_window.cpp:700`).  The user must open the picker between the end of a
  recycling and the next 33 ms tick; the rescan starts in the picker's message loop,
  and picking a folder turns its tile to Cancelling for good.
* In the same gap a click on a volume starts a scan that `finish_recycle_success`
  cancels, or that makes it do nothing, so that no rescan comes
  (`src/app/main_window.cpp:594`).
* A scan behind the analyzer that ends during a recycling replaces the tree whose
  items are recycled.
* A lost device is made anew once; when that fails nobody tries again before the next
  size, and after a success nobody asks for the paint that is missing
  (`src/render/graphics_device.cpp:271`).
* Closing the window joins the recycle thread, which may be in a dialog of the shell that
  the window owns and that nobody answers any more (`src/app/main_window.cpp:1333`);
  `BatchSettles` has this state, `Deadlocked`, as its exception.
* The caches know their context by its address.  When a new one lies where the old
  one was, the old brushes are taken for its own and drawing fails until a setting
  changes or the device is lost again.
* A chart whose batches could be rebuilt only in part is drawn from neither set
  (`src/app/analyzer_view.cpp:1098`); every draw tries again.
* The last arc of a ring is pulled to the end of its folder after the folder it stands
  for went on the work list, so that the next ring may miss it by a rounding
  (`src/core/sunburst_layout.cpp:179`).
* The left edge of the details is clamped to a range that is empty in windows narrower
  than 724 DIP (`src/app/analyzer_view.cpp:198`).

Further: the start of a scan leaves the history
of the previous tree alone until a scan completes, where the navigation design says
that it clears it (`src/app/main_window.cpp:707`); Back at a history without the
overview whose earlier entries are all hidden moves the cursor and reports that it
did not move (`src/app/analyzer_navigation.cpp:61`); an empty drive has no dot
entries, so that `FindFirstFileExW` fails on it and it counts as inaccessible; a
settings file that exists and cannot be read at the start is overwritten with the
defaults by the next change; a launch argument is saved with the next change;
the README still lists theme and language as not persisted.

## 6. The plan

Done, in this order: the analyzer (`ScanForest`, `ReviewSet`, `AnalyzerNavigation`,
`AnalyzerSession`) because it decides what is deleted; `ScanSession` with `ScanTask`;
`ScanTree` and `FileScanner`, on which the two rest; `MainWindow`, which composes
scans, recycling and dialogs; `SettingsStore`; `AnalyzerInput`; `RecycleSession` with
`RecycleTask`, because it deletes; the chart, its transitions and the trail; the
graphics device and painting; proofs of all safety that the runs check.

Next:

1. The pointer in the overview: what a click starts when the tiles change under it.
2. Proofs: the ranking, by an invariant of its queue as of the loop of the chart.

### Not modelled

* Geometry in floating point: rectangles, radii to the pixel, the list of the children
  and the flyout, the layout of the overview.  Neither TLC nor the provers have floats,
  and no decision of the program but hit testing depends on them; what hit testing
  depends on is modelled over whole numbers.
* Texts, themes, fonts and the phase of the hover pulse: tables and formulas without a
  state that anything else reads.
* Single calls into Windows (reveal, preview, properties, volumes, the system theme),
  which keep no state, retry nothing and answer to nobody but the message box.
* Tests, benchmarks, packaging, tools and the vendored icons.
