------------------------------ MODULE Painting ------------------------------
(***************************************************************************)
(* What the window shows: MainWindow::render_frame over the device and the *)
(* two views, each with its caches.                                        *)
(*                                                                         *)
(* A view keeps brushes and text formats under the address of the context  *)
(* and the settings they were made for; the analyzer also keeps the chart  *)
(* and the frame of a transition as geometries and the widths of its       *)
(* trail's labels, the overview the texts of its rows.  Every draw         *)
(* compares the keys and rebuilds what they say is old.  A cache holds     *)
(* next to its keys what it was really made of, which the code does not    *)
(* keep: that is what the screen shows.                                    *)
(*                                                                         *)
(* A set of at most one element stands for what may be missing.            *)
(***************************************************************************)
EXTENDS GraphicsDevice, Functions

CONSTANTS
    Sizes,      \* the sizes the window may have; 0 is an empty one
    Options,    \* the values each setting may have
    MaxChanges  \* how often what is to be seen changes

VARIABLES
    device,     \* MainWindow::graphics_
    client,     \* the size of the client area
    settings,   \* appearance_, with the theme the system asks for
    view,       \* navigation_.view
    revision,   \* layoutRevision_: the chart on display
    place,      \* breadcrumb_: the trail on display
    moving,     \* transitionController_, transitionFrame_, transitionTargetGeometry_
    laid,       \* layout_ and chartScale_, as the analyzer was drawn last
    news,       \* scan_statuses_: which statuses the overview was given last
    overview,   \* DiskOverview::resources_
    details,    \* detail_text_, detail_text_valid_, detail_language_
    analyzer,   \* AnalyzerView::resources_
    labels,     \* breadcrumbLabelWidths_, breadcrumbLayout_ and their keys
    asked,      \* the window has something to paint
    shown,      \* what it shows, from a paint that presented to the next request
    changes

scene == <<client, settings, view, revision, place, news>>
caches == <<overview, details, analyzer, labels>>
paintVars == <<device, scene, moving, laid, caches, asked, shown, changes>>

PaintingAssumption == Sizes \subseteq Nat /\ 1 \in Sizes /\ 1 \in Options
ASSUME PaintingAssumption

SettingNames == {"theme", "language", "text", "scale"}
TextSettings == SettingNames \ {"scale"}  \* what a view without a chart draws with

-----------------------------------------------------------------------------
(* Brushes and formats: ensure_resources of both views.                    *)

\* A seeded fault: the typography is missing in the key.
KeyWithoutText == Restrict(settings, {"theme", "language"})

\* The keys.  The overview has no chart; the analyzer has, with a text in its centre.
OverviewKey == Restrict(settings, TextSettings)
AnalyzerKey == settings

\* What a view draws with of the settings.
Look(v, s) == IF v = "Overview" THEN Restrict(s, TextSettings) ELSE s

\* `same`: the key holds the address of the context; `own`: the brushes are of that
\* context.  Complete only, else the old ones stay.
EnsureResources(resources, key, new) ==
    IF \E r \in resources : r.same /\ r.key = key
    THEN {[resources |-> resources, ok |-> TRUE]}
    ELSE {[resources |-> resources, ok |-> FALSE], [resources |-> {new}, ok |-> TRUE]}

OverviewMade == [same |-> TRUE, own |-> TRUE, key |-> OverviewKey, look |-> settings]

\* New resources come without a chart and without a frame.
AnalyzerMade ==
    [same |-> TRUE, own |-> TRUE, key |-> AnalyzerKey, look |-> settings,
     valid |-> FALSE, revision |-> 0, geometry |-> <<0, 0>>, chart |-> {}, frame |-> {}]

\* After the device was made anew the brushes are of a context that is gone.  The new
\* one may lie at its address.
Orphans(resources) == {{[r EXCEPT !.own = FALSE, !.same = again] : r \in resources} : again \in BOOLEAN}

-----------------------------------------------------------------------------
(* The chart, the trail and the rows.                                      *)

\* compute_analyzer_layout: where the chart lies and how wide its rings are.
Geometry == <<client, settings.scale>>

\* ensure_geometry: the batches are rebuilt one by one in place; when one fails the
\* keys are still the old ones, and what lies in the batches is no chart.
EnsureGeometry(r) ==
    IF r.valid /\ r.revision = revision /\ r.geometry = Geometry
    THEN {[resources |-> {r}, ok |-> TRUE]}
    ELSE {[resources |-> {r}, ok |-> FALSE],
          [resources |-> {[r EXCEPT !.chart = {}]}, ok |-> FALSE],
          [resources |-> {[r EXCEPT !.valid = TRUE, !.revision = revision,
                                    !.geometry = Geometry,
                                    !.chart = {<<revision, Geometry>>}]},
           ok |-> TRUE]}

\* A seeded fault: transitionGeometryValid is not reset.
FramesKept(resources) == resources

\* transitionGeometryValid = false.  Batches that are not valid are never drawn.
Unframed(resources) == {[r EXCEPT !.frame = {}] : r \in resources}

\* ensure_transition_geometry: the batches of a frame serve as long as they are valid.
EnsureFrame(r) ==
    IF r.frame # {}
    THEN {[resources |-> {r}, ok |-> TRUE]}
    ELSE {[resources |-> {r}, ok |-> FALSE],
          [resources |-> {[r EXCEPT !.frame = moving]}, ok |-> TRUE]}

\* The draw of the analyzer needs the frame of a transition or the chart.  A transition
\* to another geometry than is drawn now, or without batches, is cancelled.
EnsureChart(r) ==
    LET AtRest(resources) ==
            {[resources |-> g.resources, moving |-> {}, ok |-> g.ok] :
                 g \in UNION {EnsureGeometry(q) : q \in resources}}
    IN  IF moving = {}
        THEN AtRest({r})
        ELSE IF \E m \in moving : m.to # Geometry
        THEN AtRest(Unframed({r}))
        ELSE UNION {IF f.ok
                    THEN {[resources |-> f.resources, moving |-> moving, ok |-> TRUE]}
                    ELSE AtRest(Unframed({r})) : f \in EnsureFrame(r)}

\* ensure_breadcrumb_layout: as many widths as labels, for this room and language.
TrailHolds == labels.full /\ labels.room = client /\ labels.language = settings.language

EnsureTrail ==
    IF TrailHolds
    THEN {[trail |-> labels, ok |-> TRUE]}
    ELSE {[trail |-> [labels EXCEPT !.full = FALSE], ok |-> FALSE],
          [trail |-> [full |-> TRUE, room |-> client, language |-> settings.language,
                      of |-> place, text |-> settings.text],
           ok |-> TRUE]}

\* The texts of the overview's rows.
EnsureDetails ==
    IF details.valid /\ details.language = settings.language
    THEN details
    ELSE [valid |-> TRUE, language |-> settings.language, of |-> news]

-----------------------------------------------------------------------------
(* DiskOverview::draw and AnalyzerView::draw: the caches they leave, and   *)
(* whether they went through.  A draw that fails returns where it fails.   *)

Undrawn == [overview |-> overview, details |-> details, analyzer |-> analyzer, trail |-> labels,
            laid |-> laid, moving |-> moving, ok |-> FALSE]

OverviewDraws ==
    {[Undrawn EXCEPT !.overview = made.resources,
                     !.details = IF made.ok THEN EnsureDetails ELSE details,
                     !.ok = made.ok] :
        made \in EnsureResources(overview, OverviewKey, OverviewMade)}

\* chartScale_ is taken over first.
Unlaid == [Undrawn EXCEPT !.laid = [room |-> laid.room, scale |-> settings.scale]]

AnalyzerDraws ==
    LET Laid(resources, t) ==
            [Undrawn EXCEPT !.analyzer = resources, !.trail = t.trail,
                            !.laid = [room |-> client, scale |-> settings.scale]]
        After(resources) ==
            UNION {IF t.ok
                   THEN {[Laid(c.resources, t) EXCEPT !.moving = c.moving, !.ok = c.ok] :
                             c \in UNION {EnsureChart(r) : r \in resources}}
                   ELSE {Laid(resources, t)} : t \in EnsureTrail}
    IN  UNION {IF made.ok THEN After(made.resources) ELSE {Unlaid} :
                   made \in EnsureResources(analyzer, AnalyzerKey, AnalyzerMade)}

\* Without a writer both give up at once.
Draws ==
    IF "writer" \notin device.parts
    THEN {IF view = "Overview" THEN Undrawn ELSE Unlaid}
    ELSE IF view = "Overview" THEN OverviewDraws ELSE AnalyzerDraws

\* What a draw that went through has drawn, from its caches.
OverviewImage(d) ==
    {[view |-> "Overview", size |-> device.target, look |-> Look("Overview", r.look),
      rows |-> <<d.details.of, d.details.language>>] : r \in d.overview}

AnalyzerImage(d) ==
    {[view |-> "Analyzer", size |-> device.target, look |-> Look("Analyzer", r.look),
      chart |-> IF d.moving = {} THEN r.chart ELSE {},
      frame |-> IF d.moving = {} THEN {} ELSE r.frame,
      trail |-> <<d.trail.of, d.trail.room, d.trail.language>>,
      measured |-> d.trail.text] : r \in d.analyzer}

Image(d) == IF view = "Overview" THEN OverviewImage(d) ELSE AnalyzerImage(d)
Brushes(d) == IF view = "Overview" THEN d.overview ELSE d.analyzer

-----------------------------------------------------------------------------
(* WM_PAINT: BeginPaint takes the request away, whatever becomes of it.    *)

KeepRest(d) == /\ details' = d.details
               /\ labels' = d.trail
               /\ laid' = d.laid
               /\ moving' = d.moving

Keep(d) == /\ KeepRest(d)
           /\ overview' = d.overview
           /\ analyzer' = d.analyzer

\* begin_draw refuses, or the view gives up between BeginDraw and EndDraw.
PaintGivesUp ==
    /\ asked
    /\ \/ ~Drawable(device) /\ UNCHANGED <<device, moving, laid, caches>>
       \/ /\ Drawable(device)
          /\ device' = Begun(device)
          /\ \E d \in Draws : ~d.ok /\ Keep(d)
    /\ asked' = FALSE
    /\ shown' = {}
    /\ UNCHANGED <<scene, changes>>

\* The frame is shown: what was begun was ended once, with brushes of this context.
PaintPresents ==
    /\ asked
    /\ Drawable(device)
    /\ Begun(device).begun = 1
    /\ device' = Ended(Begun(device))
    /\ \E d \in Draws :
          /\ d.ok
          /\ \A r \in Brushes(d) : r.own
          /\ Keep(d)
          /\ shown' = Image(d)
    /\ asked' = FALSE
    /\ UNCHANGED <<scene, changes>>

\* end_draw fails and goes on with the same context: the target is made again, or the
\* error is returned.
PaintRefused ==
    /\ asked
    /\ Drawable(device)
    /\ device' \in {Ended(Begun(device))}
                   \cup WindowSizeResources(Ended(Begun(device)))
    /\ \E d \in Draws : d.ok /\ Keep(d)
    /\ asked' = FALSE
    /\ shown' = {}
    /\ UNCHANGED <<scene, changes>>

\* EndDraw or Present finds the device lost.  Nobody asks for the paint again.
PaintLosesDevice ==
    /\ asked
    /\ Drawable(device)
    /\ device' \in Recovered(device, client)
    /\ \E d \in Draws :
          /\ d.ok
          /\ overview' \in Orphans(d.overview)
          /\ analyzer' \in Orphans(d.analyzer)
          /\ KeepRest(d)
    /\ asked' = FALSE
    /\ shown' = {}
    /\ UNCHANGED <<scene, changes>>

Paint == PaintGivesUp \/ PaintPresents \/ PaintRefused \/ PaintLosesDevice

-----------------------------------------------------------------------------
(* What changes what is to be seen.                                        *)

\* InvalidateRect.
Invalidate == asked' = TRUE /\ shown' = {}

Counted == changes < MaxChanges /\ changes' = changes + 1

\* show_settings_menu, after a successful save, and WM_SETTINGCHANGE for the theme.
ChangeSetting(s) ==
    /\ Counted
    /\ \E c \in Options \ {settings[s]} : settings' = [settings EXCEPT ![s] = c]
    /\ Invalidate
    /\ UNCHANGED <<device, client, view, revision, place, news, moving, laid, caches>>

\* poll_scan_session and the handlers of the overview: set_scan_statuses.
SetScanStatuses ==
    /\ Counted
    /\ news' = news + 1
    /\ details' = [details EXCEPT !.valid = FALSE]
    /\ Invalidate
    /\ UNCHANGED <<device, client, settings, view, revision, place, moving, laid,
                   overview, analyzer, labels>>

\* rebuild_layout: the chart is another.
Relaid(resources) == {[r EXCEPT !.valid = FALSE] : r \in resources}

\* A transition from what is drawn to the next chart, as it was laid out last; none
\* before the analyzer was drawn.
Transitions ==
    IF laid.room = 0
    THEN {}
    ELSE {{[lands |-> revision + 1, to |-> <<laid.room, laid.scale>>, frame |-> changes + 1]}}

\* The collected items change: the chart of the same folder is laid out again, and gets
\* there in a transition when animations are on and something moves.
ReflowChart ==
    /\ Counted
    /\ view = "Analyzer"
    /\ revision' = revision + 1
    /\ moving' \in {{}} \cup Transitions
    /\ analyzer' = Unframed(Relaid(analyzer))
    /\ Invalidate
    /\ UNCHANGED <<device, client, settings, view, place, news, laid, overview, details, labels>>

\* Another folder, with or without a transition, or the end of a scan, which opens the
\* analyzer from either view.
OpenFolder ==
    /\ view' = "Analyzer"
    /\ revision' = revision + 1
    /\ moving' \in {{}} \cup IF view = "Analyzer" THEN Transitions ELSE {}
    /\ analyzer' = Unframed(Relaid(analyzer))

\* Back to the overview.
LeaveAnalyzer ==
    /\ view = "Analyzer"
    /\ view' = "Overview"
    /\ moving' = {}
    /\ analyzer' = Unframed(analyzer)
    /\ UNCHANGED revision

\* set_breadcrumb forgets the widths.
Navigate ==
    /\ Counted
    /\ OpenFolder \/ LeaveAnalyzer
    /\ place' = place + 1
    /\ labels' = [labels EXCEPT !.full = FALSE]
    /\ Invalidate
    /\ UNCHANGED <<device, client, settings, news, laid, overview, details>>

\* The timer of a transition: its next frame, or its end.
AdvanceFrame ==
    /\ Counted
    /\ moving # {}
    /\ moving' \in {{}} \cup {{[m EXCEPT !.frame = changes + 1]} : m \in moving}
    /\ analyzer' = Unframed(analyzer)
    /\ Invalidate
    /\ UNCHANGED <<device, scene, laid, overview, details, labels>>

\* Animations are turned off, the capture is lost, or recycling begins.
CancelMove ==
    /\ moving # {}
    /\ moving' = {}
    /\ analyzer' = Unframed(analyzer)
    /\ Invalidate
    /\ UNCHANGED <<device, scene, laid, overview, details, labels, changes>>

\* WM_SIZE, which cancels a transition unless the window is minimized.  The class of the
\* window asks for a paint whenever its size changes; the handler does when resize went
\* through, also for the size the window had.
ResizeClient(size) ==
    /\ client' = size
    /\ IF size # client THEN Counted ELSE UNCHANGED changes
    /\ moving' \in {{}} \cup IF size = 0 THEN {moving} ELSE {}
    /\ LET left == IF moving' = {} THEN Unframed(analyzer) ELSE analyzer
       IN  \/ /\ ~Resizable(device, size)
              /\ analyzer' = left
              /\ UNCHANGED <<device, overview>>
           \/ /\ Resizable(device, size)
              /\ device' \in Resized(device, size)
              /\ analyzer' = left
              /\ UNCHANGED overview
           \/ /\ Resizable(device, size)
              /\ device' \in Recovered(device, size)
              /\ overview' \in Orphans(overview)
              /\ analyzer' \in Orphans(left)
    /\ IF size # client \/ size = 0 \/ device'.target # 0
       THEN Invalidate
       ELSE UNCHANGED <<asked, shown>>
    /\ UNCHANGED <<settings, view, revision, place, news, laid, details, labels>>

\* Part of the window was covered and is not any more.
Uncovered ==
    /\ Invalidate
    /\ UNCHANGED <<device, scene, moving, laid, caches, changes>>

-----------------------------------------------------------------------------
\* WM_CREATE: without a device there is no window.
PaintInit ==
    /\ client = 1
    /\ device \in {d \in Initialized(client) : Ready(d)}
    /\ settings = [s \in SettingNames |-> 1]
    /\ view = "Overview"
    /\ revision = 0 /\ place = 0 /\ news = 0
    /\ moving = {}
    /\ laid = [room |-> 0, scale |-> 1]
    /\ overview = {} /\ analyzer = {}
    /\ details = [valid |-> FALSE, language |-> 1, of |-> 0]
    /\ labels = [full |-> FALSE, room |-> 0, language |-> 1, of |-> 0, text |-> 1]
    /\ asked = TRUE
    /\ shown = {}
    /\ changes = 0

PaintNext ==
    \/ Paint
    \/ \E s \in SettingNames : ChangeSetting(s)
    \/ SetScanStatuses
    \/ ReflowChart
    \/ Navigate
    \/ AdvanceFrame
    \/ CancelMove
    \/ \E size \in Sizes : ResizeClient(size)
    \/ Uncovered

PaintSpec == PaintInit /\ [][PaintNext]_paintVars

-----------------------------------------------------------------------------
(* Properties                                                              *)

\* begin_draw looks at the context and the target and end_draw presents the chain: a
\* target there is is always one of the buffers that chain shows now, through losses,
\* resizes and creations that stop anywhere.
TargetIsOfChain ==
    device.target # 0 =>
        /\ {"chain", "context"} \subseteq device.parts
        /\ device.target = device.buffers

\* What is to be seen: the settings a view is drawn with, its rows, or its trail.
Wanted ==
    IF view = "Overview"
    THEN [view |-> view, look |-> Look(view, settings), rows |-> <<news, settings.language>>]
    ELSE [view |-> view, look |-> Look(view, settings), trail |-> <<place, client, settings.language>>]

\* The window shows what is to be seen or has a paint to do, unless the last one failed:
\* brushes, formats, rows, the place and room of the trail and the chart are not used
\* past what they were made of, and what changes one of them asks for a paint.  A chart
\* may be in pieces after ensure_geometry failed, but it is never another one.  Exempt
\* are the widths the trail was measured with, which the code does use too long
\* (TrailFollowsText), and the frames of a transition (FrameShownIsCurrent).
PresentedIsCurrent ==
    \A image \in shown :
        /\ \A part \in DOMAIN Wanted : image[part] = Wanted[part]
        /\ client # 0 => image.size = client
        /\ view = "Analyzer" => image.chart \subseteq {<<revision, Geometry>>}

\* What the analyzer shows of a transition is the frame the transition is at, no frame
\* is left when it is over, and the frames lead to the chart of this folder where it
\* lies now.  A frame can outlast its transition only without a target to draw on: when
\* WM_SIZE comes with the size the window has and new buffers cannot be had.
FrameShownIsCurrent ==
    \A image \in shown : view = "Analyzer" =>
        /\ device.target # 0 => image.frame = moving
        /\ \A m \in image.frame : m.lands = revision /\ m.to = Geometry

\* The labels of the trail have the widths of the text size and font they are drawn in.
TrailFollowsText ==
    \A image \in shown : view = "Analyzer" => image.measured = settings.text
=============================================================================
