--------------------------- MODULE GraphicsDevice ---------------------------
(***************************************************************************)
(* The Direct3D, Direct2D and DirectWrite objects of the window            *)
(* (render/graphics_device.cpp).  Creating them takes many calls, and      *)
(* after each of them the rest may be missing; the fields that were set    *)
(* stay set.  A device is a record:                                        *)
(*                                                                         *)
(*   window   window_ is set                                               *)
(*   parts    which of the swap chain, the drawing context and the writer  *)
(*            of texts (DWrite factory) exist                              *)
(*   buffers  the size of the swap chain's buffers, 0 without a chain      *)
(*   target   the size of the buffers the drawing target was made of, 0    *)
(*            without a target                                             *)
(*   begun    how many BeginDraw have had no EndDraw: 2 stands for more    *)
(*                                                                         *)
(* Each operator is one function: the set of the devices it may leave.     *)
(* What Direct3D, DXGI and Direct2D answer is not in the repository: any   *)
(* call may fail.                                                          *)
(***************************************************************************)
EXTENDS Naturals

Parts == {"chain", "context", "writer"}

\* A seeded fault: the target is let go with the next one only.
DiscardedButTarget == [window |-> FALSE, parts |-> {}, buffers |-> 0, target |-> 1, begun |-> 0]

\* discard_device_resources.
Discarded == [window |-> FALSE, parts |-> {}, buffers |-> 0, target |-> 0, begun |-> 0]

Ready(device) == device.parts = Parts /\ device.target # 0

\* create_device_resources: the parts in their order, and how far it came.  The
\* buffers take the size of the window.
DeviceResources(device, client) ==
    {[device EXCEPT !.parts = made, !.buffers = IF made = {} THEN 0 ELSE client] :
        made \in {{}, {"chain"}, {"chain", "context"}, Parts}}

\* create_window_size_resources.
WindowSizeResources(device) ==
    IF device.window /\ {"chain", "context"} \subseteq device.parts
    THEN {[device EXCEPT !.target = made] : made \in {0, device.buffers}}
    ELSE {device}

\* initialize.
Initialized(client) ==
    UNION {IF made.parts = Parts THEN WindowSizeResources(made) ELSE {made} :
               made \in DeviceResources([Discarded EXCEPT !.window = TRUE], client)}

\* recover_device: everything is given up, then made again, once.
Recovered(device, client) == IF device.window THEN Initialized(client) ELSE {Discarded}

\* resize, up to ResizeBuffers: the target must be gone before the buffers change.
Untargeted(device) == [device EXCEPT !.target = 0]

\* resize does nothing for an empty window, and can do nothing without a chain.
Resizable(device, size) == size # 0 /\ {"chain", "context"} \subseteq device.parts

\* resize when ResizeBuffers answers anything but a lost device.
Resized(device, size) ==
    {Untargeted(device)} \cup WindowSizeResources([Untargeted(device) EXCEPT !.buffers = size])

\* begin_draw asks for a context and a target, and for nothing else.
Drawable(device) == "context" \in device.parts /\ device.target # 0
Begun(device) == [device EXCEPT !.begun = IF @ = 0 THEN 1 ELSE 2]

\* EndDraw, whatever it answers, closes what BeginDraw opened.
Ended(device) == [device EXCEPT !.begun = 0]
=============================================================================
