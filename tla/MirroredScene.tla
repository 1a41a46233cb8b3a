--------------------------- MODULE MirroredScene ---------------------------
(***************************************************************************)
(* What Mode B promises a page, without connections, ticks on a wire or    *)
(* buffers: the application's scene advances, and the page shows scenes    *)
(* the application really had, each one later than the one before.         *)
(***************************************************************************)
EXTENDS Naturals

VARIABLES
    scene,   \* how many times the scene changed; 0 before the first render
    shown    \* the scene on the page; 0 for an empty page

Init == scene = 0 /\ shown = 0

Advance == scene' = scene + 1 /\ UNCHANGED shown

Show == shown < scene /\ shown' \in (shown + 1)..scene /\ UNCHANGED scene

Next == Advance \/ Show
vars == <<scene, shown>>
Spec == Init /\ [][Next]_vars
=============================================================================
