----------------------------- MODULE LiveScreen -----------------------------
(***************************************************************************)
(* A page over a WebSocket, from the application's scene to the screen:    *)
(* the outbound path of AppSession (runtime/session.py), the browser's     *)
(* transport (client/transport-ws.js), its decoder (client/wire.js) and    *)
(* the mount that applies what arrives (client/tempestweb.js).             *)
(*                                                                         *)
(* A tree is the number of the tick that built it.  A batch either         *)
(* replaces the root or holds patches that fit the tree of one tick only;  *)
(* it may open or close the application's dialog, which lives in a layer   *)
(* of its own.  Patches that do not fit either raise or, being addressed   *)
(* by index, land somewhere else: the tree is then Torn.                   *)
(*                                                                         *)
(* A scene, and a batch, may hold a number that JSON has no word for:      *)
(* encode_wire then raises and nothing is sent (transports/base.py).       *)
(***************************************************************************)
EXTENDS Integers, Sequences, SequencesExt

CONSTANTS
    MaxTicks,     \* bound: rebuilds of the scene
    MaxClicks,    \* bound: events the user makes
    MaxCuts,      \* bound: connections that fail
    MaxGarbled,   \* bound: frames that cannot be decoded
    MaxSpoilt,    \* bound: scenes that cannot be encoded, after one that can
    MaxOutbox     \* maxOutbox: events buffered while there is no socket

ASSUME BoundsAssumption ==
    /\ {MaxTicks, MaxClicks, MaxCuts, MaxGarbled, MaxSpoilt, MaxOutbox} \subseteq Nat
    /\ MaxOutbox > 0

VARIABLES
    sock,       \* the page's socket: opening, open, waiting (for a timer), closed
    wired,      \* does the network carry frames between the two ends?
    up, down,   \* frames on the socket, to the server and to the page
    outbox,     \* transport-ws.js outbox
    tree, layer,  \* the page: its tree, how many dialogs its layer holds
    asked,      \* mount: resyncPending
    garbling,   \* wire.js: resyncPending
    alive,      \* does the server hold the session?
    pinned,     \* did a failed rebind leave it held with no expiry?
    scene,      \* App.current_tree: its tick, dialogs open (0 or 1), is it finite?
    spawned,    \* batches whose send_patches task has not started
    clicked, handled,  \* events made; events the session dispatched, in order
    gap,        \* history: is something missing that nobody will ask for?
    cuts, garbled, spoilt

page == <<tree, layer, asked, garbling>>
session == <<alive, pinned, scene, spawned, handled>>
faults == <<gap, cuts, garbled, spoilt>>
vars == <<sock, wired, up, down, outbox, page, session, clicked, faults>>

Empty == 0
Torn == -1
Resync == 0        \* as an event; clicks are numbered from 1
Larger(a, b) == IF a >= b THEN a ELSE b

\* scene_to_initial_patches: one root replace, and an insert per open dialog.
Batch(root, from, to, dialogs, finite) ==
    [root |-> root, from |-> from, to |-> to, dialogs |-> dialogs, finite |-> finite]
WholeScene(s) == Batch(TRUE, Empty, s.tick, s.dialogs, s.finite)
Garbled == Batch(FALSE, Torn, Torn, 0, TRUE)   \* a frame that is not JSON

Scene(tick, dialogs, finite) == [tick |-> tick, dialogs |-> dialogs, finite |-> finite]

Init ==
    /\ sock = "opening" /\ wired = TRUE /\ up = <<>> /\ down = <<>> /\ outbox = <<>>
    /\ tree = Empty /\ layer = 0 /\ asked = FALSE /\ garbling = FALSE
    /\ alive = FALSE /\ pinned = FALSE /\ scene = Scene(0, 0, TRUE) /\ spawned = <<>>
    /\ clicked = 0 /\ handled = <<>>
    /\ gap = FALSE /\ cuts = 0 /\ garbled = 0 /\ spoilt = 0

-----------------------------------------------------------------------------
(* The browser's transport.                                                *)

\* What send does with one event: the socket if it is open, else the outbox,
\* which drops its oldest.
Buffered(event) ==
    Append(IF Len(outbox) >= MaxOutbox THEN Tail(outbox) ELSE outbox, event)

SendEvent(event) ==
    IF sock = "open"
    THEN /\ up' = IF wired THEN Append(up, event) ELSE up
         /\ UNCHANGED outbox
    ELSE outbox' = Buffered(event) /\ UNCHANGED up

Click ==
    /\ sock /= "closed" /\ clicked < MaxClicks
    /\ clicked' = clicked + 1
    /\ SendEvent(clicked')
    /\ UNCHANGED <<sock, wired, down, page, session, faults>>

\* connect: a fresh socket; nothing of the old one is heard again (detach).
Reconnect ==
    /\ sock = "waiting"
    /\ sock' = "opening" /\ wired' = TRUE /\ up' = <<>> /\ down' = <<>>
    /\ UNCHANGED <<outbox, page, session, clicked, faults>>

\* A new value that cannot be encoded: one more, unless the scene held one.
Spoils(finite, before) ==
    IF finite \/ ~before
    THEN UNCHANGED spoilt
    ELSE spoilt < MaxSpoilt /\ spoilt' = spoilt + 1

\* rebind of a session that is still held, whose old sends go nowhere, or the
\* start of a fresh one.
Bind ==
    /\ alive' = TRUE /\ spawned' = <<>>
    /\ IF alive
       THEN UNCHANGED <<scene, spoilt>>
       ELSE \E finite \in BOOLEAN :
              /\ scene' = Scene(scene.tick + 1, 0, finite)
              /\ Spoils(finite, TRUE)

\* Either way the page is sent the whole scene.  One that cannot be encoded makes
\* start or rebind raise: the endpoint ends and the socket with it, and a session
\* that was claimed keeps no expiry.
Served ==
    /\ scene'.finite
    /\ down' = <<WholeScene(scene')>>
    /\ gap' = FALSE /\ pinned' = FALSE
    /\ UNCHANGED <<wired, cuts>>

Failed ==
    /\ ~scene'.finite
    /\ down' = <<>> /\ wired' = FALSE /\ cuts' = Larger(cuts, 1)
    /\ gap' = TRUE /\ pinned' = alive

\* onOpen: the page flushes its outbox, oldest first.
FlushedLastFirst == Reverse(outbox)
Flushed == outbox
Opened ==
    /\ sock = "opening" /\ wired
    /\ sock' = "open"
    /\ outbox' = <<>>
    /\ Bind
    /\ \/ Served /\ up' = Flushed
       \/ Failed /\ up' = <<>>
    /\ UNCHANGED <<page, handled, clicked, garbled>>

\* The network fails; what is on its way to the server is lost, what the page
\* has received it will still handle.
Cut ==
    /\ sock \in {"opening", "open"} /\ wired /\ cuts < MaxCuts
    /\ cuts' = cuts + 1
    /\ wired' = FALSE /\ up' = <<>>
    /\ UNCHANGED <<sock, down, outbox, page, session, clicked, gap, garbled, spoilt>>

\* onClose, then scheduleReconnect.
SeesClose ==
    /\ sock \in {"opening", "open"} /\ ~wired
    /\ sock' = "waiting" /\ down' = <<>>
    /\ UNCHANGED <<wired, up, outbox, page, session, clicked, faults>>

\* close(): the timer is cancelled, an open or opening socket is closed.
Close ==
    /\ sock /= "closed"
    /\ sock' = "closed" /\ wired' = FALSE /\ up' = <<>> /\ down' = <<>>
    /\ UNCHANGED <<outbox, page, session, clicked, faults>>

-----------------------------------------------------------------------------
(* The session.                                                            *)

Connected == sock = "open" /\ wired

\* _send, under the send lock: nobody is there; encode_wire raises, which ends the
\* task that sends a batch and which the loop that dispatches a resync logs; or
\* the frame is on its way, where one in a while becomes unreadable.
Nowhere == ~Connected /\ UNCHANGED <<down, gap, garbled>>
Unencodable(frame) == Connected /\ ~frame.finite /\ gap' = TRUE /\ UNCHANGED <<down, garbled>>
Sent(frame) ==
    /\ Connected /\ frame.finite
    /\ down' = Append(down, frame)
    /\ UNCHANGED garbled
Spoiled(frame) ==
    /\ Connected /\ frame.finite
    /\ garbled < MaxGarbled
    /\ garbled' = garbled + 1
    /\ down' = Append(down, Garbled)

\* _apply_patches: a handler or a background task changed the state, the tick
\* is rebuilt and the sending of its batch is spawned on the current transport.
\* What cannot be encoded is in the patches if it is new or the root is replaced.
Tick(dialogs, root, finite, patches) ==
    /\ alive /\ scene.tick < MaxTicks
    /\ finite => patches
    /\ ~finite /\ (root \/ scene.finite) => ~patches
    /\ Spoils(finite, scene.finite)
    /\ scene' = Scene(scene.tick + 1, dialogs, finite)
    /\ spawned' = Append(spawned,
           Batch(root, scene.tick, scene'.tick, dialogs - scene.dialogs, patches))
    /\ UNCHANGED <<sock, wired, up, down, outbox, page, alive, pinned, handled, clicked,
                   gap, cuts, garbled>>

\* The oldest task gets the send lock.  A root replace closes any gap.
SendBatch ==
    /\ spawned /= <<>>
    /\ spawned' = Tail(spawned)
    /\ LET b == Head(spawned) IN
       \/ Nowhere \/ Unencodable(b)
       \/ Sent(b) /\ gap' = (gap /\ ~b.root)
       \/ Spoiled(b) /\ UNCHANGED gap
    /\ UNCHANGED <<sock, wired, up, outbox, page, alive, pinned, scene, handled, clicked,
                   cuts, spoilt>>

DispatchResyncIgnored ==
    /\ up /= <<>> /\ Head(up) = Resync
    /\ up' = Tail(up)
    /\ UNCHANGED <<sock, wired, down, outbox, page, session, clicked, faults>>

\* Is the page within a run of unreadable frames that it has asked about?
HasAsked == garbling /\ \A i \in DOMAIN down : down[i] = Garbled

\* dispatch: the runtime answers a resync itself, with the scene as it stands.
\* The answer closes a gap unless batches of earlier ticks still wait: they will
\* come behind it and fit nothing.
DispatchResync ==
    /\ up /= <<>> /\ Head(up) = Resync
    /\ up' = Tail(up)
    /\ LET w == WholeScene(scene) IN
       \/ Nowhere \/ Unencodable(w)
       \/ Sent(w) /\ gap' = (spawned /= <<>>)
       \/ Spoiled(w) /\ gap' = (gap \/ HasAsked)
    /\ UNCHANGED <<sock, wired, outbox, page, session, clicked, cuts, spoilt>>

Dispatch ==
    /\ up /= <<>> /\ Head(up) /= Resync
    /\ up' = Tail(up)
    /\ handled' = Append(handled, Head(up))
    /\ UNCHANGED <<sock, wired, down, outbox, page, alive, pinned, scene, spawned, clicked, faults>>

\* ws_resume_seconds pass without the page; with resuming off, at once.
Expire ==
    /\ alive /\ ~pinned /\ ~Connected
    /\ alive' = FALSE /\ spawned' = <<>>
    /\ UNCHANGED <<sock, wired, up, down, outbox, page, pinned, scene, handled, clicked, faults>>

-----------------------------------------------------------------------------
(* The page.                                                               *)

ReceiveGarbledSilently ==
    /\ sock = "open" /\ down /= <<>> /\ Head(down) = Garbled
    /\ down' = Tail(down)
    /\ UNCHANGED <<sock, wired, up, outbox, page, session, clicked, faults>>

\* The decoder asks for a resync once per run of frames it cannot read.
ReceiveGarbled ==
    /\ sock = "open" /\ down /= <<>> /\ Head(down) = Garbled
    /\ down' = Tail(down)
    /\ garbling' = TRUE
    /\ IF garbling THEN UNCHANGED <<up, outbox>> ELSE SendEvent(Resync)
    /\ UNCHANGED <<sock, wired, tree, layer, asked, session, clicked, faults>>

\* The overlay patches of a batch, applied after its tree patches even when those
\* failed; the layer is emptied first when the batch is taken for the resync.
LayerAfter(b) == Larger(0, b.dialogs + IF b.root /\ asked THEN 0 ELSE layer)

Received(b) ==
    /\ sock = "open" /\ down /= <<>> /\ b = Head(down) /\ b /= Garbled
    /\ down' = Tail(down)
    /\ garbling' = FALSE
    /\ UNCHANGED <<sock, wired, session, clicked, faults>>

Fits(b) == b.root \/ b.from = tree

Apply(b) ==
    /\ Received(b) /\ Fits(b)
    /\ tree' = b.to
    /\ layer' = LayerAfter(b)
    /\ asked' = (asked /\ ~b.root)
    /\ UNCHANGED <<up, outbox>>

\* Indices that exist, of another tree; on an empty page, an insert's node.
LandElsewhere(b) ==
    /\ Received(b) /\ ~Fits(b)
    /\ tree' = Torn
    /\ layer' = LayerAfter(b)
    /\ UNCHANGED <<up, outbox, asked>>

\* onPatchFailure: ask for one resync until a root replace arrives.
PatchFails(b) ==
    /\ Received(b) /\ ~Fits(b) /\ tree /= Empty
    /\ tree' = Torn
    /\ layer' = LayerAfter(b)
    /\ asked' = TRUE
    /\ IF asked THEN UNCHANGED <<up, outbox>> ELSE SendEvent(Resync)

\* A page that holds nothing yet refuses a batch without a node.
Refuse(b) ==
    /\ Received(b) /\ ~b.root /\ tree = Empty
    /\ UNCHANGED <<tree, layer, asked, up, outbox>>

Receive ==
    \/ ReceiveGarbled
    \/ /\ down /= <<>>
       /\ LET b == Head(down) IN Apply(b) \/ LandElsewhere(b) \/ PatchFails(b) \/ Refuse(b)

-----------------------------------------------------------------------------
Next ==
    \/ Click \/ Reconnect \/ Opened \/ Cut \/ SeesClose \/ Close
    \/ \E dialogs \in 0 .. 1, root, finite, patches \in BOOLEAN : Tick(dialogs, root, finite, patches)
    \/ SendBatch \/ DispatchResync \/ Dispatch \/ Expire \/ Receive

Spec == Init /\ [][Next]_vars

\* What the two event loops run, and a server that can be reached again.
Fairness ==
    /\ WF_vars(Reconnect) /\ WF_vars(Opened) /\ WF_vars(SeesClose)
    /\ WF_vars(SendBatch) /\ WF_vars(DispatchResync) /\ WF_vars(Dispatch)
    /\ WF_vars(Receive)

FairSpec == Spec /\ Fairness

-----------------------------------------------------------------------------
Trees == {Torn} \cup Nat
Frames == [root : BOOLEAN, from : Trees, to : Trees, dialogs : -1 .. 1, finite : BOOLEAN]

\* Types, with the cap of the outbox.
TypeOK ==
    /\ sock \in {"opening", "open", "waiting", "closed"}
    /\ {wired, asked, garbling, alive, pinned, gap} \subseteq BOOLEAN
    /\ {up, outbox} \subseteq Seq(Nat) /\ Len(outbox) <= MaxOutbox
    /\ {down, spawned} \subseteq Seq(Frames)
    /\ tree \in Trees /\ layer \in Nat
    /\ scene \in [tick : Nat, dialogs : 0 .. 1, finite : BOOLEAN]
    /\ clicked \in 0 .. MaxClicks /\ handled \in Seq(Nat)
    /\ cuts \in 0 .. Larger(MaxCuts, 1) /\ garbled \in 0 .. MaxGarbled
    /\ spoilt \in 0 .. MaxSpoilt

\* From tree t, the frames of q bring a page to tree n: behind some root replace,
\* or from the beginning, each fits the tree that the one before it leaves.
Leads(t, q, n) ==
    \E i \in 0 .. Len(q) :
        /\ i > 0 => q[i].root
        /\ \A j \in (i + 1) .. Len(q) :
              q[j].root \/ q[j].from = IF j = 1 THEN t ELSE q[j - 1].to
        /\ n = IF q = <<>> THEN t ELSE q[Len(q)].to

\* Will the page meet an unreadable frame that it has not asked about?
WillAsk == \E i \in DOMAIN down :
    /\ down[i] = Garbled
    /\ ~garbling \/ \E j \in 1 .. i - 1 : down[j] /= Garbled

\* While the connection lives, either what is already on its way brings the page
\* to the application's scene, or a request for the whole scene is on its way, or
\* will be as soon as the page meets a frame it cannot read: however many those
\* are, and whatever landed elsewhere, failed or was refused (tempestweb.js
\* onPatchFailure, wire.js, AppSession.resync).  Not so behind a gap: a batch or an
\* answer that could not be encoded, an answer that came unreadable to a page that
\* had asked, an answer that overtook batches of the ticks before it.
RepairIsComing ==
    Connected /\ ~gap =>
        \/ Leads(tree, down \o spawned, scene.tick)
        \/ Resync \in Range(up)
        \/ WillAsk

\* The events made, wherever they are, stay in the order they were made and none
\* is there twice; before any connection fails, none is missing but those a full
\* outbox dropped (transport-ws.js send, flushOutbox).
Made == handled \o up \o outbox
Ordered(q) == \A i, j \in DOMAIN q :
    i < j /\ q[i] /= Resync /\ q[j] /= Resync => q[i] < q[j]
EventsKept ==
    /\ TypeOK
    /\ Ordered(Made)
    /\ cuts = 0 /\ clicked <= MaxOutbox /\ sock /= "closed" => 1 .. clicked \subseteq Range(Made)

\* A page that is not closed ends up showing the application's last scene, unless
\* it ends behind a gap (the reconnecting transport, the repair, the root replaces).
Converges == <>[](sock = "closed" \/ tree = scene.tick \/ gap)

\* The overlay layer never holds the dialog twice: "a dialog that was open before
\* the repair came back a second time" is what clearOverlays is there to prevent.
OverlayNotStacked == layer <= 1
=============================================================================
