------------------------- MODULE LiveScreen_proofs -------------------------
(***************************************************************************)
(* Safety of a page over a WebSocket, for any number of ticks, events,     *)
(* failing connections and any size of the outbox: what the page has sent, *)
(* and what will bring it to the application's scene.                      *)
(***************************************************************************)
EXTENDS LiveScreen, SequenceTheorems, TLAPS

(* What the two ends and the wire between them know of each other.         *)

\* Events wait in the outbox while there is no socket, and travel while there is
\* one; a connection is only down because it failed or the page was closed.
Wires ==
    /\ sock = "open" => outbox = <<>>
    /\ sock # "open" \/ ~wired => up = <<>>
    /\ sock \in {"waiting", "closed"} => ~wired
    /\ ~wired => cuts > 0 \/ sock = "closed"

\* The events of q were all made before those of r.
InOrder(q, r) == \A i \in DOMAIN q, j \in DOMAIN r :
    q[i] # Resync /\ r[j] # Resync => q[i] < r[j]

Holds(q, n) == \E i \in DOMAIN q : q[i] = n

\* Part by part, the events are in order and were made, and the outbox does not
\* hold more than were made.
EventsInParts ==
    /\ Ordered(handled) /\ Ordered(up) /\ Ordered(outbox)
    /\ InOrder(handled, up) /\ InOrder(handled, outbox)
    /\ \A i \in DOMAIN handled : handled[i] <= clicked
    /\ \A i \in DOMAIN up : up[i] <= clicked
    /\ \A i \in DOMAIN outbox : i <= outbox[i] /\ outbox[i] <= clicked

\* Until a connection fails or the outbox overflows, every event is in a part.
NoneMissing ==
    cuts = 0 /\ clicked <= MaxOutbox /\ sock # "closed" =>
        \A n \in 1 .. clicked : Holds(handled, n) \/ Holds(up, n) \/ Holds(outbox, n)

EventsInv == TypeOK /\ Wires /\ EventsInParts /\ NoneMissing

-----------------------------------------------------------------------------
(* Types.                                                                  *)

Unpacked ==
    /\ sock \in {"opening", "open", "waiting", "closed"}
    /\ wired \in BOOLEAN /\ asked \in BOOLEAN /\ garbling \in BOOLEAN /\ alive \in BOOLEAN
    /\ pinned \in BOOLEAN /\ gap \in BOOLEAN
    /\ up \in Seq(Nat) /\ outbox \in Seq(Nat) /\ Len(outbox) <= MaxOutbox
    /\ down \in Seq(Frames) /\ spawned \in Seq(Frames)
    /\ tree \in Trees /\ layer \in Nat
    /\ scene \in [tick : Nat, dialogs : 0 .. 1, finite : BOOLEAN]
    /\ clicked \in 0 .. MaxClicks /\ handled \in Seq(Nat)
    /\ cuts \in 0 .. Larger(MaxCuts, 1) /\ garbled \in 0 .. MaxGarbled
    /\ spoilt \in 0 .. MaxSpoilt

LEMMA TypesUnpack == TypeOK <=> Unpacked
  BY DEF TypeOK, Unpacked

LEMMA TypesUnpackNext == TypeOK' <=> Unpacked'
  BY DEF TypeOK, Unpacked

\* A frame as the session builds it.
LEMMA BatchTypes ==
    ASSUME NEW root \in BOOLEAN, NEW from \in Nat, NEW to \in Nat, NEW dialogs \in -1 .. 1,
           NEW finite \in BOOLEAN
    PROVE  /\ Batch(root, from, to, dialogs, finite) \in Frames
           /\ Batch(root, from, to, dialogs, finite).root = root
           /\ Batch(root, from, to, dialogs, finite).from = from
           /\ Batch(root, from, to, dialogs, finite).to = to
  BY DEF Batch, Frames, Trees

LEMMA GarbledTypes ==
    Garbled \in Frames /\ Garbled.root = FALSE /\ Garbled.from = Torn /\ Garbled.to = Torn
  BY DEF Garbled, Batch, Frames, Trees

LEMMA FrameTypes ==
    ASSUME NEW b \in Frames
    PROVE  b.root \in BOOLEAN /\ b.from \in Trees /\ b.to \in Trees /\ b.dialogs \in -1 .. 1
  BY DEF Frames

LEMMA WholeTypes ==
    ASSUME NEW s \in [tick : Nat, dialogs : 0 .. 1, finite : BOOLEAN]
    PROVE  /\ s.tick \in Nat /\ s.dialogs \in 0 .. 1 /\ s.finite \in BOOLEAN
           /\ WholeScene(s) \in Frames
           /\ WholeScene(s).root = TRUE /\ WholeScene(s).to = s.tick
<1>1. /\ s.tick \in Nat /\ s.dialogs \in -1 .. 1 /\ s.dialogs \in 0 .. 1 /\ s.finite \in BOOLEAN
  OBVIOUS
<1>2. WholeScene(s) = [root |-> TRUE, from |-> 0, to |-> s.tick, dialogs |-> s.dialogs,
                       finite |-> s.finite]
  BY DEF WholeScene, Batch, Empty
<1>3. 0 \in Trees /\ s.tick \in Trees BY <1>1 DEF Trees
<1>4. WholeScene(s) \in Frames BY <1>1, <1>2, <1>3 DEF Frames
<1> QED BY <1>1, <1>2, <1>4

LEMMA SceneTypes ==
    ASSUME Unpacked
    PROVE  /\ scene.tick \in Nat /\ scene.dialogs \in 0 .. 1 /\ scene.finite \in BOOLEAN
           /\ WholeScene(scene) \in Frames
           /\ WholeScene(scene).root = TRUE /\ WholeScene(scene).to = scene.tick
  BY WholeTypes DEF Unpacked

\* A new scene, and the count of those that cannot be encoded.
LEMMA NewScene ==
    ASSUME BoundsAssumption, Unpacked, NEW tick \in Nat, NEW dialogs \in 0 .. 1,
           NEW finite \in BOOLEAN, NEW before, Spoils(finite, before)
    PROVE  /\ Scene(tick, dialogs, finite) \in [tick : Nat, dialogs : 0 .. 1, finite : BOOLEAN]
           /\ Scene(tick, dialogs, finite).tick = tick
           /\ spoilt' \in 0 .. MaxSpoilt
  BY DEF Scene, Spoils, Unpacked, BoundsAssumption

LEMMA SendTypes ==
    ASSUME BoundsAssumption, Unpacked, NEW e \in Nat, SendEvent(e)
    PROVE  up' \in Seq(Nat) /\ outbox' \in Seq(Nat) /\ Len(outbox') <= MaxOutbox
<1> up \in Seq(Nat) /\ outbox \in Seq(Nat) /\ Len(outbox) <= MaxOutbox BY DEF Unpacked
<1> MaxOutbox \in Nat /\ MaxOutbox > 0 BY DEF BoundsAssumption
<1>1. CASE sock = "open"
  <2>1. outbox' = outbox /\ (up' = up \/ up' = Append(up, e)) BY <1>1 DEF SendEvent
  <2>2. CASE up' = up BY <2>1, <2>2
  <2>3. CASE up' = Append(up, e)
    <3>1. Append(up, e) \in Seq(Nat) BY AppendProperties
    <3> QED BY <2>1, <2>3, <3>1
  <2> QED BY <2>1, <2>2, <2>3
<1>2. CASE sock # "open" /\ Len(outbox) >= MaxOutbox
  <2>1. outbox' = Append(Tail(outbox), e) BY <1>2 DEF SendEvent, Buffered
  <2>2. outbox # <<>> BY <1>2
  <2>3. Tail(outbox) \in Seq(Nat) /\ Len(Tail(outbox)) = Len(outbox) - 1 BY <2>2
  <2> QED BY <1>2, <2>1, <2>3 DEF SendEvent
<1>3. CASE sock # "open" /\ ~(Len(outbox) >= MaxOutbox)
  <2>1. outbox' = Append(outbox, e) /\ up' = up BY <1>3 DEF SendEvent, Buffered
  <2>2. Len(outbox) < MaxOutbox /\ Len(outbox) \in Nat BY <1>3
  <2>3. outbox' \in Seq(Nat) /\ Len(outbox') = Len(outbox) + 1 BY <2>1, AppendProperties
  <2> QED BY <2>1, <2>2, <2>3
<1> QED BY <1>1, <1>2, <1>3

\* What the send of a frame does.
Put(f) == Nowhere \/ Unencodable(f) \/ Sent(f) \/ Spoiled(f)

LEMMA PutTypes ==
    ASSUME BoundsAssumption, Unpacked, NEW f \in Frames, Put(f)
    PROVE  down' \in Seq(Frames) /\ garbled' \in 0 .. MaxGarbled
<1> down \in Seq(Frames) /\ garbled \in 0 .. MaxGarbled BY DEF Unpacked
<1> MaxGarbled \in Nat BY DEF BoundsAssumption
<1>1. CASE Sent(f) BY <1>1 DEF Sent
<1>2. CASE Spoiled(f) BY <1>2, GarbledTypes DEF Spoiled
<1>3. CASE Nowhere \/ Unencodable(f) BY <1>3 DEF Nowhere, Unencodable
<1> QED BY <1>1, <1>2, <1>3 DEF Put

\* A batch from the wire.
LEMMA ReceivedTypes ==
    ASSUME Unpacked, NEW b, Received(b)
    PROVE  /\ b \in Frames /\ down # <<>> /\ b = Head(down) /\ down' = Tail(down)
           /\ down' \in Seq(Frames)
           /\ b.to \in Trees /\ LayerAfter(b) \in Nat
<1> down \in Seq(Frames) /\ layer \in Nat BY DEF Unpacked
<1>1. b \in Frames /\ down # <<>> /\ b = Head(down) /\ down' = Tail(down)
      /\ down' \in Seq(Frames)
  BY DEF Received
<1>2. b.dialogs \in -1 .. 1 /\ b.to \in Trees BY <1>1, FrameTypes
<1>3. LayerAfter(b) \in Nat BY <1>2 DEF LayerAfter, Larger
<1> QED BY <1>1, <1>2, <1>3

USE DEF vars, page, session, faults, Connected

LEMMA BindTypes ==
    ASSUME BoundsAssumption, Unpacked, Bind
    PROVE  /\ scene' \in [tick : Nat, dialogs : 0 .. 1, finite : BOOLEAN]
           /\ spawned' = <<>> /\ alive' = TRUE /\ spoilt' \in 0 .. MaxSpoilt
           /\ scene'.tick \in Nat /\ scene'.tick >= scene.tick
           /\ ~alive => scene'.tick = scene.tick + 1
           /\ WholeScene(scene') \in Frames
           /\ WholeScene(scene').root = TRUE /\ WholeScene(scene').to = scene'.tick
<1>1. scene.tick \in Nat BY SceneTypes
<1>2. /\ scene' \in [tick : Nat, dialogs : 0 .. 1, finite : BOOLEAN]
      /\ spoilt' \in 0 .. MaxSpoilt /\ scene'.tick >= scene.tick
      /\ ~alive => scene'.tick = scene.tick + 1
  <2>1. CASE alive BY <1>1, <2>1 DEF Bind, Unpacked
  <2>2. CASE ~alive
    <3>1. PICK finite \in BOOLEAN : scene' = Scene(scene.tick + 1, 0, finite) /\ Spoils(finite, TRUE)
      BY <2>2 DEF Bind
    <3>2. scene.tick + 1 \in Nat /\ 0 \in 0 .. 1 BY <1>1
    <3>3. /\ Scene(scene.tick + 1, 0, finite) \in [tick : Nat, dialogs : 0 .. 1, finite : BOOLEAN]
          /\ Scene(scene.tick + 1, 0, finite).tick = scene.tick + 1
          /\ spoilt' \in 0 .. MaxSpoilt
      BY <3>1, <3>2, NewScene
    <3> QED BY <1>1, <3>1, <3>3
  <2> QED BY <2>1, <2>2
<1>3. /\ WholeScene(scene') \in Frames /\ scene'.tick \in Nat
      /\ WholeScene(scene').root = TRUE /\ WholeScene(scene').to = scene'.tick
  BY <1>2, WholeTypes
<1>4. spawned' = <<>> /\ alive' = TRUE BY DEF Bind
<1> QED BY <1>2, <1>3, <1>4

\* A session that was served, or one whose scene could not be encoded.
LEMMA OpenedTypes ==
    ASSUME BoundsAssumption, Unpacked, Opened
    PROVE  Unpacked'
<1>1. /\ outbox' = <<>> /\ sock' = "open" /\ Bind
      /\ UNCHANGED <<page, handled, clicked, garbled>>
  BY DEF Opened
<1>2. /\ scene' \in [tick : Nat, dialogs : 0 .. 1, finite : BOOLEAN]
      /\ spawned' \in Seq(Frames) /\ alive' = TRUE /\ spoilt' \in 0 .. MaxSpoilt
      /\ <<WholeScene(scene')>> \in Seq(Frames)
  BY <1>1, BindTypes
<1>3. outbox' \in Seq(Nat) /\ Len(outbox') <= MaxOutbox BY <1>1 DEF BoundsAssumption
<1>4. CASE Served /\ up' = Flushed
  <2>1. /\ down' \in Seq(Frames) /\ up' = outbox /\ gap' = FALSE /\ pinned' = FALSE
        /\ UNCHANGED <<wired, cuts>>
    BY <1>2, <1>4 DEF Served, Flushed
  <2> QED BY <1>1, <1>2, <1>3, <2>1 DEF Unpacked
<1>5. CASE Failed /\ up' = <<>>
  <2>1. /\ down' = <<>> /\ wired' = FALSE /\ cuts' = Larger(cuts, 1)
        /\ gap' = TRUE /\ pinned' = alive
    BY <1>5 DEF Failed
  <2>2. cuts' \in 0 .. Larger(MaxCuts, 1)
    BY <2>1 DEF Larger, Unpacked, BoundsAssumption
  <2>3. down' \in Seq(Frames) /\ up' \in Seq(Nat) BY <1>5, <2>1
  <2> QED BY <1>1, <1>2, <1>3, <1>5, <2>1, <2>2, <2>3 DEF Unpacked
<1> QED BY <1>4, <1>5 DEF Opened

LEMMA ReceiveTypes ==
    ASSUME BoundsAssumption, Unpacked, Receive
    PROVE  Unpacked'
<1>1. CASE ReceiveGarbled
  <2>1. /\ down' = Tail(down) /\ down # <<>> /\ garbling' = TRUE
        /\ UNCHANGED <<sock, wired, tree, layer, asked, session, clicked, faults>>
    BY <1>1 DEF ReceiveGarbled
  <2>2. up' \in Seq(Nat) /\ outbox' \in Seq(Nat) /\ Len(outbox') <= MaxOutbox
    <3>1. CASE UNCHANGED <<up, outbox>> BY <3>1 DEF Unpacked
    <3>2. CASE SendEvent(Resync) BY <3>2, SendTypes DEF Resync
    <3> QED BY <1>1, <3>1, <3>2 DEF ReceiveGarbled
  <2> QED BY <2>1, <2>2 DEF Unpacked
<1>2. ASSUME NEW b, Apply(b) \/ LandElsewhere(b) \/ PatchFails(b) \/ Refuse(b)
      PROVE  Unpacked'
  <2>1. Received(b) BY <1>2 DEF Apply, LandElsewhere, PatchFails, Refuse
  <2>2. /\ down' \in Seq(Frames) /\ garbling' = FALSE
        /\ UNCHANGED <<sock, wired, session, clicked, faults>>
    BY <2>1, ReceivedTypes DEF Received
  <2>3. tree' \in Trees /\ layer' \in Nat /\ asked' \in BOOLEAN
    BY <1>2, <2>1, ReceivedTypes DEF Apply, LandElsewhere, PatchFails, Refuse, Unpacked, Trees
  <2>4. up' \in Seq(Nat) /\ outbox' \in Seq(Nat) /\ Len(outbox') <= MaxOutbox
    <3>1. CASE UNCHANGED <<up, outbox>> BY <3>1 DEF Unpacked
    <3>2. CASE SendEvent(Resync) BY <3>2, SendTypes DEF Resync
    <3> QED BY <1>2, <3>1, <3>2 DEF Apply, LandElsewhere, PatchFails, Refuse
  <2> QED BY <2>2, <2>3, <2>4 DEF Unpacked
<1> QED BY <1>1, <1>2 DEF Receive

LEMMA TypeStep ==
    ASSUME BoundsAssumption, TypeOK, [Next]_vars
    PROVE  TypeOK'
<1> Unpacked BY TypesUnpack
<1> SUFFICES Unpacked' BY TypesUnpackNext
<1> /\ MaxTicks \in Nat /\ MaxClicks \in Nat /\ MaxCuts \in Nat /\ MaxGarbled \in Nat
    /\ MaxSpoilt \in Nat /\ MaxOutbox \in Nat /\ MaxOutbox > 0
  BY DEF BoundsAssumption
<1>1. CASE Click
  <2>1. clicked' \in Nat /\ SendEvent(clicked') BY <1>1 DEF Click, Unpacked
  <2>2. up' \in Seq(Nat) /\ outbox' \in Seq(Nat) /\ Len(outbox') <= MaxOutbox
    BY <2>1, SendTypes
  <2> QED BY <1>1, <2>2 DEF Click, Unpacked
<1>2. CASE Opened BY <1>2, OpenedTypes
<1>3. CASE Reconnect \/ Cut \/ SeesClose \/ Close \/ Expire
  <2> <<>> \in Seq(Nat) /\ <<>> \in Seq(Frames) OBVIOUS
  <2>1. CASE Reconnect BY <2>1 DEF Reconnect, Unpacked
  <2>2. CASE Cut
    <3>1. cuts' \in 0 .. Larger(MaxCuts, 1) BY <2>2 DEF Cut, Unpacked, Larger
    <3>2. up' = <<>> /\ wired' = FALSE
          /\ UNCHANGED <<sock, down, outbox, page, session, clicked, gap, garbled, spoilt>>
      BY <2>2 DEF Cut
    <3> QED BY <3>1, <3>2 DEF Unpacked
  <2>3. CASE SeesClose BY <2>3 DEF SeesClose, Unpacked
  <2>4. CASE Close BY <2>4 DEF Close, Unpacked
  <2>5. CASE Expire BY <2>5 DEF Expire, Unpacked
  <2> QED BY <1>3, <2>1, <2>2, <2>3, <2>4, <2>5
<1>4. ASSUME NEW dialogs \in 0 .. 1, NEW root \in BOOLEAN, NEW finite \in BOOLEAN,
             NEW patches \in BOOLEAN, Tick(dialogs, root, finite, patches)
      PROVE  Unpacked'
  <2>1. scene.tick \in Nat /\ scene.dialogs \in 0 .. 1 /\ scene.tick + 1 \in Nat
        /\ dialogs - scene.dialogs \in -1 .. 1
    BY SceneTypes
  <2>2. /\ scene' \in [tick : Nat, dialogs : 0 .. 1, finite : BOOLEAN]
        /\ scene'.tick = scene.tick + 1 /\ spoilt' \in 0 .. MaxSpoilt
    BY <1>4, <2>1, NewScene DEF Tick
  <2>3. Batch(root, scene.tick, scene'.tick, dialogs - scene.dialogs, patches) \in Frames
    BY <2>1, <2>2, BatchTypes
  <2>4. spawned' \in Seq(Frames) BY <1>4, <2>3 DEF Tick, Unpacked
  <2> QED BY <1>4, <2>2, <2>4 DEF Tick, Unpacked
<1>5. CASE SendBatch
  <2>1. Head(spawned) \in Frames /\ spawned' \in Seq(Frames) /\ Put(Head(spawned))
    BY <1>5 DEF SendBatch, Unpacked, Put
  <2>2. down' \in Seq(Frames) /\ garbled' \in 0 .. MaxGarbled BY <2>1, PutTypes
  <2>3. gap' \in BOOLEAN BY <1>5 DEF SendBatch, Unpacked, Nowhere, Unencodable
  <2> QED BY <1>5, <2>1, <2>2, <2>3 DEF SendBatch, Unpacked
<1>6. CASE DispatchResync
  <2>1. Put(WholeScene(scene)) BY <1>6 DEF DispatchResync, Put
  <2>2. down' \in Seq(Frames) /\ garbled' \in 0 .. MaxGarbled BY <2>1, SceneTypes, PutTypes
  <2>3. up' \in Seq(Nat) BY <1>6 DEF DispatchResync, Unpacked
  <2>4. gap' \in BOOLEAN BY <1>6 DEF DispatchResync, Unpacked, Nowhere, Unencodable
  <2> QED BY <1>6, <2>2, <2>3, <2>4 DEF DispatchResync, Unpacked
<1>7. CASE Dispatch
  <2>1. up' \in Seq(Nat) /\ handled' \in Seq(Nat) BY <1>7 DEF Dispatch, Unpacked
  <2> QED BY <1>7, <2>1 DEF Dispatch, Unpacked
<1>8. CASE Receive BY <1>8, ReceiveTypes
<1>9. CASE UNCHANGED vars BY <1>9 DEF Unpacked
<1> QED BY <1>1, <1>2, <1>3, <1>4, <1>5, <1>6, <1>7, <1>8, <1>9 DEF Next

LEMMA InitTypes == BoundsAssumption /\ Init => TypeOK
<1> SUFFICES ASSUME BoundsAssumption, Init PROVE Unpacked
  BY TypesUnpack
<1> <<>> \in Seq(Nat) /\ <<>> \in Seq(Frames) /\ Len(<<>>) = 0 OBVIOUS
<1>1. scene \in [tick : Nat, dialogs : 0 .. 1, finite : BOOLEAN]
  <2>1. scene = [tick |-> 0, dialogs |-> 0, finite |-> TRUE] BY DEF Init, Scene
  <2> QED BY <2>1
<1>2. /\ clicked \in 0 .. MaxClicks /\ cuts \in 0 .. Larger(MaxCuts, 1)
      /\ garbled \in 0 .. MaxGarbled /\ spoilt \in 0 .. MaxSpoilt
      /\ tree \in Trees /\ layer \in Nat
  BY DEF BoundsAssumption, Init, Trees, Empty, Larger
<1>3. up \in Seq(Nat) /\ outbox \in Seq(Nat) /\ Len(outbox) <= MaxOutbox /\ handled \in Seq(Nat)
  BY DEF BoundsAssumption, Init
<1>4. down \in Seq(Frames) /\ spawned \in Seq(Frames) BY DEF Init
<1>5. /\ sock \in {"opening", "open", "waiting", "closed"}
      /\ wired \in BOOLEAN /\ asked \in BOOLEAN /\ garbling \in BOOLEAN /\ alive \in BOOLEAN
      /\ pinned \in BOOLEAN /\ gap \in BOOLEAN
  BY DEF Init
<1> QED BY <1>1, <1>2, <1>3, <1>4, <1>5 DEF Unpacked

-----------------------------------------------------------------------------
(* Events.                                                                 *)

\* An event behind those that were made before it.
LEMMA AppendOrdered ==
    ASSUME NEW q \in Seq(Nat), NEW e \in Nat, Ordered(q),
           \A i \in DOMAIN q : q[i] # Resync /\ e # Resync => q[i] < e
    PROVE  /\ Ordered(Append(q, e)) /\ Append(q, e) \in Seq(Nat)
           /\ \A n : Holds(Append(q, e), n) <=> Holds(q, n) \/ n = e
<1> DEFINE a == Append(q, e)
<1>1. /\ Len(a) = Len(q) + 1 /\ a \in Seq(Nat) /\ Len(q) \in Nat
      /\ \A i \in 1 .. Len(q) : a[i] = q[i]
      /\ a[Len(q) + 1] = e
  BY AppendProperties
<1>2. DOMAIN a = 1 .. Len(q) + 1 /\ DOMAIN q = 1 .. Len(q) BY <1>1
<1> HIDE DEF a
<1>3. ASSUME NEW i \in 1 .. Len(q) + 1, NEW j \in 1 .. Len(q) + 1, i < j,
             a[i] # Resync, a[j] # Resync
      PROVE  a[i] < a[j]
  <2>1. i \in 1 .. Len(q) BY <1>1, <1>3
  <2>2. CASE j = Len(q) + 1 BY <1>1, <1>2, <1>3, <2>1, <2>2
  <2>3. CASE j \in 1 .. Len(q) BY <1>1, <1>2, <1>3, <2>1, <2>3 DEF Ordered
  <2> QED BY <1>1, <2>2, <2>3
<1>4. ASSUME NEW n PROVE Holds(a, n) <=> Holds(q, n) \/ n = e
  BY <1>1, <1>2 DEF Holds
<1> QED BY <1>1, <1>2, <1>3, <1>4 DEF Ordered, a

\* What is left when the oldest is taken.
LEMMA TailOrdered ==
    ASSUME NEW q \in Seq(Nat), q # <<>>, Ordered(q)
    PROVE  /\ Ordered(Tail(q)) /\ Tail(q) \in Seq(Nat) /\ Head(q) \in Nat
           /\ \A i \in DOMAIN Tail(q) : Tail(q)[i] # Resync /\ Head(q) # Resync => Head(q) < Tail(q)[i]
           /\ \A i \in DOMAIN Tail(q) : i + 1 \in DOMAIN q /\ Tail(q)[i] = q[i + 1]
           /\ 1 \in DOMAIN q /\ Head(q) = q[1]
           /\ \A n : Holds(q, n) <=> n = Head(q) \/ Holds(Tail(q), n)
<1> DEFINE t == Tail(q)
<1>1. /\ t \in Seq(Nat) /\ Len(t) = Len(q) - 1 /\ Len(q) \in Nat /\ Len(q) > 0
      /\ Head(q) = q[1] /\ \A i \in 1 .. Len(t) : t[i] = q[i + 1]
  OBVIOUS
<1>2. DOMAIN t = 1 .. Len(q) - 1 /\ DOMAIN q = 1 .. Len(q) BY <1>1
<1>3. q[1] \in Nat BY <1>1, <1>2
<1> HIDE DEF t
<1>4. \A i \in DOMAIN t : i + 1 \in DOMAIN q /\ t[i] = q[i + 1] BY <1>1, <1>2, SMTT(30)
<1>5. Ordered(t)
  <2> SUFFICES ASSUME NEW i \in DOMAIN t, NEW j \in DOMAIN t, i < j, t[i] # Resync, t[j] # Resync
               PROVE  t[i] < t[j]
    BY DEF Ordered
  <2>1. i + 1 < j + 1 BY <1>2
  <2> QED BY <1>4, <2>1 DEF Ordered
<1>6. \A i \in DOMAIN t : t[i] # Resync /\ Head(q) # Resync => Head(q) < t[i]
  <2> SUFFICES ASSUME NEW i \in DOMAIN t, t[i] # Resync, Head(q) # Resync
               PROVE  Head(q) < t[i]
    OBVIOUS
  <2>1. 1 \in DOMAIN q /\ 1 < i + 1 BY <1>1, <1>2
  <2> QED BY <1>1, <1>4, <2>1 DEF Ordered
<1>7. ASSUME NEW n PROVE Holds(q, n) <=> n = Head(q) \/ Holds(t, n)
  <2>1. \A i \in DOMAIN q : i = 1 \/ i - 1 \in DOMAIN t BY <1>1, <1>2
  <2>2. \A i \in DOMAIN q : i # 1 => t[i - 1] = q[i] BY <1>1, <1>2
  <2>3. 1 \in DOMAIN q BY <1>1, <1>2
  <2>4. Holds(q, n) => n = Head(q) \/ Holds(t, n)
    <3> SUFFICES ASSUME NEW i \in DOMAIN q, q[i] = n PROVE n = Head(q) \/ Holds(t, n)
      BY DEF Holds
    <3> QED BY <1>1, <2>1, <2>2 DEF Holds
  <2>5. n = Head(q) => Holds(q, n) BY <1>1, <2>3 DEF Holds
  <2>6. Holds(t, n) => Holds(q, n) BY <1>4 DEF Holds
  <2> QED BY <2>4, <2>5, <2>6
<1> QED BY <1>1, <1>2, <1>3, <1>4, <1>5, <1>6, <1>7 DEF t

LEMMA Nothing ==
    /\ Ordered(<<>>) /\ \A n : ~Holds(<<>>, n)
    /\ \A q : InOrder(q, <<>>)
  BY DEF Ordered, Holds, InOrder

\* send of an event while there is a socket.
LEMMA SendsUp ==
    ASSUME Unpacked, Wires, sock = "open", NEW e \in Nat, SendEvent(e)
    PROVE  /\ outbox' = outbox /\ outbox = <<>>
           /\ wired => up' = Append(up, e)
           /\ ~wired => up' = up /\ up = <<>> /\ cuts > 0
  BY DEF Unpacked, Wires, SendEvent

\* The oldest of a full outbox is dropped only when more were made than it holds.
LEMMA ClickEvents ==
    ASSUME BoundsAssumption, EventsInv, Click
    PROVE  Wires' /\ EventsInParts' /\ NoneMissing'
<1> Unpacked BY TypesUnpack DEF EventsInv
<1> Wires /\ EventsInParts /\ NoneMissing BY DEF EventsInv
<1> up \in Seq(Nat) /\ outbox \in Seq(Nat) /\ handled \in Seq(Nat) /\ clicked \in Nat
  BY DEF Unpacked
<1> MaxOutbox \in Nat /\ MaxOutbox > 0 BY DEF BoundsAssumption
<1>1. /\ sock # "closed" /\ clicked' = clicked + 1 /\ SendEvent(clicked + 1)
      /\ UNCHANGED <<sock, wired, cuts, handled>>
  BY DEF Click
<1>2. clicked + 1 \in Nat /\ clicked + 1 # Resync BY DEF Resync
<1>3. \A i \in DOMAIN handled : handled[i] <= clicked + 1 /\ handled[i] < clicked + 1
  BY DEF EventsInParts
<1>4. CASE sock = "open"
  <2>1. outbox' = <<>> /\ outbox = <<>> /\ (wired => up' = Append(up, clicked + 1))
        /\ (~wired => up' = up /\ up = <<>> /\ cuts > 0)
    BY <1>1, <1>2, <1>4, SendsUp
  <2>2. Wires' BY <1>1, <1>4, <2>1 DEF Wires
  <2>3. CASE wired
    <3>1. \A i \in DOMAIN up : up[i] < clicked + 1 BY DEF EventsInParts
    <3>0. up' = Append(up, clicked + 1) BY <2>1, <2>3
    <3>2. /\ Ordered(up') /\ up' \in Seq(Nat)
          /\ \A n : Holds(up', n) <=> Holds(up, n) \/ n = clicked + 1
      <4>1. Ordered(up) BY DEF EventsInParts
      <4> QED BY ONLY <1>2, <3>0, <3>1, <4>1, up \in Seq(Nat), AppendOrdered
    <3>3. \A j \in DOMAIN up' : up'[j] <= clicked + 1 /\ (up'[j] = clicked + 1
                                   \/ (j \in DOMAIN up /\ up'[j] = up[j]))
      <4>1. up' = Append(up, clicked + 1) BY <2>1, <2>3
      <4>2. /\ Len(up') = Len(up) + 1 /\ DOMAIN up' = 1 .. Len(up) + 1 /\ DOMAIN up = 1 .. Len(up)
            /\ \A i \in 1 .. Len(up) : up'[i] = up[i]
            /\ up'[Len(up) + 1] = clicked + 1 /\ Len(up) \in Nat
        BY <4>1, AppendProperties
      <4>3. \A j \in DOMAIN up : up[j] <= clicked BY DEF EventsInParts
      <4> SUFFICES ASSUME NEW j \in DOMAIN up'
                   PROVE  up'[j] <= clicked + 1 /\ (up'[j] = clicked + 1
                                   \/ (j \in DOMAIN up /\ up'[j] = up[j]))
        OBVIOUS
      <4>4. CASE j \in 1 .. Len(up)
        <5>1. up'[j] = up[j] /\ up[j] <= clicked /\ up[j] \in Nat BY <4>2, <4>3, <4>4
        <5> QED BY <4>2, <4>4, <5>1
      <4>5. CASE j = Len(up) + 1 BY <4>2, <4>5
      <4> QED BY <4>2, <4>4, <4>5, SMTT(30)
    <3>4. InOrder(handled', up')
      BY <1>1, <1>3, <3>3 DEF InOrder, EventsInParts
    <3>5. EventsInParts'
      BY <1>1, <1>3, <2>1, <3>2, <3>3, <3>4, Nothing, SMTT(30) DEF EventsInParts
    <3>6. NoneMissing'
      BY <1>1, <2>1, <3>2, Nothing DEF NoneMissing
    <3> QED BY <2>2, <3>5, <3>6
  <2>4. CASE ~wired
    <3>1. EventsInParts'
      BY <1>1, <1>3, <2>1, <2>4, Nothing DEF EventsInParts
    <3>2. NoneMissing' BY <1>1, <2>1, <2>4 DEF NoneMissing, Unpacked
    <3> QED BY <2>2, <3>1, <3>2
  <2> QED BY <2>3, <2>4 DEF Unpacked
<1>5. CASE sock # "open"
  <2>1. up = <<>> /\ up' = <<>> BY <1>1, <1>5 DEF Wires, SendEvent
  <2> DEFINE kept == IF Len(outbox) >= MaxOutbox THEN Tail(outbox) ELSE outbox
  <2>2. outbox' = Append(kept, clicked + 1) BY <1>1, <1>5 DEF SendEvent, Buffered
  <2>3. Wires' BY <1>1, <1>5, <2>1 DEF Wires
  <2>4. /\ kept \in Seq(Nat) /\ Ordered(kept)
        /\ \A i \in DOMAIN kept : i <= kept[i] /\ kept[i] <= clicked
        /\ \A i \in DOMAIN kept : \E j \in DOMAIN outbox : kept[i] = outbox[j]
    <3>1. CASE Len(outbox) >= MaxOutbox
      <4>1. outbox # <<>> /\ kept = Tail(outbox) BY <3>1
      <4>2. \A i \in DOMAIN kept : i + 1 \in DOMAIN outbox /\ kept[i] = outbox[i + 1]
        BY <4>1, TailOrdered DEF EventsInParts
      <4>3. kept \in Seq(Nat) /\ Ordered(kept) BY <4>1, TailOrdered DEF EventsInParts
      <4>4. \A i \in DOMAIN kept : i \in Nat BY <4>3
      <4>5. \A j \in DOMAIN outbox : j <= outbox[j] /\ outbox[j] <= clicked /\ outbox[j] \in Nat
        BY DEF EventsInParts
      <4>6. ASSUME NEW i \in DOMAIN kept
            PROVE  i <= kept[i] /\ kept[i] <= clicked /\ \E j \in DOMAIN outbox : kept[i] = outbox[j]
        <5>1. i + 1 \in DOMAIN outbox /\ kept[i] = outbox[i + 1] /\ i \in Nat BY <4>2, <4>4
        <5>2. i + 1 <= outbox[i + 1] /\ outbox[i + 1] <= clicked /\ outbox[i + 1] \in Nat BY <4>5, <5>1
        <5> QED BY <5>1, <5>2, SMTT(30)
      <4> QED BY <4>3, <4>6
    <3>2. CASE ~(Len(outbox) >= MaxOutbox)
      BY <3>2 DEF EventsInParts
    <3> QED BY <3>1, <3>2
  <2> HIDE DEF kept
  <2>5. Len(kept) \in Nat /\ DOMAIN kept = 1 .. Len(kept) BY <2>4, LenProperties
  <2>6. Len(kept) <= clicked
    <3>1. CASE Len(kept) = 0 BY <3>1
    <3>2. CASE Len(kept) # 0
      <4>1. Len(kept) \in DOMAIN kept BY <2>5, <3>2
      <4>2. Len(kept) <= kept[Len(kept)] /\ kept[Len(kept)] <= clicked BY <2>4, <4>1
      <4>3. kept[Len(kept)] \in Nat BY <2>4, <2>5, <4>1, ElementOfSeq
      <4> QED BY <2>5, <4>2, <4>3
    <3> QED BY <3>1, <3>2
  <2>7. /\ Len(outbox') = Len(kept) + 1
        /\ \A i \in 1 .. Len(kept) : outbox'[i] = kept[i]
        /\ outbox'[Len(kept) + 1] = clicked + 1
        /\ DOMAIN outbox' = 1 .. Len(kept) + 1 /\ DOMAIN kept = 1 .. Len(kept)
    BY <2>2, <2>4, AppendProperties
  <2>8. \A i \in DOMAIN kept : kept[i] < clicked + 1 BY <2>4, SMTT(30)
  <2>9. Ordered(outbox') /\ \A n : Holds(outbox', n) <=> Holds(kept, n) \/ n = clicked + 1
    BY <1>2, <2>2, <2>4, <2>8, AppendOrdered
  <2>10. \A j \in DOMAIN outbox' : j <= outbox'[j] /\ outbox'[j] <= clicked + 1
           /\ (outbox'[j] = clicked + 1 \/ (j \in DOMAIN kept /\ outbox'[j] = kept[j]))
    <3> SUFFICES ASSUME NEW j \in DOMAIN outbox'
                 PROVE  /\ j <= outbox'[j] /\ outbox'[j] <= clicked + 1
                        /\ outbox'[j] = clicked + 1 \/ (j \in DOMAIN kept /\ outbox'[j] = kept[j])
      OBVIOUS
    <3>1. CASE j = Len(kept) + 1 BY <2>5, <2>6, <2>7, <3>1
    <3>2. CASE j \in 1 .. Len(kept)
      <4>1. outbox'[j] = kept[j] /\ j \in DOMAIN kept BY <2>7, <3>2
      <4>2. kept[j] \in Nat BY <2>4, <3>2, ElementOfSeq
      <4>3. j <= kept[j] /\ kept[j] <= clicked BY <2>4, <4>1
      <4> QED BY <4>1, <4>2, <4>3
    <3> QED BY <2>5, <2>7, <3>1, <3>2
  <2>11. InOrder(handled', outbox')
    <3> SUFFICES ASSUME NEW i \in DOMAIN handled, NEW j \in DOMAIN outbox',
                        handled[i] # Resync, outbox'[j] # Resync
                 PROVE  handled[i] < outbox'[j]
      BY <1>1 DEF InOrder
    <3>1. CASE outbox'[j] = clicked + 1 BY <1>3, <3>1
    <3>2. CASE j \in DOMAIN kept /\ outbox'[j] = kept[j]
      BY <2>4, <3>2 DEF InOrder, EventsInParts
    <3> QED BY <2>10, <3>1, <3>2
  <2>12. EventsInParts'
    <3>1. Ordered(handled)' /\ \A i \in DOMAIN handled' : handled'[i] <= clicked'
      BY <1>1, <1>3 DEF EventsInParts
    <3>2. Ordered(up)' /\ InOrder(handled, up)' /\ \A i \in DOMAIN up' : up'[i] <= clicked'
      BY <2>1, Nothing
    <3>3. Ordered(outbox)' /\ \A i \in DOMAIN outbox' : i <= outbox'[i] /\ outbox'[i] <= clicked'
      BY <1>1, <2>9, <2>10
    <3> QED BY <2>11, <3>1, <3>2, <3>3 DEF EventsInParts
  <2>13. NoneMissing'
    <3> SUFFICES ASSUME cuts = 0, clicked + 1 <= MaxOutbox, NEW n \in 1 .. clicked + 1
                 PROVE  Holds(handled, n) \/ Holds(outbox', n)
      BY <1>1 DEF NoneMissing
    <3>1. Len(outbox) <= clicked
      <4>1. Len(outbox) \in Nat /\ (Len(outbox) = 0 \/ Len(outbox) \in DOMAIN outbox) OBVIOUS
      <4> QED BY <4>1 DEF EventsInParts
    <3>2. kept = outbox BY <3>1 DEF kept
    <3>3. CASE n = clicked + 1 BY <2>9, <3>3
    <3>4. CASE n \in 1 .. clicked
      BY <1>1, <2>1, <2>9, <3>2, <3>4, Nothing DEF NoneMissing
    <3> QED BY <3>3, <3>4
  <2> QED BY <2>3, <2>12, <2>13
<1> QED BY <1>4, <1>5

\* onOpen hands the outbox over as it is; a session that fails takes it along.
LEMMA OpenedEvents ==
    ASSUME EventsInv, Opened
    PROVE  Wires' /\ EventsInParts' /\ NoneMissing'
<1>1. /\ sock = "opening" /\ wired /\ sock' = "open" /\ outbox' = <<>>
      /\ UNCHANGED <<handled, clicked>>
  BY DEF Opened
<1>2. up = <<>> BY <1>1 DEF EventsInv, Wires
<1>3. CASE Served /\ up' = Flushed
  <2>1. up' = outbox /\ UNCHANGED <<wired, cuts>> BY <1>3 DEF Served, Flushed
  <2>2. Wires' BY <1>1, <2>1 DEF Wires
  <2>3. EventsInParts' BY <1>1, <2>1, Nothing DEF EventsInv, EventsInParts
  <2>4. NoneMissing' BY <1>1, <1>2, <2>1, Nothing DEF EventsInv, NoneMissing
  <2> QED BY <2>2, <2>3, <2>4
<1>4. CASE Failed /\ up' = <<>>
  <2>1. cuts \in Nat BY TypesUnpack DEF EventsInv, Unpacked
  <2>2. ~wired' /\ cuts' > 0 BY <1>4, <2>1 DEF Failed, Larger
  <2>3. Wires' BY <1>1, <1>4, <2>2 DEF Wires
  <2>4. EventsInParts' BY <1>1, <1>4, Nothing DEF EventsInv, EventsInParts
  <2>5. NoneMissing' BY <1>1, <2>2 DEF NoneMissing
  <2> QED BY <2>3, <2>4, <2>5
<1> QED BY <1>3, <1>4 DEF Opened

\* What is on its way up is lost with the connection.
LEMMA LostEvents ==
    ASSUME EventsInv, Reconnect \/ Cut \/ SeesClose \/ Close
    PROVE  Wires' /\ EventsInParts' /\ NoneMissing'
<1> Unpacked BY TypesUnpack DEF EventsInv
<1> cuts \in Nat BY DEF Unpacked
<1>1. up' = <<>> /\ UNCHANGED <<handled, outbox, clicked>>
  BY DEF Reconnect, Cut, SeesClose, Close, EventsInv, Wires
<1>2. cuts' > 0 \/ sock' = "closed"
  BY DEF Reconnect, Cut, SeesClose, Close, EventsInv, Wires
<1>3. /\ sock' \in {"opening", "waiting", "closed"} \/ (sock' = sock /\ ~wired')
      /\ sock' \in {"waiting", "closed"} => ~wired'
  BY DEF Reconnect, Cut, SeesClose, Close, EventsInv, Wires
<1>4. Wires' BY <1>1, <1>2, <1>3 DEF EventsInv, Wires
<1>5. EventsInParts' BY <1>1, Nothing DEF EventsInv, EventsInParts
<1>6. NoneMissing'
  <2>1. cuts' \in Nat BY DEF Reconnect, Cut, SeesClose, Close
  <2> QED BY <1>2, <2>1 DEF NoneMissing
<1> QED BY <1>4, <1>5, <1>6

\* The runtime answers a resync itself and hands every other event to a handler.
LEMMA DispatchEvents ==
    ASSUME EventsInv, DispatchResync \/ Dispatch
    PROVE  Wires' /\ EventsInParts' /\ NoneMissing'
<1> Unpacked BY TypesUnpack DEF EventsInv
<1> up \in Seq(Nat) /\ handled \in Seq(Nat) /\ clicked \in Nat BY DEF Unpacked
<1> Wires /\ EventsInParts /\ NoneMissing BY DEF EventsInv
<1>1. up # <<>> /\ up' = Tail(up) /\ UNCHANGED <<sock, wired, outbox, clicked, cuts>>
  BY DEF DispatchResync, Dispatch
<1>2. outbox = <<>> /\ sock = "open" /\ wired BY <1>1 DEF Wires, Unpacked
<1>3. Wires' BY <1>1, <1>2 DEF Wires
<1> DEFINE e == Head(up)
<1>4. /\ Ordered(up') /\ up' \in Seq(Nat) /\ e \in Nat
      /\ \A i \in DOMAIN up' : up'[i] # Resync /\ e # Resync => e < up'[i]
      /\ \A i \in DOMAIN up' : i + 1 \in DOMAIN up /\ up'[i] = up[i + 1]
      /\ 1 \in DOMAIN up /\ e = up[1]
      /\ \A n : Holds(up, n) <=> n = e \/ Holds(up', n)
  BY <1>1, TailOrdered DEF EventsInParts
<1> HIDE DEF e
<1>5. \A i \in DOMAIN up' : up'[i] <= clicked BY <1>4 DEF EventsInParts
<1>6. CASE DispatchResync
  <2>1. handled' = handled /\ e = Resync BY <1>6 DEF DispatchResync, e
  <2>2. InOrder(handled', up') BY <1>4, <2>1 DEF InOrder, EventsInParts
  <2>3. EventsInParts' BY <1>1, <1>2, <1>4, <1>5, <2>1, <2>2, Nothing DEF EventsInParts
  <2>4. NoneMissing'
    <3>1. \A n \in 1 .. clicked : n # Resync BY DEF Resync
    <3> QED BY <1>1, <1>4, <2>1, <3>1 DEF NoneMissing
  <2> QED BY <1>3, <2>3, <2>4
<1>7. CASE Dispatch
  <2>1. handled' = Append(handled, e) BY <1>7 DEF Dispatch, e
  <2>2. \A i \in DOMAIN handled : handled[i] # Resync /\ e # Resync => handled[i] < e
    BY <1>4 DEF EventsInParts, InOrder
  <2>3. /\ Ordered(handled')
        /\ \A n : Holds(handled', n) <=> Holds(handled, n) \/ n = e
    BY <1>4, <2>1, <2>2, AppendOrdered DEF EventsInParts
  <2>4. \A i \in DOMAIN handled' : handled'[i] = e \/ (i \in DOMAIN handled /\ handled'[i] = handled[i])
    <3>1. /\ DOMAIN handled' = 1 .. Len(handled) + 1 /\ DOMAIN handled = 1 .. Len(handled)
          /\ \A i \in 1 .. Len(handled) : handled'[i] = handled[i]
          /\ handled'[Len(handled) + 1] = e /\ Len(handled) \in Nat
      BY <1>4, <2>1, AppendProperties
    <3> QED BY <3>1
  <2>5. InOrder(handled', up')
    BY <1>4, <2>4 DEF InOrder, EventsInParts
  <2>6. \A i \in DOMAIN handled' : handled'[i] <= clicked
    BY <1>4, <2>4 DEF EventsInParts
  <2>7. EventsInParts' BY <1>1, <1>2, <1>4, <1>5, <2>3, <2>5, <2>6, Nothing DEF EventsInParts
  <2>8. NoneMissing' BY <1>1, <1>4, <2>3 DEF NoneMissing
  <2> QED BY <1>3, <2>7, <2>8
<1> QED BY <1>6, <1>7

\* Steps that touch no event.
LEMMA QuietEvents ==
    ASSUME EventsInv, UNCHANGED <<sock, wired, up, outbox, handled, clicked, cuts>>
    PROVE  Wires' /\ EventsInParts' /\ NoneMissing'
  BY DEF EventsInv, Wires, EventsInParts, NoneMissing

\* A resync the page asks for has no place among the events.
LEMMA AskEvents ==
    ASSUME EventsInv, sock = "open", SendEvent(Resync),
           UNCHANGED <<sock, wired, handled, clicked, cuts>>
    PROVE  Wires' /\ EventsInParts' /\ NoneMissing'
<1> Unpacked BY TypesUnpack DEF EventsInv
<1> up \in Seq(Nat) /\ Resync \in Nat /\ clicked \in Nat BY DEF Unpacked, Resync
<1> Wires /\ EventsInParts /\ NoneMissing BY DEF EventsInv
<1>1. /\ outbox' = <<>> /\ outbox = <<>>
      /\ wired => up' = Append(up, Resync)
      /\ ~wired => up' = up
  BY SendsUp
<1>2. CASE ~wired BY <1>1, <1>2, QuietEvents
<1>3. CASE wired
  <2>0. up' = Append(up, Resync) BY <1>1, <1>3
  <2>1. Ordered(up') /\ \A n : Holds(up', n) <=> Holds(up, n) \/ n = Resync
    <3>1. Ordered(up) BY DEF EventsInParts
    <3> QED BY ONLY <2>0, <3>1, up \in Seq(Nat), Resync \in Nat, AppendOrdered
  <2>2. \A i \in DOMAIN up' : up'[i] = Resync \/ (i \in DOMAIN up /\ up'[i] = up[i])
    <3>1. /\ DOMAIN up' = 1 .. Len(up) + 1 /\ DOMAIN up = 1 .. Len(up)
          /\ \A i \in 1 .. Len(up) : up'[i] = up[i]
          /\ up'[Len(up) + 1] = Resync /\ Len(up) \in Nat
      BY <1>1, <1>3, AppendProperties
    <3> QED BY <3>1
  <2>3. \A i \in DOMAIN up' : up'[i] <= clicked
    BY <2>2 DEF EventsInParts, Resync
  <2>4. InOrder(handled', up') BY <2>2 DEF InOrder, EventsInParts
  <2>5. EventsInParts' BY <1>1, <2>1, <2>3, <2>4, Nothing DEF EventsInParts
  <2>6. Wires' BY <1>1, <1>3 DEF Wires
  <2>7. NoneMissing' BY <1>1, <2>1 DEF NoneMissing
  <2> QED BY <2>5, <2>6, <2>7
<1> QED BY <1>2, <1>3 DEF Unpacked

LEMMA EventsStep ==
    ASSUME BoundsAssumption, EventsInv, [Next]_vars
    PROVE  EventsInv'
<1> SUFFICES Wires' /\ EventsInParts' /\ NoneMissing'
  BY TypeStep DEF EventsInv
<1>1. CASE Click BY <1>1, ClickEvents
<1>2. CASE Opened BY <1>2, OpenedEvents
<1>3. CASE Reconnect \/ Cut \/ SeesClose \/ Close BY <1>3, LostEvents
<1>4. CASE DispatchResync \/ Dispatch BY <1>4, DispatchEvents
<1>5. ASSUME NEW dialogs \in 0 .. 1, NEW root \in BOOLEAN, NEW finite \in BOOLEAN,
             NEW patches \in BOOLEAN, Tick(dialogs, root, finite, patches)
      PROVE  Wires' /\ EventsInParts' /\ NoneMissing'
  BY <1>5, QuietEvents DEF Tick
<1>6. CASE SendBatch \/ Expire BY <1>6, QuietEvents DEF SendBatch, Expire
<1>7. CASE Receive
  <2>1. sock = "open" /\ UNCHANGED <<sock, wired, handled, clicked, cuts>>
        /\ (UNCHANGED <<up, outbox>> \/ SendEvent(Resync))
    BY <1>7 DEF Receive, ReceiveGarbled, Apply, LandElsewhere, PatchFails, Refuse, Received
  <2> QED BY <2>1, QuietEvents, AskEvents
<1>8. CASE UNCHANGED vars BY <1>8, QuietEvents
<1> QED BY <1>1, <1>2, <1>3, <1>4, <1>5, <1>6, <1>7, <1>8 DEF Next

\* In parts, and so in all.
LEMMA ConcatOrdered ==
    ASSUME NEW q \in Seq(Nat), NEW r \in Seq(Nat), Ordered(q), Ordered(r), InOrder(q, r)
    PROVE  /\ q \o r \in Seq(Nat) /\ Ordered(q \o r)
           /\ \A n : Holds(q, n) \/ Holds(r, n) => Holds(q \o r, n)
<1> DEFINE c == q \o r
<1>1. /\ c \in Seq(Nat) /\ Len(c) = Len(q) + Len(r) /\ Len(q) \in Nat /\ Len(r) \in Nat
      /\ \A i \in 1 .. Len(q) + Len(r) : c[i] = IF i <= Len(q) THEN q[i] ELSE r[i - Len(q)]
  BY ConcatProperties
<1>2. DOMAIN c = 1 .. Len(q) + Len(r) /\ DOMAIN q = 1 .. Len(q) /\ DOMAIN r = 1 .. Len(r)
  BY <1>1
<1> HIDE DEF c
<1>3. Ordered(c)
  <2> SUFFICES ASSUME NEW i \in DOMAIN c, NEW j \in DOMAIN c, i < j, c[i] # Resync, c[j] # Resync
               PROVE  c[i] < c[j]
    BY DEF Ordered
  <2>1. CASE j <= Len(q)
    <3>1. i \in DOMAIN q /\ j \in DOMAIN q /\ c[i] = q[i] /\ c[j] = q[j] BY <1>1, <1>2, <2>1
    <3> QED BY <3>1 DEF Ordered
  <2>2. CASE i > Len(q)
    <3>0. i \in 1 .. Len(q) + Len(r) /\ j \in 1 .. Len(q) + Len(r) /\ ~(i <= Len(q)) /\ ~(j <= Len(q))
      BY <1>1, <1>2, <2>2
    <3>1. /\ i - Len(q) \in DOMAIN r /\ j - Len(q) \in DOMAIN r /\ i - Len(q) < j - Len(q)
      BY <1>1, <1>2, <3>0, SMTT(30)
    <3>2. c[i] = r[i - Len(q)] /\ c[j] = r[j - Len(q)]
      BY <1>1, <3>0
    <3> QED BY <3>1, <3>2 DEF Ordered
  <2>3. CASE i <= Len(q) /\ j > Len(q)
    <3>1. /\ i \in DOMAIN q /\ j - Len(q) \in DOMAIN r
          /\ c[i] = q[i] /\ c[j] = r[j - Len(q)]
      BY <1>1, <1>2, <2>3, SMTT(30)
    <3> QED BY <3>1 DEF InOrder
  <2> QED BY <1>1, <1>2, <2>1, <2>2, <2>3
<1>4. ASSUME NEW n, Holds(q, n) PROVE Holds(c, n)
  <2>1. PICK i \in DOMAIN q : q[i] = n BY <1>4 DEF Holds
  <2>2. i \in 1 .. Len(q) + Len(r) /\ i <= Len(q) BY <1>1, <1>2
  <2>3. c[i] = n BY <1>1, <2>1, <2>2
  <2> QED BY <1>2, <2>2, <2>3 DEF Holds
<1>5. ASSUME NEW n, Holds(r, n) PROVE Holds(c, n)
  <2>1. PICK i \in DOMAIN r : r[i] = n BY <1>5 DEF Holds
  <2>2. Len(q) + i \in DOMAIN c /\ ~(Len(q) + i <= Len(q)) /\ (Len(q) + i) - Len(q) = i
    BY <1>1, <1>2
  <2>3. c[Len(q) + i] = n BY <1>1, <1>2, <2>1, <2>2
  <2> QED BY <2>2, <2>3 DEF Holds
<1> QED BY <1>1, <1>3, <1>4, <1>5 DEF c

LEMMA EventsAreKept == EventsInv => EventsKept
<1> SUFFICES ASSUME EventsInv PROVE EventsKept
  OBVIOUS
<1> Unpacked BY TypesUnpack DEF EventsInv
<1> handled \in Seq(Nat) /\ up \in Seq(Nat) /\ outbox \in Seq(Nat) BY DEF Unpacked
<1> Wires /\ EventsInParts /\ NoneMissing BY DEF EventsInv
<1>1. /\ handled \o up \in Seq(Nat) /\ Ordered(handled \o up)
      /\ \A n : Holds(handled, n) \/ Holds(up, n) => Holds(handled \o up, n)
  BY ConcatOrdered DEF EventsInParts
<1>2. InOrder(handled \o up, outbox)
  <2>1. CASE sock = "open" BY <2>1, Nothing DEF Wires
  <2>2. CASE sock # "open"
    <3>1. up = <<>> BY <2>2 DEF Wires
    <3>2. handled \o <<>> = handled BY ONLY handled \in Seq(Nat), ConcatEmptySeq
    <3>3. handled \o up = handled BY <3>1, <3>2
    <3> QED BY <3>3 DEF EventsInParts
  <2> QED BY <2>1, <2>2
<1>3. /\ Ordered((handled \o up) \o outbox)
      /\ \A n : Holds(handled \o up, n) \/ Holds(outbox, n) => Holds((handled \o up) \o outbox, n)
  BY <1>1, <1>2, ConcatOrdered DEF EventsInParts
<1>4. \A n : Holds((handled \o up) \o outbox, n) => n \in Range(Made)
  BY DEF Holds, Range, Made
<1>5. cuts = 0 /\ clicked <= MaxOutbox /\ sock # "closed" => 1 .. clicked \subseteq Range(Made)
  <2> SUFFICES ASSUME cuts = 0, clicked <= MaxOutbox, sock # "closed", NEW n \in 1 .. clicked
               PROVE  n \in Range(Made)
    OBVIOUS
  <2>1. Holds(handled, n) \/ Holds(up, n) \/ Holds(outbox, n) BY DEF NoneMissing
  <2> QED BY <1>1, <1>3, <1>4, <2>1
<1> QED BY <1>3, <1>5 DEF EventsKept, EventsInv, Made

LEMMA InitEvents == BoundsAssumption /\ Init => EventsInv
<1> SUFFICES ASSUME BoundsAssumption, Init PROVE EventsInv
  OBVIOUS
<1>1. up = <<>> /\ outbox = <<>> /\ handled = <<>> /\ sock = "opening" /\ wired = TRUE /\ clicked = 0
  BY DEF Init
<1>2. Wires BY <1>1 DEF Wires
<1>3. EventsInParts BY <1>1, Nothing DEF EventsInParts
<1>4. NoneMissing BY <1>1 DEF NoneMissing
<1> QED BY <1>2, <1>3, <1>4, InitTypes DEF EventsInv

-----------------------------------------------------------------------------
(* What is on its way to the page.                                         *)

\* Where the last root replace is, if any, and what follows it.
LeadsFrom(t, q, n, i) ==
    /\ i > 0 => q[i].root
    /\ \A j \in (i + 1) .. Len(q) : q[j].root \/ q[j].from = IF j = 1 THEN t ELSE q[j - 1].to
    /\ n = IF q = <<>> THEN t ELSE q[Len(q)].to

\* A root replace at the end leads there, and so does a batch that fits.
LEMMA LeadsAppend ==
    ASSUME NEW t, NEW q \in Seq(Frames), NEW n, NEW b \in Frames,
           b.root \/ (Leads(t, q, n) /\ b.from = n)
    PROVE  Leads(t, Append(q, b), b.to)
<1> DEFINE a == Append(q, b)
<1>1. /\ Len(a) = Len(q) + 1 /\ Len(q) \in Nat /\ a # <<>>
      /\ \A i \in 1 .. Len(q) : a[i] = q[i]
      /\ a[Len(q) + 1] = b
  BY AppendProperties
<1>2. q = <<>> <=> Len(q) = 0 OBVIOUS
<1> HIDE DEF a
<1>3. CASE b.root
  <2>1. LeadsFrom(t, a, b.to, Len(q) + 1) BY <1>1, <1>3 DEF LeadsFrom
  <2> QED BY <1>1, <2>1 DEF Leads, LeadsFrom, a
<1>4. CASE Leads(t, q, n) /\ b.from = n
  <2>1. PICK i \in 0 .. Len(q) : LeadsFrom(t, q, n, i) BY <1>4 DEF Leads, LeadsFrom
  <2>2. i > 0 => a[i].root BY <1>1, <2>1 DEF LeadsFrom
  <2>3. ASSUME NEW j \in (i + 1) .. Len(a)
        PROVE  a[j].root \/ a[j].from = IF j = 1 THEN t ELSE a[j - 1].to
    <3>1. CASE j \in (i + 1) .. Len(q)
      <4>1. a[j] = q[j] /\ (j # 1 => a[j - 1] = q[j - 1]) BY <1>1, <3>1
      <4> QED BY <2>1, <3>1, <4>1 DEF LeadsFrom
    <3>2. CASE j = Len(q) + 1
      <4>1. a[j] = b BY <1>1, <3>2
      <4>2. CASE q = <<>> BY <1>2, <1>4, <2>1, <3>2, <4>1, <4>2 DEF LeadsFrom
      <4>3. CASE q # <<>>
        <5>1. j # 1 /\ a[j - 1] = q[Len(q)] BY <1>1, <1>2, <3>2, <4>3
        <5> QED BY <1>4, <2>1, <4>1, <4>3, <5>1 DEF LeadsFrom
      <4> QED BY <4>2, <4>3
    <3> QED BY <1>1, <3>1, <3>2
  <2>4. LeadsFrom(t, a, b.to, i) BY <1>1, <2>2, <2>3 DEF LeadsFrom
  <2>5. i \in 0 .. Len(a) BY <1>1
  <2> QED BY <2>4, <2>5 DEF Leads, LeadsFrom, a
<1> QED BY <1>3, <1>4

\* Once the first frame is handled the rest still leads there: from its tree if it
\* fitted, and from any tree if it did not.
LEMMA LeadsTail ==
    ASSUME NEW t, NEW q \in Seq(Frames), NEW n, q # <<>>, Leads(t, q, n), NEW u,
           q[1].root \/ q[1].from = t => u = q[1].to
    PROVE  Leads(u, Tail(q), n)
<1> DEFINE r == Tail(q)
<1>1. /\ r \in Seq(Frames) /\ Len(r) = Len(q) - 1 /\ Len(q) \in Nat /\ Len(q) > 0
      /\ \A i \in 1 .. Len(r) : r[i] = q[i + 1]
  OBVIOUS
<1>2. r = <<>> <=> Len(q) = 1 BY <1>1, EmptySeq
<1> HIDE DEF r
<1>3. PICK i \in 0 .. Len(q) : LeadsFrom(t, q, n, i) BY DEF Leads, LeadsFrom
<1>4. CASE i >= 2
  <2>1. r[i - 1].root BY <1>1, <1>3, <1>4 DEF LeadsFrom
  <2>2. ASSUME NEW j \in i .. Len(r)
        PROVE  r[j].root \/ r[j].from = IF j = 1 THEN u ELSE r[j - 1].to
    <3>1. j # 1 /\ r[j] = q[j + 1] /\ r[j - 1] = q[j] /\ j + 1 \in (i + 1) .. Len(q) /\ j + 1 # 1
      BY <1>1, <1>4, <2>2
    <3>2. (j + 1) - 1 = j OBVIOUS
    <3> QED BY <1>3, <3>1, <3>2 DEF LeadsFrom
  <2>3. r # <<>> /\ r[Len(r)] = q[Len(q)] BY <1>1, <1>2, <1>4
  <2>4. LeadsFrom(u, r, n, i - 1)
    <3>1. (i - 1) + 1 = i OBVIOUS
    <3> QED BY <1>3, <2>1, <2>2, <2>3, <3>1 DEF LeadsFrom
  <2>5. i - 1 \in 0 .. Len(r) BY <1>1, <1>4
  <2> QED BY <2>4, <2>5 DEF Leads, LeadsFrom, r
<1>5. CASE i < 2
  <2>1. u = q[1].to
    <3>1. CASE i = 1 BY <1>3, <3>1 DEF LeadsFrom
    <3>2. CASE i = 0
      <4>1. 1 \in (i + 1) .. Len(q) BY <1>1, <3>2
      <4> QED BY <1>3, <4>1 DEF LeadsFrom
    <3> QED BY <1>5, <3>1, <3>2
  <2>2. ASSUME NEW j \in 1 .. Len(r)
        PROVE  r[j].root \/ r[j].from = IF j = 1 THEN u ELSE r[j - 1].to
    <3>1. j + 1 \in (i + 1) .. Len(q) /\ j + 1 # 1 /\ r[j] = q[j + 1] /\ (j + 1) - 1 = j
      BY <1>1, <1>5
    <3>2. q[j + 1].root \/ q[j + 1].from = q[j].to BY <1>3, <3>1 DEF LeadsFrom
    <3>3. j # 1 => r[j - 1] = q[j] BY <1>1
    <3> QED BY <2>1, <3>1, <3>2, <3>3
  <2>3. n = IF r = <<>> THEN u ELSE r[Len(r)].to
    <3>1. n = q[Len(q)].to BY <1>3 DEF LeadsFrom
    <3>2. r # <<>> => r[Len(r)] = q[Len(q)] BY <1>1, <1>2
    <3> QED BY <1>2, <2>1, <3>1, <3>2
  <2>4. LeadsFrom(u, r, n, 0) BY <2>2, <2>3 DEF LeadsFrom
  <2>5. 0 \in 0 .. Len(r) BY <1>1
  <2> QED BY <2>4, <2>5 DEF Leads, LeadsFrom, r
<1> QED BY <1>4, <1>5

\* Each batch of s fits the tree of the one before it.
Chain(s) == \A i \in DOMAIN s, j \in DOMAIN s : j = i + 1 => s[j].from = s[i].to

\* A root replace, and behind it a chain of batches that begins at its tree.
LEMMA LeadsChain ==
    ASSUME NEW t, NEW q \in Seq(Frames), NEW b \in Frames, NEW s \in Seq(Frames), NEW n,
           b.root, Chain(s), s # <<>> => s[1].from = b.to,
           n = IF s = <<>> THEN b.to ELSE s[Len(s)].to
    PROVE  Leads(t, Append(q, b) \o s, n)
<1> DEFINE a == Append(q, b)  k == Len(q) + 1
<1>1. /\ a \in Seq(Frames) /\ Len(a) = k /\ k \in Nat /\ k > 0 /\ a[k] = b
  BY AppendProperties
<1> HIDE DEF a, k
<1> DEFINE c == a \o s
<1>2. /\ Len(c) = k + Len(s) /\ Len(s) \in Nat /\ c # <<>>
      /\ \A i \in 1 .. k + Len(s) : c[i] = IF i <= k THEN a[i] ELSE s[i - k]
      /\ DOMAIN s = 1 .. Len(s) /\ (s = <<>> <=> Len(s) = 0)
  <2>1. /\ Len(c) = k + Len(s)
        /\ \A i \in 1 .. k + Len(s) : c[i] = IF i <= k THEN a[i] ELSE s[i - k]
    BY <1>1, ConcatProperties
  <2>2. Len(s) \in Nat /\ DOMAIN s = 1 .. Len(s) /\ (s = <<>> <=> Len(s) = 0) OBVIOUS
  <2>3. Len(c) # 0 BY <1>1, <2>1, <2>2
  <2> QED BY <2>1, <2>2, <2>3
<1> HIDE DEF c
<1>3. c[k] = b BY <1>1, <1>2
<1>4. ASSUME NEW j \in (k + 1) .. Len(c)
      PROVE  c[j].from = c[j - 1].to
  <2>1. c[j] = s[j - k] /\ j - k \in DOMAIN s BY <1>1, <1>2
  <2>2. CASE j = k + 1 BY <1>1, <1>2, <1>3, <2>1, <2>2
  <2>3. CASE j > k + 1
    <3>1. c[j - 1] = s[j - 1 - k] /\ j - 1 - k \in DOMAIN s BY <1>1, <1>2, <2>3
    <3>2. j - k = (j - 1 - k) + 1 BY <1>1, <1>2
    <3> QED BY <2>1, <3>1, <3>2 DEF Chain
  <2> QED BY <1>1, <1>2, <2>2, <2>3
<1>5. c[Len(c)].to = n
  <2>1. CASE s = <<>> BY <1>1, <1>2, <1>3, <2>1
  <2>2. CASE s # <<>>
    <3>1. c[Len(c)] = s[Len(s)] BY <1>1, <1>2, <2>2
    <3> QED BY <2>2, <3>1
  <2> QED BY <2>1, <2>2
<1>6. k \in 0 .. Len(c) /\ \A j \in (k + 1) .. Len(c) : j # 1 BY <1>1, <1>2
<1>7. LeadsFrom(t, c, n, k) BY <1>2, <1>3, <1>4, <1>5, <1>6 DEF LeadsFrom
<1> QED BY <1>6, <1>7 DEF Leads, LeadsFrom, c, a

\* Sending the oldest batch, spawning one and receiving a frame, on the whole way.
LEMMA Ways ==
    ASSUME NEW q \in Seq(Frames), NEW s \in Seq(Frames)
    PROVE  /\ q \o s \in Seq(Frames) /\ q \o <<>> = q
           /\ \A b \in Frames : q \o Append(s, b) = Append(q \o s, b)
           /\ s # <<>> => Append(q, Head(s)) \o Tail(s) = q \o s
           /\ q # <<>> => /\ Tail(q) \o s = Tail(q \o s) /\ q \o s # <<>>
                          /\ (q \o s)[1] = Head(q)
<1>1. q \o s \in Seq(Frames) /\ q \o <<>> = q BY ConcatProperties, ConcatEmptySeq
<1>2. ASSUME NEW b \in Frames PROVE q \o Append(s, b) = Append(q \o s, b)
  <2>1. <<b>> \in Seq(Frames) OBVIOUS
  <2>2. Append(s, b) = s \o <<b>> BY AppendIsConcat
  <2>3. Append(q \o s, b) = (q \o s) \o <<b>> BY <1>1, AppendIsConcat
  <2> QED BY <2>1, <2>2, <2>3, ConcatAssociative
<1>3. ASSUME s # <<>> PROVE Append(q, Head(s)) \o Tail(s) = q \o s
  <2>1. /\ Head(s) \in Frames /\ Tail(s) \in Seq(Frames) /\ <<Head(s)>> \in Seq(Frames)
        /\ s = <<Head(s)>> \o Tail(s)
    BY <1>3
  <2>2. Append(q, Head(s)) = q \o <<Head(s)>> BY <2>1, AppendIsConcat
  <2>3. (q \o <<Head(s)>>) \o Tail(s) = q \o (<<Head(s)>> \o Tail(s)) BY <2>1, ConcatAssociative
  <2> QED BY <2>1, <2>2, <2>3
<1>4. ASSUME q # <<>>
      PROVE  Tail(q) \o s = Tail(q \o s) /\ q \o s # <<>> /\ (q \o s)[1] = Head(q)
  <2> DEFINE c == q \o s  l == Tail(q) \o s
  <2>1. /\ Len(c) = Len(q) + Len(s) /\ Len(q) \in Nat /\ Len(s) \in Nat /\ Len(q) > 0
        /\ \A i \in 1 .. Len(q) + Len(s) : c[i] = IF i <= Len(q) THEN q[i] ELSE s[i - Len(q)]
    BY <1>4, ConcatProperties
  <2>2. Tail(q) \in Seq(Frames) /\ Len(Tail(q)) = Len(q) - 1
        /\ \A i \in 1 .. Len(q) - 1 : Tail(q)[i] = q[i + 1]
    BY <1>4
  <2>3. /\ l \in Seq(Frames) /\ Len(l) = Len(q) - 1 + Len(s)
        /\ \A i \in 1 .. Len(q) - 1 + Len(s) :
             l[i] = IF i <= Len(q) - 1 THEN Tail(q)[i] ELSE s[i - (Len(q) - 1)]
    BY <2>2, ConcatProperties
  <2>4. c \in Seq(Frames) /\ c # <<>> BY <1>1, <2>1
  <2>5. /\ Tail(c) \in Seq(Frames) /\ Len(Tail(c)) = Len(c) - 1
        /\ \A i \in 1 .. Len(c) - 1 : Tail(c)[i] = c[i + 1]
    BY <2>4
  <2>6. ASSUME NEW i \in 1 .. Len(l) PROVE l[i] = Tail(c)[i]
    <3>1. i \in 1 .. Len(q) - 1 + Len(s) /\ i + 1 \in 1 .. Len(q) + Len(s) BY <2>1, <2>3
    <3>2. Tail(c)[i] = c[i + 1] BY <2>1, <2>5, <3>1
    <3>3. CASE i <= Len(q) - 1
      <4>1. l[i] = q[i + 1] BY <2>1, <2>2, <2>3, <3>1, <3>3
      <4>2. c[i + 1] = q[i + 1] BY <2>1, <3>1, <3>3
      <4> QED BY <3>2, <4>1, <4>2
    <3>4. CASE ~(i <= Len(q) - 1)
      <4>1. l[i] = s[i - (Len(q) - 1)] BY <2>3, <3>1, <3>4
      <4>2. c[i + 1] = s[(i + 1) - Len(q)] BY <2>1, <3>1, <3>4
      <4>3. i - (Len(q) - 1) = (i + 1) - Len(q) BY <2>1, <3>1
      <4> QED BY <3>2, <4>1, <4>2, <4>3
    <3> QED BY <3>3, <3>4
  <2>7. Len(l) = Len(Tail(c)) BY <2>1, <2>3, <2>5
  <2>8. l = Tail(c) BY <2>3, <2>5, <2>6, <2>7, SeqEqual
  <2>9. 1 \in 1 .. Len(q) + Len(s) /\ 1 <= Len(q) BY <2>1
  <2>10. c[1] = q[1] /\ Head(q) = q[1] BY <1>4, <2>1, <2>9
  <2> QED BY <2>4, <2>8, <2>10
<1> QED BY <1>1, <1>2, <1>3, <1>4
-----------------------------------------------------------------------------
(* The repair.                                                             *)

\* Once there is a session there is a scene, and patches are of later ones.
Fitted ==
    /\ alive => scene.tick > 0
    /\ \A i \in DOMAIN spawned : spawned[i].root \/ spawned[i].from > 0
    /\ \A i \in DOMAIN down : down[i].root \/ down[i].from > 0 \/ down[i] = Garbled

\* The batches that wait lead, one by one, to the scene.
Chained ==
    /\ Chain(spawned)
    /\ spawned # <<>> => spawned[Len(spawned)].to = scene.tick

\* Something readable is on its way.
Readable == \E i \in DOMAIN down : down[i] # Garbled

\* Within a run of unreadable frames the page has asked, and the question is still
\* on its way, or the run will end.
Answered == Connected /\ ~gap /\ garbling => Resync \in Range(up) \/ Readable

Repaired == Fitted /\ Chained /\ Answered /\ RepairIsComing
RepairInv == TypeOK /\ Repaired

\* A frame that is not garbled, and carries a root or is of a scene.
Proper(b) == b # Garbled /\ (b.root \/ b.from > 0)

LEMMA ProperFrame ==
    ASSUME NEW b \in Frames, b.root \/ b.from > 0
    PROVE  Proper(b)
<1>1. b.root \in BOOLEAN BY FrameTypes
<1>2. CASE b.root BY <1>2, GarbledTypes DEF Proper
<1>3. CASE b.from > 0 BY <1>3, GarbledTypes DEF Proper, Torn
<1> QED BY <1>2, <1>3

\* Without a connection there is nothing to repair.
LEMMA DownStays ==
    ASSUME RepairInv, ~Connected',
           down' = down \/ down' = <<>>, spawned' = spawned \/ spawned' = <<>>,
           UNCHANGED scene, alive' => alive
    PROVE  Repaired'
<1>1. RepairIsComing' /\ Answered' BY DEF RepairIsComing, Answered
<1>2. Fitted' BY DEF RepairInv, Repaired, Fitted
<1>3. Chained'
  <2>1. CASE spawned' = spawned BY <2>1 DEF RepairInv, Repaired, Chained
  <2>2. CASE spawned' = <<>> BY <2>2 DEF Chained, Chain
  <2> QED BY <2>1, <2>2
<1> QED BY <1>1, <1>2, <1>3 DEF Repaired

\* Steps that change neither the scene nor what is on its way to the page, and
\* take no resync away.
LEMMA UpStays ==
    ASSUME RepairInv, Resync \in Range(up) => Resync \in Range(up'),
           UNCHANGED <<sock, wired, down, spawned, tree, scene, alive, gap, garbling>>
    PROVE  Repaired'
  BY DEF RepairInv, Repaired, Fitted, Chained, Answered, Readable, RepairIsComing, WillAsk

\* What is appended to a sequence is there, and nothing goes.
LEMMA InRange ==
    ASSUME NEW S, NEW q \in Seq(S), NEW e \in S
    PROVE  e \in Range(Append(q, e)) /\ Range(q) \subseteq Range(Append(q, e))
<1> DEFINE a == Append(q, e)
<1>1. /\ DOMAIN a = 1 .. Len(q) + 1 /\ DOMAIN q = 1 .. Len(q) /\ Len(q) \in Nat
      /\ \A i \in 1 .. Len(q) : a[i] = q[i]
      /\ a[Len(q) + 1] = e
  BY AppendProperties
<1> HIDE DEF a
<1>2. e \in Range(a)
  <2>1. Len(q) + 1 \in DOMAIN a BY <1>1
  <2> QED BY <1>1, <2>1 DEF Range
<1>3. Range(q) \subseteq Range(a)
  <2>1. \A i \in DOMAIN q : i \in DOMAIN a /\ a[i] = q[i] BY <1>1
  <2> QED BY <2>1 DEF Range
<1> QED BY <1>2, <1>3 DEF a

LEMMA InTail ==
    ASSUME NEW S, NEW q \in Seq(S), q # <<>>, NEW e \in Range(q), e # Head(q)
    PROVE  e \in Range(Tail(q))
<1>1. /\ DOMAIN Tail(q) = 1 .. Len(q) - 1 /\ DOMAIN q = 1 .. Len(q) /\ Len(q) \in Nat
      /\ Head(q) = q[1] /\ \A i \in 1 .. Len(q) - 1 : Tail(q)[i] = q[i + 1]
  OBVIOUS
<1>2. PICK i \in DOMAIN q : q[i] = e BY DEF Range
<1>3. i - 1 \in DOMAIN Tail(q) /\ (i - 1) + 1 = i BY <1>1, <1>2
<1>4. Tail(q)[i - 1] = e BY <1>1, <1>2, <1>3
<1> QED BY <1>3, <1>4 DEF Range

\* One more frame on its way: what was readable stays so, what the page would ask
\* for it will ask for, and an unreadable frame is asked for unless the page has
\* asked and meets nothing readable before it.
LEMMA OneMore ==
    ASSUME Unpacked, Fitted, NEW f \in Frames, down' = Append(down, f),
           f = Garbled \/ f.root \/ f.from > 0, UNCHANGED garbling
    PROVE  /\ \A i \in DOMAIN down' : down'[i].root \/ down'[i].from > 0 \/ down'[i] = Garbled
           /\ Readable => Readable'
           /\ f # Garbled => Readable'
           /\ WillAsk => WillAsk'
           /\ f = Garbled /\ (~garbling \/ Readable) => WillAsk'
<1>1. /\ DOMAIN down' = 1 .. Len(down) + 1 /\ DOMAIN down = 1 .. Len(down) /\ Len(down) \in Nat
      /\ \A i \in 1 .. Len(down) : down'[i] = down[i]
      /\ down'[Len(down) + 1] = f
  BY AppendProperties DEF Unpacked
<1>2. \A i \in DOMAIN down' : i = Len(down) + 1 \/ (i \in DOMAIN down /\ down'[i] = down[i])
  BY <1>1
<1>3. \A i \in DOMAIN down : i \in DOMAIN down' /\ down'[i] = down[i] BY <1>1
<1>4. Len(down) + 1 \in DOMAIN down' BY <1>1
<1>5. \A i \in DOMAIN down' : down'[i].root \/ down'[i].from > 0 \/ down'[i] = Garbled
  <2> SUFFICES ASSUME NEW i \in DOMAIN down'
               PROVE  down'[i].root \/ down'[i].from > 0 \/ down'[i] = Garbled
    OBVIOUS
  <2>1. CASE i = Len(down) + 1 BY <1>1, <2>1
  <2>2. CASE i \in DOMAIN down /\ down'[i] = down[i] BY <2>2 DEF Fitted
  <2> QED BY <1>2, <2>1, <2>2
<1>6. Readable => Readable' BY <1>3 DEF Readable
<1>7. f # Garbled => Readable' BY <1>1, <1>4 DEF Readable
<1>8. WillAsk => WillAsk'
  <2> SUFFICES ASSUME NEW i \in DOMAIN down, down[i] = Garbled,
                      ~garbling \/ \E j \in 1 .. i - 1 : down[j] # Garbled
               PROVE  WillAsk'
    BY DEF WillAsk
  <2>1. i \in DOMAIN down' /\ down'[i] = Garbled BY <1>3
  <2>2. \A j \in 1 .. i - 1 : j \in DOMAIN down /\ down'[j] = down[j] BY <1>1, <1>3
  <2> QED BY <2>1, <2>2 DEF WillAsk
<1>9. f = Garbled /\ (~garbling \/ Readable) => WillAsk'
  <2> SUFFICES ASSUME f = Garbled, ~garbling \/ Readable PROVE WillAsk'
    OBVIOUS
  <2>1. ASSUME NEW j \in DOMAIN down, down[j] # Garbled
        PROVE  j \in 1 .. (Len(down) + 1) - 1 /\ down'[j] # Garbled
    BY <1>1, <1>3, <2>1
  <2> QED BY <1>1, <1>4, <2>1 DEF Readable, WillAsk
<1> QED BY <1>5, <1>6, <1>7, <1>8, <1>9

\* A session that is served brings the page a scene; one that fails, nothing, and
\* its connection is gone.
LEMMA OpenedRepair ==
    ASSUME BoundsAssumption, RepairInv, Opened
    PROVE  Repaired'
<1> Unpacked BY TypesUnpack DEF RepairInv
<1> DEFINE w == WholeScene(scene')
<1>1. Bind /\ UNCHANGED <<tree, garbled, garbling>> BY DEF Opened
<1>2. /\ w \in Frames /\ w.root = TRUE /\ w.to = scene'.tick /\ spawned' = <<>>
      /\ scene'.tick >= scene.tick /\ (~alive => scene'.tick = scene.tick + 1)
  BY <1>1, BindTypes
<1>3. scene'.tick > 0
  <2>1. scene.tick \in Nat /\ scene'.tick \in Nat BY <1>1, SceneTypes, BindTypes
  <2> QED BY <1>2, <2>1 DEF RepairInv, Repaired, Fitted
<1>4. Chained' BY <1>2 DEF Chained, Chain
<1>5. CASE Failed
  <2>1. down' = <<>> /\ ~wired' BY <1>5 DEF Failed
  <2> QED BY <1>2, <1>3, <1>4, <2>1 DEF Repaired, Fitted, Answered, RepairIsComing
<1>6. CASE Served
  <2>1. down' = <<w>> /\ gap' = FALSE BY <1>6 DEF Served
  <2>2. Proper(w) BY <1>2, ProperFrame
  <2> HIDE DEF w
  <2>3. DOMAIN down' = {1} /\ down'[1] = w BY <2>1
  <2>4. Fitted' BY <1>2, <1>3, <2>3 DEF Fitted
  <2>5. Answered' BY <2>2, <2>3 DEF Answered, Readable, Proper
  <2>6. Leads(tree', down' \o spawned', scene'.tick)
    <3>1. <<>> \in Seq(Frames) /\ Append(<<>>, w) = <<w>> /\ <<w>> \in Seq(Frames) BY <1>2
    <3>2. Leads(tree', <<w>>, w.to) BY <1>2, <3>1, LeadsAppend
    <3>3. down' \o spawned' = <<w>> BY <1>2, <2>1, <3>1, Ways
    <3> QED BY <1>2, <3>2, <3>3
  <2> QED BY <1>4, <2>4, <2>5, <2>6 DEF Repaired, RepairIsComing
<1> QED BY <1>5, <1>6 DEF Opened

LEMMA TickRepair ==
    ASSUME RepairInv, NEW dialogs \in 0 .. 1, NEW root \in BOOLEAN, NEW finite \in BOOLEAN,
           NEW patches \in BOOLEAN, Tick(dialogs, root, finite, patches)
    PROVE  Repaired'
<1> Unpacked BY TypesUnpack DEF RepairInv
<1> Fitted /\ Chained /\ Answered /\ RepairIsComing BY DEF RepairInv, Repaired
<1> down \in Seq(Frames) /\ spawned \in Seq(Frames) BY DEF Unpacked
<1> DEFINE b == Batch(root, scene.tick, scene'.tick, dialogs - scene.dialogs, patches)
<1>1. /\ alive /\ scene' = Scene(scene.tick + 1, dialogs, finite)
      /\ spawned' = Append(spawned, b)
      /\ UNCHANGED <<sock, wired, up, down, tree, alive, gap, garbling>>
  BY DEF Tick
<1>2. scene.tick \in Nat /\ scene.dialogs \in 0 .. 1 /\ scene.tick > 0 /\ scene'.tick = scene.tick + 1
      /\ dialogs - scene.dialogs \in -1 .. 1
  BY <1>1, SceneTypes DEF Fitted, Scene
<1>3. b \in Frames /\ b.from = scene.tick /\ b.to = scene'.tick
  <2>1. scene'.tick \in Nat BY <1>2
  <2>2. b \in Frames BY <1>2, <2>1, BatchTypes
  <2>3. b.from = scene.tick /\ b.to = scene'.tick BY DEF Batch
  <2> QED BY <2>2, <2>3
<1> HIDE DEF b
<1>4. /\ DOMAIN spawned' = 1 .. Len(spawned) + 1 /\ DOMAIN spawned = 1 .. Len(spawned)
      /\ \A i \in 1 .. Len(spawned) : spawned'[i] = spawned[i]
      /\ spawned'[Len(spawned) + 1] = b /\ Len(spawned) \in Nat
      /\ spawned' # <<>> /\ Len(spawned') = Len(spawned) + 1
      /\ (spawned = <<>> <=> Len(spawned) = 0)
  BY <1>1, <1>3, AppendProperties
<1>5. Fitted'
  <2>1. ASSUME NEW i \in DOMAIN spawned' PROVE spawned'[i].root \/ spawned'[i].from > 0
    <3>1. CASE i \in DOMAIN spawned
      <4>1. spawned'[i] = spawned[i] BY <1>4, <3>1
      <4> QED BY <3>1, <4>1 DEF Fitted
    <3>2. CASE i = Len(spawned) + 1 BY <1>2, <1>3, <1>4, <3>2
    <3> QED BY <1>4, <3>1, <3>2
  <2> QED BY <1>1, <1>2, <2>1 DEF Fitted
<1>6. Chained'
  <2>1. ASSUME NEW i \in DOMAIN spawned', NEW j \in DOMAIN spawned', j = i + 1
        PROVE  spawned'[j].from = spawned'[i].to
    <3>1. i \in DOMAIN spawned /\ spawned'[i] = spawned[i] BY <1>4, <2>1
    <3>2. CASE j \in DOMAIN spawned
      <4>1. spawned'[j] = spawned[j] BY <1>4, <3>2
      <4> QED BY <2>1, <3>1, <3>2, <4>1 DEF Chained, Chain
    <3>3. CASE j = Len(spawned) + 1
      <4>1. i = Len(spawned) /\ spawned # <<>> BY <1>4, <2>1, <3>1, <3>3
      <4> QED BY <1>3, <1>4, <3>1, <3>3, <4>1 DEF Chained
    <3> QED BY <1>4, <3>2, <3>3
  <2> QED BY <1>3, <1>4, <2>1 DEF Chained, Chain
<1>7. Answered' BY <1>1 DEF Answered, Readable
<1>8. Leads(tree, down \o spawned, scene.tick) => Leads(tree', down' \o spawned', scene'.tick)
  <2> SUFFICES ASSUME Leads(tree, down \o spawned, scene.tick)
               PROVE  Leads(tree', down' \o spawned', scene'.tick)
    OBVIOUS
  <2>1. down \o spawned \in Seq(Frames) /\ down \o Append(spawned, b) = Append(down \o spawned, b)
    BY <1>3, Ways
  <2>2. Leads(tree, Append(down \o spawned, b), scene'.tick) BY <1>3, <2>1, LeadsAppend
  <2> QED BY <1>1, <2>1, <2>2
<1>9. WillAsk => WillAsk' BY <1>1 DEF WillAsk
<1>10. RepairIsComing' BY <1>1, <1>8, <1>9 DEF RepairIsComing
<1> QED BY <1>5, <1>6, <1>7, <1>10 DEF Repaired

\* A batch that is sent leads on as it did, and a root replace leads there whatever
\* is missing before it; an unreadable one is asked for.
LEMMA SendRepair ==
    ASSUME BoundsAssumption, RepairInv, SendBatch
    PROVE  Repaired'
<1> Unpacked BY TypesUnpack DEF RepairInv
<1> down \in Seq(Frames) /\ spawned \in Seq(Frames) /\ gap \in BOOLEAN BY DEF Unpacked
<1> Fitted /\ Chained /\ Answered /\ RepairIsComing BY DEF RepairInv, Repaired
<1> DEFINE f == Head(spawned)
<1>1. /\ spawned # <<>> /\ spawned' = Tail(spawned)
      /\ \/ Nowhere \/ Unencodable(f)
         \/ Sent(f) /\ gap' = (gap /\ ~f.root)
         \/ Spoiled(f) /\ UNCHANGED gap
      /\ UNCHANGED <<sock, wired, up, tree, scene, alive, garbling>>
  BY DEF SendBatch
<1>2. /\ f \in Frames /\ f = spawned[1] /\ 1 \in DOMAIN spawned
      /\ DOMAIN spawned' = 1 .. Len(spawned) - 1 /\ DOMAIN spawned = 1 .. Len(spawned)
      /\ Len(spawned) \in Nat /\ \A i \in 1 .. Len(spawned) - 1 : spawned'[i] = spawned[i + 1]
      /\ spawned' \in Seq(Frames) /\ Len(spawned') = Len(spawned) - 1
      /\ (spawned' = <<>> <=> Len(spawned) = 1)
  <2>1. /\ f \in Frames /\ f = spawned[1] /\ 1 \in DOMAIN spawned
        /\ DOMAIN spawned = 1 .. Len(spawned) /\ Len(spawned) \in Nat
    BY <1>1
  <2>2. /\ spawned' \in Seq(Frames) /\ Len(spawned') = Len(spawned) - 1
        /\ DOMAIN spawned' = 1 .. Len(spawned) - 1
        /\ \A i \in 1 .. Len(spawned) - 1 : spawned'[i] = spawned[i + 1]
    BY <1>1
  <2>3. spawned' = <<>> <=> Len(spawned) = 1 BY <2>1, <2>2, EmptySeq
  <2> QED BY <2>1, <2>2, <2>3
<1>3. Proper(f) BY <1>2, ProperFrame DEF Fitted
<1> HIDE DEF f
<1>4. \A i \in DOMAIN spawned' : i + 1 \in DOMAIN spawned /\ spawned'[i] = spawned[i + 1]
  BY <1>2
<1>5. \A i \in DOMAIN spawned' : spawned'[i].root \/ spawned'[i].from > 0
  BY <1>4 DEF Fitted
<1>6. Chain(spawned') /\ (spawned' # <<>> => spawned'[Len(spawned')].to = scene.tick)
  <2>1. ASSUME NEW i \in DOMAIN spawned', NEW j \in DOMAIN spawned', j = i + 1
        PROVE  spawned'[j].from = spawned'[i].to
    <3>1. j + 1 = (i + 1) + 1 BY <2>1
    <3> QED BY <1>4, <3>1 DEF Chained, Chain
  <2>2. ASSUME spawned' # <<>> PROVE spawned'[Len(spawned')].to = scene.tick
    <3>1. Len(spawned') \in DOMAIN spawned' /\ Len(spawned') + 1 = Len(spawned) BY <1>2, <2>2
    <3> QED BY <1>1, <1>4, <3>1 DEF Chained
  <2> QED BY <2>1, <2>2 DEF Chain
<1>7. Chained' BY <1>1, <1>6 DEF Chained
<1>8. CASE Nowhere \/ Unencodable(f)
  <2>1. down' = down /\ (~Connected \/ gap' = TRUE) BY <1>8 DEF Nowhere, Unencodable
  <2>2. Fitted' BY <1>1, <1>5, <2>1 DEF Fitted
  <2> QED BY <1>1, <1>7, <2>1, <2>2 DEF Repaired, Answered, RepairIsComing
<1>9. CASE Sent(f) /\ gap' = (gap /\ ~f.root)
  <2>1. down' = Append(down, f) BY <1>9 DEF Sent
  <2>2. /\ \A i \in DOMAIN down' : down'[i].root \/ down'[i].from > 0 \/ down'[i] = Garbled
        /\ Readable' /\ (WillAsk => WillAsk')
    BY <1>1, <1>2, <1>3, <2>1, OneMore DEF Proper
  <2>3. Fitted' BY <1>1, <1>5, <2>2 DEF Fitted
  <2>4. Answered' BY <2>2 DEF Answered
  <2>5. CASE f.root
    <3>1. spawned' # <<>> => spawned'[1].from = f.to
      <4> SUFFICES ASSUME spawned' # <<>> PROVE spawned'[1].from = f.to
        OBVIOUS
      <4>1. 1 \in DOMAIN spawned' /\ 1 \in DOMAIN spawned BY <1>2
      <4>2. 1 + 1 \in DOMAIN spawned /\ spawned'[1] = spawned[1 + 1] BY <1>4, <4>1
      <4> QED BY <1>2, <4>1, <4>2 DEF Chained, Chain
    <3>2. scene.tick = IF spawned' = <<>> THEN f.to ELSE spawned'[Len(spawned')].to
      <4>1. CASE spawned' = <<>> BY <1>1, <1>2, <4>1 DEF Chained
      <4> QED BY <1>6, <4>1
    <3>3. Leads(tree, Append(down, f) \o spawned', scene.tick)
      BY <1>2, <1>6, <2>5, <3>1, <3>2, LeadsChain
    <3> QED BY <1>1, <1>7, <2>1, <2>3, <2>4, <3>3 DEF Repaired, RepairIsComing
  <2>6. CASE ~f.root
    <3>1. down' \o spawned' = down \o spawned
      <4>1. Append(down, Head(spawned)) \o Tail(spawned) = down \o spawned BY <1>1, Ways
      <4> QED BY <1>1, <2>1, <4>1 DEF f
    <3>2. gap' = gap BY <1>9, <2>6
    <3>3. RepairIsComing' BY <1>1, <2>2, <3>1, <3>2 DEF RepairIsComing
    <3> QED BY <1>7, <2>3, <2>4, <3>3 DEF Repaired
  <2> QED BY <2>5, <2>6
<1>10. CASE Spoiled(f) /\ UNCHANGED gap
  <2>1. down' = Append(down, Garbled) BY <1>10 DEF Spoiled
  <2>2. /\ \A i \in DOMAIN down' : down'[i].root \/ down'[i].from > 0 \/ down'[i] = Garbled
        /\ Readable => Readable'
        /\ ~garbling \/ Readable => WillAsk'
    BY <1>1, <2>1, GarbledTypes, OneMore
  <2>3. Fitted' BY <1>1, <1>5, <2>2 DEF Fitted
  <2>4. Answered' BY <1>1, <1>10, <2>2 DEF Answered
  <2>5. RepairIsComing' BY <1>1, <1>10, <2>2 DEF RepairIsComing, Answered
  <2> QED BY <1>7, <2>3, <2>4, <2>5 DEF Repaired
<1> QED BY <1>1, <1>8, <1>9, <1>10

\* The answer to a resync leads wherever the scene is, if no batch of an earlier
\* tick still waits behind it; an unreadable one is asked for again unless the page
\* has asked.
LEMMA ResyncRepair ==
    ASSUME BoundsAssumption, RepairInv, DispatchResync
    PROVE  Repaired'
<1> Unpacked BY TypesUnpack DEF RepairInv
<1> down \in Seq(Frames) BY DEF Unpacked
<1> Fitted /\ Chained /\ Answered /\ RepairIsComing BY DEF RepairInv, Repaired
<1> DEFINE w == WholeScene(scene)
<1>1. /\ \/ Nowhere \/ Unencodable(w)
         \/ Sent(w) /\ gap' = (spawned # <<>>)
         \/ Spoiled(w) /\ gap' = (gap \/ HasAsked)
      /\ UNCHANGED <<sock, wired, tree, scene, alive, spawned, garbling>>
  BY DEF DispatchResync
<1>2. w \in Frames /\ w.root = TRUE /\ w.to = scene.tick BY SceneTypes
<1>3. Proper(w) BY <1>2, ProperFrame
<1> HIDE DEF w
<1>4. Chained' BY <1>1 DEF Chained
<1>5. CASE Nowhere \/ Unencodable(w)
  <2>1. down' = down /\ (~Connected \/ gap' = TRUE) BY <1>5 DEF Nowhere, Unencodable
  <2>2. Fitted' BY <1>1, <2>1 DEF Fitted
  <2> QED BY <1>1, <1>4, <2>1, <2>2 DEF Repaired, Answered, RepairIsComing
<1>6. CASE Sent(w) /\ gap' = (spawned # <<>>)
  <2>1. down' = Append(down, w) BY <1>6 DEF Sent
  <2>2. /\ \A i \in DOMAIN down' : down'[i].root \/ down'[i].from > 0 \/ down'[i] = Garbled
        /\ Readable'
    BY <1>1, <1>2, <1>3, <2>1, OneMore DEF Proper
  <2>3. Fitted' BY <1>1, <2>2 DEF Fitted
  <2>4. RepairIsComing'
    <3> SUFFICES ASSUME spawned = <<>> PROVE Leads(tree, down' \o spawned', scene.tick)
      BY <1>1, <1>6 DEF RepairIsComing
    <3>1. down' \in Seq(Frames) BY <1>2, <2>1, AppendProperties
    <3>2. down' \o spawned' = down' BY <1>1, <3>1, Ways
    <3>3. Leads(tree, Append(down, w), w.to) BY <1>2, LeadsAppend
    <3> QED BY <1>2, <2>1, <3>2, <3>3
  <2> QED BY <1>4, <2>2, <2>3, <2>4 DEF Repaired, Answered
<1>7. CASE Spoiled(w) /\ gap' = (gap \/ HasAsked)
  <2>1. down' = Append(down, Garbled) BY <1>7 DEF Spoiled
  <2>2. /\ \A i \in DOMAIN down' : down'[i].root \/ down'[i].from > 0 \/ down'[i] = Garbled
        /\ Readable => Readable'
        /\ ~garbling \/ Readable => WillAsk'
    BY <1>1, <2>1, GarbledTypes, OneMore
  <2>3. ~HasAsked => ~garbling \/ Readable BY DEF HasAsked, Readable
  <2>4. Fitted' BY <1>1, <2>2 DEF Fitted
  <2> QED BY <1>1, <1>4, <1>7, <2>2, <2>3, <2>4 DEF Repaired, Answered, RepairIsComing
<1> QED BY <1>1, <1>5, <1>6, <1>7

\* The frames that are left after one was received.
LEMMA Left ==
    ASSUME Unpacked, Fitted, down # <<>>, down' = Tail(down)
    PROVE  /\ \A i \in DOMAIN down' : i + 1 \in DOMAIN down /\ down'[i] = down[i + 1]
           /\ \A i \in DOMAIN down' : down'[i].root \/ down'[i].from > 0 \/ down'[i] = Garbled
           /\ Head(down) = down[1] /\ 1 \in DOMAIN down /\ down[1] \in Frames
           /\ \A i \in DOMAIN down' : i \in Nat /\ i > 0
<1> down \in Seq(Frames) BY DEF Unpacked
<1>1. /\ DOMAIN down' = 1 .. Len(down) - 1 /\ DOMAIN down = 1 .. Len(down) /\ Len(down) \in Nat
      /\ Head(down) = down[1] /\ \A i \in 1 .. Len(down) - 1 : down'[i] = down[i + 1]
      /\ 1 \in DOMAIN down /\ down[1] \in Frames
  OBVIOUS
<1>2. \A i \in DOMAIN down' : i + 1 \in DOMAIN down /\ down'[i] = down[i + 1] BY <1>1
<1> QED BY <1>1, <1>2 DEF Fitted

LEMMA GarbledRepair ==
    ASSUME RepairInv, ReceiveGarbled
    PROVE  Repaired'
<1> Unpacked BY TypesUnpack DEF RepairInv
<1> up \in Seq(Nat) /\ garbling \in BOOLEAN BY DEF Unpacked
<1> Fitted /\ Chained /\ Answered /\ RepairIsComing BY DEF RepairInv, Repaired
<1>1. /\ sock = "open" /\ down # <<>> /\ Head(down) = Garbled /\ down' = Tail(down)
      /\ garbling' = TRUE
      /\ UNCHANGED <<sock, wired, tree, spawned, scene, alive, gap>>
  BY DEF ReceiveGarbled
<1>2. /\ \A i \in DOMAIN down' : i + 1 \in DOMAIN down /\ down'[i] = down[i + 1]
      /\ \A i \in DOMAIN down' : down'[i].root \/ down'[i].from > 0 \/ down'[i] = Garbled
      /\ down[1] = Garbled /\ 1 \in DOMAIN down /\ down[1] \in Frames
  BY <1>1, Left
<1>3. Fitted' /\ Chained' BY <1>1, <1>2 DEF Fitted, Chained
<1>4. CASE ~garbling
  <2>1. wired => up' = Append(up, Resync) BY <1>1, <1>4 DEF ReceiveGarbled, SendEvent
  <2>2. Resync \in Range(Append(up, Resync)) BY InRange DEF Resync
  <2> QED BY <1>1, <1>3, <2>1, <2>2 DEF Repaired, Answered, RepairIsComing
<1>5. CASE garbling
  <2>1. up' = up BY <1>5 DEF ReceiveGarbled
  <2>2. \A i \in DOMAIN down : i # 1 => i - 1 \in DOMAIN down' /\ down'[i - 1] = down[i]
    BY <1>1 DEF Unpacked
  <2>3. Readable => Readable' BY <1>2, <2>2 DEF Readable
  <2>4. WillAsk => WillAsk'
    <3> SUFFICES ASSUME NEW i \in DOMAIN down, down[i] = Garbled,
                        NEW j \in 1 .. i - 1, down[j] # Garbled
                 PROVE  WillAsk'
      BY <1>5 DEF WillAsk
    <3>1. i \in Nat /\ DOMAIN down = 1 .. Len(down) /\ Len(down) \in Nat BY DEF Unpacked
    <3>2. j # 1 /\ i # 1 /\ j \in DOMAIN down /\ j - 1 \in 1 .. (i - 1) - 1 BY <1>2, <3>1
    <3>3. i - 1 \in DOMAIN down' /\ down'[i - 1] = Garbled /\ down'[j - 1] # Garbled
      BY <2>2, <3>2
    <3> QED BY <3>2, <3>3 DEF WillAsk
  <2>5. Leads(tree, down \o spawned, scene.tick) => Leads(tree', down' \o spawned', scene'.tick)
    <3> SUFFICES ASSUME Leads(tree, down \o spawned, scene.tick)
                 PROVE  Leads(tree', down' \o spawned', scene'.tick)
      OBVIOUS
    <3>1. /\ down \o spawned \in Seq(Frames) /\ Tail(down) \o spawned = Tail(down \o spawned)
          /\ down \o spawned # <<>> /\ (down \o spawned)[1] = Garbled
      BY <1>1, Ways DEF Unpacked
    <3>2. Leads(tree, Tail(down \o spawned), scene.tick) BY <3>1, GarbledTypes, LeadsTail
    <3> QED BY <1>1, <3>1, <3>2
  <2>6. Answered' BY <1>1, <1>5, <2>1, <2>3 DEF Answered
  <2>7. RepairIsComing' BY <1>1, <2>1, <2>4, <2>5 DEF RepairIsComing
  <2> QED BY <1>3, <2>6, <2>7 DEF Repaired
<1> QED BY <1>4, <1>5

\* A frame that is applied leads on from its tree; one that does not fit changes
\* nothing about a root replace behind it.
LEMMA BatchRepair ==
    ASSUME RepairInv, NEW b,
           Apply(b) \/ LandElsewhere(b) \/ PatchFails(b) \/ Refuse(b)
    PROVE  Repaired'
<1> Unpacked BY TypesUnpack DEF RepairInv
<1> /\ up \in Seq(Nat) /\ down \in Seq(Frames) /\ spawned \in Seq(Frames)
  BY DEF Unpacked
<1> Fitted /\ Chained /\ Answered /\ RepairIsComing BY DEF RepairInv, Repaired
<1>1. Received(b) BY DEF Apply, LandElsewhere, PatchFails, Refuse
<1>2. /\ down # <<>> /\ b = Head(down) /\ b # Garbled /\ down' = Tail(down) /\ garbling' = FALSE
      /\ sock = "open" /\ UNCHANGED <<sock, wired, spawned, scene, alive, gap>>
  BY <1>1 DEF Received
<1>3. /\ \A i \in DOMAIN down' : i + 1 \in DOMAIN down /\ down'[i] = down[i + 1]
      /\ \A i \in DOMAIN down' : down'[i].root \/ down'[i].from > 0 \/ down'[i] = Garbled
      /\ down[1] = b /\ b \in Frames /\ 1 \in DOMAIN down
  BY <1>2, Left
<1>4. Fitted' /\ Chained' /\ Answered' BY <1>2, <1>3 DEF Fitted, Chained, Answered
<1>5. b.root \/ b.from = tree => tree' = b.to
  <2>1. b.root \in BOOLEAN BY <1>3, FrameTypes
  <2>2. CASE Apply(b) BY <2>2 DEF Apply
  <2>3. CASE LandElsewhere(b) \/ PatchFails(b) BY <2>3 DEF LandElsewhere, PatchFails, Fits
  <2>4. CASE Refuse(b)
    <3>1. ~b.root /\ tree = 0 BY <2>4 DEF Refuse, Empty
    <3>2. b.from > 0 BY <1>2, <1>3, <3>1 DEF Fitted
    <3> QED BY <3>1, <3>2
  <2> QED BY <2>1, <2>2, <2>3, <2>4
<1>6. Resync \in Range(up) => Resync \in Range(up')
  <2>1. CASE UNCHANGED <<up, outbox>> BY <2>1
  <2>2. CASE SendEvent(Resync)
    <3>1. up' = up \/ up' = Append(up, Resync) BY <1>2, <2>2 DEF SendEvent
    <3>2. Resync \in Range(Append(up, Resync)) BY InRange DEF Resync
    <3> QED BY <3>1, <3>2
  <2> QED BY <2>1, <2>2 DEF Apply, LandElsewhere, PatchFails, Refuse
<1>7. WillAsk => WillAsk'
  <2> SUFFICES ASSUME NEW i \in DOMAIN down, down[i] = Garbled PROVE WillAsk'
    BY DEF WillAsk
  <2>1. i # 1 BY <1>2, <1>3
  <2>2. i - 1 \in DOMAIN down' /\ down'[i - 1] = down[i] BY <1>2, <2>1
  <2> QED BY <1>2, <2>2 DEF WillAsk
<1>8. Leads(tree, down \o spawned, scene.tick) => Leads(tree', down' \o spawned', scene'.tick)
  <2> SUFFICES ASSUME Leads(tree, down \o spawned, scene.tick)
               PROVE  Leads(tree', down' \o spawned', scene'.tick)
    OBVIOUS
  <2>1. /\ down \o spawned \in Seq(Frames) /\ Tail(down) \o spawned = Tail(down \o spawned)
        /\ down \o spawned # <<>> /\ (down \o spawned)[1] = b
    BY <1>2, Ways
  <2>2. Leads(tree', Tail(down \o spawned), scene.tick)
    BY <1>5, <2>1, LeadsTail
  <2> QED BY <1>2, <2>1, <2>2
<1>9. RepairIsComing' BY <1>2, <1>6, <1>7, <1>8 DEF RepairIsComing
<1> QED BY <1>4, <1>9 DEF Repaired

LEMMA RepairStep ==
    ASSUME BoundsAssumption, RepairInv, [Next]_vars
    PROVE  RepairInv'
<1> SUFFICES Repaired'
  BY TypeStep DEF RepairInv
<1> Unpacked BY TypesUnpack DEF RepairInv
<1> up \in Seq(Nat) /\ clicked \in Nat BY DEF Unpacked
<1>1. CASE Click
  <2>1. UNCHANGED <<sock, wired, down, spawned, tree, scene, alive, gap, garbling>>
    BY <1>1 DEF Click
  <2>2. up' = up \/ up' = Append(up, clicked + 1) BY <1>1 DEF Click, SendEvent
  <2>3. Resync \in Range(up) => Resync \in Range(up')
    <3>1. CASE up' = up BY <3>1
    <3>2. CASE up' = Append(up, clicked + 1)
      <4>1. clicked + 1 \in Nat OBVIOUS
      <4>2. Range(up) \subseteq Range(Append(up, clicked + 1)) BY <4>1, InRange
      <4> QED BY <3>2, <4>2
    <3> QED BY <2>2, <3>1, <3>2
  <2> QED BY <2>1, <2>3, UpStays
<1>2. CASE Reconnect BY <1>2, DownStays DEF Reconnect
<1>3. CASE Opened BY <1>3, OpenedRepair
<1>4. CASE Cut BY <1>4, DownStays DEF Cut
<1>5. CASE SeesClose BY <1>5, DownStays DEF SeesClose
<1>6. CASE Close BY <1>6, DownStays DEF Close
<1>7. ASSUME NEW dialogs \in 0 .. 1, NEW root \in BOOLEAN, NEW finite \in BOOLEAN,
             NEW patches \in BOOLEAN, Tick(dialogs, root, finite, patches)
      PROVE  Repaired'
  BY <1>7, TickRepair
<1>8. CASE SendBatch BY <1>8, SendRepair
<1>9. CASE DispatchResync BY <1>9, ResyncRepair
<1>10. CASE Dispatch
  <2>1. UNCHANGED <<sock, wired, down, spawned, tree, scene, alive, gap, garbling>>
        /\ up # <<>> /\ Head(up) # Resync /\ up' = Tail(up)
    BY <1>10 DEF Dispatch
  <2>2. Resync \in Range(up) => Resync \in Range(up') BY <2>1, InTail
  <2> QED BY <2>1, <2>2, UpStays
<1>11. CASE Expire BY <1>11, DownStays DEF Expire
<1>12. CASE Receive BY <1>12, GarbledRepair, BatchRepair DEF Receive
<1>13. CASE UNCHANGED vars BY <1>13, UpStays
<1> QED BY <1>1, <1>2, <1>3, <1>4, <1>5, <1>6, <1>7, <1>8, <1>9, <1>10, <1>11, <1>12, <1>13 DEF Next

LEMMA InitRepair == BoundsAssumption /\ Init => RepairInv
<1> SUFFICES ASSUME BoundsAssumption, Init PROVE RepairInv
  OBVIOUS
<1>1. sock = "opening" /\ down = <<>> /\ spawned = <<>> /\ alive = FALSE
  BY DEF Init
<1>2. Repaired
  BY <1>1 DEF Repaired, Fitted, Chained, Chain, Answered, RepairIsComing
<1> QED BY <1>2, InitTypes DEF RepairInv

-----------------------------------------------------------------------------
(* The theorems.                                                           *)

\* Every variable keeps its type, and the outbox its cap.
THEOREM TypeCorrect == Spec => []TypeOK
<1>1. Init => TypeOK BY InitTypes, BoundsAssumption
<1>2. TypeOK /\ [Next]_vars => TypeOK' BY TypeStep, BoundsAssumption
<1> QED BY <1>1, <1>2, PTL DEF Spec

\* However connections fail and come back, the events of the page stay in order
\* and none is dispatched twice; until the first failure none is missing that an
\* outbox of MaxOutbox had to keep.
THEOREM EventsStayKept == Spec => []EventsKept
<1>1. Init => EventsInv BY InitEvents, BoundsAssumption
<1>2. EventsInv /\ [Next]_vars => EventsInv' BY EventsStep, BoundsAssumption
<1> QED BY <1>1, <1>2, EventsAreKept, PTL DEF Spec

\* A page whose connection lives is always about to show the scene, or about to be
\* repaired, however many frames it could not read and whatever landed elsewhere,
\* failed or was refused, unless something it was owed was never sent.
THEOREM RepairAlwaysComes == Spec => []RepairIsComing
<1>1. Init => RepairInv BY InitRepair, BoundsAssumption
<1>2. RepairInv /\ [Next]_vars => RepairInv' BY RepairStep, BoundsAssumption
<1>3. RepairInv => RepairIsComing BY DEF RepairInv, Repaired
<1> QED BY <1>1, <1>2, <1>3, PTL DEF Spec
=============================================================================
