---------------------------- MODULE NativeBridge ----------------------------
(***************************************************************************)
(* Native capabilities in Mode B, from the handler that awaits one to the  *)
(* page that runs it: ProxyBridge (native/bridges.py), its callers         *)
(* (native/dispatch.py, AppSession.rebind and close in runtime/session.py) *)
(* and the page (client/native/index.js behind client/transport-ws.js).    *)
(*                                                                         *)
(* A request is a call, answered once, or a stream, which sends events     *)
(* until either end stops it.  Requests are numbered here; on the wire     *)
(* they carry an id the server's process counts, per kind.  The page lives *)
(* through every connection; the session through those of its window; the  *)
(* process may be restarted, or the page be served by another one.         *)
(***************************************************************************)
EXTENDS Integers, Sequences, FiniteSets

CONSTANTS
    MaxRequests,  \* bound: calls and streams handlers ask for; a restart takes
                  \* the place of one
    MaxBinds,     \* bound: connections the page opens
    MaxRestarts,  \* bound: server processes that end
    MaxInFlight   \* bound: frames the page has on the wire

ASSUME BridgeAssumption ==
    {MaxRequests, MaxBinds, MaxRestarts, MaxInFlight} \subseteq Nat /\ MaxBinds > 0

Requests == 1..MaxRequests
Kinds == {"call", "stream"}

VARIABLES
    session,   \* none, or held: does the process hold this page's session?
    wired,     \* does a connection join the two?
    binds,     \* connections so far
    restarts,
    counted,   \* dispatch._call_ids, _sub_ids
    table,     \* ProxyBridge._pending, _subscriptions: [id, of]
    asked,     \* what handlers asked for so far: [kind, id, bind]
    await,     \* each request's awaiter: waiting, settled (to wake), over, dead
    got,       \* whose answers and events it was given
    down, up,  \* frames to the page, to the server
    running,   \* what the page runs: [id, of]
    stoppable  \* the streams among them _subscriptions can stop

conn == <<wired, binds, restarts>>
server == <<session, counted, table, asked, await, got>>
page == <<running, stoppable>>
vars == <<conn, server, down, up, page>>

Waiting(n) == await[n] = "waiting"
KindOf(n) == asked[n].kind
IdOf(n) == asked[n].id

Init ==
    /\ session = "held" /\ wired = TRUE /\ binds = 1 /\ restarts = 0
    /\ counted = [k \in Kinds |-> 0]
    /\ table = {} /\ asked = <<>>
    /\ await = [n \in Requests |-> "none"] /\ got = [n \in Requests |-> {}]
    /\ down = <<>> /\ up = <<>> /\ running = {} /\ stoppable = {}

\* _send_native_frame: a task writes it, and fails unseen if there is no socket.
Ship(frame) == down' = IF wired THEN Append(down, frame) ELSE down

-----------------------------------------------------------------------------
(* The server: call, subscribe, and what settles them.                     *)

SameId(kind) == UNCHANGED counted
NextId(kind) == counted' = [counted EXCEPT ![kind] = @ + 1]

\* An entry under an id replaces the one that is there.
Registered(id, n) == {e \in table : e.id /= id} \cup {[id |-> id, of |-> n]}
Popped(id) == {e \in table : e.id /= id}

\* ProxyBridge.call, ProxyBridge.subscribe.
Ask(kind) ==
    LET n == Len(asked) + 1 id == <<kind, counted'[kind]>> IN
    /\ session = "held" /\ n <= MaxRequests - restarts  \* bound
    /\ NextId(kind)
    /\ asked' = Append(asked, [kind |-> kind, id |-> id, bind |-> binds])
    /\ table' = Registered(id, n)
    /\ await' = [await EXCEPT ![n] = "waiting"]
    /\ Ship([what |-> "open", id |-> id, of |-> n])
    /\ UNCHANGED <<conn, session, got, up, page>>

\* resolve_native_result looks whether its future is done; resolve_native_event
\* trusts the registry.
MayGive(e) == KindOf(e.of) = "stream" \/ Waiting(e.of)

\* resolve, deliver_event: an id nobody awaits is ignored; an answer or a last
\* event settles its request.
Deliver ==
    LET f == Head(up) here == {e \in table : e.id = f.id} IN
    /\ session = "held" /\ wired /\ up /= <<>>
    /\ up' = Tail(up)
    /\ \/ /\ \E e \in here :
             /\ MayGive(e)
             /\ got' = [got EXCEPT ![e.of] = @ \cup {f.of}]
             /\ await' = IF f.last THEN [await EXCEPT ![e.of] = "settled"] ELSE await
             /\ table' = IF f.last /\ KindOf(e.of) = "stream" THEN Popped(f.id) ELSE table
       \/ /\ ~\E e \in here : MayGive(e)
          /\ UNCHANGED <<got, await, table>>
    /\ UNCHANGED <<conn, session, counted, asked, down, page>>

\* The awaiting handler goes on: the finally of call pops its id, that of
\* native_events unsubscribes.
Over(n) ==
    /\ await' = [await EXCEPT ![n] = "over"]
    /\ table' = Popped(IdOf(n))
    /\ IF KindOf(n) = "stream"
       THEN Ship([what |-> "stop", id |-> IdOf(n), of |-> n]) ELSE UNCHANGED down
    /\ UNCHANGED <<conn, session, counted, asked, got, up, page>>

Wakes(n) == await[n] = "settled" /\ Over(n)

TimesOutNever(n) == FALSE /\ Over(n)
\* asyncio.wait_for; an answer that came in the same turn may lose to it.
TimesOut(n) ==
    /\ await[n] \in {"waiting", "settled"} /\ KindOf(n) = "call"
    /\ Over(n)

\* The consumer breaks out of its loop, or is cancelled.
StopsListening(n) == Waiting(n) /\ KindOf(n) = "stream" /\ Over(n)

FailNone == UNCHANGED <<await, table>>
\* fail_pending: whoever waits is told the transport closed.
FailPending ==
    /\ await' = [n \in Requests |-> IF Waiting(n) THEN "settled" ELSE await[n]]
    /\ table' = {}

-----------------------------------------------------------------------------
(* Connections, sessions and processes.                                    *)

Cut ==
    /\ wired
    /\ wired' = FALSE /\ down' = <<>> /\ up' = <<>>
    /\ UNCHANGED <<binds, restarts, server, page>>

\* rebind, or a fresh session.
Connect ==
    /\ ~wired /\ binds < MaxBinds
    /\ wired' = TRUE /\ binds' = binds + 1
    /\ session' = "held"
    /\ FailPending
    /\ UNCHANGED <<restarts, counted, asked, got, down, up, page>>

\* AppSession.close when the window ends: the awaiters are told, and their
\* finally sends nothing on a closed bridge.
Expire ==
    /\ ~wired /\ session = "held"
    /\ session' = "none" /\ table' = {}
    /\ await' = [n \in Requests |->
                    IF await[n] \in {"waiting", "settled"} THEN "over" ELSE await[n]]
    /\ UNCHANGED <<conn, counted, asked, got, down, up, page>>

\* The process ends, with its handlers and its counters.
Restart ==
    /\ restarts < MaxRestarts /\ restarts' = restarts + 1
    /\ wired' = FALSE /\ down' = <<>> /\ up' = <<>>
    /\ session' = "none" /\ table' = {} /\ counted' = [k \in Kinds |-> 0]
    /\ await' = [n \in Requests |->
                    IF await[n] \in {"waiting", "settled"} THEN "dead" ELSE await[n]]
    /\ UNCHANGED <<binds, asked, got, page>>

-----------------------------------------------------------------------------
(* The page.                                                               *)

IgnoresStop(id) == UNCHANGED page
\* unsubscribeDispatch: the stream this id names now.
Stops(id) ==
    /\ running' = {r \in running : ~(r.id = id /\ r \in stoppable)}
    /\ stoppable' = {r \in stoppable : r.id /= id}

\* dispatch starts a capability, subscribeDispatch a stream.
Runs(f) == LET r == [id |-> f.id, of |-> f.of] IN
    /\ running' = running \cup {r}
    /\ stoppable' = IF KindOf(f.of) = "stream"
                    THEN {s \in stoppable : s.id /= f.id} \cup {r} ELSE stoppable

Receive == LET f == Head(down) IN
    /\ wired /\ down /= <<>> /\ down' = Tail(down)
    /\ IF f.what = "open" THEN Runs(f) ELSE Stops(f.id)
    /\ UNCHANGED <<conn, server, up>>

\* A frame for a socket that is not open is dropped, whatever it answers.
Sends(r, last) == up' = IF wired THEN Append(up, [id |-> r.id, of |-> r.of, last |-> last]) ELSE up

Answers(r) ==
    /\ KindOf(r.of) = "call" /\ Len(up) < MaxInFlight
    /\ running' = running \ {r} /\ Sends(r, TRUE)
    /\ UNCHANGED <<conn, server, down, stoppable>>

\* A stream sends an event, or its last one; its entry stays until stopped.
Emits(r, last) ==
    /\ KindOf(r.of) = "stream" /\ Len(up) < MaxInFlight
    /\ Sends(r, last)
    /\ running' = (IF last THEN running \ {r} ELSE running)
    /\ UNCHANGED <<conn, server, down, stoppable>>

Settles(n) == Wakes(n) \/ TimesOut(n)

Next ==
    \/ \E k \in Kinds : Ask(k)
    \/ \E n \in 1..Len(asked) : Settles(n) \/ StopsListening(n)
    \/ Deliver \/ Receive \/ Cut \/ Connect \/ Expire \/ Restart
    \/ \E r \in running : Answers(r) \/ \E last \in BOOLEAN : Emits(r, last)

Spec == Init /\ [][Next]_vars

\* Frames arrive, the timer of a call fires, a task that can go on does; a
\* page whose connection failed comes back.  No page has to answer.
Fairness ==
    /\ WF_vars(Receive) /\ WF_vars(Deliver) /\ WF_vars(Connect)
    /\ \A n \in Requests : WF_vars(n <= Len(asked) /\ Settles(n))

FairSpec == Spec /\ Fairness

-----------------------------------------------------------------------------
(* Properties.                                                             *)

Ids == {<<k, i>> : k \in Kinds, i \in 0..MaxRequests}
Entries == [id : Ids, of : Requests]

\* Types of the registries and the channels.
TypeOK ==
    /\ session \in {"none", "held"} /\ wired \in BOOLEAN /\ binds \in 1..MaxBinds
    /\ restarts \in 0..MaxRestarts /\ counted \in [Kinds -> 0..MaxRequests]
    /\ table \subseteq Entries /\ running \subseteq Entries /\ stoppable \subseteq Entries
    /\ asked \in Seq([kind : Kinds, id : Ids, bind : 1..MaxBinds])
    /\ await \in [Requests -> {"none", "waiting", "settled", "over", "dead"}]
    /\ got \in [Requests -> SUBSET Requests]

\* _next_call_id, resolve, deliver_event: what a handler is given, answer or
\* event, is what the page made for that very request.
GetsItsOwn == \A n \in Requests : got[n] \subseteq {n}
\* It is until the process ends.
GetsItsOwnSoFar == restarts = 0 => GetsItsOwn

\* _pending, _subscriptions: whoever waits can be reached by its id, and no
\* entry outlives the wait.
TableIsExact ==
    /\ \A n \in 1..Len(asked) : Waiting(n) => [id |-> IdOf(n), of |-> n] \in table
    /\ \A e \in table : await[e.of] \in {"waiting", "settled"}

\* rebind: nobody waits for a frame that went to a connection which is gone.
NobodyWaitsForThePast == \A n \in 1..Len(asked) : Waiting(n) => asked[n].bind = binds

\* resolve: a request that was settled, by an answer, a timeout or a close,
\* is given nothing more.
SettledOnce == [][\A n \in Requests :
    await[n] \in {"settled", "over", "dead"} => got'[n] = got[n] /\ await'[n] /= "waiting"]_vars

\* call: every call ends, whatever the page does.
CallsEnd == \A n \in Requests :
    (Waiting(n) /\ KindOf(n) = "call") ~> ~Waiting(n)

\* native_events: a stream that a reconnection ended is stopped on the page,
\* by an id of the connection before, if no connection fails again and the
\* process lives.
InterruptedStreamStops == \A n \in Requests :
    (n <= Len(asked) /\ KindOf(n) = "stream" /\ await[n] = "settled" /\ <>[]wired)
        ~> (restarts > 0 \/ ~\E r \in running : r.of = n)

\* ProxyBridge: the tables hold those who wait, on this connection, and no other.
WaitersAreReachable == TypeOK /\ TableIsExact /\ NobodyWaitsForThePast

\* call: a call ends, and it ends once.
CallsEndOnce == CallsEnd /\ SettledOnce
=============================================================================
