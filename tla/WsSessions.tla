----------------------------- MODULE WsSessions -----------------------------
(***************************************************************************)
(* The life of a WebSocket session on the Mode B server                    *)
(* (tempestweb/server/app.py, runtime/session.py, transports/websocket.py).*)
(*                                                                         *)
(* A browser opens a socket naming a session id.  The endpoint coroutine   *)
(* claims the session held under that id, or builds a fresh one; pumps     *)
(* events through AppSession.serve; and, when the socket ends, leaves the  *)
(* session behind for a resume window.  A session outlives its sockets, so *)
(* it is named here by the socket that created it.                         *)
(*                                                                         *)
(* asyncio is cooperative: one action is the code between two awaits that  *)
(* may suspend.                                                            *)
(***************************************************************************)
EXTENDS Integers, FiniteSets, Sequences

CONSTANTS
    Sockets,            \* connection attempts; each is one run of ws_endpoint
    Ids,                \* session ids a browser may put in ?session=
    NoId,               \* the empty id: a connection that cannot be resumed
    None,
    Cred,               \* Cred[s]: the principal presenting socket s
    Cap,                \* SecurityConfig.max_connections
    Resumable,          \* ws_resume_seconds > 0
    MaxFrames,          \* bound: event frames one socket delivers
    OverlappingSockets, \* may a browser reconnect before its old task unwinds
    ResyncMayFail       \* may a socket die while the resumed scene is sent

ASSUME ConstantsAssumption ==
    /\ NoId \notin Ids
    /\ None \notin Sockets
    /\ IsFiniteSet(Sockets)
    /\ Cap \in Nat
    /\ MaxFrames \in Nat
    /\ Resumable \in BOOLEAN
    /\ OverlappingSockets \in BOOLEAN
    /\ ResyncMayFail \in BOOLEAN

VARIABLES
    phase,     \* where the endpoint coroutine of each socket is suspended
    ask,       \* the session id it named
    serves,    \* the AppSession it is serving
    token,     \* the generation it believes it holds
    reads,     \* the transport its recv_event is suspended on
    bridge,    \* the session whose native bridge its task context carries
    peer,      \* "open" while the browser end of the socket is alive
    frames,    \* event frames delivered so far
    inbox,     \* WebSocketTransport._events
    shut,      \* WebSocketTransport._closed
    pump,      \* WebSocketTransport._recv_task
    rec,       \* TempestWebServer._ws_sessions
    gen,       \* _WSSession.generation
    armed,     \* _WSSession.expiry: token of the armed timer, or NoTimer
    expiring,  \* _expire_ws tasks spawned and not yet run
    status,    \* AppSession: unborn, open, closing (close() begun), closed
    pipe,      \* AppSession.transport
    live       \* TempestWebServer._live

taskVars    == <<phase, ask, serves, token, reads, bridge>>
wireVars    == <<peer, frames, inbox, shut, pump>>
recordVars  == <<rec, gen, armed, expiring>>
sessionVars == <<status, pipe>>
vars == <<taskVars, wireVars, recordVars, sessionVars, live>>

NoTimer == -1
Event == "event"
Sentinel == "sentinel"
Phases == {"idle", "accepting", "resuming", "mounting", "receiving",
           "handling", "done"}

\* The record under an id; the empty id never has one.
Held(id) == IF id = NoId THEN None ELSE rec[id]

\* A socket or a timer may act on a record only while it has this token.
HoldsToken(x, t) == x # None /\ gen[x] = t

\* _WSSession.cancel_expiry.
CancelExpiry(x) == armed' = [armed EXCEPT ![x] = NoTimer]

NoBump(x) == gen' = gen                                            \* mutant
\* A claim takes a fresh token, so the socket it replaces holds a stale one.
Bump(x) == gen' = [gen EXCEPT ![x] = @ + 1]

ForgetToUncount == live' = live                                    \* mutant
\* One session fewer on the gauge.
Uncount == live' = live - 1

KeepRecord(id) == rec' = rec                                       \* mutant
Forget(id) == rec' = [rec EXCEPT ![id] = None]

OpenSessions == {x \in Sockets : status[x] = "open"}

Init ==
    /\ phase = [s \in Sockets |-> "idle"]
    /\ ask = [s \in Sockets |-> NoId]
    /\ serves = [s \in Sockets |-> None]
    /\ token = [s \in Sockets |-> 0]
    /\ reads = [s \in Sockets |-> None]
    /\ bridge = [s \in Sockets |-> None]
    /\ peer = [s \in Sockets |-> "open"]
    /\ frames = [s \in Sockets |-> 0]
    /\ inbox = [s \in Sockets |-> <<>>]
    /\ shut = [s \in Sockets |-> FALSE]
    /\ pump = [s \in Sockets |-> "off"]
    /\ rec = [id \in Ids |-> None]
    /\ gen = [x \in Sockets |-> 0]
    /\ armed = [x \in Sockets |-> NoTimer]
    /\ expiring = {}
    /\ status = [x \in Sockets |-> "unborn"]
    /\ pipe = [x \in Sockets |-> None]
    /\ live = 0

-----------------------------------------------------------------------------
(* The upgrade: capacity and ownership are read before accept() suspends.  *)

OwnsWs(s, id) ==
    LET x == Held(id) IN x = None \/ Cred[x] = Cred[s]

AtCapacity == live >= Cap

MayConnect(s, id) ==
    OverlappingSockets \/ id = NoId
        \/ \A r \in Sockets : ask[r] = id => phase[r] = "done"

Upgrade(s, id) ==
    /\ phase[s] = "idle"
    /\ MayConnect(s, id)
    /\ ask' = [ask EXCEPT ![s] = id]
    /\ phase' = [phase EXCEPT ![s] =
                    IF AtCapacity \/ ~OwnsWs(s, id) THEN "done" ELSE "accepting"]
    /\ UNCHANGED <<serves, token, reads, bridge, wireVars, recordVars,
                   sessionVars, live>>

\* The browser left before the handshake finished: accept() raises.
AcceptFails(s) ==
    /\ phase[s] = "accepting"
    /\ peer[s] = "gone"
    /\ phase' = [phase EXCEPT ![s] = "done"]
    /\ UNCHANGED <<ask, serves, token, reads, bridge, wireVars, recordVars,
                   sessionVars, live>>

ClaimableByAnyone(s) == Resumable /\ Held(ask[s]) # None           \* mutant
ClaimableNever(s) == FALSE                                         \* mutant

\* _claim_ws finds a session of this principal to take over.
Claimable(s) ==
    LET x == Held(ask[s])
    IN Resumable /\ x # None /\ Cred[x] = Cred[s]

\* _claim_ws and the part of rebind() before it suspends sending the scene.
Claim(s) ==
    /\ phase[s] = "accepting"
    /\ Claimable(s)
    /\ LET x == Held(ask[s]) IN
        /\ serves' = [serves EXCEPT ![s] = x]
        /\ CancelExpiry(x)
        /\ Bump(x)
        /\ pipe' = IF status[x] = "open" THEN [pipe EXCEPT ![x] = s] ELSE pipe
    /\ phase' = [phase EXCEPT ![s] = "resuming"]
    /\ UNCHANGED <<ask, token, reads, bridge, wireVars, rec, expiring, status, live>>

\* Nothing to resume: build a session, record it, and start() it as far as
\* sending the first scene.
Open(s) ==
    /\ phase[s] = "accepting"
    /\ ~Claimable(s)
    /\ live' = live + 1
    /\ status' = [status EXCEPT ![s] = "open"]
    /\ pipe' = [pipe EXCEPT ![s] = s]
    /\ serves' = [serves EXCEPT ![s] = s]
    /\ bridge' = [bridge EXCEPT ![s] = s]
    /\ token' = [token EXCEPT ![s] = 0]
    /\ rec' = IF ask[s] = NoId THEN rec ELSE [rec EXCEPT ![ask[s]] = s]
    /\ phase' = [phase EXCEPT ![s] = "mounting"]
    /\ UNCHANGED <<ask, reads, wireVars, gen, armed, expiring>>

-----------------------------------------------------------------------------
(* Leaving: _release_ws, and AppSession.close up to its first await.       *)

Retire(x) ==
    status' = [status EXCEPT ![x] = IF @ = "open" THEN "closing" ELSE @]

\* t is the generation the endpoint read when it began to serve.
Release(s, t) ==
    LET h == Held(ask[s]) IN
    /\ phase' = [phase EXCEPT ![s] = "done"]
    /\ \/ /\ h = None \/ ~Resumable
          /\ Uncount
          /\ Retire(serves[s])
          /\ UNCHANGED armed
       \/ /\ h # None /\ Resumable /\ ~HoldsToken(h, t)
          /\ UNCHANGED <<live, status, armed>>
       \/ /\ Resumable /\ HoldsToken(h, t)
          /\ armed' = [armed EXCEPT ![h] = t]
          /\ UNCHANGED <<live, status>>
    /\ UNCHANGED <<rec, gen, expiring>>

-----------------------------------------------------------------------------
(* AppSession.serve.  Each turn of the loop reads self.transport afresh.   *)

\* Back to the top of the loop: suspend on the session's current transport,
\* starting its pump, or leave when the session was closed meanwhile.
\* t: the generation the endpoint holds.
NextEvent(s, t) ==
    LET x == serves[s] IN
    \/ /\ status[x] = "open"
       /\ phase' = [phase EXCEPT ![s] = "receiving"]
       /\ reads' = [reads EXCEPT ![s] = pipe[x]]
       /\ pump' = [pump EXCEPT ![pipe[x]] =
                     IF @ = "off" /\ ~shut[pipe[x]] THEN "on" ELSE @]
       /\ UNCHANGED <<recordVars, status, live>>
    \/ /\ status[x] # "open"
       /\ Release(s, t)
       /\ UNCHANGED <<reads, pump>>

\* The first scene reached the wire.
Mounted(s) ==
    /\ phase[s] = "mounting"
    /\ ~shut[s]
    /\ NextEvent(s, token[s])
    /\ UNCHANGED <<ask, serves, token, bridge, peer, frames, inbox, shut, pipe>>

\* It did not: start() raises out of serve() into the endpoint's finally.
MountFails(s) ==
    /\ phase[s] = "mounting"
    /\ peer[s] = "gone" \/ shut[s]
    /\ Release(s, token[s])
    /\ UNCHANGED <<ask, serves, token, reads, bridge, wireVars, pipe>>

\* _ws_generation: what the record under the id says now.
WsGeneration(s) ==
    LET h == Held(ask[s]) IN IF h = None THEN 0 ELSE gen[h]

\* The resumed scene reached the wire; only now is the generation read.
Resumed(s) ==
    /\ phase[s] = "resuming"
    /\ ~shut[s]
    /\ token' = [token EXCEPT ![s] = WsGeneration(s)]
    /\ NextEvent(s, WsGeneration(s))
    /\ UNCHANGED <<ask, serves, bridge, peer, frames, inbox, shut, pipe>>

\* Sending raised TransportClosedError: it leaves _claim_ws, and the endpoint,
\* before the try/finally that would have released the socket.
ResumeFails(s) ==
    /\ phase[s] = "resuming"
    /\ (ResyncMayFail /\ peer[s] = "gone") \/ shut[s]
    /\ phase' = [phase EXCEPT ![s] = "done"]
    /\ shut' = [shut EXCEPT ![s] = TRUE]
    /\ UNCHANGED <<ask, serves, token, reads, bridge, peer, frames, inbox, pump,
                   recordVars, sessionVars, live>>

\* recv_event returns an event and its handler starts.
ReceiveEvent(s) ==
    /\ phase[s] = "receiving"
    /\ LET t == reads[s] IN
        /\ inbox[t] # <<>>
        /\ Head(inbox[t]) = Event
        /\ inbox' = [inbox EXCEPT ![t] = Tail(@)]
    /\ phase' = [phase EXCEPT ![s] = "handling"]
    /\ UNCHANGED <<ask, serves, token, reads, bridge, peer, frames, shut, pump,
                   recordVars, sessionVars, live>>

\* recv_event finds the sentinel of a closed transport and raises: serve()
\* returns and the endpoint's finally releases the socket.
ReceiveSentinel(s) ==
    /\ phase[s] = "receiving"
    /\ LET t == reads[s] IN
        /\ inbox[t] # <<>>
        /\ Head(inbox[t]) = Sentinel
        /\ inbox' = [inbox EXCEPT ![t] = Tail(@)]
    /\ Release(s, token[s])
    /\ UNCHANGED <<ask, serves, token, reads, bridge, peer, frames, shut, pump,
                   pipe>>

FinishHandler(s) ==
    /\ phase[s] = "handling"
    /\ NextEvent(s, token[s])
    /\ UNCHANGED <<ask, serves, token, bridge, peer, frames, inbox, shut, pipe>>

-----------------------------------------------------------------------------
(* The wire: WebSocketTransport._pump and close.                           *)

Disconnect(s) ==
    /\ phase[s] # "idle"
    /\ peer[s] = "open"
    /\ peer' = [peer EXCEPT ![s] = "gone"]
    /\ UNCHANGED <<taskVars, frames, inbox, shut, pump, recordVars, sessionVars, live>>

PumpEvent(s) ==
    /\ pump[s] = "on"
    /\ peer[s] = "open"
    /\ ~shut[s]
    /\ frames[s] < MaxFrames
    /\ frames' = [frames EXCEPT ![s] = @ + 1]
    /\ inbox' = [inbox EXCEPT ![s] = Append(@, Event)]
    /\ UNCHANGED <<taskVars, peer, shut, pump, recordVars, sessionVars, live>>

PumpStopsSilently(s) ==                                            \* mutant
    /\ pump' = [pump EXCEPT ![s] = "done"]
    /\ shut' = [shut EXCEPT ![s] = TRUE]
    /\ peer' = [peer EXCEPT ![s] = "gone"]
    /\ UNCHANGED <<frames, inbox>>

\* _pump's finally: mark the transport closed and wake one recv_event.
PumpStops(s) ==
    /\ pump' = [pump EXCEPT ![s] = "done"]
    /\ shut' = [shut EXCEPT ![s] = TRUE]
    /\ inbox' = [inbox EXCEPT ![s] = Append(@, Sentinel)]
    /\ peer' = [peer EXCEPT ![s] = "gone"]
    /\ UNCHANGED frames

PumpSeesDisconnect(s) ==
    /\ pump[s] = "on"
    /\ peer[s] = "gone"
    /\ PumpStops(s)
    /\ UNCHANGED <<taskVars, recordVars, sessionVars, live>>

\* A frame over the event budget closes the socket with 1013.
PumpRefusesFrame(s) ==
    /\ pump[s] = "on"
    /\ peer[s] = "open"
    /\ PumpStops(s)
    /\ UNCHANGED <<taskVars, recordVars, sessionVars, live>>

\* The rest of AppSession.close: tear down the current transport.
CloseTransport(x) ==
    /\ status[x] = "closing"
    /\ status' = [status EXCEPT ![x] = "closed"]
    /\ LET t == pipe[x] IN
        \/ pump[t] = "on" /\ PumpStops(t)
        \/ /\ pump[t] # "on"
           /\ shut' = [shut EXCEPT ![t] = TRUE]
           /\ peer' = [peer EXCEPT ![t] = "gone"]
           /\ UNCHANGED <<frames, inbox, pump>>
    /\ UNCHANGED <<taskVars, recordVars, pipe, live>>

-----------------------------------------------------------------------------
(* The resume window: call_later, then a task of its own.                  *)

\* The task a timer spawns runs within a turn of the event loop, and a window
\* is many turns: it has run before another window under that id runs out.
TimerFires(x) ==
    /\ armed[x] # NoTimer
    /\ \A e \in expiring : e[1] # ask[x]
    /\ expiring' = expiring \cup {<<ask[x], armed[x]>>}
    /\ CancelExpiry(x)
    /\ UNCHANGED <<taskVars, wireVars, rec, gen, sessionVars, live>>

ExpireWs(id, t) ==
    /\ <<id, t>> \in expiring
    /\ expiring' = expiring \ {<<id, t>>}
    /\ LET x == rec[id] IN
        \/ /\ HoldsToken(x, t)
           /\ Forget(id)
           /\ Uncount
           /\ Retire(x)
        \/ /\ ~HoldsToken(x, t)
           /\ UNCHANGED <<rec, live, status>>
    /\ UNCHANGED <<taskVars, wireVars, gen, armed, pipe>>

-----------------------------------------------------------------------------

\* What the server itself runs for one socket.
Serve(s) ==
    \/ AcceptFails(s) \/ Claim(s) \/ Open(s)
    \/ Mounted(s) \/ MountFails(s)
    \/ Resumed(s) \/ ResumeFails(s)
    \/ ReceiveEvent(s) \/ ReceiveSentinel(s) \/ FinishHandler(s)

Next ==
    \/ \E s \in Sockets, id \in Ids \cup {NoId} : Upgrade(s, id)
    \/ \E s \in Sockets : Serve(s)
    \/ \E s \in Sockets : Disconnect(s) \/ PumpEvent(s) \/ PumpRefusesFrame(s)
    \/ \E s \in Sockets : PumpSeesDisconnect(s)
    \/ \E x \in Sockets : CloseTransport(x) \/ TimerFires(x)
    \/ \E e \in expiring : ExpireWs(e[1], e[2])

Spec == Init /\ [][Next]_vars

\* The event loop runs every ready task and timer; handlers return; a
\* disconnect the kernel reports is seen.  Browsers owe the server nothing.
Fairness ==
    /\ \A s \in Sockets : WF_vars(Serve(s)) /\ WF_vars(PumpSeesDisconnect(s))
    /\ \A x \in Sockets : WF_vars(CloseTransport(x)) /\ WF_vars(TimerFires(x))
    /\ WF_vars(\E e \in expiring : ExpireWs(e[1], e[2]))

FairSpec == Spec /\ Fairness
-----------------------------------------------------------------------------
(* Properties.                                                             *)

TypeOK ==
    /\ phase \in [Sockets -> Phases]
    /\ ask \in [Sockets -> Ids \cup {NoId}]
    /\ serves \in [Sockets -> Sockets \cup {None}]
    /\ token \in [Sockets -> Nat]
    /\ reads \in [Sockets -> Sockets \cup {None}]
    /\ bridge \in [Sockets -> Sockets \cup {None}]
    /\ peer \in [Sockets -> {"open", "gone"}]
    /\ frames \in [Sockets -> 0..MaxFrames]
    /\ inbox \in [Sockets -> Seq({Event, Sentinel})]
    /\ shut \in [Sockets -> BOOLEAN]
    /\ pump \in [Sockets -> {"off", "on", "done"}]
    /\ rec \in [Ids -> Sockets \cup {None}]
    /\ gen \in [Sockets -> Nat]
    /\ armed \in [Sockets -> Nat \cup {NoTimer}]
    /\ expiring \subseteq (Ids \X Nat)
    /\ status \in [Sockets -> {"unborn", "open", "closing", "closed"}]
    /\ pipe \in [Sockets -> Sockets \cup {None}]
    /\ live \in Int

\* A session is only ever served to the principal that opened it, however the
\* handshakes of two principals naming one id interleave: ownership is read
\* before accept() suspends and again when the claim is made.
ServedToItsOwner ==
    \A s \in Sockets : serves[s] # None => Cred[s] = Cred[serves[s]]

\* An armed expiry timer carries the newest generation of its session: a claim
\* never leaves the window of the socket it replaced open behind it.
ArmedTimerIsCurrent ==
    \A x \in Sockets : armed[x] # NoTimer => armed[x] = gen[x]

\* What the registry offers for resuming is an open session, never one that
\* has begun to close (with the resume window on).
RegisteredIsOpen ==
    Resumable => \A id \in Ids : rec[id] # None => status[rec[id]] = "open"

\* The connection count never exceeds the sessions that are really open, so a
\* browser is never refused for capacity that nobody uses.
LiveNeverOvercounts == live <= Cardinality(OpenSessions)

\* The connection count is the number of open sessions.
LiveIsExact == live = Cardinality(OpenSessions)

\* SecurityConfig.max_connections bounds the live sessions.
CapHolds == live <= Cap

\* No two endpoint coroutines run a handler of one session at a time (serial
\* dispatch: concurrent_dispatch is off).
SerialDispatch ==
    \A s, r \in Sockets :
        phase[s] = "handling" /\ phase[r] = "handling" /\ serves[s] = serves[r]
            => s = r

\* A handler runs in a context that carries the native bridge of its own
\* session: await native.*() reaches the browser it serves.
HandlerHasItsBridge ==
    \A s \in Sockets : phase[s] = "handling" => bridge[s] = serves[s]

\* A browser is connected to session x: the session sends to its socket, the
\* socket is up, and its endpoint is still running.
Connected(x) ==
    \E s \in Sockets :
        pipe[x] = s /\ serves[s] = x /\ peer[s] = "open" /\ phase[s] # "done"

\* A resume window that runs out retires an orphan, never a session whose
\* newest socket is connected.
OnlyOrphansExpire ==
    [][\A id \in Ids :
          rec[id] # None /\ rec'[id] = None => ~Connected(rec[id])]_vars

\* Only a live session refuses another principal its id.
RefusalsNameLiveSessions ==
    \A id \in Ids : rec[id] # None => status[rec[id]] = "open"

\* The moment a socket takes a session over, no window opened before can retire
\* it: neither an armed timer nor an expiry task already spawned.
ClaimVoidsWindows ==
    [][\A s \in Sockets :
          phase[s] = "accepting" /\ phase'[s] = "resuming" =>
             LET x == serves'[s]
             IN armed'[x] = NoTimer /\ <<ask[s], gen'[x]>> \notin expiring']_vars

\* An open session that no browser is connected to.
Pinned(x) == status[x] = "open" /\ ~Connected(x)

\* A session nobody comes back for is closed: none stays pinned for ever.
NothingStaysPinned == \A x \in Sockets : []<>~Pinned(x)

\* An id is orphaned while a window is open on its session, or has just run
\* out and its expiry task is about to run.
Mode(id) ==
    LET x == rec[id] IN
    IF x = None THEN "free"
    ELSE IF armed[x] # NoTimer \/ <<id, gen[x]>> \in expiring THEN "orphaned"
    ELSE "attached"

Promise == INSTANCE ResumableSession WITH
    Sessions <- Sockets,
    mode <- [id \in Ids |-> Mode(id)],
    current <- rec,
    retired <- {x \in Sockets : /\ ask[x] # NoId
                                /\ status[x] \in {"closing", "closed"}}

\* The registry of app.py, with its tokens and timers, keeps the promise of
\* resuming: one session per id, found again on every return in the window.
KeepsThePromise == Promise!Spec
=============================================================================
