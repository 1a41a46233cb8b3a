---------------------------- MODULE SseSessions ----------------------------
(***************************************************************************)
(* Server-Sent Events sessions of the Mode B server                        *)
(* (tempestweb/server/app.py, transports/sse.py) and the browser's end of  *)
(* them (client/transport-sse.js above the browser's EventSource).         *)
(*                                                                         *)
(* A page opens a stream for its session id; the server builds a session   *)
(* or lets the new stream take over the one it holds.  Outbound envelopes  *)
(* are numbered ticks in a bounded replay buffer that a stream reads       *)
(* through a cursor.  A tick carries the whole scene (a root replace) or a *)
(* patch that only fits the tree of the tick before it.                    *)
(*                                                                         *)
(* Streams are numbered in the order they are requested, and a session is  *)
(* named by the stream that created it.  One action is the code between    *)
(* two awaits that may suspend, with the in-process router.  Every request *)
(* of a page has the same principal.                                       *)
(***************************************************************************)
EXTENDS Integers, FiniteSets, Sequences

CONSTANTS
    MaxStreams,        \* bound: GET requests
    Ids,               \* session ids, one per page
    Cap,               \* SecurityConfig.max_connections
    ReplayBuffer,      \* SSETransport.replay_buffer
    MaxTicks,          \* bound: ticks per session
    MaxClicks,         \* bound: events the pages post
    SendWindow,        \* frames a connection holds before send() suspends
    PromptReconnect,   \* does a page come back before its drop is noticed
    FirstFrameArrives, \* does no connection drop before its first frame
    AuthSuspends,      \* may authenticating suspend (an async authenticate)
    PromptUnwind,      \* do closed sessions unwind before a new GET is served
    AbortBeforeBody,   \* may a request end before its body is first read
    ViewMayRaise       \* may the app's first render raise

Streams == 1..MaxStreams
None == 0

ASSUME ConstantsAssumption ==
    /\ MaxStreams \in Nat
    /\ Cap \in Nat
    /\ ReplayBuffer \in Nat \ {0}
    /\ MaxTicks \in Nat
    /\ MaxClicks \in Nat
    /\ SendWindow \in Nat \ {0}

VARIABLES
    conn,     \* the stream a page's EventSource is connected to
    lastId,   \* the last event id it received; 0 before the first
    tree,     \* what the page shows: [of: session, at: tick], or torn
    clicks,   \* events posted so far
    page,     \* the session id each stream names
    phase,    \* where the request is suspended
    isNew,    \* new_session, as read before authenticating
    serves,   \* the session a stream reads
    token,    \* its stream_token
    mine,     \* its generation of SSETransport.stream
    cursor,   \* last_event_id, then the cursor of the stream
    batch,    \* SSETransport.stream's pending list
    wire,     \* frames sent and not received
    peer,     \* "open" while the browser holds the connection
    rec,      \* TempestWebServer._sse_sessions
    live,     \* TempestWebServer._live
    tokens,   \* _SSESession.stream_token
    history,  \* SSETransport._history
    nextId,   \* SSETransport._next_id
    newest,   \* SSETransport._stream_generation
    shut,     \* SSETransport._closed
    inbox,    \* SSETransport._events
    run,      \* the _run_sse task
    closed    \* AppSession._closed

pageVars    == <<conn, lastId, tree, clicks>>
requestVars == <<page, phase, isNew, serves, token>>
streamVars  == <<mine, cursor, batch>>
netVars     == <<wire, peer>>
recordVars  == <<rec, live, tokens>>
tickVars    == <<history, nextId>>
endVars     == <<shut, inbox, closed>>
vars == <<pageVars, requestVars, streamVars, netVars, recordVars, tickVars,
          newest, endVars, run>>

Blank == [of |-> None, at |-> 0]
Torn == [of |-> None, at |-> 1]
Dead == -1                       \* EventSource failed for good
Click == "click"
Resync == "resync"
Sentinel == "sentinel"

Init ==
    /\ conn = [i \in Ids |-> None]
    /\ lastId = [i \in Ids |-> 0]
    /\ tree = [i \in Ids |-> Blank]
    /\ clicks = 0
    /\ page \in [Streams -> Ids]
    /\ phase = [k \in Streams |-> "idle"]
    /\ isNew = [k \in Streams |-> FALSE]
    /\ serves = [k \in Streams |-> None]
    /\ token = [k \in Streams |-> 0]
    /\ mine = [k \in Streams |-> 0]
    /\ cursor = [k \in Streams |-> 0]
    /\ batch = [k \in Streams |-> <<>>]
    /\ wire = [k \in Streams |-> <<>>]
    /\ peer = [k \in Streams |-> "open"]
    /\ rec = [i \in Ids |-> None]
    /\ live = 0
    /\ tokens = [x \in Streams |-> 0]
    /\ history = [x \in Streams |-> <<>>]
    /\ nextId = [x \in Streams |-> 0]
    /\ newest = [x \in Streams |-> 0]
    /\ shut = [x \in Streams |-> FALSE]
    /\ inbox = [x \in Streams |-> <<>>]
    /\ run = [x \in Streams |-> "none"]
    /\ closed = [x \in Streams |-> FALSE]

-----------------------------------------------------------------------------
(* SSETransport: the replay buffer.                                        *)

Ticks == [id : Nat, root : BOOLEAN]

Newest(q, n) == SubSeq(q, Len(q) - n + 1, Len(q))

\* _enqueue: number the envelope, buffer it, evict past the limit.
Enqueue(x, root) ==
    LET grown == Append(history[x], [id |-> nextId[x] + 1, root |-> root]) IN
    /\ nextId' = [nextId EXCEPT ![x] = @ + 1]
    /\ history' = [history EXCEPT ![x] =
                      IF Len(grown) > ReplayBuffer THEN Newest(grown, ReplayBuffer)
                                                   ELSE grown]

MissedNever(x, last) == FALSE                                      \* mutant
\* missed_since: the buffer no longer covers everything after last.
MissedSince(x, last) ==
    /\ last < nextId[x]
    /\ history[x] = <<>> \/ Head(history[x]).id > last + 1

\* What is buffered past an id: the buffer is in the order of its ids, so it is
\* the end of it, from the first such tick on.
PastId(q, n) ==
    LET past == {j \in 1..Len(q) : q[j].id > n} IN
    IF past = {} THEN <<>>
    ELSE SubSeq(q, CHOOSE j \in past : \A m \in past : j <= m, Len(q))

PendingAgain(k) == PastId(history[serves[k]], cursor[k] - 1)       \* mutant
PendingPast(k) == PastId(history[serves[k]], cursor[k] + 1)        \* mutant
Pending(k) == PastId(history[serves[k]], cursor[k])

\* A stream goes on while nobody retired it and the transport is open.
Current(k) == ~shut[serves[k]] /\ mine[k] = newest[serves[k]]

\* The last tick a stream has taken out of the buffer.
Taken(k) == IF batch[k] = <<>> THEN cursor[k] ELSE batch[k][Len(batch[k])].id

\* A stream wakes within a turn of the event loop and takes what is pending,
\* unless send() holds it up: in one turn, less than a buffer is enqueued.
KeepsUp(x) ==
    Len(history[x]) = ReplayBuffer =>
        \A k \in Streams :
            /\ serves[k] = x
            /\ phase[k] = "opened" \/ (phase[k] = "streaming" /\ Current(k))
            /\ peer[k] = "open" /\ Len(wire[k]) < SendWindow
            => Taken(k) >= Head(history[x]).id

-----------------------------------------------------------------------------
(* Ending a session.                                                       *)

\* _drop_sse: forget the session under an id, close its transport and itself.
Drop(i) ==
    LET x == rec[i] IN
    IF x = None THEN UNCHANGED <<rec, live, endVars>>
    ELSE /\ rec' = [rec EXCEPT ![i] = None]
         /\ live' = live - 1
         /\ shut' = [shut EXCEPT ![x] = TRUE]
         /\ closed' = [closed EXCEPT ![x] = TRUE]
         /\ inbox' = [inbox EXCEPT ![x] = Append(@, Sentinel)]

ReleaseAlways(i, t) == Drop(i)                                     \* mutant
\* _release_sse: unless a newer stream has taken the session over.
Release(i, t) ==
    IF rec[i] # None /\ tokens[rec[i]] # t THEN UNCHANGED <<rec, live, endVars>>
                                           ELSE Drop(i)

-----------------------------------------------------------------------------
(* GET /sse.                                                               *)

\* EventSource waits seconds before it comes back: by then every task of its
\* earlier streams that was ready has run.  One that authenticates, and a
\* handler, may still be suspended.
Settled(i) ==
    \A j \in Streams : page[j] = i =>
        /\ phase[j] = "authorizing" => AuthSuspends
        /\ phase[j] # "opened"
        /\ run[j] # "spawned"
        /\ ~(run[j] = "receiving" /\ closed[j])

\* A page opens its stream: the server reads whether the id is new, then
\* authenticates, which may suspend.
Connect(k) ==
    LET i == page[k] IN
    /\ phase[k] = "idle"
    /\ \A j \in Streams : j < k => phase[j] # "idle"
    /\ Settled(i)
    /\ conn[i] = None
    /\ conn' = [conn EXCEPT ![i] = k]
    /\ cursor' = [cursor EXCEPT ![k] = lastId[i]]
    /\ isNew' = [isNew EXCEPT ![k] = rec[i] = None]
    /\ phase' = [phase EXCEPT ![k] = "authorizing"]
    /\ UNCHANGED <<lastId, tree, clicks, page, serves, token, mine, batch, netVars,
                   recordVars, tickVars, newest, endVars, run>>

AtCapacity == live >= Cap

\* new_session, which a request that never suspended has just read.
WasNew(k) == IF AuthSuspends THEN isNew[k] ELSE rec[page[k]] = None

\* Requests that do not suspend are admitted in order; with PromptUnwind, what
\* served a closed session has unwound by now.
MayServe(k) ==
    /\ phase[k] = "authorizing"
    /\ AuthSuspends \/ \A j \in Streams : j < k => phase[j] # "authorizing"
    /\ PromptUnwind => \A x \in Streams : closed[x] =>
        /\ run[x] = "done"
        /\ \A j \in Streams : serves[j] = x => phase[j] = "ended"

\* The cap only holds back an id that was new when the request arrived.  A
\* response other than 200 makes EventSource give up.
Refuse(k) ==
    /\ MayServe(k)
    /\ WasNew(k) /\ AtCapacity
    /\ phase' = [phase EXCEPT ![k] = "ended"]
    /\ conn' = [conn EXCEPT ![page[k]] = IF @ = k THEN Dead ELSE @]
    /\ UNCHANGED <<lastId, tree, clicks, page, isNew, serves, token, streamVars,
                   netVars, recordVars, tickVars, newest, endVars, run>>

\* _open_sse for an id the server holds no session under.
OpenNew(k) ==
    LET i == page[k] IN
    /\ MayServe(k)
    /\ ~(WasNew(k) /\ AtCapacity)
    /\ rec[i] = None
    /\ rec' = [rec EXCEPT ![i] = k]
    /\ live' = live + 1
    /\ run' = [run EXCEPT ![k] = "spawned"]
    /\ serves' = [serves EXCEPT ![k] = k]
    /\ tokens' = [tokens EXCEPT ![k] = 1]
    /\ token' = [token EXCEPT ![k] = 1]
    /\ phase' = [phase EXCEPT ![k] = "opened"]
    /\ UNCHANGED <<pageVars, page, isNew, streamVars, netVars, tickVars, newest,
                   endVars>>

\* _open_sse for a session it holds: a takeover.  A gap the buffer no longer
\* covers is answered with a resync, and the stream starts from there.
TakeOver(k) ==
    LET x == rec[page[k]] IN
    /\ MayServe(k)
    /\ ~(WasNew(k) /\ AtCapacity)
    /\ x # None
    /\ \/ /\ cursor[k] # 0 /\ MissedSince(x, cursor[k])
          /\ cursor' = [cursor EXCEPT ![k] = nextId[x]]
          /\ Enqueue(x, TRUE)
       \/ /\ ~(cursor[k] # 0 /\ MissedSince(x, cursor[k]))
          /\ UNCHANGED <<cursor, tickVars>>
    /\ serves' = [serves EXCEPT ![k] = x]
    /\ tokens' = [tokens EXCEPT ![x] = @ + 1]
    /\ token' = [token EXCEPT ![k] = tokens[x] + 1]
    /\ phase' = [phase EXCEPT ![k] = "opened"]
    /\ UNCHANGED <<pageVars, page, isNew, mine, batch, netVars, rec, live, newest,
                   endVars, run>>

-----------------------------------------------------------------------------
(* The response body: SSETransport.stream inside _open_sse's body().       *)

\* The first read of the body retires the stream before this one.
StartBody(k) ==
    LET x == serves[k] IN
    /\ phase[k] = "opened"
    /\ newest' = [newest EXCEPT ![x] = @ + 1]
    /\ mine' = [mine EXCEPT ![k] = newest[x] + 1]
    /\ phase' = [phase EXCEPT ![k] = "streaming"]
    /\ UNCHANGED <<pageVars, page, isNew, serves, token, cursor, batch, netVars,
                   recordVars, tickVars, endVars, run>>

\* The browser left before the body was first read: a generator that never
\* started runs no finally.
AbandonBody(k) ==
    /\ AbortBeforeBody
    /\ phase[k] = "opened"
    /\ peer[k] = "gone"
    /\ phase' = [phase EXCEPT ![k] = "ended"]
    /\ UNCHANGED <<pageVars, page, isNew, serves, token, streamVars, netVars,
                   recordVars, tickVars, newest, endVars, run>>

\* Yield one frame; what a browser that left does not read is lost.
Send(k, e) ==
    /\ wire' = [wire EXCEPT ![k] = IF peer[k] = "open" THEN Append(@, e) ELSE @]
    /\ cursor' = [cursor EXCEPT ![k] = e.id]

\* The top of the loop: take everything past the cursor and yield the first.
TakePending(k) ==
    /\ phase[k] = "streaming"
    /\ Len(wire[k]) < SendWindow
    /\ batch[k] = <<>> /\ Current(k) /\ Pending(k) # <<>>
    /\ Send(k, Head(Pending(k)))
    /\ batch' = [batch EXCEPT ![k] = Tail(Pending(k))]
    /\ UNCHANGED <<pageVars, requestVars, mine, peer, recordVars, tickVars, newest,
                   endVars, run>>

\* The rest of a batch already taken.
YieldNext(k) ==
    /\ phase[k] = "streaming"
    /\ Len(wire[k]) < SendWindow
    /\ batch[k] # <<>>
    /\ Send(k, Head(batch[k]))
    /\ batch' = [batch EXCEPT ![k] = Tail(@)]
    /\ UNCHANGED <<pageVars, requestVars, mine, peer, recordVars, tickVars, newest,
                   endVars, run>>

EndStream(k) ==
    /\ phase' = [phase EXCEPT ![k] = "ended"]
    /\ Release(page[k], token[k])
    /\ UNCHANGED <<pageVars, page, isNew, serves, token, streamVars, netVars, tokens,
                   tickVars, newest, run>>

\* Retired by a newer stream, or the transport closed.
StreamEnds(k) ==
    /\ phase[k] = "streaming"
    /\ batch[k] = <<>> /\ ~Current(k)
    /\ EndStream(k)

\* The write, or the disconnect listener, finds the browser gone.
DropNoticed(k) ==
    /\ phase[k] = "streaming"
    /\ peer[k] = "gone"
    /\ PromptReconnect =>
          \/ tokens[serves[k]] # token[k]
          \/ \A j \in Streams : phase[j] \notin {"idle", "authorizing"}
    /\ EndStream(k)

-----------------------------------------------------------------------------
(* The session task: _run_sse around AppSession.run.                       *)

\* start(): render the app and send the scene.
Mount(x) ==
    /\ run[x] = "spawned"
    /\ ~shut[x]
    /\ Enqueue(x, TRUE)
    /\ run' = [run EXCEPT ![x] = "receiving"]
    /\ UNCHANGED <<pageVars, requestVars, streamVars, netVars, recordVars, newest,
                   endVars>>

\* start() raised: the session closes itself, then is dropped.
MountFails(x) ==
    /\ run[x] = "spawned"
    /\ shut[x] \/ ViewMayRaise
    /\ run' = [run EXCEPT ![x] = "done"]
    /\ Drop(page[x])
    /\ UNCHANGED <<pageVars, requestVars, streamVars, netVars, tokens, tickVars,
                   newest>>

\* A rebuild flushes one batch of patches.
Rebuild(x) ==
    /\ run[x] \in {"receiving", "handling"}
    /\ ~closed[x]
    /\ nextId[x] < MaxTicks
    /\ KeepsUp(x)
    /\ Enqueue(x, FALSE)
    /\ UNCHANGED <<pageVars, requestVars, streamVars, netVars, recordVars, newest,
                   endVars, run>>

\* recv_event returns the next event.  A handler may suspend; a resync sends
\* the scene at once.
Receive(x) ==
    /\ run[x] = "receiving"
    /\ ~closed[x]
    /\ inbox[x] # <<>>
    /\ inbox' = [inbox EXCEPT ![x] = Tail(@)]
    /\ \/ /\ Head(inbox[x]) = Click
          /\ run' = [run EXCEPT ![x] = "handling"]
          /\ UNCHANGED tickVars
       \/ /\ Head(inbox[x]) = Resync
          /\ KeepsUp(x)
          /\ Enqueue(x, TRUE)
          /\ UNCHANGED run
    /\ UNCHANGED <<pageVars, requestVars, streamVars, netVars, recordVars, newest,
                   shut, closed>>

Handled(x) ==
    /\ run[x] = "handling"
    /\ ~closed[x]
    /\ run' = [run EXCEPT ![x] = "receiving"]
    /\ UNCHANGED <<pageVars, requestVars, streamVars, netVars, recordVars, tickVars,
                   newest, endVars>>

\* serve() sees the session closed and returns; _run_sse's finally drops
\* whatever session is registered under the id by now.
RunEnds(x) ==
    /\ run[x] \in {"receiving", "handling"}
    /\ closed[x]
    /\ run' = [run EXCEPT ![x] = "done"]
    /\ Drop(page[x])
    /\ UNCHANGED <<pageVars, requestVars, streamVars, netVars, tokens, tickVars,
                   newest>>

-----------------------------------------------------------------------------
(* The page: EventSource and transport-sse.js.                             *)

Lose(i) ==
    LET k == conn[i] IN
    /\ k \in Streams
    /\ FirstFrameArrives => lastId[i] # 0
    /\ conn' = [conn EXCEPT ![i] = None]
    /\ peer' = [peer EXCEPT ![k] = "gone"]
    /\ wire' = [wire EXCEPT ![k] = <<>>]
    /\ UNCHANGED <<lastId, tree, clicks, requestVars, streamVars, recordVars, tickVars,
                   newest, endVars, run>>

\* The response ended: EventSource reconnects.
EndOfStream(i) ==
    LET k == conn[i] IN
    /\ k \in Streams
    /\ phase[k] = "ended" /\ wire[k] = <<>>
    /\ conn' = [conn EXCEPT ![i] = None]
    /\ peer' = [peer EXCEPT ![k] = "gone"]
    /\ UNCHANGED <<lastId, tree, clicks, requestVars, streamVars, wire, recordVars,
                   tickVars, newest, endVars, run>>

Fits(e, shown, x) == e.root \/ shown = [of |-> x, at |-> e.id - 1]

\* The page applies a frame.  A patch that does not fit its tree leaves it
\* torn, whether or not applying it raised.
Show(i) ==
    LET k == conn[i] IN
    /\ k \in Streams
    /\ wire[k] # <<>>
    /\ LET e == Head(wire[k]) x == serves[k] IN
        /\ lastId' = [lastId EXCEPT ![i] = e.id]
        /\ tree' = [tree EXCEPT ![i] =
                        IF Fits(e, @, x) THEN [of |-> x, at |-> e.id] ELSE Torn]
    /\ wire' = [wire EXCEPT ![k] = Tail(@)]
    /\ UNCHANGED <<conn, clicks, requestVars, streamVars, peer, recordVars, tickVars,
                   newest, endVars, run>>

\* POST /sse/<id>: fed to the session under the id; 404 when there is none.
Post(i, event) ==
    /\ conn[i] \in Streams
    /\ phase[conn[i]] \in {"opened", "streaming"}
    /\ clicks < MaxClicks
    /\ clicks' = clicks + 1
    /\ inbox' = IF rec[i] = None THEN inbox
                ELSE [inbox EXCEPT ![rec[i]] = Append(@, event)]
    /\ UNCHANGED <<conn, lastId, tree, requestVars, streamVars, netVars, recordVars,
                   tickVars, newest, shut, closed, run>>

-----------------------------------------------------------------------------

\* What the server runs for one stream, and for one session.
Stream(k) ==
    \/ Refuse(k) \/ OpenNew(k) \/ TakeOver(k)
    \/ StartBody(k) \/ AbandonBody(k)
    \/ TakePending(k) \/ YieldNext(k) \/ StreamEnds(k)

Run(x) == Mount(x) \/ MountFails(x) \/ Receive(x) \/ Handled(x) \/ RunEnds(x)

Next ==
    \/ \E k \in Streams : Connect(k) \/ Stream(k) \/ DropNoticed(k)
    \/ \E x \in Streams : Run(x) \/ Rebuild(x)
    \/ \E i \in Ids : Lose(i) \/ EndOfStream(i) \/ Show(i)
    \/ \E i \in Ids, event \in {Click, Resync} : Post(i, event)

Spec == Init /\ [][Next]_vars

\* The event loop runs every ready task, handlers return, a lost connection
\* is noticed at the next heartbeat, and a connected page reads its stream.
Fairness ==
    /\ \A k \in Streams : WF_vars(Stream(k)) /\ WF_vars(DropNoticed(k))
    /\ \A x \in Streams : WF_vars(Run(x))
    /\ \A i \in Ids : WF_vars(Show(i)) /\ WF_vars(EndOfStream(i))

FairSpec == Spec /\ Fairness
-----------------------------------------------------------------------------
(* Properties.                                                             *)

Sessions == {x \in Streams : run[x] # "none"}

TypeOK ==
    /\ conn \in [Ids -> Streams \cup {None, Dead}]
    /\ lastId \in [Ids -> Nat]
    /\ tree \in [Ids -> [of : Streams \cup {None}, at : Nat]]
    /\ clicks \in Nat
    /\ page \in [Streams -> Ids]
    /\ phase \in [Streams -> {"idle", "authorizing", "opened", "streaming", "ended"}]
    /\ isNew \in [Streams -> BOOLEAN]
    /\ serves \in [Streams -> Streams \cup {None}]
    /\ token \in [Streams -> Nat]
    /\ mine \in [Streams -> Nat]
    /\ cursor \in [Streams -> Nat]
    /\ batch \in [Streams -> Seq(Ticks)] /\ wire \in [Streams -> Seq(Ticks)]
    /\ peer \in [Streams -> {"open", "gone"}]
    /\ rec \in [Ids -> Streams \cup {None}]
    /\ live \in Nat
    /\ tokens \in [Streams -> Nat]
    /\ history \in [Streams -> Seq(Ticks)]
    /\ nextId \in [Streams -> Nat]
    /\ newest \in [Streams -> Nat]
    /\ shut \in [Streams -> BOOLEAN]
    /\ inbox \in [Streams -> Seq({Click, Resync, Sentinel})]
    /\ run \in [Streams -> {"none", "spawned", "receiving", "handling", "done"}]
    /\ closed \in [Streams -> BOOLEAN]

\* What a page receives on a connection it has not received before, in order:
\* a reconnect neither repeats a tick nor reorders two.
NoTickTwice ==
    \A i \in Ids : conn[i] \in Streams =>
        LET q == wire[conn[i]] IN
        \A n \in DOMAIN q :
            q[n].id > (IF n = 1 THEN lastId[i] ELSE q[n - 1].id)

\* The registry holds exactly the sessions that are not closed, and the
\* connection count is their number: no session is lost track of.
OpenIsRegistered ==
    /\ {x \in Sessions : ~closed[x]} = {rec[i] : i \in Ids} \ {None}
    /\ live = Cardinality({x \in Sessions : ~closed[x]})

\* A page is sent nothing twice, and no open session is missing from the registry.
StreamsHold == TypeOK /\ NoTickTwice /\ OpenIsRegistered

\* A page never applies an index-relative patch to a tree it was not computed
\* against: whatever was missed was replayed or replaced by a full scene.
PatchFits == \A i \in Ids : tree[i] # Torn

\* A page that is streaming from an open session and does not show its last
\* tick.
Behind(i) ==
    /\ conn[i] \in Streams
    /\ LET k == conn[i] x == serves[k] IN
        /\ phase[k] = "streaming"
        /\ ~closed[x]
        /\ tree[i] # [of |-> x, at |-> nextId[x]]

\* A page that stays connected catches up with its session.
CatchesUp == \A i \in Ids : []<>~Behind(i)

\* A page is reading session x.
Attended(x) ==
    \E k \in Streams :
        /\ serves[k] = x
        /\ phase[k] = "opened" \/ (phase[k] = "streaming" /\ Current(k))
        /\ peer[k] = "open"

\* A session that mounted is dropped only when no page reads it: neither a
\* stream it replaced nor a session before it can tear it down.
OnlyUnattendedDropped ==
    [][\A i \in Ids :
          rec[i] # None /\ rec'[i] = None /\ run[rec[i]] # "spawned"
              => ~Attended(rec[i])]_vars

\* What a page is promised, with the scene of its session and the one it shows;
\* a torn page shows a scene the application never had.
SessionsOf(i) == {x \in Sessions : page[x] = i}
SceneOf(i) == IF SessionsOf(i) = {} THEN 0 ELSE nextId[CHOOSE x \in SessionsOf(i) : TRUE]
ShownOf(i) == IF tree[i] = Torn THEN SceneOf(i) + 1 ELSE tree[i].at
Mirror(i) == INSTANCE MirroredScene WITH scene <- SceneOf(i), shown <- ShownOf(i)

\* SecurityConfig.max_connections bounds the sessions.
CapHolds == live <= Cap

\* A session no page reads is dropped: none stays registered for ever.
NothingStaysPinned ==
    \A x \in Streams : []<>~(x \in Sessions /\ ~closed[x] /\ ~Attended(x))
=============================================================================
