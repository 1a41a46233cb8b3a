----------------------------- MODULE SseWorkers -----------------------------
(***************************************************************************)
(* One SSE page served by several workers: the stream that opens on one of *)
(* them, the clicks that are posted to any, and RedisSessionRouter         *)
(* (server/sessions.py) between the two, with the endpoints that use it    *)
(* (server/app.py) and the page's transport (client/transport-sse.js).     *)
(*                                                                         *)
(* A stream is a GET of the page; a session is named by the stream that    *)
(* made it.  Every worker has a registry of its own, of which one entry    *)
(* matters: that of the page's id.  What a stream carries, replay and      *)
(* admission are in SseSessions, which is about one worker.                *)
(***************************************************************************)
EXTENDS Integers, Sequences, Functions

CONSTANTS
    Workers,
    MaxStreams,  \* bound: GETs the page makes
    MaxClicks,   \* bound: events the user makes
    MaxOutbox,   \* MAX_OUTBOX
    Habits       \* the deployments of Quirks to look at

ASSUME WorkersAssumption ==
    /\ MaxStreams \in Nat /\ MaxClicks \in Nat /\ MaxOutbox \in Nat \ {0}

\* roams: the page may come back to another worker before the first notices it
\* left.  hasty: a GET may meet another one binding, or a session closing.
\* fails: a call to Redis may raise.  aborts: a GET the page gives up may be over
\* before its body is first read, or while it drops the session.
Quirks == {"roams", "hasty", "fails", "aborts"}
ASSUME HabitsAssumption == Habits \subseteq SUBSET Quirks

VARIABLES
    habit,
    record,   \* each worker: TempestWebServer._sse_sessions, the session under the id
    stream,   \* each GET: its state, worker, session, stream_token
    session,  \* each session: its state, stream_token, run task, teardown, the stream
              \* that reads it, whether an aborted GET is what drops it
    channel,  \* each session's subscription, and whether something reads it
    got,      \* each session's clicks: published to it, in its queue, handled
    follows,  \* the stream the page's EventSource follows
    isOpen,   \* transport-sse.js streamOpen
    outbox,   \* transport-sse.js outbox
    post      \* each click: where it got to

registry == <<record, stream, session, channel>>
page == <<follows, isOpen, outbox>>
workersVars == <<habit, registry, got, page, post>>

Nobody == 0
Streams == 1..MaxStreams
Clicks == 1..MaxClicks
Made(g) == stream[g].state /= "none"

WorkersInit ==
    /\ habit \in Habits
    /\ record = [w \in Workers |-> Nobody]
    /\ stream = [g \in Streams |->
                   [state |-> "none", at |-> Nobody, of |-> Nobody, token |-> 0]]
    /\ session = [s \in Streams |->
                    [state |-> "none", token |-> 0, task |-> "none", bound |-> FALSE,
                     reader |-> Nobody, aborted |-> FALSE]]
    /\ channel = [s \in Streams |-> [subscribed |-> FALSE, read |-> FALSE]]
    /\ got = [s \in Streams |-> [published |-> <<>>, queue |-> <<>>, handled |-> <<>>]]
    /\ follows = Nobody /\ isOpen = FALSE /\ outbox = <<>>
    /\ post = [n \in Clicks |-> "none"]

-----------------------------------------------------------------------------
(* Opening: _open_sse and bind.                                            *)

\* No GET is binding and no session is on its way out.
Still ==
    \A s \in Streams : /\ stream[s].state /= "binding" /\ session[s].state /= "leaving"
                       /\ session[s].state = "closed" => session[s].task /= "running"

MakeSession(g, w) ==
    /\ record' = [record EXCEPT ![w] = g]
    /\ session' = [session EXCEPT ![g].state = "kept"]
    /\ stream' = [stream EXCEPT ![g] = [@ EXCEPT !.state = "binding", !.at = w, !.of = g]]

\* The stream takes the session over.
TakeOver(g, w) == LET s == record[w] IN
    /\ session' = [session EXCEPT ![s].token = @ + 1]
    /\ stream' = [stream EXCEPT ![g] =
                    [state |-> "opened", at |-> w, of |-> s, token |-> session[s].token + 1]]
    /\ UNCHANGED record

\* The EventSource of the page, or of the page reloaded, connects.
Connect(w) ==
    /\ follows = Nobody
    /\ "roams" \in habit \/ \A v \in Workers \ {w} : record[v] = Nobody
    /\ "hasty" \in habit \/ Still
    /\ \E g \in Streams :
         /\ ~Made(g) /\ \A h \in 1..(g - 1) : Made(h)
         /\ follows' = g
         /\ IF record[w] = Nobody THEN MakeSession(g, w) ELSE TakeOver(g, w)
    /\ UNCHANGED <<habit, channel, got, isOpen, outbox, post>>

SubscribeUnread(g) == channel' = [channel EXCEPT ![g] = [subscribed |-> TRUE, read |-> FALSE]]
Subscribe(g) == channel' = [channel EXCEPT ![g] = [subscribed |-> TRUE, read |-> TRUE]]

\* bind subscribed: only now are its teardown and the session's task there, and
\* only now is the stream's token taken.
Bound(g) ==
    /\ stream[g].state = "binding"
    /\ Subscribe(g)
    /\ session' = [session EXCEPT ![g].bound = TRUE, ![g].task = "running", ![g].token = @ + 1]
    /\ stream' = [stream EXCEPT ![g].state = "opened", ![g].token = session[g].token + 1]
    /\ UNCHANGED <<habit, record, got, page, post>>

\* The GET fails, which the page's EventSource takes for good; the record stays.
BindFails(g) ==
    /\ "fails" \in habit /\ stream[g].state = "binding"
    /\ stream' = [stream EXCEPT ![g].state = "failed"]
    /\ UNCHANGED <<habit, record, session, channel, got, page, post>>

-----------------------------------------------------------------------------
(* The body of the response: SSETransport.stream within body().            *)

\* Its first read, which retires the stream that was reading before.
Reads(g) ==
    /\ stream[g].state = "opened"
    /\ stream' = [stream EXCEPT ![g].state = "open"]
    /\ session' = [session EXCEPT ![stream[g].of].reader = g]
    /\ UNCHANGED <<habit, record, channel, got, page, post>>

\* The page gave it up before: a generator that was never started runs no finally,
\* and nothing releases the session.
Abandons(g) ==
    /\ "aborts" \in habit
    /\ stream[g].state = "opened" /\ follows /= g
    /\ stream' = [stream EXCEPT ![g].state = "abandoned"]
    /\ UNCHANGED <<habit, record, session, channel, got, page, post>>

-----------------------------------------------------------------------------
(* Dropping: _release_sse, _drop_sse and the teardown bind returned.       *)

DropRecord(w, aborted) == record' = [record EXCEPT ![w] = Nobody] /\ UNCHANGED <<session, channel>>
\* _drop_sse up to its first await: the session's reader is cancelled.
Drop(w, aborted) == LET s == record[w] IN
    IF s = Nobody THEN UNCHANGED <<record, session, channel>>
    ELSE /\ record' = [record EXCEPT ![w] = Nobody]
         /\ session' = [session EXCEPT
              ![s].state = IF @ = "kept" /\ session[s].bound THEN "leaving" ELSE "closed",
              ![s].aborted = aborted]
         /\ channel' = [channel EXCEPT ![s].read = FALSE]

Unsubscribe(s) == channel' = [channel EXCEPT ![s] = [subscribed |-> FALSE, read |-> FALSE]]

TornDown(s) ==
    /\ session[s].state = "leaving"
    /\ session' = [session EXCEPT ![s].state = "closed"]
    /\ Unsubscribe(s)
    /\ UNCHANGED <<habit, record, stream, got, page, post>>

\* unsubscribe raises.  Its connection is closed all the same, and neither the
\* transport nor the session is.
TeardownFails(s) ==
    /\ "fails" \in habit /\ session[s].state = "leaving"
    /\ session' = [session EXCEPT ![s].state = "forgotten"]
    /\ channel' = [channel EXCEPT ![s] = [subscribed |-> FALSE, read |-> FALSE]]
    /\ UNCHANGED <<habit, record, stream, got, page, post>>

\* The request that drops the session is being cancelled, and the await of its
\* teardown with it: the transport and the session are not closed, and its
\* connection to Redis may stay.
TeardownCut(s) ==
    /\ "aborts" \in habit /\ session[s].state = "leaving" /\ session[s].aborted
    /\ session' = [session EXCEPT ![s].state = "forgotten"]
    /\ \/ UNCHANGED channel
       \/ Unsubscribe(s)
    /\ UNCHANGED <<habit, record, stream, got, page, post>>

\* _run_sse: the task of a closed session ends, and drops what is under its id.
TaskUnwinds(s) ==
    /\ session[s].state = "closed" /\ session[s].task = "running"
    /\ LET w == stream[s].at o == record[w] IN
         /\ record' = [record EXCEPT ![w] = Nobody]
         /\ session' = [r \in Streams |->
              IF r = s THEN [session[s] EXCEPT !.task = "done"]
              ELSE IF r = o
              THEN [session[o] EXCEPT !.state = IF session[o].bound THEN "leaving" ELSE "closed"]
              ELSE session[r]]
         /\ channel' = IF o = Nobody THEN channel ELSE [channel EXCEPT ![o].read = FALSE]
    /\ UNCHANGED <<habit, stream, got, page, post>>

\* Streams nobody reads, of a closed session, or replaced on their transport.
Over(g) == \/ follows /= g
           \/ session[stream[g].of].state = "closed"
           \/ session[stream[g].of].reader /= g

\* _release_sse: not if a newer stream took the session over.
Owner(g) == LET s == record[stream[g].at] IN s /= Nobody /\ session[s].token = stream[g].token

Ends(g) ==
    /\ stream[g].state = "open" /\ Over(g)
    /\ stream' = [stream EXCEPT ![g].state = "ended"]
    /\ follows' = IF follows = g THEN Nobody ELSE follows
    /\ isOpen' = (isOpen /\ follows /= g)
    /\ IF Owner(g) THEN Drop(stream[g].at, follows /= g) ELSE UNCHANGED <<record, session, channel>>
    /\ UNCHANGED <<habit, got, outbox, post>>

-----------------------------------------------------------------------------
(* The page.                                                               *)

Flushed == [n \in Clicks |-> IF post[n] = "buffered" THEN "sent" ELSE post[n]]

\* The stream's headers arrive: what was buffered is posted.
Opens ==
    /\ follows /= Nobody /\ ~isOpen /\ stream[follows].state \in {"opened", "open"}
    /\ isOpen' = TRUE /\ outbox' = <<>> /\ post' = Flushed
    /\ UNCHANGED <<habit, registry, got, follows>>

\* The connection fails: the EventSource will connect again, and the server is
\* yet to notice.
Breaks ==
    /\ follows /= Nobody /\ stream[follows].state /= "failed"
    /\ isOpen \/ habit \cap {"hasty", "aborts"} /= {}
    /\ follows' = Nobody /\ isOpen' = FALSE
    /\ UNCHANGED <<habit, registry, got, outbox, post>>

\* The user reloads the page, or leaves it.
Reload ==
    /\ follows /= Nobody
    /\ isOpen \/ habit \cap {"hasty", "aborts"} /= {} \/ stream[follows].state = "failed"
    /\ follows' = Nobody /\ isOpen' = FALSE /\ outbox' = <<>>
    /\ post' = [n \in Clicks |-> IF post[n] = "buffered" THEN "dropped" ELSE post[n]]
    /\ UNCHANGED <<habit, registry, got>>

\* At the cap the oldest is dropped.
Buffered(n) == Append(IF Len(outbox) >= MaxOutbox THEN Tail(outbox) ELSE outbox, n)

\* sendEvent
Click(n) ==
    /\ post[n] = "none" /\ \A m \in 1..(n - 1) : post[m] /= "none"
    /\ outbox' = IF isOpen THEN outbox ELSE Buffered(n)
    /\ post' = [m \in Clicks |->
                 IF m = n THEN (IF isOpen THEN "sent" ELSE "buffered")
                 ELSE IF post[m] = "buffered" /\ m \notin Range(outbox') THEN "dropped" ELSE post[m]]
    /\ UNCHANGED <<habit, registry, got, follows, isOpen>>

-----------------------------------------------------------------------------
(* A post, at any worker: sse_post, _handle_sse_post and deliver.          *)

FeedAndPublish(s, n) ==
    got' = [got EXCEPT ![s].queue = Append(@, n)] /\ post' = [post EXCEPT ![n] = "publishing"]
FeedLocal(s, n) ==
    got' = [got EXCEPT ![s].queue = Append(@, n)] /\ post' = [post EXCEPT ![n] = "taken"]

Post(n, w) ==
    /\ post[n] = "sent"
    /\ IF record[w] /= Nobody THEN FeedLocal(record[w], n)
       ELSE post' = [post EXCEPT ![n] = "publishing"] /\ UNCHANGED got
    /\ UNCHANGED <<habit, registry, page>>

Answer(receivers) == IF receivers = {} THEN "refused" ELSE "taken"

\* Redis hands the click to every subscriber, and counts them.
Publish(n) == LET receivers == {s \in Streams : channel[s].subscribed} IN
    /\ post[n] = "publishing"
    /\ got' = [s \in Streams |-> IF s \in receivers
                 THEN [got[s] EXCEPT !.published = Append(@, n)] ELSE got[s]]
    /\ post' = [post EXCEPT ![n] = Answer(receivers)]
    /\ UNCHANGED <<habit, registry, page>>

\* bind's reader.
Feed(s) ==
    /\ got[s].published /= <<>> /\ channel[s].read
    /\ got' = [got EXCEPT ![s].published = Tail(@),
                         ![s].queue = Append(@, Head(got[s].published))]
    /\ UNCHANGED <<habit, registry, page, post>>

\* The session's serve loop.
Handle(s) ==
    /\ got[s].queue /= <<>>
    /\ session[s].task = "running" /\ session[s].state /= "closed"
    /\ got' = [got EXCEPT ![s].queue = Tail(@),
                         ![s].handled = Append(@, Head(got[s].queue))]
    /\ UNCHANGED <<habit, registry, page, post>>

-----------------------------------------------------------------------------
BindEnds(g) == Bound(g) \/ BindFails(g)
BodyBegins(g) == Reads(g) \/ Abandons(g)
TeardownEnds(s) == TornDown(s) \/ TeardownFails(s) \/ TeardownCut(s)
PostEnds(n) == Publish(n) \/ \E w \in Workers : Post(n, w)

WorkersNext ==
    \/ Opens \/ Breaks \/ Reload
    \/ \E w \in Workers : Connect(w)
    \/ \E g \in Streams : BindEnds(g) \/ BodyBegins(g) \/ Ends(g) \/ TeardownEnds(g) \/ TaskUnwinds(g)
    \/ \E s \in Streams : Feed(s) \/ Handle(s)
    \/ \E n \in Clicks : Click(n) \/ PostEnds(n)

WorkersSpec == WorkersInit /\ [][WorkersNext]_workersVars

\* Redis answers, requests are served, a stream nobody reads is noticed (its
\* pings fail), and tasks run.  The user need do nothing.
WorkersFairness ==
    /\ WF_workersVars(Opens)
    /\ \A g \in Streams : /\ WF_workersVars(BindEnds(g)) /\ WF_workersVars(BodyBegins(g))
                          /\ WF_workersVars(Ends(g))
                          /\ WF_workersVars(TeardownEnds(g)) /\ WF_workersVars(TaskUnwinds(g))
                          /\ WF_workersVars(Feed(g)) /\ WF_workersVars(Handle(g))
    /\ \A n \in Clicks : WF_workersVars(PostEnds(n))

WorkersFairSpec == WorkersSpec /\ WorkersFairness

-----------------------------------------------------------------------------
(* Properties.                                                             *)

StreamRecords == [state : {"none", "binding", "opened", "open", "ended", "failed", "abandoned"},
                  at : Workers \cup {Nobody}, of : {Nobody} \cup Streams, token : Nat]
SessionRecords == [state : {"none", "kept", "leaving", "closed", "forgotten"},
                   token : Nat, task : {"none", "running", "done"}, bound : BOOLEAN,
                   reader : {Nobody} \cup Streams, aborted : BOOLEAN]
Subscriptions == [subscribed : BOOLEAN, read : BOOLEAN]
Queues == [published : Seq(Clicks), queue : Seq(Clicks), handled : Seq(Clicks)]
PostStates == {"none", "buffered", "dropped", "sent", "publishing", "taken", "refused"}

\* The types of the registries, of the streams and of what the page holds.
WorkersTypes ==
    /\ habit \subseteq Quirks
    /\ record \in [Workers -> {Nobody} \cup Streams]
    /\ stream \in [Streams -> StreamRecords]
    /\ session \in [Streams -> SessionRecords]
    /\ channel \in [Streams -> Subscriptions]
    /\ got \in [Streams -> Queues]
    /\ follows \in {Nobody} \cup Streams /\ isOpen \in BOOLEAN
    /\ outbox \in Seq(Clicks) /\ Len(outbox) <= MaxOutbox
    /\ post \in [Clicks -> PostStates]

\* RedisSessionRouter.deliver: a click that is answered 204 was given to a session.
AnsweredIsTaken == [][\A n \in Clicks :
    post[n] /= "taken" /\ post'[n] = "taken" =>
        \E s \in Streams : n \in Range(got'[s].published \o got'[s].queue)]_workersVars

\* A page that comes back where it was, or once that worker noticed, has each
\* of its clicks handled once, wherever they are posted.
ClickOnce == "roams" \notin habit =>
    \A s, o \in Streams : \A i \in 1..Len(got[s].handled), j \in 1..Len(got[o].handled) :
        got[s].handled[i] = got[o].handled[j] => s = o /\ i = j

\* bind and _drop_sse: no subscription outlives the session it feeds, if no
\* session is dropped while it binds, but that of a teardown that was cut.
NoGhost == "hasty" \notin habit => \A s \in Streams :
    channel[s].subscribed =>
        \/ session[s].state \in {"kept", "leaving"}
        \/ session[s].state = "forgotten" /\ "aborts" \in habit

\* transport-sse.js, sendEvent: a click that arrives while the page's stream is
\* open and its session kept is never refused, whatever the other workers hold.
NeverRefused == [][habit \cap {"hasty", "fails"} = {} =>
    \A n \in Clicks : post[n] /= "refused" /\ post'[n] = "refused" =>
        ~(isOpen /\ session[stream[follows].of].state = "kept")]_workersVars

\* The session's task never came to be, or its drop was left half done: the stream
\* that reads it stays open.
Lost(s) == stream[s].state = "failed" \/ session[s].state = "forgotten"

\* A page that does not roam has every click it posts over an open stream handled
\* by the session on screen, unless it is refused, the stream ends or the session
\* is lost.
ReachesTheScreen == \A n \in Clicks :
    ("roams" \notin habit /\ post[n] = "sent" /\ isOpen)
        ~> (~isOpen \/ post[n] = "refused" \/ Lost(stream[follows].of)
                    \/ n \in Range(got[stream[follows].of].handled))

\* The last GET of the session never came to the release: it was given up before
\* its body was read, or its bind raised.
Stranded(s) == \E g \in Streams :
    stream[g].of = s /\ stream[g].token = session[s].token
                     /\ stream[g].state \in {"abandoned", "failed"}

\* _release_sse, _drop_sse: what no page follows any more is dropped on every
\* worker and its session ends, but for what an abort or Redis kept from it: the
\* release of a stranded session, the rest of a drop whose teardown did not return.
LeftIsDropped ==
    (\E w \in Workers : record[w] /= Nobody) /\ follows = Nobody
        ~> \/ follows /= Nobody
           \/ /\ \A w \in Workers : record[w] = Nobody \/ Stranded(record[w])
              /\ \A s \in Streams :
                    \/ session[s].state \in {"none", "closed"} /\ session[s].task /= "running"
                    \/ session[s].state = "forgotten"
                    \/ \E w \in Workers : record[w] = s

\* bind and deliver: a click is handled once, and no subscription is left that
\* would take one for a session that is gone.
RoutesHold == WorkersTypes /\ ClickOnce /\ NoGhost

\* sendEvent and deliver: a click is taken by a session when it is answered, is
\* not refused while its session is there, and reaches the handlers on screen.
ClicksArrive == AnsweredIsTaken /\ NeverRefused /\ ReachesTheScreen
=============================================================================
