# Formal models of tempestweb

tempestweb runs typed-Python user interfaces in a browser in three ways: Mode A
(Python in WebAssembly), Mode B (Python on a server, patches over WebSocket or
SSE) and Mode C (Python transpiled to JavaScript). Around that core it ships a
native-capability bridge, a query cache, an offline outbox with a service
worker, and a command line. This directory holds TLA+ models of its concurrent
parts, the TLC runs that check them and proofs of what holds for every size.

    tlc -workers 2 -config ws_takeover.cfg MCWsSessions.tla   # one run
    tlapm WsSessions_proofs.tla                               # its proofs

`PROJECT.json` lists the components, the runs, the source lines behind every
definition, the mutants each property catches, the hazards and the findings.
Paths below are relative to `tempestweb/` (Python) or to `client/`.

## 1. Inventory

### Mode B server

| part | state | operations | hard because |
|---|---|---|---|
| WebSocket sessions (`server/app.py` `ws_endpoint`, `_claim_ws`, `_release_ws`, `_expire_ws`; `transports/websocket.py`) | registry id -> session, generation, expiry timer, connection count; inbound queue and pump per socket | upgrade, claim, serve, release, expire, close | a session outlives its sockets; every await lets another socket, a timer or a close in |
| SSE sessions (`server/app.py` `_open_sse`, `_run_sse`, `_handle_sse_post`, `_release_sse`; `transports/sse.py`) | registry id -> session, stream token, buffer of envelopes, cursor | GET stream, POST event, takeover, release | events and patches travel on separate requests; replay by `Last-Event-ID` |
| `AppSession` (`runtime/session.py`) | the app, its transport, send lock, per-key dispatch locks, background tasks | start, serve, dispatch, patches, rebind, close | handlers overlap with sends, rebinds and close |
| security (`server/security.py`) | sliding windows per client | `allow`, sweep | rolling boundary, eviction |
| server observability (`observability/server.py`) | counters, histograms | observe | none: straight-line counting |
| web push (`server/webpush.py`) | stored subscriptions | subscribe, send, prune | subscriptions that die while a send is in flight |

The browser reaches the server through `client/transport-ws.js` (reconnecting
socket, outbox) or `client/transport-sse.js` (EventSource + POST). The server
calls `App.dispatch`, and the reconciler's patches come back through
`AppSession._send_patches`. `tempest_core` (the `App`, the reconciler) is a
dependency outside this repository.

With Redis, `server/sessions.py` (`RedisSessionRouter`) joins several workers: each
keeps a registry of its own and subscribes its sessions' channels; a POST that
lands elsewhere is published. Hard: a subscription outlives or precedes its
session, and two workers may hold one id.

### The page

| part | state | operations | hard because |
|---|---|---|---|
| browser transport (`transport-ws.js`, `transport-sse.js`, `wire.js`) | socket or stream, outbox, timer, pending resync | open, close, send, flush, decode | events made while nothing is open; frames that cannot be decoded |
| mount (`tempestweb.js`, `dom.js`) | tree of elements, overlay layer, pending resync | apply a batch, ask for a resync | a batch fits one tree only |
| reconciler (`transpile/diff.js`) | none | diff | every patch shifts the indices of the next |
| virtualized lists (`virtualize.js`, `dom.js`, `transpile/widget-support.js`) | window asked for, window rendered, spacer | scroll, slide, refresh | the page's and the application's windows cross |

### Native capabilities

`native/dispatch.py` and `native/bridges.py` send a call to the browser and
await its result: pending futures by id, a timeout, subscriptions with a
queue. `native/*.js` executes the calls. Hard: a late result after the
timeout, a rebind while a call is in flight, a subscription dropped on one side,
ids that start again in every process.

### Data and offline

| part | state | operations | hard because |
|---|---|---|---|
| query cache (`query/cache.py`, `optimistic.py`, `policy.py`) | entries by key, loads in flight, subscribers | fetch, invalidate, set, patch, rollback, collect | results land after an invalidation or a patch |
| offline outbox (`offline/sync.js`, `store.js`, `sw/sw.js`) | queued mutations in IndexedDB | enqueue, drain, delete, retry | page and service worker both drain; a crash between send and delete |
| pull sync (`offline/pull.js`, `sync-status.js`) | watermark, local rows | pull, merge, tombstone | a local edit during a merge |
| service worker (`sw/*`, `pwa/update-prompt.js`, `cli/commands/build.py`) | the registration's three slots, a cache per version, the banner | install, activate, take over, retire | releases overlap, pages of two versions are open |

### Compiler, renderers and tools

The transpiler (`transpile/`), the rest of the client runtime (`transpile/*.js`,
the widgets of `dom.js`), the HTML and spreadsheet exporters, the CLI, the
tabular and vision helpers are sequential: text, tables and numbers. They are
not modelled.

## 2. Plan

Done, in the order the parts matter to a user of Mode B and of offline data:

1. `WsSessions`, refining `ResumableSession`; proofs in `WsSessions_proofs`.
2. `SseSessions`, refining `MirroredScene`; proofs in `SseSessions_proofs`.
3. `QueryCache`: single flight, invalidation, optimistic changes, persistence.
4. `OfflineQueue`, refining `OrderedDelivery` when one drainer runs.
5. `PullSync`: watermark and merge.
6. `LiveScreen`: the browser's WebSocket transport, decoder and mount, composed with
   the session's outbound path.
7. `KeyedDispatch`: the two dispatch modes of `AppSession`, its tasks and its close.
8. `NativeBridge`: calls and streams across answers, timeouts, reconnections,
   expiry and restarts.
9. `SseWorkers`: SSE sessions on several workers behind Redis.
10. `ServiceWorker`: the app shell across releases.
11. `Reconcile`, `VirtualList`, `RateLimiter`: algorithms against what they promise.

12. Proofs (section 6) of `WsSessions`, `OfflineQueue`, `NativeBridge`, `KeyedDispatch`,
    `RateLimiter`, `SseWorkers`, `LiveScreen`, `PullSync`, `VirtualList`, `ServiceWorker`,
    `Reconcile`, `SseSessions` and `QueryCache`.

To do: models of what is left, which is small:
`sync-status.js` over `OfflineQueue` and `PullSync`, the runtime cache of the
service worker, the reload stream of the development server.

How the modules depend on each other:

    MCWsSessions   -> WsSessions -> (refines) ResumableSession
    MCSseSessions  -> SseSessions, twice -> (refines) MirroredScene
    MCQueryCache   -> QueryCache
    MCServer       -> KeyedDispatch, RateLimiter, SseWorkers
    MCPage         -> VirtualList, PullSync, ServiceWorker, Reconcile
    OfflineQueue -> (refines) OrderedDelivery, LiveScreen, NativeBridge   (their own cfg)
    X_proofs       -> X, for WsSessions, OfflineQueue, NativeBridge, LiveScreen,
                      SseSessions, QueryCache
    Server_proofs  -> KeyedDispatch, RateLimiter, SseWorkers
    Page_proofs    -> VirtualList, PullSync, ServiceWorker, Reconcile

## 3. The models

Every module describes one component as variables, one action per stretch of
code that runs without a suspension (between two `await`s of asyncio or of
JavaScript), and a next-state relation that interleaves them. `map` in
`PROJECT.json` gives the lines behind each definition. The `MC*` modules give
TLC the constants that a `.cfg` cannot write.

### `WsSessions`: WebSocket sessions

| state | in the code |
|---|---|
| `phase`, `ask`, `serves`, `token`, `reads`, `bridge` | where one run of `ws_endpoint` is suspended, the id it named, the `AppSession` it serves, the generation it believes it holds, the transport its `recv_event` waits on, the bridge in its task's context |
| `peer`, `frames`, `inbox`, `shut`, `pump` | the browser's end, events sent, `WebSocketTransport._events`, `_closed`, `_recv_task` |
| `rec`, `gen`, `armed`, `expiring` | `_ws_sessions`, `_WSSession.generation`, `.expiry`, the `_expire_ws` tasks spawned and not yet run |
| `status`, `pipe`, `live` | `AppSession._closed` with the close in progress, `AppSession.transport`, `_live` |

A session outlives its sockets and is named by the socket that created it. The
actions are the upgrade (capacity and ownership, read before `accept()`
suspends), the claim of a held session or the birth of a new one, `rebind`'s
resync, the mount, the receive loop, the handler, the pump, the browser's
frames and its disappearance, the release, the timer and the expiry. Constants
open or close what the environment may do: `OverlappingSockets` (a browser comes
back before its old task unwound), `ResyncMayFail`, `Resumable`
(`ws_resume_seconds > 0`), `Cap`. Outbound frames are not followed past the
first scene, handlers return, and `concurrent_dispatch` is off.

One assumption about time: a timer does not fire while an expiry task armed
under the same id still waits to run, because the window is seconds and a ready
task runs in the next turn of the loop.

`ResumableSession` is what the server promises: a page that leaves finds the
session it left when it is back within the window, and a fresh one afterwards.
`KeepsThePromise` is the refinement.

### `SseSessions`: Server-Sent Events sessions

| state | in the code |
|---|---|
| `conn`, `lastId`, `tree`, `clicks` | the page: the stream its `EventSource` reads, `Last-Event-ID`, what it shows, events posted |
| `page`, `phase`, `isNew`, `serves`, `token` | one GET: the id it names, where it is suspended, `new_session` as read before authenticating, the session, its `stream_token` |
| `mine`, `cursor`, `batch` | `SSETransport.stream`: its generation, cursor and pending list |
| `wire`, `peer` | frames sent and not received; whether the browser still holds the connection |
| `rec`, `live`, `tokens` | `_sse_sessions`, `_live`, `_SSESession.stream_token` |
| `history`, `nextId`, `newest`, `shut`, `inbox` | the replay buffer, the id counter, the stream generation, `_closed`, `_events` |
| `run`, `closed` | the `_run_sse` task, `AppSession._closed` |

A tick is one envelope: a whole scene (a root replace) or a patch that fits
only the tree of the tick before it. The page applies what it receives and is
`Torn` when a patch did not fit. Knobs: `PromptReconnect` (the page returns
before its drop is noticed), `FirstFrameArrives`, `AuthSuspends`,
`PromptUnwind` (the task of a dropped session ends before the next GET is
served), `AbortBeforeBody`, `ViewMayRaise`, `SendWindow` (frames a connection
holds before `send()` suspends), `ReplayBuffer`. Assumptions about time: an
`EventSource` waits before it reconnects, so an earlier request of its page is over
unless it was suspended while authenticating or in a handler (`Settled`), and a woken
stream runs within one turn of the loop (`KeepsUp`). One principal per id and the
in-process router (`SseWorkers` has the Redis router and the client's outbox);
native frames are left out.

`MirroredScene` is the promise to the page: it shows scenes the application
really had, each one later than the one before.

### `QueryCache`: the query cache

A value is the set of mutations it shows; the server holds the mutations it
accepted; a load brings back what the server held when it answered; a patch adds
a mutation before the server agreed. An entry carries its age, which is all the
code computes from a stamp, saturating at `CacheMs`. `inflight` is `_inflight`,
`reader` the callers of `fetch`, `change` the life of an optimistic change
(`idle`, `sent`, `accepted` or `refused`, `kept` or `undone`), `touched` the
snapshot its rollback holds, `disk` the browser's storage, `chore` a `persist` or
`restore` between two keys. `outdated` is a history field: the application has
invalidated the key since this entry or load was asked for. `habit` is the
application that runs, one of `Habits`, chosen at the start: the keys its screen reads
(`queries`), and whether it invalidates what is being loaded (`busyInvalidate`), has
two changes of one entry open at once (`overlap`), undoes by hand what is undone again
(`undoTwice`), persists and restarts (`restarts`).
Listeners, `is_stale` and the shape of the values are left out.

### `OfflineQueue`: the outbox

`store` is the `mutations` table (a row is pending, parked with its attempts, or
gone), `drainer` the replay each drainer runs over the snapshot it took,
`syncDue` a registered Background Sync, `applied` what the server applied, in
its order and once per idempotency key (the server is external). The page and
the service workers drain one table; an answer may be lost, a drainer may die
between the answer and the write (`MaxCrashes`). `habit` is what the deployment
does, chosen at the start among `Habits`: with `"syncs"` the browser has Background
Sync, and workers drain; with `"strays"` a request may arrive after its sender
gave it up; with neither, the page drains alone. Rows are numbered in the
order they are enqueued, for one owner.

`OrderedDelivery` is the promise of one drainer: mutations reach the server in the
order they were made, each at most once, or are given up in that order.

### `PullSync`: the delta pull

A clock value stands for `updated_at`, for a cursor and for the server's time.
`server` is the endpoint (external, following the convention `native/sync.js`
states, one row to a page), `local` and `watermark` what the tabs of an origin
share, `puller` the pull each tab runs, `queued` the ids with a local edit not
yet delivered. Knobs: `ErrorsAnswer` (to which pages the endpoint may answer an
error body instead of failing), `LocalEdits`, `PendingWired` (whether the merge
is told which edits are queued; `native/sync.js` does not tell it).

### `LiveScreen`: a page over a WebSocket

| state | in the code |
|---|---|
| `sock`, `outbox` | `transport-ws.js`: the socket (opening, open, waiting for the timer, closed by the user), events sent while none is open |
| `wired`, `up`, `down` | the network between the two ends, frames on it |
| `tree`, `layer`, `asked`, `garbling` | the mount: the tick its tree is of, dialogs in its overlay layer, its `resyncPending` and that of `wire.js` |
| `alive`, `pinned`, `scene`, `spawned`, `handled` | the session: held or gone, held by a rebind that raised and left no expiry, `App.current_tree` (its tick, its dialogs, whether JSON can express it), the `send_patches` tasks not started, the events dispatched |
| `gap` | history: what the page is missing is something nobody will ask for |

A tree is the number of the tick that built it; a batch replaces the root or
fits one tree only, and makes any other `Torn` or raises. Frames may be
unreadable and connections fail, resumed or after the session has expired.
`MaxOutbox` is the transport's cap. A batch's task may start any number of ticks and
events later.

A scene may hold a number JSON has no token for; `encode_wire` (`transports/base.py`) then
raises before anything is written. In the task of a batch that ends the task, in
the loop that answers a resync it is logged, in a `start` or a `rebind` it ends the
connection (`Unencodable`, `Failed`). The patches of a tick hold such a number if it is new
or the root is replaced, and may hold it as long as the scene does (`Tick`). `CHANGELOG.md`
calls `NonFiniteWireValueError` a backstop: with the `tempest-core` this release pins, what
is built from widgets and serialized the ordinary way no longer reaches it. The code keeps the
path, and so does the module. `gap` becomes true where the page is left with no reason to ask: a batch
or an answer that could not be encoded, an answer that came unreadable to a page that had
asked already, an answer that was written before batches of earlier ticks. A whole scene
that arrives, or a batch that replaces the root, ends it.

### `KeyedDispatch`: events to handlers

`at`, `reads` are the `serve` loops, `inbox` what the current transport holds,
`ready` the tasks created and not started, `task`, `work` the life of an event's
handler and of the background work it spawned, `lock`, `users`, `line` the lock
of each widget, the count of its users and who waits, `doomed` what `close()`
found in `_tasks`. A task cancelled before it started ends in its turn, at the head
of `ready`, without its handler. `concurrent` is chosen at the start: both modes are in every
run. `MayTakeOver` lets a client reconnect while a loop awaits a handler,
`CleanupSpawns` lets a cancelled handler spawn work while it unwinds.

### `NativeBridge`: native calls and streams in Mode B

`asked` is every request a handler made, `await` what its awaiter is doing,
`table` the bridge's `_pending` and `_subscriptions` by wire id, `counted` the
id counters of the process, `running` and `stoppable` what the page runs and what
it could stop, `got` whose answers a request was given. A restart ends the
process and its awaiters, starts the counters again and leaves the page running.

### `SseWorkers`: SSE sessions across workers

| state | in the code |
|---|---|
| `record` | each worker's `_sse_sessions` under the page's id |
| `stream`, `session` | each GET: where it is suspended, its worker, session and `stream_token`; each session: its `stream_token`, its run task, whether its teardown is there |
| `channel`, `got` | the Redis subscription and its reader; a session's clicks as they are published, queued and handled |
| `follows`, `isOpen`, `outbox`, `post` | `transport-sse.js`, and where each click got to |

`habit` is how the deployment behaves, chosen at the start: a page that *roams*
comes back to another worker before the first noticed it left; a *hasty* one
meets a GET still binding or a session still closing; a Redis that *fails* may
raise; a GET that is *aborted* (`aborts`) may be over before its body is first read, and
then releases nothing (`Abandons`: the `finally` of a generator that never started), or
may be cancelled while it drops the session, which cuts the teardown short
(`TeardownCut`). With Starlette, whose `StreamingResponse` cancels the body when the client
goes, the second is what a page that leaves does to a teardown that suspends: under Redis
the rule, with the in-process router never. `SseSessions` is about one worker and what a stream carries;
this module leaves admission and frames out.

### `RateLimiter`: the sliding window

`hits` is `_hits`, `calls` counts to the next sweep; `events` is the whole
history, kept only to compare with. `Expired` is how many of an address's times the
window has left behind: they rise, so those are the oldest. The two budgets of the server (connections
per address, events per session) are each one of these.

### `Reconcile`: diff and patches

`Diff` translates `transpile/diff.js`: a recursive function on pairs of nodes, where the
code appends to one accumulator. `Rerender` is what `mountApp` does on `set_state`, and
`Apply` applies one patch as `dom.js` does, leniences included. A node is a type, a key, a props
value and children, and an element is written as the node it shows. Which
elements a patch takes away or builds again is read off the patch (`Lost`), so that rebuilding one
with the same contents shows. `Nodes` are the nodes the application may build and `Height` says
their trees are finite; TLC gets the nodes of every tree in the run, and one
rebuild (`MaxRebuilds`), since each begins from a page that is the tree.

### `VirtualList`: windows of items

`count`, `slid` are the application's, `attr`, `rows`, `before` (the spacer) and `laid`
the element's, `top` and `requested` the controller's, `wire`
the scroll events on their way. Lengths are in items, the unit the controller
works in when every row has the declared extent. `habit` chooses whether the
view declares its window prop, whether the items change and whether the user
scrolls before the last window came.

### `ServiceWorker`: the app shell across releases

`live` is what the server serves, `worker` the registration's three slots,
`precache` the cache named after each script, `tab` each page: what its modules
came from, who controls it, its banner. `releases` chooses whether a release may keep
its list of files (`contentOnly`), whether the worker is turned off (`retires`),
whether a release may come while another worker waits (`rushed`) and whether a
page may load while one installs (`early`).

## 4. The runs

| run | instance | what it shows |
|---|---|---|
| `ws_takeover` | three sockets, one id, two principals, everything allowed | the registry holds: a socket is served by its owner's session only, a timer is armed for the current generation, every registered session is open, and the gauge never counts more than is open |
| `ws_sequential` | three sockets one after another, fair | the gauge is exact, a claim puts the session out of reach of every window opened before it, none stays open for ever, and the server keeps `ResumableSession`'s promise |
| `ws_bridge` | the same browser | *violated*: the handler of a resumed socket has no native bridge |
| `sse_sessions` | one page with three requests: everything allowed; or one that returns before its drop is noticed and keeps up (`prompt`), with a buffer of two and four ticks | what a page receives is always newer than what it had, every open session is registered; the prompt page's patches fit, only the newest stream ends its session, it catches up and mirrors the session's scenes in order |
| `query_cache` | one change; a `Hasty` application that reads one key, is restarted once, undoes once or twice and may do everything, fair; or a `Careful` one that reads two keys of one resource, invalidates what is at rest and whose changes do not overlap | every caller is answered and a screen that keeps reading ends up showing what the server holds; for the careful one an invalidation forces a load, and a refused change leaves no trace |
| `offline_drainers` | page and worker, two rows, a crash, stray requests, fair; or the page alone with three rows (`habit = {}`) | no mutation is lost, a settled one stays settled, none stays pending while the page is asked to replay; alone, delivery is in order |
| `live_screen` | three ticks, three clicks, two cuts, two unreadable frames, two scenes that cannot be encoded, an outbox of two, fair | a page that is behind, on a live connection and behind no `gap`, is being repaired; events keep their order; and the page ends up showing the application's scene, or behind a `gap` |
| `native_bridge` | three requests, or two and a restart; two connections, fair | calls end, once, with their own answers; whoever waits can be reached; an interrupted stream is stopped on the page |
| `native_restart` | the same | *violated*: an answer to the old process is given to a call of the new one |
| `server_parts` | `KeyedDispatch` with two widgets, three events and one reconnection; `SseWorkers` with two workers, two streams and two clicks under six habits; `RateLimiter` with two addresses; one `part` per behaviour, fair | one handler per widget at a time, in order, none forgotten, none left after a close; clicks reach the session once and what a page leaves is dropped on every worker and in Redis, but for a session whose last GET never came to its release and one whose teardown did not return; the limiter decides as a count of the whole history would |
| `page_parts` | `ServiceWorker` through two more releases in a tab; `VirtualList` with seven items and windows of three; `Reconcile` on every pair of lists of up to three children; `PullSync` with one tab, two rows, four changes, two failures; one part per behaviour, fair | an active worker always boots its page, an update is offered and a click reloads, a retired worker leaves nothing; a spacer is true, a window follows the user and no list stays empty; patches turn the page into the tree by valid indices and keep keyed elements; no change up to the watermark is missing, and the table catches up |
| `sw_release` | the worker alone | *violated*: a release that changes contents and not the list of files reaches no browser that has the old one |

Several runs hold more than one situation or part. A variable (`prompt`, `part`, `habit`, `releases`) is chosen by the initial predicate and never
changes, and the properties say which situation they are about. The parts of
`MCServer` and `MCPage` share no state in the code along the paths modelled,
and are one run only to be checked together. Widgets are interchangeable, and so are
workers: `MCServer` gives the first event and the first GET to a given one.

**Bounds.** Three sockets are enough for the longest chain of the WebSocket
protocol: one that leaves, one that takes over and one that comes after a
retirement under the same id (a record recreated at generation 0). Three SSE
requests are the analogue, and a buffer smaller than the ticks
(one for two, two for four) makes eviction happen on both sides of the cursor. `StaleMs = 1` and
`CacheMs = 2` give an entry every age the code tells apart: fresh, stale,
collected. Two rows and two attempts give a drainer something before and
something after the row it sends; three rows check order beyond a pair. Two ids
and four changes give a pull a second page, a change while it reads, a tombstone
and a local edit with its delivery. Two cuts and three clicks let an outbox
overflow and be cut while it is flushed. Three events on two widgets put two
behind one lock and a third beside it. Three requests and two connections put a
request before, across and after a reconnection. Two SSE streams are a takeover,
or a session on each worker; the workers were also checked with three streams and
one click. Seven items and windows of three leave a window before and after the
one shown, and a partial one at the end. Three children, with repeated and
missing keys, reach every branch of the diff, every permutation, and a remove, a
reorder and an insert in one batch. A limit of two in a window of two, swept
every second call, puts events on the boundary and sweeps between them. Two more
releases put one worker in each slot. Every property of a passing run has a
mutant that TLC refutes within these bounds.

**Fairness.** Weak fairness is assumed of what the event loop runs: coroutines
that are ready, callbacks and timers. It is assumed of connections being read
or being found lost (a heartbeat or a ping finds them). Nothing is assumed of browsers
opening sockets, of users, or of failures, which are bounded by constants,
except where a property says so.
`QueryCache` assumes a server that answers a load asked for again and again
(strong fairness of `Answer`, since each attempt may fail) and a screen that
keeps reading its keys; `OfflineQueue` that the page is asked to replay again
(boot, `online` events, the application); `PullSync` that a pull is asked for
again. Without the latter two nothing in the code runs a drain or a pull, and
the liveness properties are about what they leave behind. `LiveScreen` assumes a
server that can be reached again after the last cut (the transport's timer
retries for ever). `NativeBridge` assumes no answer from the page: calls end by
their timeout. `KeyedDispatch` assumes that what a handler awaits ends, and that
a cancelled task unwinds. `SseWorkers` assumes that Redis answers, and that a
stream nobody reads is noticed: its body is read, or cancelled before it was. `ServiceWorker` assumes that the browser goes on
with what it began, and strong fairness of an installation and of the check for
a new script, each of which a network failure may interrupt; its convergence
properties suppose, in their own statement, a network that stays and users who
come back and press what they are offered.

**Deadlock** is checked in `query_cache`; the others use up their sockets,
requests, events or rows and stop.

## 5. Disagreements

Three runs show the code doing something its documentation rules out
(`findings`). TLC shows the others below from the situation named, changed as
given: *takeover* and *sequential* are the cfgs of `WsSessions`, *prompt* is the
instance `Prompt` of `MCSseSessions`, *careful* the habit `Careful` of
`MCQueryCache`, *drainers* is `offline_drainers.cfg`, *pull*
`page_parts.cfg` with `Part = {"pull"}`. The properties are in the modules, and no run lists them.

| property | situation | what happens |
|---|---|---|
| `LiveIsExact` | takeover, one principal | a superseded socket that unwinds after its session was retired decrements `_live` a second time (`app.py` `_release_ws`) |
| `SerialDispatch` | takeover, two sockets, `MaxFrames = 2` | after `rebind` a superseded `serve` loop reads the new transport beside the new loop: two handlers overlap |
| `OnlyOrphansExpire` | takeover, one principal | a record recreated under an id restarts at generation 0, and a socket of the retired session arms a timer against it |
| `ClaimVoidsWindows` | takeover, four sockets, two of each principal | a session that overwrote the record restarts at generation 0: the expiry task of the one before bears the generation a claim has just given it |
| `CapHolds` | takeover, `Cap = 1` | capacity is read before `accept()` suspends and counted after |
| `NothingStaysPinned` | sequential, `ResyncMayFail` | a claim cancels the timer and bumps the generation; a socket that dies during the resync leaves before its `try/finally` |
| `NothingStaysPinned` | sequential, `OverlappingSockets` | a superseded loop takes the only sentinel of the new transport |
| `RefusalsNameLiveSessions` | takeover, `Resumable = FALSE` | a closed session's record stays and refuses other principals |
| `PatchFits` | prompt, `PromptReconnect = FALSE` | a page that returns after its drop was noticed brings a `Last-Event-ID` that skips the first ticks of the fresh session |
| `PatchFits` | prompt, `SendWindow = 1` | the buffer evicts ticks past the cursor of a stream held up in `send()` |
| `PatchFits` | prompt, `FirstFrameArrives = FALSE` | a page without `Last-Event-ID` joins a buffer that evicted the first scene |
| `PatchFits` | prompt, `AuthSuspends = TRUE`, four streams | of two requests suspended while authenticating, the abandoned one is admitted last and has the newest token; the body of the other retires it, its end releases the session, and the page returns to a fresh one |
| `OnlyUnattendedDropped` | prompt, `PromptReconnect = FALSE`, `PromptUnwind = FALSE` | `_run_sse` drops by id after its own session is gone |
| `OnlyUnattendedDropped` | prompt, `AuthSuspends = TRUE` | of two requests the one admitted last owns the session, even an abandoned one |
| `CapHolds` | `sse_sessions`, two ids | whether an id is new is read before authenticating |
| `NothingStaysPinned` | prompt, `AbortBeforeBody = TRUE` | a response cancelled before its body starts never releases its session |
| `InvalidatedIsReloaded` | careful, `busyInvalidate` | a load in flight when its key is invalidated lands as fresh |
| `InvalidatedIsReloaded` | careful, `Windows = {1, 2}` | a read with a wider window is served an invalidated entry |
| `RefusedLeavesNoTrace` | careful, two changes, `overlap` | undone in the order they began, the first change is back |
| `RefusedLeavesNoTrace` | careful, `restarts` | a change persisted while undecided is restored fresh |
| `OpenChangesShow` | careful | a load in flight takes an open change off the screen |
| `SecondUndoHarmless` | `query_cache` | a second rollback puts its snapshot over a newer answer |
| `ServesAnswers` | `query_cache` | a key collected while persisting is stored as `None` and restored fresh |
| `NeverYounger` | careful, `CacheMs = 3` | invalidating an entry older than the window makes it younger |
| `AppliedInOrder` | drainers, `Habits = {{"syncs"}}` | one drainer parks a row and sends the next while the other still has the first in flight |
| `AttemptsGrow` | drainers, `MaxAttempts = 3` | a slow drainer writes back the count of its snapshot |
| `NeverWedges` | `OfflineQueue`, `SyncOnlySpec` | a sync that met a transient failure ends normally and is not fired again |
| `NothingSkipped` | pull, `ErrorsAnswer = "any"` | an error answered to a later page ends the drain as complete, and its rows are skipped for good |
| `NeverGoesBack` | pull, two tabs | a tab that read its page earlier puts an older row over a newer |
| `NothingSkipped` | pull, two tabs | that tab then fails, behind a watermark another one advanced |
| `PendingEditKept` | pull, `PendingWired = FALSE` | `native/sync.js` does not say which edits are queued |
| `PendingEditKept` | pull | an edit between reading the local row and putting the remote one is overwritten |
| `OverlayNotStacked` | `live_screen` | a whole scene the mount did not ask for (after a reconnection, or after an unreadable frame) adds its dialogs to those on the screen |
| `RepairIsComing`, `Converges` with no `gap` in `Unencodable` | `live_screen` | the batch of a tick, or the answer to a resync, cannot be encoded: the task or the loop logs it, no frame is written, and the page stays behind on a live connection until something it receives does not fit |
| the same, with none where `HasAsked` | `live_screen` | one resync is asked for a run of unreadable frames: when the answer is unreadable too, nothing asks again before the next good frame |
| the same, with none where `spawned` is not empty | `live_screen` | a resync is answered at once while the batch of an earlier tick waits in its task, and that batch then lands on the newer tree |
| `InSeries` | `KeyedDispatch`, `MayTakeOver = TRUE` | a session that dispatches in series is resumed while its old loop awaits a handler: two run |
| `NothingOutlives` | `KeyedDispatch`, `CleanupSpawns = TRUE` | a handler cancelled by `close()` spawns work after the list of tasks was taken |
| `SpacerIsTrue` | `VirtualList` | an update that does not carry the window prop resets `data-tw-window-start` to 0; so does any list that does not declare it |
| `WindowFollows` without `hasty` | `VirtualList` | the user scrolls back into what is shown before the window asked for came: nothing asks again, and that window stays |
| `AlwaysBoots` | `ServiceWorker` | the worker that activates deletes the cache another one is filling |
| `UpdateIsOffered` without `early`, `rushed` | `ServiceWorker` | a page that registers, or reloads, while a worker installs listens for the next one only |
| `ClickReloads` without `rushed`, `EveryClickReloads` | `ServiceWorker` | the page that accepted waits for a worker another release replaced; the banner of a second tab does nothing once the first applied the update |
| `ClickOnce`, `ReachesTheScreen` without `roams` | `SseWorkers` | the session a page left on the first worker takes, or also takes, the clicks of the one it has on the second; `docs/advanced/deploy.en.md` says Redis "drops stickiness" |
| `NoGhost`, `NeverRefused` without `hasty` | `SseWorkers` | a session dropped while `bind` suspends leaves its subscription; a takeover of a session still binding opens a stream nobody is subscribed for |
| `NeverRefused`, `ReachesTheScreen` without `Lost`, `LeftIsDropped` without `Stranded` or `forgotten` | `SseWorkers`, `{"fails"}` | a `bind` that raises leaves a record without a task, which a later GET takes over; a teardown that raises leaves the session unclosed |
| `LeftIsDropped` without `Stranded` | `SseWorkers`, `{"aborts"}` | a GET given up before its body is first read never releases: its session is held until the page comes back to that worker, if ever |
| `LeftIsDropped` without `forgotten`, `NoGhost` without its exception | `SseWorkers`, `{"aborts"}` | the release is cancelled with its request while `unsubscribe` suspends: transport and session are never closed, and the subscription may stay |
| `ReachesTheScreen` without `Lost` | `SseWorkers`, `{"hasty", "aborts"}` | an older stream that binds last drops the session and is cut: the stream on screen stays open on a session that handles nothing |

Several passing runs hold because of a knob that closes one of these doors.
What they show is that nothing else goes wrong.

Seen in the code and not modelled: a consumer of a native stream that stops
listening while no socket is open leaves it running on the page
(`native/bridges.py`); `handleNavigation` of `sw.js` answers an error when
`cache.put` fails; the shell of Mode A registers its worker without `onUpdate`
(`cli/commands/build.py`); `sync-status.js` drops a request to sync that arrives
while one runs, does not refresh its pending count when a mutation is enqueued,
and answers `native.sync.now` with the summary of the run before; buffered
events of `transport-sse.js` are posted in parallel and may arrive in another
order; a non-finite number ends an SSE stream from `_frame` (`transports/sse.py`), whose page
connects again; a page may be served its document by one worker and its modules after
another activated (`ServiceWorker` loads both in one step); `seq` of the outbox joins the wall clock and a counter of one tab.

## 6. The proofs

Each `X_proofs` module is about the component `X`, for every value of its
constants that `X`'s assumption allows. TLC checked every invariant below, on the
instances of section 4 or on smaller ones, before it was proved. In each module
the argument is the same: the initial states satisfy the invariant, a lemma for
each action shows that it keeps it, and the properties follow. No safety property
below is inductive; the relations added to it are the reasons why the code is right.

**`WsSessions_proofs`**, from `ConstantsAssumption`:

- `TypeCorrect`, `OwnerOnly` (`ServedToItsOwner`), `ResumableIsOpen`
  (`RegisteredIsOpen`, where resuming is on) and `NeverOvercounts`
  (`LiveNeverOvercounts`) rest on `RegistryInvariant`.
- Under `~OverlappingSockets`: `CountIsExact` (`LiveIsExact`) and `ClaimsVoidWindows`
  rest on `OrderInvariant`; with `Resumable` besides, `ResumesAsPromised` shows
  that the registry implements `ResumableSession`, step by step.

That a socket is served by its
owner's session is decided from the record, `accept()` later, and kept through
a takeover: it needs that the session a socket serves was born under the id the
socket named and for its principal (`ServesBorn`), that a record holds a session
born under its id (`RecordsBorn`), and that a socket not yet accepted has created
nothing (`Unaccepted`), so that no old reference means a new session. That a
registered session is open needs to know which sessions an armed timer or a
spawned expiry may close (`ArmedHasId`, `ArmedTimerIsCurrent`: a claim bumps the
generation and disarms, so a timer of an earlier window closes nothing), and
that an endpoint that runs serves something (`RunningServes`). The gauge is bounded
by the cardinality of the open sessions: each
step opens or closes one session at most, which the theorems about finite sets
turn into the arithmetic (`IsFiniteSet(Sockets)` is needed here only).

Where a browser comes back only after the server let go of its last socket, more
is true: no two sockets are busy under one id (`OnePerId`), so the record a socket
found is still its principal's once it is accepted (`SoleOwner`); a session that
is served is open, registered and out of reach of every timer and expiry task
(`Attended`); an expiry task bears a token no newer than its record, and no timer is armed
beside one that is current (`ExpiriesAreOld`). So a release either orphans or
retires, once, which is why the count is exact. Sockets that overlap break
them, as section 5 shows.

**`SseSessions_proofs`**, from `ConstantsAssumption`: `StreamsStayOrdered`
(`StreamsHold`: no tick reaches a page twice or out of order, and `live` counts the
sessions the ids name) rests on `SseInvariant`. The buffer rises in its ids, and
eviction keeps its end (`BufferRises`); a stream has sent up to its cursor, and what
is left of its batch is past it (`CursorSplits`), so a request that wakes again
and takes what is pending repeats nothing. A page returns with its `Last-Event-ID` as the
cursor, which a takeover only raises (`Connected`). A session is under the
id of its page exactly as long as it is open (`Registered`), so that each drop
takes one off the gauge, and a request not yet admitted has opened none
(`Unadmitted`).

Where pages come back before their drop is noticed, to a server that
authenticates at once and whose views render (`ComesBackInTime`), more is true
(`KeptInvariant`): a session is closed only after the last request (`ClosedLast`), so
that a page never has two (`OneSession`); streams of a page are admitted in their
order (`InOrder`), the last one has the newest token (`TokensRise`) and the newest
generation (`GenerationsFollow`). So what ends beside it releases nothing:
`ReturningPagesAreKept` (`OnlyUnattendedDropped`). Neither `PromptUnwind` nor bodies that
always start are needed for it. `ReturningPagesAreMirrored` adds that no connection drops before
its first frame (`FirstFrameArrives`) and that none is ever full (`[]KeepsReading`), and
shows that `SseSessions` then implements `MirroredScene` for every page: it shows scenes
its session had, in their order; `ReturningPagesFit` (`PatchFits`), that no patch meets
a tree it was not computed against. The invariant (`MirrorInvariant`) follows a page's ticks
from what it shows over the wire and the batch into the buffer: they are numbered without
a gap (`NoGap`), and either they go on from the tick it shows or the first of them is
a whole scene (`StartsWhole`), which is what the resync of a takeover is for. Eviction keeps
it because a stream that keeps up has taken the oldest tick when it goes (`HasRoom`).
`MirrorsTheScene` and `PromptIsKept` check the same of one page with three streams; section
5 has the steps that go wrong without these hypotheses. The exception is that views
render: a first render that raises closes its session at once, and its page gets another.
TLC (four streams) finds `OnlyUnattendedDropped` and `PatchFits` true then as well; the
scene of "its session" is what has no meaning any more, and `OneSession`, on which the proofs
rest, is false.

**`OfflineQueue_proofs`**, from `BoundsAssumption`: `NoMutationDisappears`
(`NothingIsLost`) and `SettledForGood` (`SettledStaysSettled`) rest on
`QueueInvariant`. Drainers work from snapshots that other drainers make stale. What
keeps the queue right is that a drainer told "ok" holds a row the server did
apply (`AnswersAreTrue`), that a row it holds had attempts left when it read it
(`DrainersHoldRows`), and that a gone row left nothing behind (`RowsAreWhole`).
`LonePageKeepsOrder` shows that a page which drains alone implements
`OrderedDelivery` (`DeliversInOrder`): its snapshot is the oldest of what waits
(`SnapshotIsOldest`), so what is enqueued meanwhile comes after it.

**`NativeBridge_proofs`**, from `BridgeAssumption`: `AnswersFindTheirRequest`
(`GetsItsOwnSoFar`), `WaitersAreFound` (`WaitersAreReachable`) and `SettledForGood`
(`SettledOnce`, one conjunct of `CallsEndOnce`) rest on `BridgeInvariant`: what
the table, the wire and the page name is a request that was made, under its own
id (`NamesAreTrue`); the ids of one process are all different (`IdsAreUnique`);
whoever is awaited is of this process. Across a restart ids are used again, and
`GetsItsOwn` fails: the run `native_restart` shows it.

**`Server_proofs`** is about three components.

`KeyedDispatch`, from `KeyedAssumption`: `WidgetsInTurn` (one handler
of a widget at a time, in the order of its events, overlapping loops included),
`HandlersInTurn` (`InTurn`, under `~MayTakeOver`) and `TablesCountTasks`
(`TasksAreCounted`, under `~CleanupSpawns`) rest on `DispatchInvariant`. It follows an
event from queue to queue, each in the order of arrival and each behind the next:
the inbox (`InboxRises`), the ready queue (`ReadyRises`), the line of its widget's
lock (`LinesRise`), the handlers that began (`BegunFirst`). The users of a lock are counted
as a finite set, which the lock table must match.

`RateLimiter`, from `LimiterAssumption`: `DecidesAsTheHistory`
(`LimiterIsExact`) rests on `LimiterInvariant`: from the start of the window on,
the table has as many times of an address as the whole history has events allowed
to it (`KeepsTheWindow`, stated for every later moment, or it is not inductive), and times
are in the order of the clock (`TimesRise`), so that popping from the left
pops the oldest.

`SseWorkers`, from `WorkersAssumption` and `HabitsAssumption`: `RoutesStayTrue`
(`RoutesHold`) rests on `WorkersInvariant`. A registry names sessions its worker keeps,
and every kept session (`KeptIsRecorded`); only a session that bound was subscribed or
published to, and one that was dropped is read no more (`BoundIsRead`); a GET that binds
meets no session on its way out of its worker, unless the page is hasty (`BindsAlone`):
so a session that is gone has no subscription (`NoGhost`), unless its teardown was cut. A click not taken is in no
session (`Untaken`) and a session has a click once, published, queued or handled
(`HasOnce`). Of a page that stays, one worker has a record (`OneRecord`), and therefore one
session handled a click or still may (`OneTaker`): a POST is fed to the
local session or published, to the one that is read.

**`QueryCache_proofs`**, from `WindowsAssumption` and `BoundsAssumption`: `CarefulReads`
(`CarefulReadsTrue`) rests on `CacheInvariant`, whose two parts each ask of the
application only what they need. If it invalidates nothing that is being loaded or
changed, and no read asks for a wider window than the cache's, an entry that was
invalidated is stale in the eyes of every read, and so is one that a rollback would put
back, however time passes and entries are collected, dropped or restored
(`OutdatedIsStale`). If its changes of an entry do not overlap and it is not
restarted, an entry shows a mutation the server does not hold only while the rollback
that takes it off is open, and what rollbacks and answers bring shows none
(`TracesAreOpen`); undoing twice does no harm to this. Section 5 shows that neither
part holds without what it asks for.

**`LiveScreen_proofs`**, from `BoundsAssumption`: `EventsStayKept` (`EventsKept`)
and `RepairAlwaysComes` (`RepairIsComing`). The first cuts the
events into those handled, on the wire and in the outbox, each part before
the next (`EventsInParts`), of which none is missing before the first failure
(`NoneMissing`). The second asks nothing of when a batch's task starts, of how many frames are
unreadable or of what can be encoded. It follows the frames on the wire: those that lead from a
whole scene, or from the tree of the page, to the session's scene stay a chain whatever is sent
or applied, because the batches that wait are one (`Chained`); patches are of a scene that
exists (`Fitted`), so a page that holds nothing refuses them only behind an unreadable frame; and
a decoder within a run of unreadable frames has asked and the question is still on its way, or
something readable is (`Answered`). A resync that is answered ends in one of three ways: the
answer leads to the scene, it is unreadable to a page that will ask again, or there is a `gap`.

**`Page_proofs`**, from `PullAssumption`, `ListAssumption`, `ReleasesAssumption` and
`NodesAssumption`: `PullSkipsNothing` (`NothingSkipped`), `WindowsAreTrue`
(`WindowIsTrue`), `WorkersBootTheirPages` (`UnrushedBoots`) and
`PatchesAlwaysFit` (`PatchesFit`). A pull in progress has
covered what is older than its cursor, except the row in its hands, which it has as the
server has it unless it changed since (`PullHolds`): an interrupted pull therefore
leaves the watermark behind what the table shows. It holds for one tab (`OneTab`) and
an endpoint that answers no error to a later page (`ErrorsAreSeen`); section 5 shows
that it fails without either. A window follows the user because the request
in the network and the one under way are about where he last looked (`Follows`), and
its spacer is true because the props and the rows come in the same batch (`Aligned`).
A worker boots its pages because each that waits or runs has filled the precache it will
read, and one that fills its own is alone with it (`Settles`): the worker that
activates deletes every cache but its own, which is safe only while none is being
filled. That is what a release in a rush breaks. Nothing follows the teardown worker
(`TeardownIsLast`), and it never controls a page.

The reconciler's proof is about batches. A batch *leads* from one element to another
(`Leads`) if each of its patches is valid where it applies, none takes away a child
that must stay, and the last one arrives; two batches in a row lead where the second
does. The phases of a keyed diff are four such batches (`RemovesLead`,
`RealignLeads`, `InsertsLead`, `MatchedLead`): first the survivors in their old order, then in
their new one, then every child in its place, then each as it should be. Removing from the
tail is what makes the first one lead: it moves no child before the indices still to
come. A child's batch leads its parent
(`LiftLeads`), unless it replaces a keyed child of the same type, which it never
does. The recursion is unfolded by the height of the trees: `Diff` satisfies its own
equation (`DiffUnfolds`), because what it says of a pair depends on lower pairs only
(`ReconciledAgrees`), and by the same order a node's batch leads if those of its
children do (`NodesMatch`). `DiffLeads` says so for any two trees; with
it, what is left of a batch always leads from the page to the tree (`TreeInv`), over any
number of rebuilds.

**Model-checked only.** Liveness, and the fairness of `ResumableSession` and the
other abstract specifications, are out of the prover's reach, as is
`InterruptedStreamStops`, which is liveness but for its last step. Every invariant that
a run checks is proved.

## 7. What is not modelled

`components` in `PROJECT.json` gives the reason for each part. In short: what is
sequential and computes text or numbers (the transpiler, the HTML, spreadsheet
and inference helpers, components, presets, the command line), what only calls a
Web API (the native capabilities), what feeds nothing back (observability), and
the small parts named at the end of the plan.

A large share of the repository's lines are generated tables
(`transpile/component-styles.gen.js` and its siblings), styles and widget markup:
there is no state or order in them to model.
