---------------------------- MODULE OfflineQueue ----------------------------
(***************************************************************************)
(* The offline write queue: client/offline/sync.js over the store of       *)
(* client/offline/store.js, drained by the page (client/native/offline.js) *)
(* and by the service worker (client/sw/sw.js) at the same time.           *)
(*                                                                         *)
(* A mutation is the number it was enqueued under, which is the order of   *)
(* its seq.  Each drainer has its own OfflineQueue over the one durable    *)
(* store: its snapshot of the pending rows, and one request at a time.     *)
(* The application's server is external: it applies a mutation unless it   *)
(* already applied its idempotency key, or answers with an error.          *)
(*                                                                         *)
(* One owner.  A browser may have no Background Sync, and the page is then *)
(* the only drainer.                                                       *)
(***************************************************************************)
EXTENDS Naturals, Sequences

CONSTANTS
    Page,           \* the page's process-wide queue
    Workers,        \* the service worker's drains: one queue per event
    MaxAttempts,    \* replays of a row before it is dead-lettered
    MaxRows,        \* bound: mutations enqueued
    BusyRows,       \* bound: the same where there are Quirks
    MaxCrashes,     \* bound: tabs closed or workers killed while draining
    Habits          \* the situations to look at: sets of Quirks

\* syncs: the browser has Background Sync, so workers drain too.  strays: the
\* server may act on a request its sender gave up.
Quirks == {"syncs", "strays"}

ASSUME BoundsAssumption ==
    /\ Page \notin Workers
    /\ MaxAttempts \in Nat \ {0} /\ MaxRows \in Nat /\ MaxCrashes \in Nat /\ BusyRows \in Nat
    /\ Habits \subseteq SUBSET Quirks

VARIABLES
    habit,      \* which Quirks there are
    enqueued,   \* mutations made so far
    store,      \* the mutations table: row -> its status and attempts, or Gone
    drainer,    \* what each drainer is doing
    syncDue,    \* a Background Sync is registered and has not fired
    applied,    \* the mutations the server applied, in its order
    stray,      \* requests given up by their sender that may still arrive
    crashes     \* crashes so far

vars == <<habit, enqueued, store, drainer, syncDue, applied, stray, crashes>>

Rows == 1 .. MaxRows
Drainers == Workers \cup {Page}
Gone == [status |-> "gone", attempts |-> 0]
Idle == [stage |-> "idle", verdict |-> "none", left |-> {}, seen |-> [r \in Rows |-> 0]]
IsApplied(r) == \E i \in DOMAIN applied : applied[i] = r
Pending == {r \in Rows : store[r].status = "pending"}

\* The row a drainer is sending: the oldest left of its snapshot.
Oldest(left) == CHOOSE r \in left : \A q \in left : r <= q
Current(d) == Oldest(drainer[d].left)

-----------------------------------------------------------------------------
\* enqueue: the row is durable, and a Background Sync is registered if there is one.
Enqueue ==
    /\ enqueued < MaxRows /\ (habit = {} \/ enqueued < BusyRows)
    /\ enqueued' = enqueued + 1
    /\ store' = [store EXCEPT ![enqueued'] = [status |-> "pending", attempts |-> 0]]
    /\ syncDue' = ("syncs" \in habit)
    /\ UNCHANGED <<habit, drainer, applied, stray, crashes>>

\* replay takes a snapshot of the pending rows and sends the first; one that
\* runs already, or finds none, does nothing.
Sending(left, seen) ==
    IF left = {} THEN Idle
    ELSE [stage |-> "asked", verdict |-> "none", left |-> left, seen |-> seen]

Replay(d) ==
    /\ drainer[d].stage = "idle"
    /\ drainer' = [drainer EXCEPT ![d] =
                     Sending(Pending, [r \in Rows |-> store[r].attempts])]

\* The page replays on boot, on every online event, and when the application
\* or a sync asks.
PageReplays ==
    /\ Pending # {}
    /\ Replay(Page)
    /\ UNCHANGED <<habit, enqueued, store, syncDue, applied, stray, crashes>>

\* A sync event fires once for a registration; replayFromSync ends normally
\* whatever the drain left, so the browser does not fire it again.
SyncFires(w) ==
    /\ syncDue
    /\ syncDue' = FALSE
    /\ Replay(w)
    /\ UNCHANGED <<habit, enqueued, store, applied, stray, crashes>>

-----------------------------------------------------------------------------
(* The network and the server.                                             *)

Answered(d, verdict) ==
    drainer' = [drainer EXCEPT ![d] = [stage |-> "answered", verdict |-> verdict,
                                       left |-> @.left, seen |-> @.seen]]

Accepts(d) ==
    /\ drainer[d].stage = "asked"
    /\ applied' = IF IsApplied(Current(d)) THEN applied ELSE Append(applied, Current(d))
    /\ Answered(d, "ok")
    /\ UNCHANGED <<habit, enqueued, store, syncDue, stray, crashes>>

\* 409, another 4xx, or a status worth a retry.
Declines(d) ==
    /\ drainer[d].stage = "asked"
    /\ ~IsApplied(Current(d))
    /\ \E verdict \in {"conflict", "rejected", "transient"} : Answered(d, verdict)
    /\ UNCHANGED <<habit, enqueued, store, syncDue, applied, stray, crashes>>

\* The request fails in the sender's eyes; the server may act on it later.
LoseRequest(d) ==
    /\ drainer[d].stage = "asked"
    /\ Answered(d, "transient")
    /\ stray' \in {stray} \cup (IF "strays" \in habit THEN {stray \cup {Current(d)}} ELSE {})
    /\ UNCHANGED <<habit, enqueued, store, syncDue, applied, crashes>>

LoseAnswer(d) ==
    /\ drainer[d].stage = "answered" /\ drainer[d].verdict # "transient"
    /\ Answered(d, "transient")
    /\ UNCHANGED <<habit, enqueued, store, syncDue, applied, stray, crashes>>

StrayArrives(r) ==
    /\ r \in stray
    /\ stray' = stray \ {r}
    /\ applied' \in {applied} \cup (IF IsApplied(r) THEN {} ELSE {Append(applied, r)})
    /\ UNCHANGED <<habit, enqueued, store, drainer, syncDue, crashes>>

-----------------------------------------------------------------------------
(* What replay does with the answer.                                       *)

\* Mutant of classifyReplayOutcome: a conflict taken for an answer like any other.
ClassifyAnyAnswer(verdict, attempts) ==
    CASE verdict \in {"ok", "conflict"} -> "sent"
      [] verdict = "rejected" -> "failed"
      [] verdict = "transient" /\ attempts + 1 >= MaxAttempts -> "failed"
      [] OTHER -> "retry"
classifyReplayOutcome(verdict, attempts) ==
    CASE verdict = "ok"       -> "sent"
      [] verdict = "conflict" -> "conflict"
      [] verdict = "rejected" -> "failed"
      [] verdict = "transient" /\ attempts + 1 >= MaxAttempts -> "failed"
      [] OTHER -> "retry"

\* Mutants of Update: the row read at the start is put back whole; a retry is
\* not counted.
UpdatePutsRow(r, status, attempts) ==
    [store EXCEPT ![r] = [status |-> IF status = "retry" THEN "pending" ELSE status,
                          attempts |-> attempts]]
UpdateForgets(r, status, attempts) ==
    IF store[r] = Gone \/ status = "retry" THEN store
    ELSE [store EXCEPT ![r] = [status |-> status, attempts |-> attempts]]
\* store.update merges into the row, and does nothing when it is gone.
Update(r, status, attempts) ==
    IF store[r] = Gone THEN store
    ELSE [store EXCEPT ![r] = [status |-> IF status = "retry" THEN @.status ELSE status,
                               attempts |-> attempts]]

\* Mutant of Settle: a transient failure does not end the replay.
SettleGoesOn(d) ==
    LET r == Current(d)
        seen == drainer[d].seen
        decision == classifyReplayOutcome(drainer[d].verdict, seen[r]) IN
    /\ drainer[d].stage = "answered"
    /\ store' = IF decision = "sent" THEN [store EXCEPT ![r] = Gone]
                ELSE Update(r, decision, seen[r] + 1)
    /\ drainer' = [drainer EXCEPT ![d] = Sending(drainer[d].left \ {r}, seen)]
    /\ UNCHANGED <<habit, enqueued, syncDue, applied, stray, crashes>>
\* A transient failure ends the replay; anything else goes on with the rest.
Settle(d) ==
    LET r == Current(d)
        seen == drainer[d].seen
        decision == classifyReplayOutcome(drainer[d].verdict, seen[r])
        rest == IF decision = "retry" THEN {} ELSE drainer[d].left \ {r} IN
    /\ drainer[d].stage = "answered"
    /\ store' = IF decision = "sent" THEN [store EXCEPT ![r] = Gone]
                ELSE Update(r, decision, seen[r] + 1)
    /\ drainer' = [drainer EXCEPT ![d] = Sending(rest, seen)]
    /\ UNCHANGED <<habit, enqueued, syncDue, applied, stray, crashes>>

\* The tab is closed, or the worker killed, in the middle of a replay.
Crash(d) ==
    /\ crashes < MaxCrashes /\ drainer[d].stage # "idle"
    /\ crashes' = crashes + 1
    /\ drainer' = [drainer EXCEPT ![d] = Idle]
    /\ stray' = IF "strays" \in habit /\ drainer[d].stage = "asked"
                THEN stray \cup {Current(d)} ELSE stray
    /\ UNCHANGED <<habit, enqueued, store, syncDue, applied>>

Init ==
    /\ habit \in Habits
    /\ enqueued = 0 /\ store = [r \in Rows |-> Gone]
    /\ drainer = [d \in Drainers |-> Idle]
    /\ syncDue = FALSE /\ applied = <<>> /\ stray = {} /\ crashes = 0

Next ==
    \/ Enqueue \/ PageReplays
    \/ \E w \in Workers : SyncFires(w)
    \/ \E d \in Drainers : Accepts(d) \/ Declines(d) \/ LoseRequest(d)
                           \/ LoseAnswer(d) \/ Settle(d) \/ Crash(d)
    \/ \E r \in Rows : StrayArrives(r)

Spec == Init /\ [][Next]_vars

\* Requests end, replays go on, and a registered sync fires.
Progress ==
    /\ WF_vars(\E w \in Workers : SyncFires(w))
    /\ \A d \in Drainers :
          WF_vars(Accepts(d) \/ Declines(d) \/ LoseRequest(d)) /\ WF_vars(Settle(d))
SyncOnlySpec == Spec /\ Progress

\* Besides, something keeps asking the page to replay: connectivity that comes
\* and goes, or the application.
FairSpec == Spec /\ Progress /\ WF_vars(PageReplays)

-----------------------------------------------------------------------------
(* Properties.                                                             *)

\* Every variable has its type.
TypeOK ==
    /\ habit \in Habits /\ enqueued \in 0 .. MaxRows /\ crashes \in 0 .. MaxCrashes
    /\ store \in [Rows -> [status : {"gone", "pending", "failed", "conflict"},
                           attempts : 0 .. MaxAttempts]]
    /\ drainer \in [Drainers -> [stage : {"idle", "asked", "answered"},
                                 verdict : {"none", "ok", "conflict", "rejected", "transient"},
                                 left : SUBSET Rows, seen : [Rows -> 0 .. MaxAttempts]]]
    /\ syncDue \in BOOLEAN
    /\ applied \in Seq(Rows)
    /\ stray \in SUBSET Rows

\* A row leaves the store only when the server applied its mutation, whichever
\* drainer deleted it and whatever was lost.
NothingLost == \A r \in 1 .. enqueued : store[r] = Gone => IsApplied(r)

\* A row that was sent, dead-lettered or parked is never pending again, though
\* a slower drainer still holds the row it read.
SettledStaysSettled == [][\A r \in Rows :
    r <= enqueued /\ store[r].status # "pending" => store'[r].status # "pending"]_vars

\* The attempts recorded on a row only grow.
CountsUp == \A r \in Rows : store'[r] # Gone => store'[r].attempts >= store[r].attempts
AttemptsGrow == [][CountsUp]_vars

\* The server applies mutations in the order they were made.
AppliedInOrder == \A i, j \in DOMAIN applied : i < j => applied[i] < applied[j]

\* No row stays pending for ever, even if the server never accepts anything.
NeverWedges == \A r \in Rows : store[r].status = "pending" ~> store[r].status # "pending"

\* Types, and no mutation disappears that the server did not apply.
NothingIsLost == TypeOK /\ NothingLost

\* A mutation waits until the server applied it or its row left the queue.
Ordered == INSTANCE OrderedDelivery WITH
    accepted <- enqueued,
    waiting <- {r \in Pending : ~IsApplied(r)},
    delivered <- applied

\* The page alone delivers in the order the writes were made, each at most once,
\* over a network that only loses, whenever it dies.
DeliversInOrder ==
    /\ habit = {} => Ordered!Init
    /\ [][habit = {} => [Ordered!Next]_Ordered!vars]_vars
=============================================================================
