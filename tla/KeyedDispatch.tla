--------------------------- MODULE KeyedDispatch ---------------------------
(***************************************************************************)
(* How one AppSession (runtime/session.py) runs the handlers of its        *)
(* client's events: serve, dispatch, the lock each widget's events queue   *)
(* behind, the tasks a session tracks, and the close that cancels them.    *)
(* A session serves in one of two modes: in series, each serve loop        *)
(* awaiting its handler, or concurrently, a task per event.                *)
(*                                                                         *)
(* Events are numbered as they arrive.  A handler begins in one step and   *)
(* ends in another: whatever it awaits lies between.                       *)
(***************************************************************************)
EXTENDS Integers, Sequences, FiniteSets

CONSTANTS
    Keys,           \* widgets
    MaxEvents,      \* bound: events the client sends
    MaxBinds,       \* bound: transports the session is pointed at
    MayTakeOver,    \* may a client reconnect while a loop awaits a handler?
    CleanupSpawns   \* may a cancelled handler spawn work as it unwinds?

ASSUME KeyedAssumption ==
    /\ MaxEvents \in Nat /\ MaxBinds \in Nat \ {0}
    /\ MayTakeOver \in BOOLEAN /\ CleanupSpawns \in BOOLEAN

Events == 1..MaxEvents
Loops == 1..MaxBinds

VARIABLES
    concurrent, \* AppSession._concurrent_dispatch
    keyOf,      \* the widget of each event that arrived
    inbox,      \* events on the current transport that no loop has read
    pipe,       \* AppSession.transport
    at, reads,  \* each serve loop: Off, Receiving or the event it handles; its transport
    ready,      \* event tasks created and not started, in order
    task,       \* each event: none, ready, waiting, running, done
    work,       \* background work each handler spawned: none, running, done
    lock, users,  \* AppSession._key_locks, _key_lock_users
    uses,       \* the lock each task queued behind, named by the task that made it
    line,       \* who holds (first) and awaits each lock
    begun,      \* events whose handler was called, in order
    phase,      \* open, closing (tasks cancelled), closed
    doomed      \* what close() found in AppSession._tasks: events, and works

loops == <<inbox, pipe, at, reads>>
tables == <<lock, users, uses, line>>
vars == <<concurrent, keyOf, loops, ready, task, work, tables, begun, phase, doomed>>

Off == -1
Receiving == 0
NoLock == 0
Alive == {"ready", "waiting", "running"}
Started == {"waiting", "running"}
TasksOf(k) == {n \in 1..Len(keyOf) : keyOf[n] = k}

Init ==
    /\ concurrent \in BOOLEAN
    /\ keyOf = <<>> /\ inbox = <<>> /\ pipe = 1
    /\ at = [l \in Loops |-> IF l = 1 THEN Receiving ELSE Off]
    /\ reads = [l \in Loops |-> l]
    /\ ready = <<>> /\ begun = <<>>
    /\ task = [n \in Events |-> "none"] /\ work = [n \in Events |-> "none"]
    /\ lock = [k \in Keys |-> NoLock] /\ users = [k \in Keys |-> 0]
    /\ uses = [n \in Events |-> NoLock] /\ line = [n \in Events |-> <<>>]
    /\ phase = "open" /\ doomed = [events |-> {}, works |-> {}]

-----------------------------------------------------------------------------
(* The transport and the loops that read it.                               *)

Arrive(k) ==
    /\ phase /= "closed" /\ Len(keyOf) < MaxEvents
    /\ keyOf' = Append(keyOf, k)
    /\ inbox' = Append(inbox, Len(keyOf'))
    /\ UNCHANGED <<concurrent, pipe, at, reads, ready, task, work, tables, begun, phase, doomed>>

\* rebind: the session is pointed at a new transport, whose endpoint serves
\* it too; events left unread on the old one are gone.
Rebind ==
    /\ phase = "open" /\ pipe < MaxBinds
    /\ MayTakeOver \/ \A l \in Loops : at[l] \in {Off, Receiving}
    /\ pipe' = pipe + 1 /\ inbox' = <<>>
    /\ at' = [at EXCEPT ![pipe'] = Receiving]
    /\ UNCHANGED <<concurrent, keyOf, reads, ready, task, work, tables, begun, phase, doomed>>

\* The top of the loop: a closed session is left, else self.transport is read.
NextTurn(l) ==
    /\ at' = [at EXCEPT ![l] = IF phase = "open" THEN Receiving ELSE Off]
    /\ reads' = [reads EXCEPT ![l] = pipe]

\* The transport a loop waits on is gone.
LoopEnds(l) ==
    /\ at[l] = Receiving /\ (reads[l] /= pipe \/ phase = "closed")
    /\ at' = [at EXCEPT ![l] = Off]
    /\ UNCHANGED <<concurrent, keyOf, inbox, pipe, reads, ready, task, work, tables, begun, phase, doomed>>

Read(l) == at[l] = Receiving /\ reads[l] = pipe /\ inbox /= <<>> /\ inbox' = Tail(inbox)

\* serve, concurrent: the event becomes a task of the session.
SpawnTask(l) == LET n == Head(inbox) IN
    /\ concurrent /\ Read(l)
    /\ task' = [task EXCEPT ![n] = "ready"] /\ ready' = Append(ready, n)
    /\ NextTurn(l)
    /\ UNCHANGED <<concurrent, keyOf, pipe, work, tables, begun, phase, doomed>>

\* serve, in series: the loop itself calls the handler; dispatch does nothing
\* once the session closed.
HandleInSeries(l) == LET n == Head(inbox) IN
    /\ ~concurrent /\ Read(l)
    /\ IF phase = "open"
       THEN /\ at' = [at EXCEPT ![l] = n] /\ task' = [task EXCEPT ![n] = "running"]
            /\ begun' = Append(begun, n) /\ UNCHANGED reads
       ELSE NextTurn(l) /\ task' = [task EXCEPT ![n] = "done"] /\ UNCHANGED begun
    /\ UNCHANGED <<concurrent, keyOf, pipe, ready, work, tables, phase, doomed>>

SeriesHandlerEnds(l) == LET n == at[l] IN
    /\ n \in Events
    /\ task' = [task EXCEPT ![n] = "done"]
    /\ NextTurn(l)
    /\ UNCHANGED <<concurrent, keyOf, inbox, pipe, ready, work, tables, begun, phase, doomed>>

-----------------------------------------------------------------------------
(* _dispatch_ordered_by_key.                                               *)

\* The lock a task finds under its key, or makes.
LockFor(n) == IF lock[keyOf[n]] = NoLock THEN n ELSE lock[keyOf[n]]

CountIn(n) == users' = [users EXCEPT ![keyOf[n]] = @ + 1]

\* asyncio.Lock: first come, first served.
QueueUp(n, o) == line' = [line EXCEPT ![o] = Append(@, n)]

\* A task's first step: look the lock up, count in, and take it or queue.
\* After the close it finds empty tables, counts in and out, and does nothing.
Start == LET n == Head(ready) o == LockFor(n) IN
    /\ ready /= <<>> /\ n \notin doomed.events
    /\ ready' = Tail(ready)
    /\ IF phase = "open"
       THEN /\ lock' = [lock EXCEPT ![keyOf[n]] = o]
            /\ CountIn(n) /\ QueueUp(n, o)
            /\ uses' = [uses EXCEPT ![n] = o]
            /\ task' = [task EXCEPT ![n] = IF line[o] = <<>> THEN "running" ELSE "waiting"]
            /\ begun' = IF line[o] = <<>> THEN Append(begun, n) ELSE begun
       ELSE task' = [task EXCEPT ![n] = "done"] /\ UNCHANGED <<tables, begun>>
    /\ UNCHANGED <<concurrent, keyOf, loops, work, phase, doomed>>

\* The lock was released and this is the first in its line.
Acquire(n) ==
    /\ phase = "open" /\ task[n] = "waiting" /\ Head(line[uses[n]]) = n
    /\ task' = [task EXCEPT ![n] = "running"] /\ begun' = Append(begun, n)
    /\ UNCHANGED <<concurrent, keyOf, loops, ready, work, tables, phase, doomed>>

CountOutAtOnce(k) == users' = [users EXCEPT ![k] = 0] /\ lock' = [lock EXCEPT ![k] = NoLock]
\* The finally: the last user of a key drops its lock.
CountOut(k) ==
    /\ users' = [users EXCEPT ![k] = @ - 1]
    /\ lock' = [lock EXCEPT ![k] = IF users[k] > 1 THEN @ ELSE NoLock]

LeaveKeepingTheLock(n) == UNCHANGED line
\* Release the lock: whoever holds it is the first in line.
Leave(n) == line' = [line EXCEPT ![uses[n]] = Tail(@)]

\* The handler returned or raised, which is logged.
HandlerEnds(n) ==
    /\ concurrent /\ phase = "open" /\ task[n] = "running"
    /\ task' = [task EXCEPT ![n] = "done"]
    /\ Leave(n) /\ CountOut(keyOf[n]) /\ UNCHANGED uses
    /\ UNCHANGED <<concurrent, keyOf, loops, ready, work, begun, phase, doomed>>

-----------------------------------------------------------------------------
(* Background work, and close.                                             *)

\* background.spawn, from a handler that is running.
Spawn(n) ==
    /\ task[n] = "running" /\ work[n] = "none" /\ phase = "open"
    /\ work' = [work EXCEPT ![n] = "running"]
    /\ UNCHANGED <<concurrent, keyOf, loops, ready, task, tables, begun, phase, doomed>>

WorkEnds(n) ==
    /\ work[n] = "running"
    /\ work' = [work EXCEPT ![n] = "done"]
    /\ UNCHANGED <<concurrent, keyOf, loops, ready, task, tables, begun, phase, doomed>>

TrackedEventsOnly ==
    [events |-> {n \in Events : concurrent /\ task[n] \in Alive}, works |-> {}]
\* AppSession._tasks: a handler run in series belongs to its endpoint instead.
Tracked ==
    [events |-> {n \in Events : concurrent /\ task[n] \in Alive},
     works |-> {n \in Events : work[n] = "running"}]

Close ==
    /\ phase = "open"
    /\ phase' = "closing" /\ doomed' = Tracked
    /\ lock' = [k \in Keys |-> NoLock] /\ users' = [k \in Keys |-> 0]
    /\ UNCHANGED <<concurrent, keyOf, loops, ready, task, work, uses, line, begun>>

Unwinds(n) == n \in doomed.events /\ task[n] \in Alive

\* A cancelled event task unwinds, one that had not started in its turn.  One
\* that had counted in finds its row gone: the KeyError takes the place of the
\* cancellation, close() ignores both.  Its lock is nobody's any more: all who
\* stood in its line are cancelled.
EventCancelled(n) ==
    /\ phase = "closing" /\ Unwinds(n)
    /\ task' = [task EXCEPT ![n] = "done"]
    /\ IF task[n] = "ready" THEN Head(ready) = n /\ ready' = Tail(ready) ELSE UNCHANGED ready
    /\ \/ UNCHANGED work
       \/ /\ CleanupSpawns /\ task[n] = "running" /\ work[n] = "none"
          /\ work' = [work EXCEPT ![n] = "running"]
    /\ UNCHANGED <<concurrent, keyOf, loops, tables, begun, phase, doomed>>

WorkCancelled(n) ==
    /\ phase = "closing" /\ n \in doomed.works /\ work[n] = "running"
    /\ work' = [work EXCEPT ![n] = "done"]
    /\ UNCHANGED <<concurrent, keyOf, loops, ready, task, tables, begun, phase, doomed>>

\* Every cancelled task was awaited: the transport is closed.
Closed ==
    /\ phase = "closing"
    /\ \A n \in doomed.events : task[n] = "done"
    /\ \A n \in doomed.works : work[n] = "done"
    /\ phase' = "closed" /\ inbox' = <<>>
    /\ UNCHANGED <<concurrent, keyOf, pipe, at, reads, ready, task, work, tables, begun, doomed>>

EventStep(n) == Acquire(n) \/ HandlerEnds(n) \/ EventCancelled(n)
LoopStep(l) == SpawnTask(l) \/ HandleInSeries(l) \/ SeriesHandlerEnds(l) \/ LoopEnds(l)
WorkStep(n) == WorkEnds(n) \/ WorkCancelled(n)

Next ==
    \/ \E k \in Keys : Arrive(k)
    \/ Rebind \/ Start \/ Close \/ Closed
    \/ \E l \in Loops : LoopStep(l)
    \/ \E n \in Events : EventStep(n) \/ Spawn(n) \/ WorkStep(n)

Spec == Init /\ [][Next]_vars

\* The event loop runs what is ready, what a handler or work awaits ends, and
\* a cancelled task ends.  Nothing makes a session close or a client reconnect.
Fairness ==
    /\ WF_vars(Start) /\ WF_vars(Closed)
    /\ \A l \in Loops : WF_vars(LoopStep(l))
    /\ \A n \in Events : WF_vars(EventStep(n)) /\ WF_vars(WorkStep(n))

FairSpec == Spec /\ Fairness

-----------------------------------------------------------------------------
(* Properties.                                                             *)

Handling(n) == task[n] = "running"
Here(k) == {n \in TasksOf(k) : task[n] \in Started}

\* Types of the tables and the tasks.
TypeOK ==
    /\ concurrent \in BOOLEAN /\ keyOf \in Seq(Keys) /\ Len(keyOf) <= MaxEvents
    /\ pipe \in Loops /\ at \in [Loops -> {Off, Receiving} \cup Events]
    /\ reads \in [Loops -> Loops] /\ inbox \in Seq(Events) /\ ready \in Seq(Events)
    /\ task \in [Events -> {"none", "done"} \cup Alive]
    /\ work \in [Events -> {"none", "running", "done"}]
    /\ lock \in [Keys -> {NoLock} \cup Events] /\ users \in [Keys -> Nat]
    /\ uses \in [Events -> {NoLock} \cup Events] /\ line \in [Events -> Seq(Events)]
    /\ begun \in Seq(Events) /\ phase \in {"open", "closing", "closed"}
    /\ doomed \in [events : SUBSET Events, works : SUBSET Events]

\* _dispatch_ordered_by_key: two handlers of one widget never overlap, though
\* its lock is dropped and made again, and loops of two connections spawn.
OneAtATime == concurrent =>
    \A n, o \in 1..Len(keyOf) : Handling(n) /\ Handling(o) /\ keyOf[n] = keyOf[o] => n = o

\* _dispatch_ordered_by_key: a widget's events reach their handlers in the
\* order they arrived.
ArrivalOrder == concurrent => \A i, j \in 1..Len(begun) :
    i < j /\ keyOf[begun[i]] = keyOf[begun[j]] => begun[i] < begun[j]

\* _key_lock_users counts the tasks that hold or await a key's lock, they all
\* stand in the line of that one lock, and a key nobody uses keeps no lock.
LocksAreCounted == phase = "open" => \A k \in Keys :
    /\ users[k] = (IF concurrent THEN Cardinality(Here(k)) ELSE 0)
    /\ lock[k] = NoLock <=> users[k] = 0
    /\ concurrent => \A n \in Here(k) : uses[n] = lock[k]

\* serve: in series, no handler is called while another runs.
InSeries == ~concurrent => Cardinality({n \in Events : Handling(n)}) <= 1

\* close: no task the session spawned outlives it.
NothingOutlives == phase = "closed" =>
    \A n \in Events : work[n] /= "running" /\ (concurrent => task[n] \notin Started)

\* Every event a session read is handled, unless the session closes.
ReadIsHandled == \A n \in Events :
    (task[n] \in Alive /\ phase = "open") ~> (task[n] = "done" \/ phase /= "open")

\* close() finishes: nothing it cancelled and awaits stays.
CloseFinishes == (phase = "closing") ~> (phase = "closed")

\* serve, dispatch: the handlers of a session run in turn, of a widget when it
\* dispatches concurrently and of all otherwise, each in the order of arrival.
InTurn == OneAtATime /\ ArrivalOrder /\ InSeries

\* _spawn, _dispatch_ordered_by_key, close: what the tables count is what there
\* is, and a closed session leaves no task.
TasksAreCounted == TypeOK /\ LocksAreCounted /\ NothingOutlives

\* What a session began ends: events are handled, and close() returns.
TasksEnd == ReadIsHandled /\ CloseFinishes
=============================================================================
