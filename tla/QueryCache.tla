----------------------------- MODULE QueryCache -----------------------------
(***************************************************************************)
(* The read side of remote data: tempestweb/query/cache.py, with the       *)
(* persistence of tempestweb/query/persistence.py.                         *)
(*                                                                         *)
(* A value is the set of the mutations it shows.  The server holds the     *)
(* mutations it accepted; a load brings back what the server held when it  *)
(* answered; an optimistic patch adds its mutation before the server has   *)
(* agreed.  A stamp is modelled by its age, which is all the code compares,*)
(* saturating at CacheMs: an entry that old is collected before it is read.*)
(* One clock tick is the unit of StaleMs and CacheMs.                      *)
(*                                                                         *)
(* Each action is what the event loop runs between two awaits.  Listeners, *)
(* is_stale and the shape of the values are not modelled.                  *)
(***************************************************************************)
EXTENDS Naturals, Sequences

CONSTANTS
    Keys,           \* cache keys, tuples of segments
    Prefixes,       \* what the application invalidates, drops and patches
    Mutations,      \* writes the application makes, once each
    Readers,        \* concurrent callers of fetch
    StaleMs,        \* the staleness window of the cache
    CacheMs,        \* the age at which an entry is collected
    Windows,        \* the staleness windows a read may ask for
    MaxReloads,     \* bound: how often the process is restarted
    MayDrop,        \* does the application drop entries?
    Habits,         \* applications, one of which is running
    Nothing         \* None, the value of a key that holds no entry

\* An application: the keys its screen reads, and what it may do.
Applications == [
    queries : SUBSET Keys,
    busyInvalidate : BOOLEAN, \* invalidate what is being loaded or changed
    overlap : BOOLEAN,        \* open two optimistic changes of one entry at once
    undoTwice : BOOLEAN,      \* also undo by hand
    restarts : BOOLEAN]       \* persist its cache and restart

ASSUME WindowsAssumption ==
    /\ StaleMs \in Nat \ {0} /\ CacheMs \in Nat /\ StaleMs <= CacheMs
    /\ Windows \subseteq 0 .. CacheMs
ASSUME BoundsAssumption ==
    /\ MaxReloads \in Nat /\ MayDrop \in BOOLEAN
    /\ Habits \subseteq Applications

VARIABLES
    habit,      \* the application that runs
    entries,    \* _entries: key -> entry, or Absent
    inflight,   \* _inflight: key -> load, or Absent
    reader,     \* what each caller of fetch is doing
    server,     \* the mutations the server accepted
    change,     \* the progress of each mutation
    touched,    \* mutation -> key -> the entry its patch replaced, or Absent
    disk,       \* the browser's storage: key -> record, or Absent
    chore,      \* the persist or restore that is running
    reloads     \* restarts so far

vars == <<habit, entries, inflight, reader, server, change, touched, disk, chore, reloads>>

Absent == [is |-> "absent"]
Values == (SUBSET Mutations) \cup {Nothing}

\* `outdated` is a history field: the application has invalidated the key
\* since this entry, or this load, was asked for.
Entry(value, age, outdated) ==
    [is |-> "entry", value |-> value, age |-> age, outdated |-> outdated]
Load(stage, value, outdated) ==
    [is |-> "load", stage |-> stage, value |-> value, outdated |-> outdated]
Record(value) == [is |-> "record", value |-> value]
Entries == [is : {"entry"}, value : Values, age : 0 .. CacheMs, outdated : BOOLEAN]
Loads == [is : {"load"}, stage : {"asked", "answered", "failed"},
          value : Values, outdated : BOOLEAN]
Records == [is : {"record"}, value : Values]

Idle == [at |-> "idle"]
Waits(k, late) == [at |-> "waits", key |-> k, late |-> late]
Served(value, late) == [at |-> "served", none |-> value = Nothing, late |-> late]
Callers == {Idle} \cup [at : {"waits"}, key : Keys, late : BOOLEAN]
                  \cup [at : {"served"}, none : BOOLEAN, late : BOOLEAN]

Present(e) == e # Absent
IsUnder(prefix, key) ==
    Len(prefix) <= Len(key) /\ SubSeq(key, 1, Len(prefix)) = prefix
Under(prefix) == {k \in Keys : IsUnder(prefix, k)}
Empty == [k \in Keys |-> Absent]
Chores == [doing : {"nothing", "persist", "restore"}, left : SUBSET Keys]
Resting == [doing |-> "nothing", left |-> {}]

-----------------------------------------------------------------------------
(* Reading.                                                                *)

\* fetch and get first drop what has aged past the cache window.
Collect(es) ==
    [k \in Keys |-> IF Present(es[k]) /\ es[k].age >= CacheMs THEN Absent ELSE es[k]]

Fresh(es, k, window) == Present(es[k]) /\ es[k].age < window

\* The cache answers.  A forced read skips this.
FetchHit(r, k, window) ==
    LET es == Collect(entries) IN
    /\ reader[r].at # "waits"
    /\ Fresh(es, k, window)
    /\ entries' = es
    /\ reader' = [reader EXCEPT ![r] = Served(es[k].value, es[k].outdated)]
    /\ UNCHANGED <<habit, inflight, server, change, touched, disk, chore, reloads>>

\* The key is being loaded already: share that load.
Join(r, k) ==
    /\ Present(inflight[k])
    /\ reader' = [reader EXCEPT ![r] = Waits(k, inflight[k].outdated)]
    /\ UNCHANGED inflight

\* Start the load; its task asks the server.
StartLoad(r, k) ==
    /\ ~Present(inflight[k])
    /\ inflight' = [inflight EXCEPT ![k] = Load("asked", Nothing, FALSE)]
    /\ reader' = [reader EXCEPT ![r] = Waits(k, FALSE)]

FetchMiss(r, k, window, force) ==
    LET es == Collect(entries) IN
    /\ reader[r].at # "waits"
    /\ force \/ ~Fresh(es, k, window)
    /\ entries' = es
    /\ Join(r, k) \/ StartLoad(r, k)
    /\ UNCHANGED <<habit, server, change, touched, disk, chore, reloads>>

Fetch(r, k, window, force) ==
    \/ ~force /\ FetchHit(r, k, window)
    \/ FetchMiss(r, k, window, force)

\* The caller is cancelled; the load is shielded from it.
Cancel(r) ==
    /\ reader[r].at = "waits"
    /\ reader' = [reader EXCEPT ![r] = Idle]
    /\ UNCHANGED <<habit, entries, inflight, server, change, touched, disk, chore, reloads>>

\* The server answers a load with what it holds now; the answer travels.
Answer(k) ==
    /\ Present(inflight[k]) /\ inflight[k].stage = "asked"
    /\ inflight' = [inflight EXCEPT ![k].stage = "answered", ![k].value = server]
    /\ UNCHANGED <<habit, entries, reader, server, change, touched, disk, chore, reloads>>

LoadFails(k) ==
    /\ Present(inflight[k]) /\ inflight[k].stage = "asked"
    /\ inflight' = [inflight EXCEPT ![k].stage = "failed"]
    /\ UNCHANGED <<habit, entries, reader, server, change, touched, disk, chore, reloads>>

\* Mutant of Settle: a failed load returns before its slot is freed.
SettleKeepsFailed(k) ==
    LET load == inflight[k] IN
    /\ Present(load) /\ load.stage = "answered"
    /\ inflight' = [inflight EXCEPT ![k] = Absent]
    /\ entries' = [entries EXCEPT ![k] = Entry(load.value, 0, load.outdated)]
    /\ reader' = [r \in Readers |->
                    IF reader[r].at # "waits" \/ reader[r].key # k THEN reader[r]
                    ELSE Served(load.value, reader[r].late)]
    /\ UNCHANGED <<habit, server, change, touched, disk, chore, reloads>>
\* Mutant of Settle: an answer renews the stamp of the entry it finds.
SettleRestamps(k) ==
    LET load == inflight[k] IN
    /\ Present(load) /\ load.stage # "asked"
    /\ inflight' = [inflight EXCEPT ![k] = Absent]
    /\ entries' = IF load.stage = "failed" THEN entries
                  ELSE IF Present(entries[k]) THEN [entries EXCEPT ![k].age = 0]
                  ELSE [entries EXCEPT ![k] = Entry(load.value, 0, load.outdated)]
    /\ reader' = [r \in Readers |-> IF reader[r].at = "waits" THEN Idle ELSE reader[r]]
    /\ UNCHANGED <<habit, server, change, touched, disk, chore, reloads>>
\* The done callback: free the slot, store an answer stamped fresh, leave the
\* entry of a failed load alone.  The callers then resume.
Settle(k) ==
    LET load == inflight[k] IN
    /\ Present(load) /\ load.stage # "asked"
    /\ inflight' = [inflight EXCEPT ![k] = Absent]
    /\ entries' = IF load.stage = "failed" THEN entries
                  ELSE [entries EXCEPT ![k] = Entry(load.value, 0, load.outdated)]
    /\ reader' = [r \in Readers |->
                    IF reader[r].at # "waits" \/ reader[r].key # k THEN reader[r]
                    ELSE IF load.stage = "failed" THEN Idle
                    ELSE Served(load.value, reader[r].late)]
    /\ UNCHANGED <<habit, server, change, touched, disk, chore, reloads>>

-----------------------------------------------------------------------------
(* Invalidating and dropping.                                              *)

Busy(p) == \E k \in Under(p) :
    Present(inflight[k]) \/ \E m \in Mutations : Present(touched[m][k])

Stale(e) == IF Present(e) THEN [e EXCEPT !.age = StaleMs] ELSE e
Outdated(x) == IF Present(x) THEN [x EXCEPT !.outdated = TRUE] ELSE x

\* Entries under the prefix are stamped one staleness window ago; loads in
\* flight and rollbacks keep what they have.
Invalidate(p) ==
    /\ habit.busyInvalidate \/ ~Busy(p)
    /\ entries' = [k \in Keys |-> IF k \in Under(p) THEN Outdated(Stale(entries[k]))
                                  ELSE entries[k]]
    /\ inflight' = [k \in Keys |-> IF k \in Under(p) THEN Outdated(inflight[k])
                                   ELSE inflight[k]]
    /\ touched' = [m \in Mutations |-> [k \in Keys |->
                     IF k \in Under(p) THEN Outdated(touched[m][k]) ELSE touched[m][k]]]
    /\ UNCHANGED <<habit, reader, server, change, disk, chore, reloads>>

Drop(p) ==
    /\ MayDrop
    /\ entries' = [k \in Keys |-> IF k \in Under(p) THEN Absent ELSE entries[k]]
    /\ UNCHANGED <<habit, inflight, reader, server, change, touched, disk, chore, reloads>>

-----------------------------------------------------------------------------
(* Optimistic changes: patch, the request, and the undo.                   *)

\* Mutant of Restored: a rollback that forgets its entries.
RestoredNothing(es, old) == es
\* Put back the entries a patch replaced, as they were.
Restored(es, old) == [k \in Keys |-> IF Present(old[k]) THEN old[k] ELSE es[k]]

\* The block is entered: patch every entry under the prefix, keep what was
\* there.  A patcher that raises, as one given None does, puts everything
\* back within this step and nothing has happened.
Begin(m, p) ==
    /\ change[m] = "idle"
    /\ habit.overlap \/ \A n \in Mutations : \A k \in Under(p) : ~Present(touched[n][k])
    /\ LET hit == {k \in Under(p) : Present(entries[k])} IN
       /\ \A k \in hit : entries[k].value # Nothing
       /\ touched' = [touched EXCEPT ![m] = [k \in Keys |->
                        IF k \in hit THEN entries[k] ELSE Absent]]
       /\ entries' = [k \in Keys |->
             IF k \in hit THEN [entries[k] EXCEPT !.value = @ \cup {m}] ELSE entries[k]]
    /\ change' = [change EXCEPT ![m] = "sent"]
    /\ UNCHANGED <<habit, inflight, reader, server, disk, chore, reloads>>

\* Somebody else writes.
RemoteWrite(m) ==
    /\ change[m] = "idle"
    /\ server' = server \cup {m}
    /\ change' = [change EXCEPT ![m] = "kept"]
    /\ UNCHANGED <<habit, entries, inflight, reader, touched, disk, chore, reloads>>

\* The server's decision; a refusal may also be a request that never arrives.
Accept(m) ==
    /\ change[m] = "sent"
    /\ server' = server \cup {m}
    /\ change' = [change EXCEPT ![m] = "accepted"]
    /\ UNCHANGED <<habit, entries, inflight, reader, touched, disk, chore, reloads>>

RefuseWrite(m) ==
    /\ change[m] = "sent"
    /\ change' = [change EXCEPT ![m] = "refused"]
    /\ UNCHANGED <<habit, entries, inflight, reader, server, touched, disk, chore, reloads>>

\* The request returns and the block ends.
Keep(m) ==
    /\ change[m] = "accepted"
    /\ change' = [change EXCEPT ![m] = "kept"]
    /\ touched' = [touched EXCEPT ![m] = Empty]
    /\ UNCHANGED <<habit, entries, inflight, reader, server, disk, chore, reloads>>

\* The request raises, refused or with its answer lost: roll back.
Undo(m) ==
    /\ change[m] \in {"accepted", "refused"}
    /\ entries' = Restored(entries, touched[m])
    /\ change' = [change EXCEPT ![m] = "undone"]
    /\ touched' = [touched EXCEPT ![m] = Empty]
    /\ UNCHANGED <<habit, inflight, reader, server, disk, chore, reloads>>

\* A block that undid by hand, awaits, and then raises undoes again.
UndoByHand(m) ==
    /\ habit.undoTwice
    /\ change[m] = "refused"
    /\ entries' = Restored(entries, touched[m])
    /\ change' = [change EXCEPT ![m] = "undone"]
    /\ UNCHANGED <<habit, inflight, reader, server, touched, disk, chore, reloads>>

UndoAgain(m) ==
    /\ habit.undoTwice
    /\ change[m] = "undone"
    /\ touched[m] # Empty
    /\ entries' = Restored(entries, touched[m])
    /\ touched' = [touched EXCEPT ![m] = Empty]
    /\ UNCHANGED <<habit, inflight, reader, server, change, disk, chore, reloads>>

-----------------------------------------------------------------------------
(* Surviving a reload.                                                     *)

\* persist walks the keys held when it starts, awaiting the store for each.
Persist ==
    /\ habit.restarts /\ reloads < MaxReloads /\ chore = Resting
    /\ chore' = [doing |-> "persist", left |-> {k \in Keys : Present(entries[k])}]
    /\ UNCHANGED <<habit, entries, inflight, reader, server, change, touched, disk, reloads>>

\* get collects, and answers None for a key no longer held.
PersistKey(k) ==
    LET es == Collect(entries) IN
    /\ chore.doing = "persist" /\ k \in chore.left
    /\ entries' = es
    /\ disk' = [disk EXCEPT ![k] = Record(IF Present(es[k]) THEN es[k].value ELSE Nothing)]
    /\ chore' = [chore EXCEPT !.left = @ \ {k}]
    /\ UNCHANGED <<habit, inflight, reader, server, change, touched, reloads>>

PersistEnds ==
    /\ chore.doing = "persist" /\ chore.left = {}
    /\ chore' = Resting
    /\ UNCHANGED <<habit, entries, inflight, reader, server, change, touched, disk, reloads>>

\* The process dies and another boots; requests it had sent are still decided
\* by the server, and nobody waits for them.  restore lists what was stored.
Reload ==
    /\ habit.restarts /\ reloads < MaxReloads
    /\ reloads' = reloads + 1
    /\ entries' = Empty /\ inflight' = Empty
    /\ reader' = [r \in Readers |-> Idle]
    /\ touched' = [m \in Mutations |-> Empty]
    /\ chore' = [doing |-> "restore", left |-> {k \in Keys : Present(disk[k])}]
    /\ UNCHANGED <<habit, server, change, disk>>

\* One stored record is set into the cache, stamped fresh.
RestoreKey(k) ==
    /\ chore.doing = "restore" /\ k \in chore.left
    /\ entries' = [entries EXCEPT ![k] = Entry(disk[k].value, 0, FALSE)]
    /\ chore' = [chore EXCEPT !.left = @ \ {k}]
    /\ UNCHANGED <<habit, inflight, reader, server, change, touched, disk, reloads>>

RestoreEnds ==
    /\ chore.doing = "restore" /\ chore.left = {}
    /\ chore' = Resting
    /\ UNCHANGED <<habit, entries, inflight, reader, server, change, touched, disk, reloads>>

-----------------------------------------------------------------------------
\* Time passes: whatever carries a stamp is one tick older.
Older(e) == IF Present(e) /\ e.age < CacheMs THEN [e EXCEPT !.age = @ + 1] ELSE e

Tick ==
    /\ entries' = [k \in Keys |-> Older(entries[k])]
    /\ touched' = [m \in Mutations |-> [k \in Keys |-> Older(touched[m][k])]]
    /\ UNCHANGED <<habit, inflight, reader, server, change, disk, chore, reloads>>

Init ==
    /\ habit \in Habits
    /\ entries = Empty /\ inflight = Empty /\ disk = Empty
    /\ reader = [r \in Readers |-> Idle]
    /\ server = {}
    /\ change = [m \in Mutations |-> "idle"]
    /\ touched = [m \in Mutations |-> Empty]
    /\ chore = Resting /\ reloads = 0

Next ==
    \/ \E r \in Readers, k \in habit.queries, w \in Windows, force \in BOOLEAN : Fetch(r, k, w, force)
    \/ \E r \in Readers : Cancel(r)
    \/ \E k \in Keys : Answer(k) \/ LoadFails(k) \/ Settle(k) \/ PersistKey(k) \/ RestoreKey(k)
    \/ \E p \in Prefixes : Invalidate(p) \/ Drop(p)
    \/ \E m \in Mutations, p \in Prefixes : Begin(m, p)
    \/ \E m \in Mutations : RemoteWrite(m) \/ Accept(m) \/ RefuseWrite(m) \/ Keep(m) \/ Undo(m)
                               \/ UndoByHand(m) \/ UndoAgain(m)
    \/ Persist \/ PersistEnds \/ Reload \/ RestoreEnds \/ Tick

Spec == Init /\ [][Next]_vars

\* Time passes, callbacks and coroutines run, blocks end; a server asked again
\* and again answers; and the screen keeps reading every key.
Fairness ==
    /\ WF_vars(Tick) /\ WF_vars(PersistEnds) /\ WF_vars(RestoreEnds)
    /\ \A k \in Keys :
          /\ WF_vars(Settle(k)) /\ WF_vars(PersistKey(k)) /\ WF_vars(RestoreKey(k))
          /\ WF_vars(Answer(k) \/ LoadFails(k)) /\ SF_vars(Answer(k))
          /\ SF_vars(k \in habit.queries /\ \E r \in Readers : Fetch(r, k, StaleMs, FALSE))
    /\ \A m \in Mutations : WF_vars(Keep(m) \/ Undo(m)) /\ WF_vars(Accept(m) \/ RefuseWrite(m))
FairSpec == Spec /\ Fairness

-----------------------------------------------------------------------------
(* Properties.                                                             *)

\* Every variable has its type.
TypeOK ==
    /\ habit \in Habits
    /\ entries \in [Keys -> Entries \cup {Absent}]
    /\ inflight \in [Keys -> Loads \cup {Absent}]
    /\ reader \in [Readers -> Callers]
    /\ server \in SUBSET Mutations
    /\ change \in [Mutations -> {"idle", "sent", "accepted", "refused", "kept", "undone"}]
    /\ touched \in [Mutations -> [Keys -> Entries \cup {Absent}]]
    /\ disk \in [Keys -> Records \cup {Absent}]
    /\ chore \in Chores
    /\ reloads \in 0 .. MaxReloads

\* A fetch that begins after its key was invalidated is answered by a load
\* that began after it too.
InvalidatedIsReloaded == \A r \in Readers : reader[r].at = "served" => ~reader[r].late

\* Once an optimistic change that the server refused was undone, no entry
\* shows it.
RefusedLeavesNoTrace == \A m \in Mutations, k \in Keys :
    /\ change[m] = "undone" /\ m \notin server
    /\ Present(entries[k]) /\ entries[k].value # Nothing
    => m \notin entries[k].value

\* No read asks for a window wider than that of the cache.
NarrowWindows == \A w \in Windows : w <= StaleMs

\* A careful application reads again what it invalidated, and sees nothing of a
\* change that was refused.
CarefulReadsTrue ==
    /\ TypeOK
    /\ ~habit.busyInvalidate /\ NarrowWindows => InvalidatedIsReloaded
    /\ ~habit.overlap /\ ~habit.restarts => RefusedLeavesNoTrace

\* While an optimistic change is undecided, the entries it changed show it.
OpenChangesShow == \A m \in Mutations, k \in Keys :
    change[m] = "sent" /\ Present(touched[m][k]) /\ Present(entries[k])
    => m \in entries[k].value

\* The second of two rollbacks of a change does nothing.
SecondUndoHarmless == [][(\E m \in Mutations : UndoAgain(m)) => entries' = entries]_vars

\* A reader is served what a load brought, patched or not, and never None.
ServesAnswers == \A r \in Readers : reader[r].at = "served" => ~reader[r].none

\* An entry grows younger only by being stored anew.
NeverYounger == [][\A k \in Keys :
    Present(entries[k]) /\ Present(entries'[k]) /\ entries'[k].age < entries[k].age
    => entries'[k].age = 0]_vars

\* Every caller of fetch gets an answer or an error, whatever else is cached,
\* invalidated, dropped or patched meanwhile.
AnsweredEventually == \A r \in Readers : reader[r].at = "waits" ~> reader[r].at # "waits"

\* However loads, invalidations, rollbacks and reloads interleave, a screen
\* that keeps reading ends up showing what the server holds.
EventuallyCurrent == \A k \in Keys :
    <>[](Present(entries[k]) => entries[k].value = server)
=============================================================================
