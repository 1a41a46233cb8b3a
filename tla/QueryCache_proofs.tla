------------------------- MODULE QueryCache_proofs -------------------------
(***************************************************************************)
(* Safety of the query cache for any keys, prefixes, readers, mutations    *)
(* and windows: when a read after an invalidation asks the server again,   *)
(* and when a change that was refused leaves no trace.                     *)
(***************************************************************************)
EXTENDS QueryCache, TLAPS

-----------------------------------------------------------------------------
(* The invariants.                                                         *)

MaybeEntries == Entries \cup {Absent}

\* What restore still lists was stored.
RestoresStored == chore.doing = "restore" => \A k \in chore.left : Present(disk[k])

TypeInv == TypeOK /\ RestoresStored

\* What was invalidated is stale in the eyes of every read.
StaleIfOutdated(e) == Present(e) /\ e.outdated => e.age >= StaleMs

\* Only entries, and those a rollback would put back, are ever outdated.
OutdatedIsStale ==
    /\ \A k \in Keys : StaleIfOutdated(entries[k])
    /\ \A m \in Mutations, k \in Keys : StaleIfOutdated(touched[m][k])
    /\ \A k \in Keys : Present(inflight[k]) => ~inflight[k].outdated
    /\ \A r \in Readers : reader[r].at # "idle" => ~reader[r].late

\* A value shows no mutation but those the server holds.
Agreed(value) == value # Nothing => value \subseteq server

\* An entry shows a mutation the server does not hold only while a rollback will
\* take it off, and what rollbacks and answers put there shows none.
TracesAreOpen ==
    /\ reloads = 0 /\ chore = Resting
    /\ \A m \in Mutations, k \in Keys :
          /\ Present(entries[k]) /\ entries[k].value # Nothing
          /\ m \in entries[k].value /\ m \notin server
          => change[m] \in {"sent", "refused"} /\ Present(touched[m][k])
    /\ \A m \in Mutations, k \in Keys : Present(touched[m][k]) => Agreed(touched[m][k].value)
    /\ \A k \in Keys : Present(inflight[k]) => Agreed(inflight[k].value)
    /\ \A m \in Mutations : change[m] \in {"accepted", "kept"} => m \in server

-----------------------------------------------------------------------------
(* Entries and loads.                                                      *)

LEMMA EntryFacts ==
    ASSUME NEW e \in MaybeEntries, Present(e)
    PROVE  /\ e \in Entries /\ e.value \in Values
           /\ e.age \in 0 .. CacheMs /\ e.outdated \in BOOLEAN
BY DEF MaybeEntries, Entries, Present

LEMMA EntryIs ==
    ASSUME NEW value \in Values, NEW age \in 0 .. CacheMs, NEW outdated \in BOOLEAN
    PROVE  /\ Entry(value, age, outdated) \in Entries /\ Present(Entry(value, age, outdated))
           /\ Entry(value, age, outdated).value = value
           /\ Entry(value, age, outdated).age = age
           /\ Entry(value, age, outdated).outdated = outdated
BY DEF Entry, Entries, Present, Absent

\* What time and invalidation do to an entry, if it is there.
LEMMA OlderIs ==
    ASSUME NEW e \in MaybeEntries
    PROVE  /\ Older(e) \in MaybeEntries /\ (Present(Older(e)) <=> Present(e))
           /\ Present(e) => /\ Older(e).value = e.value /\ Older(e).outdated = e.outdated
                            /\ Older(e).age >= e.age
BY WindowsAssumption DEF Older, MaybeEntries, Entries, Present, Absent

LEMMA InvalidatedIs ==
    ASSUME NEW e \in MaybeEntries
    PROVE  /\ Outdated(Stale(e)) \in MaybeEntries /\ (Present(Outdated(Stale(e))) <=> Present(e))
           /\ Outdated(e) \in MaybeEntries /\ (Present(Outdated(e)) <=> Present(e))
           /\ Present(e) => /\ Outdated(Stale(e)).value = e.value
                            /\ Outdated(Stale(e)).age = StaleMs
                            /\ Outdated(e).value = e.value
           /\ ~Present(e) => Outdated(e) = e
<1>1. CASE ~Present(e) BY <1>1 DEF Stale, Outdated, Present
<1>2. CASE Present(e)
  <2> DEFINE s == [e EXCEPT !.age = StaleMs]
             o == [s EXCEPT !.outdated = TRUE]
  <2>1. e \in Entries /\ StaleMs \in 0 .. CacheMs
    BY <1>2, WindowsAssumption DEF MaybeEntries, Present
  <2>2. s \in Entries /\ s.value = e.value /\ s.age = StaleMs BY <2>1 DEF Entries
  <2>3. /\ o \in Entries /\ Present(o) /\ o.value = s.value /\ o.age = s.age
    BY <2>2 DEF Entries, Present, Absent
  <2>4. /\ [e EXCEPT !.outdated = TRUE] \in Entries
        /\ Present([e EXCEPT !.outdated = TRUE])
        /\ [e EXCEPT !.outdated = TRUE].value = e.value
    BY <2>1 DEF Entries, Present, Absent
  <2>5. Present(s) BY <2>2 DEF Entries, Present, Absent
  <2>6. Outdated(Stale(e)) = o /\ Outdated(e) = [e EXCEPT !.outdated = TRUE]
    BY <1>2, <2>5 DEF Stale, Outdated
  <2> HIDE DEF s, o
  <2> QED BY <1>2, <2>2, <2>3, <2>4, <2>6 DEF MaybeEntries
<1> QED BY <1>1, <1>2

LEMMA LoadFacts ==
    ASSUME NEW x \in Loads \cup {Absent}, Present(x)
    PROVE  x \in Loads /\ x.value \in Values /\ x.outdated \in BOOLEAN
BY DEF Loads, Present

LEMMA LoadIs ==
    ASSUME NEW x \in Loads
    PROVE  /\ Present(x) /\ Outdated(x) \in Loads /\ Outdated(x).value = x.value
           /\ Present(Outdated(x))
           /\ [x EXCEPT !.stage = "failed"] \in Loads
           /\ [x EXCEPT !.stage = "failed"].value = x.value
           /\ [x EXCEPT !.stage = "failed"].outdated = x.outdated
           /\ \A v \in Values :
                 /\ [x EXCEPT !.stage = "answered", !.value = v] \in Loads
                 /\ [x EXCEPT !.stage = "answered", !.value = v].value = v
                 /\ [x EXCEPT !.stage = "answered", !.value = v].outdated = x.outdated
<1>1. Present(x) BY DEF Loads, Present, Absent
<1>2. /\ [x EXCEPT !.outdated = TRUE] \in Loads
      /\ [x EXCEPT !.outdated = TRUE].value = x.value
  BY DEF Loads
<1>3. Outdated(x) = [x EXCEPT !.outdated = TRUE] BY <1>1 DEF Outdated
<1>4. Present(Outdated(x)) BY <1>2, <1>3 DEF Loads, Present, Absent
<1>5. /\ [x EXCEPT !.stage = "failed"] \in Loads
      /\ [x EXCEPT !.stage = "failed"].value = x.value
      /\ [x EXCEPT !.stage = "failed"].outdated = x.outdated
  BY DEF Loads
<1>6. ASSUME NEW v \in Values
      PROVE  /\ [x EXCEPT !.stage = "answered", !.value = v] \in Loads
             /\ [x EXCEPT !.stage = "answered", !.value = v].value = v
             /\ [x EXCEPT !.stage = "answered", !.value = v].outdated = x.outdated
  BY DEF Loads
<1> QED BY <1>1, <1>2, <1>3, <1>4, <1>5, <1>6

LEMMA FreshLoad ==
    /\ Load("asked", Nothing, FALSE) \in Loads /\ Present(Load("asked", Nothing, FALSE))
    /\ Load("asked", Nothing, FALSE).value = Nothing
    /\ Load("asked", Nothing, FALSE).outdated = FALSE
BY DEF Load, Loads, Values, Present, Absent

LEMMA CollectIs ==
    ASSUME TypeOK
    PROVE  /\ Collect(entries) \in [Keys -> MaybeEntries]
           /\ \A k \in Keys : Present(Collect(entries)[k]) =>
                 Present(entries[k]) /\ Collect(entries)[k] = entries[k]
BY DEF TypeOK, Collect, MaybeEntries, Present

LEMMA RestoredIs ==
    ASSUME TypeOK, NEW m \in Mutations
    PROVE  /\ Restored(entries, touched[m]) \in [Keys -> MaybeEntries]
           /\ \A k \in Keys : Restored(entries, touched[m])[k] =
                 IF Present(touched[m][k]) THEN touched[m][k] ELSE entries[k]
BY DEF TypeOK, Restored, MaybeEntries

\* What a caller of fetch does.
LEMMA CallerIs ==
    /\ Idle \in Callers /\ Idle.at = "idle"
    /\ \A k \in Keys, late \in BOOLEAN :
          Waits(k, late) \in Callers /\ Waits(k, late).at = "waits" /\ Waits(k, late).late = late
    /\ \A value \in Values, late \in BOOLEAN :
          Served(value, late) \in Callers /\ Served(value, late).at = "served"
          /\ Served(value, late).late = late
    /\ \A x \in Callers : x.at # "idle" => x.late \in BOOLEAN
BY DEF Callers, Idle, Waits, Served

-----------------------------------------------------------------------------
(* Types.                                                                  *)

LEMMA TypesInit == Init => TypeInv
BY BoundsAssumption DEF Init, TypeInv, TypeOK, RestoresStored, Empty, Resting, Chores, Callers

LEMMA FetchTypes ==
    ASSUME TypeInv, NEW r \in Readers, NEW k \in Keys, NEW w \in Windows, NEW force \in BOOLEAN,
           Fetch(r, k, w, force)
    PROVE  TypeInv'
<1> USE DEF TypeInv
<1> DEFINE es == Collect(entries)
<1>1. es \in [Keys -> MaybeEntries] BY CollectIs
<1>2. entries' = es /\ UNCHANGED <<habit, server, change, touched, disk, chore, reloads>>
  BY DEF Fetch, FetchHit, FetchMiss
<1>3. reader' \in [Readers -> Callers] /\ inflight' \in [Keys -> Loads \cup {Absent}]
  <2>1. CASE FetchHit(r, k, w)
    <3>1. Present(es[k]) /\ reader' = [reader EXCEPT ![r] = Served(es[k].value, es[k].outdated)]
          /\ inflight' = inflight
      BY <2>1 DEF FetchHit, Fresh
    <3>2. es[k].outdated \in BOOLEAN /\ es[k].value \in Values BY <1>1, <3>1, EntryFacts
    <3> HIDE DEF es
    <3> QED BY <3>1, <3>2, CallerIs DEF TypeOK
  <2>2. CASE FetchMiss(r, k, w, force)
    <3>1. CASE Join(r, k)
      <4>1. inflight[k].outdated \in BOOLEAN BY <3>1, LoadFacts DEF Join, TypeOK
      <4> QED BY <3>1, <4>1, CallerIs DEF Join, TypeOK
    <3>2. CASE StartLoad(r, k)
      BY <3>2, FreshLoad, CallerIs DEF StartLoad, TypeOK
    <3> QED BY <2>2, <3>1, <3>2 DEF FetchMiss
  <2> QED BY <2>1, <2>2 DEF Fetch
<1> HIDE DEF es
<1> QED BY <1>1, <1>2, <1>3 DEF TypeOK, RestoresStored, MaybeEntries

LEMMA LoadTypes ==
    ASSUME TypeInv, NEW k \in Keys, Answer(k) \/ LoadFails(k) \/ Settle(k)
    PROVE  TypeInv'
<1> USE DEF TypeInv
<1>0. Present(inflight[k]) /\ inflight[k] \in Loads BY LoadFacts DEF Answer, LoadFails, Settle, TypeOK
<1>1. CASE Answer(k)
  <2>1. server \in Values BY DEF TypeOK, Values
  <2>2. [inflight[k] EXCEPT !.stage = "answered", !.value = server] \in Loads BY <1>0, <2>1, LoadIs
  <2> QED BY <1>1, <2>2 DEF Answer, TypeOK, RestoresStored
<1>2. CASE LoadFails(k)
  <2>1. [inflight[k] EXCEPT !.stage = "failed"] \in Loads BY <1>0, LoadIs
  <2> QED BY <1>2, <2>1 DEF LoadFails, TypeOK, RestoresStored
<1>3. CASE Settle(k)
  <2> DEFINE load == inflight[k]
  <2>1. Entry(load.value, 0, load.outdated) \in Entries
    BY <1>0, LoadFacts, EntryIs, WindowsAssumption
  <2>2. inflight' \in [Keys -> Loads \cup {Absent}] BY <1>3 DEF Settle, TypeOK
  <2>3. entries' \in [Keys -> Entries \cup {Absent}] BY <1>3, <2>1 DEF Settle, TypeOK
  <2>4. reader' \in [Readers -> Callers]
    <3> SUFFICES ASSUME NEW r \in Readers
                 PROVE (IF reader[r].at # "waits" \/ reader[r].key # k THEN reader[r]
                        ELSE IF load.stage = "failed" THEN Idle
                        ELSE Served(load.value, reader[r].late)) \in Callers
      BY <1>3 DEF Settle
    <3>0. load.value \in Values BY <1>0, LoadFacts
    <3>1. reader[r] \in Callers BY DEF TypeOK
    <3>2. reader[r].at = "waits" => reader[r].late \in BOOLEAN BY <3>1, CallerIs
    <3> QED BY <3>0, <3>1, <3>2, CallerIs
  <2> QED BY <1>3, <2>2, <2>3, <2>4 DEF Settle, TypeOK, RestoresStored
<1> QED BY <1>1, <1>2, <1>3

LEMMA InvalidateTypes ==
    ASSUME TypeInv, NEW p \in Prefixes, Invalidate(p) \/ Drop(p)
    PROVE  TypeInv'
<1> USE DEF TypeInv
<1>1. CASE Invalidate(p)
  <2>1. entries' \in [Keys -> Entries \cup {Absent}]
    BY <1>1, InvalidatedIs DEF Invalidate, TypeOK, MaybeEntries
  <2>2. inflight' \in [Keys -> Loads \cup {Absent}]
    <3>1. \A k \in Keys : Outdated(inflight[k]) \in Loads \cup {Absent}
      <4> SUFFICES ASSUME NEW k \in Keys PROVE Outdated(inflight[k]) \in Loads \cup {Absent} OBVIOUS
      <4>1. CASE inflight[k] \in Loads BY <4>1, LoadIs
      <4>2. CASE inflight[k] = Absent BY <4>2 DEF Outdated, Present
      <4> QED BY <4>1, <4>2 DEF TypeOK
    <3> QED BY <1>1, <3>1 DEF Invalidate, TypeOK
  <2>3. touched' \in [Mutations -> [Keys -> Entries \cup {Absent}]]
    <3> SUFFICES ASSUME NEW m \in Mutations
                 PROVE  [k \in Keys |-> IF k \in Under(p) THEN Outdated(touched[m][k])
                                       ELSE touched[m][k]] \in [Keys -> Entries \cup {Absent}]
      BY <1>1 DEF Invalidate
    <3>1. \A k \in Keys : touched[m][k] \in MaybeEntries BY DEF TypeOK, MaybeEntries
    <3>2. \A k \in Keys : Outdated(touched[m][k]) \in MaybeEntries BY <3>1, InvalidatedIs
    <3> QED BY <3>1, <3>2 DEF MaybeEntries
  <2> QED BY <1>1, <2>1, <2>2, <2>3 DEF Invalidate, TypeOK, RestoresStored
<1>2. CASE Drop(p) BY <1>2 DEF Drop, TypeOK, RestoresStored
<1> QED BY <1>1, <1>2

\* The entry a change patched shows it, and is otherwise what it was.
LEMMA PatchedIs ==
    ASSUME NEW e \in Entries, e.value # Nothing, NEW m \in Mutations
    PROVE  /\ [e EXCEPT !.value = @ \cup {m}] \in Entries
           /\ Present([e EXCEPT !.value = @ \cup {m}])
           /\ [e EXCEPT !.value = @ \cup {m}].value = e.value \cup {m}
           /\ [e EXCEPT !.value = @ \cup {m}].age = e.age
           /\ [e EXCEPT !.value = @ \cup {m}].outdated = e.outdated
<1>1. e.value \cup {m} \in Values BY DEF Entries, Values
<1> QED BY <1>1 DEF Entries, Present, Absent

LEMMA ChangeTypes ==
    ASSUME TypeInv, NEW m \in Mutations,
           \/ \E p \in Prefixes : Begin(m, p)
           \/ RemoteWrite(m) \/ Accept(m) \/ RefuseWrite(m) \/ Keep(m)
           \/ Undo(m) \/ UndoByHand(m) \/ UndoAgain(m)
    PROVE  TypeInv'
<1> USE DEF TypeInv
<1>1. ASSUME NEW p \in Prefixes, Begin(m, p) PROVE TypeInv'
  <2> DEFINE hit == {k \in Under(p) : Present(entries[k])}
  <2>1. \A k \in hit : k \in Keys /\ entries[k] \in Entries /\ entries[k].value # Nothing
    BY <1>1, EntryFacts DEF Begin, TypeOK, Under, MaybeEntries
  <2>2. \A k \in hit : [entries[k] EXCEPT !.value = @ \cup {m}] \in Entries BY <2>1, PatchedIs
  <2> HIDE DEF hit
  <2>3. entries' = [k \in Keys |-> IF k \in hit THEN [entries[k] EXCEPT !.value = @ \cup {m}]
                                   ELSE entries[k]]
    BY <1>1 DEF Begin, hit
  <2>4. touched' = [touched EXCEPT ![m] = [k \in Keys |-> IF k \in hit THEN entries[k] ELSE Absent]]
    BY <1>1 DEF Begin, hit
  <2>5. entries' \in [Keys -> Entries \cup {Absent}] BY <2>2, <2>3 DEF TypeOK
  <2>6. touched' \in [Mutations -> [Keys -> Entries \cup {Absent}]] BY <2>1, <2>4 DEF TypeOK
  <2> QED BY <1>1, <2>5, <2>6 DEF Begin, TypeOK, RestoresStored
<1>2. CASE RemoteWrite(m) \/ Accept(m) \/ RefuseWrite(m)
  BY <1>2 DEF RemoteWrite, Accept, RefuseWrite, TypeOK, RestoresStored
<1>3. CASE Keep(m) BY <1>3 DEF Keep, TypeOK, RestoresStored, Empty
<1>4. CASE Undo(m) \/ UndoByHand(m) \/ UndoAgain(m)
  <2>1. entries' \in [Keys -> Entries \cup {Absent}]
    BY <1>4, RestoredIs DEF Undo, UndoByHand, UndoAgain, MaybeEntries
  <2> QED BY <1>4, <2>1 DEF Undo, UndoByHand, UndoAgain, TypeOK, RestoresStored, Empty
<1> QED BY <1>1, <1>2, <1>3, <1>4

LEMMA ReloadTypes ==
    ASSUME TypeInv,
           \/ Persist \/ PersistEnds \/ Reload \/ RestoreEnds \/ Tick
           \/ \E r \in Readers : Cancel(r)
           \/ \E k \in Keys : PersistKey(k) \/ RestoreKey(k)
    PROVE  TypeInv'
<1> USE DEF TypeInv
<1>1. CASE Persist \/ PersistEnds \/ RestoreEnds
  BY <1>1 DEF Persist, PersistEnds, RestoreEnds, Resting, Chores, TypeOK, RestoresStored
<1>2. CASE Reload
  BY <1>2, BoundsAssumption, CallerIs DEF Reload, Empty, Chores, TypeOK, RestoresStored
<1>3. CASE Tick
  BY <1>3, OlderIs DEF Tick, TypeOK, RestoresStored, MaybeEntries
<1>4. ASSUME NEW r \in Readers, Cancel(r) PROVE TypeInv'
  BY <1>4, CallerIs DEF Cancel, TypeOK, RestoresStored
<1>5. ASSUME NEW k \in Keys, PersistKey(k) PROVE TypeInv'
  <2> DEFINE es == Collect(entries)
             value == IF Present(es[k]) THEN es[k].value ELSE Nothing
  <2>1. es \in [Keys -> MaybeEntries] BY CollectIs
  <2>2. value \in Values BY <2>1, EntryFacts DEF Values
  <2>3. Record(value) \in Records BY <2>2 DEF Record, Records
  <2> HIDE DEF es, value
  <2>4. entries' = es /\ disk' = [disk EXCEPT ![k] = Record(value)]
    BY <1>5 DEF PersistKey, es, value
  <2>5. chore' = [chore EXCEPT !.left = @ \ {k}] /\ chore.doing = "persist"
    BY <1>5 DEF PersistKey
  <2>6. chore' \in Chores
        /\ chore'.doing = "persist"
    BY <2>5 DEF TypeOK, Chores
  <2>7. entries' \in [Keys -> Entries \cup {Absent}] BY <2>1, <2>4 DEF MaybeEntries
  <2>8. disk' \in [Keys -> Records \cup {Absent}] BY <2>3, <2>4 DEF TypeOK
  <2>9. UNCHANGED <<habit, inflight, reader, server, change, touched, reloads>> BY <1>5 DEF PersistKey
  <2> QED BY <2>6, <2>7, <2>8, <2>9 DEF TypeOK, RestoresStored
<1>6. ASSUME NEW k \in Keys, RestoreKey(k) PROVE TypeInv'
  <2>1. Present(disk[k]) BY <1>6 DEF RestoreKey, RestoresStored
  <2>2. disk[k].value \in Values BY <2>1 DEF TypeOK, Present, Records
  <2>3. Entry(disk[k].value, 0, FALSE) \in Entries
    <3>1. 0 \in 0 .. CacheMs /\ FALSE \in BOOLEAN BY WindowsAssumption
    <3> QED BY <2>2, <3>1, EntryIs
  <2>4. chore' = [chore EXCEPT !.left = @ \ {k}] /\ disk' = disk BY <1>6 DEF RestoreKey
  <2>5. chore' \in Chores
        /\ chore'.doing = chore.doing /\ chore'.left \subseteq chore.left
    BY <2>4 DEF TypeOK, Chores
  <2> QED BY <1>6, <2>3, <2>4, <2>5 DEF RestoreKey, TypeOK, RestoresStored
<1> QED BY <1>1, <1>2, <1>3, <1>4, <1>5, <1>6

\* An application reads some of the keys, and stays what it is.
LEMMA QueriesAreKeys ==
    ASSUME TypeInv
    PROVE  habit.queries \subseteq Keys
BY BoundsAssumption DEF TypeInv, TypeOK, Applications

LEMMA HabitStays ==
    ASSUME [Next]_vars
    PROVE  habit' = habit
BY DEF Next, vars, Fetch, FetchHit, FetchMiss, Cancel, Answer, LoadFails, Settle,
       PersistKey, RestoreKey, Invalidate, Drop, Begin, RemoteWrite, Accept, RefuseWrite,
       Keep, Undo, UndoByHand, UndoAgain, Persist, PersistEnds, Reload, RestoreEnds, Tick

LEMMA TypeInvStep == TypeInv /\ [Next]_vars => TypeInv'
<1> SUFFICES ASSUME TypeInv, [Next]_vars PROVE TypeInv' OBVIOUS
<1>1. ASSUME NEW r \in Readers, NEW k \in Keys, NEW w \in Windows, NEW force \in BOOLEAN,
             Fetch(r, k, w, force)
      PROVE  TypeInv'
  BY <1>1, FetchTypes
<1>2. ASSUME NEW k \in Keys, Answer(k) \/ LoadFails(k) \/ Settle(k) PROVE TypeInv'
  BY <1>2, LoadTypes
<1>3. ASSUME NEW p \in Prefixes, Invalidate(p) \/ Drop(p) PROVE TypeInv'
  BY <1>3, InvalidateTypes
<1>4. ASSUME NEW m \in Mutations,
             \/ \E p \in Prefixes : Begin(m, p)
             \/ RemoteWrite(m) \/ Accept(m) \/ RefuseWrite(m) \/ Keep(m)
             \/ Undo(m) \/ UndoByHand(m) \/ UndoAgain(m)
      PROVE  TypeInv'
  BY <1>4, ChangeTypes
<1>5. CASE \/ Persist \/ PersistEnds \/ Reload \/ RestoreEnds \/ Tick
           \/ \E r \in Readers : Cancel(r)
           \/ \E k \in Keys : PersistKey(k) \/ RestoreKey(k)
  BY <1>5, ReloadTypes
<1>6. CASE UNCHANGED vars BY <1>6 DEF vars, TypeInv, TypeOK, RestoresStored
<1> QED BY <1>1, <1>2, <1>3, <1>4, <1>5, <1>6, QueriesAreKeys DEF Next

\* Every variable keeps its type, and what restore lists was stored.
THEOREM CacheTypes == Spec => []TypeInv
<1>1. Init => TypeInv BY TypesInit
<1>2. TypeInv /\ [Next]_vars => TypeInv' BY TypeInvStep
<1> QED BY <1>1, <1>2, PTL DEF Spec

-----------------------------------------------------------------------------
(* What was invalidated is loaded anew.                                    *)

LEMMA OutdatedInit == Init => OutdatedIsStale
BY CallerIs DEF Init, Empty, OutdatedIsStale, StaleIfOutdated, Present

LEMMA FetchLate ==
    ASSUME TypeInv, NarrowWindows, OutdatedIsStale, NEW r \in Readers, NEW k \in Keys,
           NEW w \in Windows, NEW force \in BOOLEAN, Fetch(r, k, w, force)
    PROVE  OutdatedIsStale'
<1> DEFINE es == Collect(entries)
<1>1. es \in [Keys -> MaybeEntries] /\ \A c \in Keys : Present(es[c]) => es[c] = entries[c]
  BY CollectIs DEF TypeInv
<1>2. entries' = es /\ touched' = touched BY DEF Fetch, FetchHit, FetchMiss
<1>3. \A c \in Keys : StaleIfOutdated(es[c])
  BY <1>1 DEF OutdatedIsStale, StaleIfOutdated
<1>4. \E state \in Callers : /\ reader' = [reader EXCEPT ![r] = state]
                             /\ state.at # "idle" => ~state.late
      /\ \A c \in Keys : Present(inflight'[c]) => ~inflight'[c].outdated
  <2>1. CASE FetchHit(r, k, w)
    <3>1. Fresh(es, k, w) /\ reader' = [reader EXCEPT ![r] = Served(es[k].value, es[k].outdated)]
          /\ inflight' = inflight
      BY <2>1 DEF FetchHit
    <3>2. /\ es[k].outdated \in BOOLEAN /\ es[k].value \in Values /\ es[k].age \in 0 .. CacheMs
          /\ es[k].age < w /\ Present(es[k])
      BY <1>1, <3>1, EntryFacts DEF Fresh
    <3>3. w <= StaleMs /\ w \in 0 .. CacheMs /\ StaleMs \in Nat
      BY WindowsAssumption DEF NarrowWindows
    <3>4. ~es[k].outdated
      <4>1. es[k].outdated => es[k].age >= StaleMs BY <1>3, <3>2 DEF StaleIfOutdated
      <4> QED BY <3>2, <3>3, <4>1
    <3>5. /\ Served(es[k].value, es[k].outdated) \in Callers
          /\ ~Served(es[k].value, es[k].outdated).late
      BY <3>2, <3>4, CallerIs
    <3> QED BY <3>1, <3>5 DEF OutdatedIsStale
  <2>2. CASE FetchMiss(r, k, w, force)
    <3>1. CASE Join(r, k)
      <4>1. ~inflight[k].outdated /\ inflight[k].outdated \in BOOLEAN
        BY <3>1, LoadFacts DEF Join, OutdatedIsStale, TypeInv, TypeOK
      <4>2. /\ Waits(k, inflight[k].outdated) \in Callers
            /\ ~Waits(k, inflight[k].outdated).late
        BY <4>1, CallerIs
      <4> QED BY <3>1, <4>2 DEF Join, OutdatedIsStale
    <3>2. CASE StartLoad(r, k)
      <4>1. Waits(k, FALSE) \in Callers /\ ~Waits(k, FALSE).late BY CallerIs
      <4>2. inflight' = [inflight EXCEPT ![k] = Load("asked", Nothing, FALSE)]
            /\ reader' = [reader EXCEPT ![r] = Waits(k, FALSE)]
        BY <3>2 DEF StartLoad
      <4>3. \A c \in Keys : Present(inflight'[c]) => ~inflight'[c].outdated
        BY <4>2, FreshLoad DEF OutdatedIsStale, TypeInv, TypeOK
      <4> QED BY <4>1, <4>2, <4>3
    <3> QED BY <2>2, <3>1, <3>2 DEF FetchMiss
  <2> QED BY <2>1, <2>2 DEF Fetch
<1>5. \A c \in Readers : reader'[c].at # "idle" => ~reader'[c].late
  BY <1>4 DEF OutdatedIsStale, TypeInv, TypeOK
<1> HIDE DEF es
<1> QED BY <1>2, <1>3, <1>4, <1>5 DEF OutdatedIsStale

LEMMA LoadLate ==
    ASSUME TypeInv, OutdatedIsStale, NEW k \in Keys, Answer(k) \/ LoadFails(k) \/ Settle(k)
    PROVE  OutdatedIsStale'
<1> USE DEF TypeInv
<1>0. Present(inflight[k]) /\ inflight[k] \in Loads /\ ~inflight[k].outdated
  BY LoadFacts DEF Answer, LoadFails, Settle, TypeOK, OutdatedIsStale
<1>1. CASE Answer(k)
  <2>1. server \in Values BY DEF TypeOK, Values
  <2>2. ~[inflight[k] EXCEPT !.stage = "answered", !.value = server].outdated BY <1>0, <2>1, LoadIs
  <2> QED BY <1>1, <2>2 DEF Answer, TypeOK, OutdatedIsStale
<1>2. CASE LoadFails(k)
  <2>1. ~[inflight[k] EXCEPT !.stage = "failed"].outdated BY <1>0, LoadIs
  <2> QED BY <1>2, <2>1 DEF LoadFails, TypeOK, OutdatedIsStale
<1>3. CASE Settle(k)
  <2> DEFINE load == inflight[k]
             stored == Entry(load.value, 0, load.outdated)
  <2>1. ~stored.outdated BY <1>0 DEF Entry
  <2>2. \A c \in Keys : Present(inflight'[c]) => ~inflight'[c].outdated
    BY <1>3 DEF Settle, TypeOK, OutdatedIsStale, Present
  <2>3. \A c \in Keys : StaleIfOutdated(entries'[c])
    <3> HIDE DEF stored
    <3>1. entries' = entries \/ entries' = [entries EXCEPT ![k] = stored]
      BY <1>3 DEF Settle, stored
    <3> QED BY <2>1, <3>1 DEF TypeOK, OutdatedIsStale, StaleIfOutdated
  <2>4. ASSUME NEW r \in Readers PROVE reader'[r].at # "idle" => ~reader'[r].late
    <3>1. reader'[r] = (IF reader[r].at # "waits" \/ reader[r].key # k THEN reader[r]
                        ELSE IF load.stage = "failed" THEN Idle
                        ELSE Served(load.value, reader[r].late))
      BY <1>3 DEF Settle
    <3>2. reader[r].at # "idle" => ~reader[r].late BY DEF OutdatedIsStale
    <3>3. load.value \in Values /\ Served(load.value, FALSE).late = FALSE
      BY <1>0, LoadFacts, CallerIs
    <3>4. reader[r].at = "waits" => reader[r].late = FALSE
      BY <3>2, CallerIs DEF TypeOK
    <3> QED BY <3>1, <3>2, <3>3, <3>4, CallerIs
  <2> QED BY <1>3, <2>2, <2>3, <2>4 DEF Settle, OutdatedIsStale
<1> QED BY <1>1, <1>2, <1>3

LEMMA InvalidateLate ==
    ASSUME TypeInv, OutdatedIsStale, ~habit.busyInvalidate, NEW p \in Prefixes, Invalidate(p) \/ Drop(p)
    PROVE  OutdatedIsStale'
<1> USE DEF TypeInv
<1>1. CASE Invalidate(p)
  <2>1. \A k \in Under(p) : ~Present(inflight[k]) /\ \A m \in Mutations : ~Present(touched[m][k])
    BY <1>1 DEF Invalidate, Busy
  <2>2. \A k \in Keys : inflight'[k] = inflight[k]
    BY <1>1, <2>1 DEF Invalidate, Outdated
  <2>3. \A m \in Mutations, k \in Keys : touched'[m][k] = touched[m][k]
    BY <1>1, <2>1 DEF Invalidate, Outdated
  <2>4. ASSUME NEW k \in Keys PROVE StaleIfOutdated(entries'[k])
    <3>1. CASE k \in Under(p)
      <4>1. entries'[k] = Outdated(Stale(entries[k])) BY <1>1, <3>1 DEF Invalidate
      <4>2. entries[k] \in MaybeEntries BY DEF TypeOK, MaybeEntries
      <4> QED BY <4>1, <4>2, InvalidatedIs, WindowsAssumption DEF StaleIfOutdated
    <3>2. CASE k \notin Under(p) BY <1>1, <3>2 DEF Invalidate, OutdatedIsStale
    <3> QED BY <3>1, <3>2
  <2>5. reader' = reader BY <1>1 DEF Invalidate
  <2> QED BY <2>2, <2>3, <2>4, <2>5 DEF OutdatedIsStale
<1>2. CASE Drop(p) BY <1>2 DEF Drop, OutdatedIsStale, StaleIfOutdated, Present
<1> QED BY <1>1, <1>2

LEMMA ChangeLate ==
    ASSUME TypeInv, OutdatedIsStale, NEW m \in Mutations,
           \/ \E p \in Prefixes : Begin(m, p)
           \/ RemoteWrite(m) \/ Accept(m) \/ RefuseWrite(m) \/ Keep(m)
           \/ Undo(m) \/ UndoByHand(m) \/ UndoAgain(m)
    PROVE  OutdatedIsStale'
<1> USE DEF TypeInv
<1>0. UNCHANGED <<inflight, reader>>
  BY DEF Begin, RemoteWrite, Accept, RefuseWrite, Keep, Undo, UndoByHand, UndoAgain
<1> SUFFICES /\ \A k \in Keys : StaleIfOutdated(entries'[k])
             /\ \A n \in Mutations, k \in Keys : StaleIfOutdated(touched'[n][k])
  BY <1>0 DEF OutdatedIsStale
<1>1. ASSUME NEW p \in Prefixes, Begin(m, p)
      PROVE  /\ \A k \in Keys : StaleIfOutdated(entries'[k])
             /\ \A n \in Mutations, k \in Keys : StaleIfOutdated(touched'[n][k])
  <2> DEFINE hit == {k \in Under(p) : Present(entries[k])}
  <2>1. \A k \in hit : k \in Keys /\ entries[k] \in Entries /\ entries[k].value # Nothing
    BY <1>1, EntryFacts DEF Begin, TypeOK, Under, MaybeEntries
  <2> HIDE DEF hit
  <2>2. entries' = [k \in Keys |-> IF k \in hit THEN [entries[k] EXCEPT !.value = @ \cup {m}]
                                   ELSE entries[k]]
    BY <1>1 DEF Begin, hit
  <2>3. touched' = [touched EXCEPT ![m] = [k \in Keys |-> IF k \in hit THEN entries[k] ELSE Absent]]
    BY <1>1 DEF Begin, hit
  <2>4. ASSUME NEW k \in Keys PROVE StaleIfOutdated(entries'[k])
    <3>1. CASE k \in hit
      <4> DEFINE e == [entries[k] EXCEPT !.value = @ \cup {m}]
      <4>1. entries'[k] = e BY <2>2, <3>1
      <4>2. e.age = entries[k].age /\ e.outdated = entries[k].outdated /\ Present(entries[k])
        BY <2>1, <3>1, PatchedIs DEF hit
      <4> HIDE DEF e
      <4> QED BY <4>1, <4>2 DEF OutdatedIsStale, StaleIfOutdated
    <3>2. CASE k \notin hit BY <2>2, <3>2 DEF OutdatedIsStale
    <3> QED BY <3>1, <3>2
  <2>5. ASSUME NEW n \in Mutations, NEW k \in Keys PROVE StaleIfOutdated(touched'[n][k])
    BY <2>3 DEF OutdatedIsStale, StaleIfOutdated, Present, TypeOK
  <2> QED BY <2>4, <2>5
<1>2. CASE RemoteWrite(m) \/ Accept(m) \/ RefuseWrite(m)
  BY <1>2 DEF RemoteWrite, Accept, RefuseWrite, OutdatedIsStale
<1>3. CASE Keep(m) \/ Undo(m) \/ UndoByHand(m) \/ UndoAgain(m)
  <2>1. entries' = entries \/ entries' = Restored(entries, touched[m])
    BY <1>3 DEF Keep, Undo, UndoByHand, UndoAgain
  <2>2. touched' = touched \/ touched' = [touched EXCEPT ![m] = Empty]
    BY <1>3 DEF Keep, Undo, UndoByHand, UndoAgain
  <2>3. \A k \in Keys : StaleIfOutdated(entries'[k])
    BY <2>1, RestoredIs DEF OutdatedIsStale
  <2>4. \A n \in Mutations, k \in Keys : StaleIfOutdated(touched'[n][k])
    BY <2>2 DEF OutdatedIsStale, StaleIfOutdated, Present, Empty, TypeOK
  <2> QED BY <2>3, <2>4
<1> QED BY <1>1, <1>2, <1>3

LEMMA ReloadLate ==
    ASSUME TypeInv, OutdatedIsStale,
           \/ Persist \/ PersistEnds \/ Reload \/ RestoreEnds \/ Tick
           \/ \E r \in Readers : Cancel(r)
           \/ \E k \in Keys : PersistKey(k) \/ RestoreKey(k)
    PROVE  OutdatedIsStale'
<1> USE DEF TypeInv
<1>1. CASE Persist \/ PersistEnds \/ RestoreEnds
  BY <1>1 DEF Persist, PersistEnds, RestoreEnds, OutdatedIsStale
<1>2. CASE Reload
  BY <1>2, CallerIs DEF Reload, Empty, OutdatedIsStale, StaleIfOutdated, Present
<1>3. CASE Tick
  <2>1. \A e \in MaybeEntries : StaleIfOutdated(e) => StaleIfOutdated(Older(e))
    <3> SUFFICES ASSUME NEW e \in MaybeEntries, StaleIfOutdated(e), Present(Older(e)), Older(e).outdated
                 PROVE  Older(e).age >= StaleMs
      BY DEF StaleIfOutdated
    <3>1. Present(e) /\ e.outdated /\ Older(e).age >= e.age BY OlderIs
    <3>2. e.age >= StaleMs BY <3>1 DEF StaleIfOutdated
    <3>3. e.age \in Nat /\ Older(e).age \in Nat /\ StaleMs \in Nat
      BY <3>1, OlderIs, EntryFacts, WindowsAssumption
    <3> QED BY <3>1, <3>2, <3>3
  <2> QED BY <1>3, <2>1 DEF Tick, OutdatedIsStale, TypeOK, MaybeEntries
<1>4. ASSUME NEW r \in Readers, Cancel(r) PROVE OutdatedIsStale'
  BY <1>4, CallerIs DEF Cancel, OutdatedIsStale, TypeOK
<1>5. ASSUME NEW k \in Keys, PersistKey(k) PROVE OutdatedIsStale'
  <2>1. \A c \in Keys : StaleIfOutdated(Collect(entries)[c])
    BY CollectIs DEF OutdatedIsStale, StaleIfOutdated
  <2> QED BY <1>5, <2>1 DEF PersistKey, OutdatedIsStale
<1>6. ASSUME NEW k \in Keys, RestoreKey(k) PROVE OutdatedIsStale'
  <2>1. ~Entry(disk[k].value, 0, FALSE).outdated BY DEF Entry
  <2> QED BY <1>6, <2>1 DEF RestoreKey, OutdatedIsStale, StaleIfOutdated, TypeOK
<1> QED BY <1>1, <1>2, <1>3, <1>4, <1>5, <1>6

LEMMA OutdatedStep ==
    ASSUME TypeInv, ~habit.busyInvalidate, NarrowWindows, OutdatedIsStale, [Next]_vars
    PROVE  OutdatedIsStale'
<1>1. ASSUME NEW r \in Readers, NEW k \in Keys, NEW w \in Windows, NEW force \in BOOLEAN,
             Fetch(r, k, w, force)
      PROVE  OutdatedIsStale'
  BY <1>1, FetchLate
<1>2. ASSUME NEW k \in Keys, Answer(k) \/ LoadFails(k) \/ Settle(k) PROVE OutdatedIsStale'
  BY <1>2, LoadLate
<1>3. ASSUME NEW p \in Prefixes, Invalidate(p) \/ Drop(p) PROVE OutdatedIsStale'
  BY <1>3, InvalidateLate
<1>4. ASSUME NEW m \in Mutations,
             \/ \E p \in Prefixes : Begin(m, p)
             \/ RemoteWrite(m) \/ Accept(m) \/ RefuseWrite(m) \/ Keep(m)
             \/ Undo(m) \/ UndoByHand(m) \/ UndoAgain(m)
      PROVE  OutdatedIsStale'
  BY <1>4, ChangeLate
<1>5. CASE \/ Persist \/ PersistEnds \/ Reload \/ RestoreEnds \/ Tick
           \/ \E r \in Readers : Cancel(r)
           \/ \E k \in Keys : PersistKey(k) \/ RestoreKey(k)
  BY <1>5, ReloadLate
<1>6. CASE UNCHANGED vars BY <1>6 DEF vars, OutdatedIsStale
<1> QED BY <1>1, <1>2, <1>3, <1>4, <1>5, <1>6, QueriesAreKeys DEF Next

-----------------------------------------------------------------------------
(* What was refused leaves no trace.                                       *)

\* What an entry may show of mutations the server does not hold.
Traced(k, value) == value # Nothing => \A m \in Mutations :
    m \in value /\ m \notin server => change[m] \in {"sent", "refused"} /\ Present(touched[m][k])

LEMMA TracesAre ==
    TracesAreOpen <=>
        /\ reloads = 0 /\ chore = Resting
        /\ \A k \in Keys : Present(entries[k]) => Traced(k, entries[k].value)
        /\ \A m \in Mutations, k \in Keys : Present(touched[m][k]) => Agreed(touched[m][k].value)
        /\ \A k \in Keys : Present(inflight[k]) => Agreed(inflight[k].value)
        /\ \A m \in Mutations : change[m] \in {"accepted", "kept"} => m \in server
BY DEF TracesAreOpen, Traced

LEMMA TracesInit == Init => TracesAreOpen
BY DEF Init, Empty, TracesAreOpen, Present

\* Fewer entries, and nothing else about changes.
LEMMA FewerEntries ==
    ASSUME TracesAreOpen, UNCHANGED <<touched, server, change, chore, reloads>>,
           \A k \in Keys : Present(entries'[k]) => Present(entries[k]) /\ entries'[k].value = entries[k].value,
           \A k \in Keys : Present(inflight'[k]) => Agreed(inflight'[k].value)
    PROVE  TracesAreOpen'
BY DEF TracesAreOpen, Agreed

LEMMA FetchTraces ==
    ASSUME TypeInv, TracesAreOpen, NEW r \in Readers, NEW k \in Keys,
           NEW w \in Windows, NEW force \in BOOLEAN, Fetch(r, k, w, force)
    PROVE  TracesAreOpen'
<1>1. entries' = Collect(entries) /\ UNCHANGED <<touched, server, change, chore, reloads>>
  BY DEF Fetch, FetchHit, FetchMiss
<1>2. inflight' = inflight \/ inflight' = [inflight EXCEPT ![k] = Load("asked", Nothing, FALSE)]
  BY DEF Fetch, FetchHit, FetchMiss, Join, StartLoad
<1>3. \A c \in Keys : Present(inflight'[c]) => Agreed(inflight'[c].value)
  BY <1>2, FreshLoad DEF TracesAreOpen, Agreed, TypeInv, TypeOK
<1>4. \A c \in Keys : Present(entries'[c]) => Present(entries[c]) /\ entries'[c].value = entries[c].value
  BY <1>1, CollectIs DEF TypeInv
<1> QED BY <1>1, <1>3, <1>4, FewerEntries

LEMMA LoadTraces ==
    ASSUME TypeInv, TracesAreOpen, NEW k \in Keys, Answer(k) \/ LoadFails(k) \/ Settle(k)
    PROVE  TracesAreOpen'
<1> USE DEF TypeInv
<1>0. Present(inflight[k]) /\ inflight[k] \in Loads
  BY LoadFacts DEF Answer, LoadFails, Settle, TypeOK
<1>1. CASE Answer(k)
  <2>1. server \in Values BY DEF TypeOK, Values
  <2>2. [inflight[k] EXCEPT !.stage = "answered", !.value = server].value = server BY <1>0, <2>1, LoadIs
  <2>3. \A c \in Keys : Present(inflight'[c]) => Agreed(inflight'[c].value)
    BY <1>1, <2>2 DEF Answer, TypeOK, TracesAreOpen, Agreed
  <2> QED BY <1>1, <2>3, FewerEntries DEF Answer
<1>2. CASE LoadFails(k)
  <2>1. [inflight[k] EXCEPT !.stage = "failed"].value = inflight[k].value BY <1>0, LoadIs
  <2>2. \A c \in Keys : Present(inflight'[c]) => Agreed(inflight'[c].value)
    BY <1>0, <1>2, <2>1 DEF LoadFails, TypeOK, TracesAreOpen
  <2> QED BY <1>2, <2>2, FewerEntries DEF LoadFails
<1>3. CASE Settle(k)
  <2> DEFINE stored == Entry(inflight[k].value, 0, inflight[k].outdated)
  <2>1. stored.value = inflight[k].value BY DEF Entry
  <2>2. Agreed(stored.value) BY <1>0, <2>1 DEF TracesAreOpen
  <2> HIDE DEF stored
  <2>3. entries' = entries \/ entries' = [entries EXCEPT ![k] = stored]
    BY <1>3 DEF Settle, stored
  <2>4. inflight' = [inflight EXCEPT ![k] = Absent] /\ UNCHANGED <<touched, server, change, chore, reloads>>
    BY <1>3 DEF Settle
  <2>5. \A c \in Keys : Present(entries'[c]) => Traced(c, entries[c].value)'
    BY <2>2, <2>3, <2>4, TracesAre DEF Traced, Agreed, TypeOK
  <2>6. \A c \in Keys : Present(inflight'[c]) => Agreed(inflight[c].value)'
    BY <2>4 DEF TracesAreOpen, Agreed, TypeOK, Present
  <2> QED BY <2>4, <2>5, <2>6 DEF TracesAreOpen, Traced, Agreed
<1> QED BY <1>1, <1>2, <1>3

LEMMA InvalidateTraces ==
    ASSUME TypeInv, TracesAreOpen, NEW p \in Prefixes, Invalidate(p) \/ Drop(p)
    PROVE  TracesAreOpen'
<1> USE DEF TypeInv
<1>1. CASE Invalidate(p)
  <2>1. UNCHANGED <<server, change, chore, reloads>> BY <1>1 DEF Invalidate
  <2>2. ASSUME NEW k \in Keys
        PROVE  /\ Present(entries'[k]) => /\ Present(entries[k])
                                          /\ entries'[k].value = entries[k].value
               /\ \A m \in Mutations : /\ Present(touched'[m][k]) <=> Present(touched[m][k])
                                       /\ Present(touched[m][k]) =>
                                            touched'[m][k].value = touched[m][k].value
               /\ Present(inflight'[k]) => /\ Present(inflight[k])
                                           /\ inflight'[k].value = inflight[k].value
    <3>1. /\ entries[k] \in MaybeEntries /\ \A m \in Mutations : touched[m][k] \in MaybeEntries
          /\ inflight[k] \in Loads \cup {Absent}
      BY DEF TypeOK, MaybeEntries
    <3>2. /\ entries'[k] = IF k \in Under(p) THEN Outdated(Stale(entries[k])) ELSE entries[k]
          /\ inflight'[k] = IF k \in Under(p) THEN Outdated(inflight[k]) ELSE inflight[k]
          /\ \A m \in Mutations :
                touched'[m][k] = IF k \in Under(p) THEN Outdated(touched[m][k]) ELSE touched[m][k]
      BY <1>1 DEF Invalidate
    <3>3. Present(inflight'[k]) => Present(inflight[k]) /\ inflight'[k].value = inflight[k].value
      <4>1. CASE inflight[k] \in Loads BY <3>2, <4>1, LoadIs
      <4>2. CASE inflight[k] = Absent BY <3>2, <4>2 DEF Outdated, Present
      <4> QED BY <3>1, <4>1, <4>2
    <3> QED BY <3>1, <3>2, <3>3, InvalidatedIs
  <2> QED BY <2>1, <2>2 DEF TracesAreOpen, Agreed
<1>2. CASE Drop(p)
  <2>1. \A k \in Keys : Present(entries'[k]) => Present(entries[k]) /\ entries'[k].value = entries[k].value
    BY <1>2 DEF Drop, Present
  <2> QED BY <1>2, <2>1, FewerEntries DEF Drop, TracesAreOpen
<1> QED BY <1>1, <1>2

LEMMA BeginTraces ==
    ASSUME TypeInv, TracesAreOpen, ~habit.overlap, NEW m \in Mutations, NEW p \in Prefixes, Begin(m, p)
    PROVE  TracesAreOpen'
<1> USE DEF TypeInv
<1> DEFINE hit == {k \in Under(p) : Present(entries[k])}
<1>1. \A k \in hit : /\ k \in Keys /\ entries[k] \in Entries /\ entries[k].value # Nothing
                     /\ Present(entries[k]) /\ \A n \in Mutations : ~Present(touched[n][k])
  BY EntryFacts DEF Begin, TypeOK, Under, MaybeEntries
<1>2. \A k \in hit : Agreed(entries[k].value)
  <2> SUFFICES ASSUME NEW k \in hit, NEW n \in entries[k].value PROVE n \in server BY DEF Agreed
  <2>1. n \in Mutations BY <1>1 DEF Entries, Values
  <2> QED BY <1>1, <2>1 DEF TracesAreOpen
<1> HIDE DEF hit
<1>3. /\ entries' = [k \in Keys |-> IF k \in hit THEN [entries[k] EXCEPT !.value = @ \cup {m}]
                                   ELSE entries[k]]
      /\ touched' = [touched EXCEPT ![m] = [k \in Keys |-> IF k \in hit THEN entries[k] ELSE Absent]]
      /\ change[m] = "idle" /\ change' = [change EXCEPT ![m] = "sent"]
      /\ UNCHANGED <<inflight, server, chore, reloads>>
  BY DEF Begin, hit
<1>4. ASSUME NEW k \in Keys, Present(entries'[k]) PROVE Traced(k, entries[k].value)'
  <2> SUFFICES ASSUME entries'[k].value # Nothing, NEW n \in Mutations,
                      n \in entries'[k].value, n \notin server
               PROVE  change'[n] \in {"sent", "refused"} /\ Present(touched'[n][k])
    BY <1>3 DEF Traced
  <2>1. CASE k \in hit
    <3>1. entries'[k].value = entries[k].value \cup {m} BY <1>1, <1>3, <2>1, PatchedIs
    <3>2. n = m BY <1>1, <1>2, <2>1, <3>1 DEF Agreed
    <3> QED BY <1>1, <1>3, <2>1, <3>2 DEF TypeOK
  <2>2. CASE k \notin hit
    <3>1. entries'[k] = entries[k] BY <1>3, <2>2
    <3>2. change[n] \in {"sent", "refused"} /\ Present(touched[n][k])
      BY <1>4, <3>1 DEF TracesAreOpen
    <3>3. n # m BY <1>3, <3>2
    <3> QED BY <1>3, <3>2, <3>3 DEF TypeOK
  <2> QED BY <2>1, <2>2
<1>5. \A n \in Mutations, k \in Keys : Present(touched'[n][k]) => Agreed(touched'[n][k].value)
  BY <1>1, <1>2, <1>3 DEF TracesAreOpen, TypeOK, Present
<1>6. \A n \in Mutations : change'[n] \in {"accepted", "kept"} => n \in server
  BY <1>3 DEF TracesAreOpen, TypeOK
<1> QED BY <1>3, <1>4, <1>5, <1>6 DEF TracesAreOpen, Traced, Agreed

LEMMA ChangeTraces ==
    ASSUME TypeInv, TracesAreOpen, NEW m \in Mutations,
           \/ RemoteWrite(m) \/ Accept(m) \/ RefuseWrite(m) \/ Keep(m)
           \/ Undo(m) \/ UndoByHand(m) \/ UndoAgain(m)
    PROVE  TracesAreOpen'
<1> USE DEF TypeInv
<1>1. CASE RemoteWrite(m) \/ Accept(m)
  BY <1>1 DEF RemoteWrite, Accept, TracesAreOpen, Agreed, TypeOK
<1>2. CASE RefuseWrite(m)
  BY <1>2 DEF RefuseWrite, TracesAreOpen, Agreed, TypeOK
<1>3. CASE Keep(m)
  <2>1. m \in server BY <1>3 DEF Keep, TracesAreOpen
  <2>2. /\ touched' = [touched EXCEPT ![m] = Empty] /\ change' = [change EXCEPT ![m] = "kept"]
        /\ UNCHANGED <<entries, inflight, server, chore, reloads>>
    BY <1>3 DEF Keep
  <2>3. \A n \in Mutations, k \in Keys : Present(touched'[n][k]) => Agreed(touched'[n][k].value)
    BY <2>2 DEF TracesAreOpen, TypeOK, Present, Empty
  <2>4. \A n \in Mutations : n # m => touched'[n] = touched[n] /\ change'[n] = change[n]
    BY <2>2 DEF TypeOK
  <2>5. \A n \in Mutations : change'[n] \in {"accepted", "kept"} => n \in server
    BY <2>1, <2>4 DEF TracesAreOpen
  <2> QED BY <2>1, <2>2, <2>3, <2>4, <2>5 DEF TracesAreOpen, Agreed
<1>4. CASE Undo(m) \/ UndoByHand(m) \/ UndoAgain(m)
  <2>1. /\ entries' = Restored(entries, touched[m])
        /\ touched' = touched \/ touched' = [touched EXCEPT ![m] = Empty]
        /\ change' = [change EXCEPT ![m] = "undone"]
        /\ UNCHANGED <<inflight, server, chore, reloads>>
    BY <1>4 DEF Undo, UndoByHand, UndoAgain, TypeOK
  <2>2. \A n \in Mutations : n # m => touched'[n] = touched[n] /\ change'[n] = change[n]
    BY <2>1 DEF TypeOK
  <2>3. ASSUME NEW k \in Keys, Present(entries'[k]) PROVE Traced(k, entries[k].value)'
    <3>1. entries'[k] = IF Present(touched[m][k]) THEN touched[m][k] ELSE entries[k]
      BY <2>1, RestoredIs
    <3>2. CASE Present(touched[m][k])
      <4>1. Agreed(entries'[k].value) BY <3>1, <3>2 DEF TracesAreOpen
      <4> QED BY <2>1, <4>1 DEF Traced, Agreed
    <3>3. CASE ~Present(touched[m][k])
      <4>1. Traced(k, entries[k].value) BY <2>3, <3>1, <3>3, TracesAre
      <4> QED BY <2>1, <2>2, <3>1, <3>3, <4>1 DEF Traced
    <3> QED BY <3>2, <3>3
  <2>4. \A n \in Mutations, k \in Keys : Present(touched'[n][k]) => Agreed(touched'[n][k].value)
    BY <2>1 DEF TracesAreOpen, TypeOK, Present, Empty
  <2>5. \A n \in Mutations : change'[n] \in {"accepted", "kept"} => n \in server
    BY <2>1 DEF TracesAreOpen, TypeOK
  <2> QED BY <2>1, <2>3, <2>4, <2>5 DEF TracesAreOpen, Traced, Agreed
<1> QED BY <1>1, <1>2, <1>3, <1>4

LEMMA ReloadTraces ==
    ASSUME TypeInv, TracesAreOpen, ~habit.restarts,
           \/ Persist \/ PersistEnds \/ Reload \/ RestoreEnds \/ Tick
           \/ \E r \in Readers : Cancel(r)
           \/ \E k \in Keys : PersistKey(k) \/ RestoreKey(k)
    PROVE  TracesAreOpen'
<1> USE DEF TypeInv
<1>1. ~Persist /\ ~Reload BY DEF Persist, Reload, TracesAreOpen
<1>2. ~PersistEnds /\ ~RestoreEnds /\ \A k \in Keys : ~PersistKey(k) /\ ~RestoreKey(k)
  BY DEF PersistEnds, RestoreEnds, PersistKey, RestoreKey, Resting, TracesAreOpen
<1>3. CASE Tick
  <2>1. /\ UNCHANGED <<inflight, server, change, chore, reloads>>
        /\ \A k \in Keys : entries'[k] = Older(entries[k])
        /\ \A m \in Mutations, k \in Keys : touched'[m][k] = Older(touched[m][k])
    BY <1>3 DEF Tick
  <2>2. /\ \A k \in Keys : entries[k] \in MaybeEntries
        /\ \A m \in Mutations, k \in Keys : touched[m][k] \in MaybeEntries
    BY DEF TypeOK, MaybeEntries
  <2>3. \A k \in Keys : Present(entries'[k]) => Present(entries[k]) /\ entries'[k].value = entries[k].value
    BY <2>1, <2>2, OlderIs
  <2>4. \A m \in Mutations, k \in Keys :
           /\ Present(touched'[m][k]) <=> Present(touched[m][k])
           /\ Present(touched[m][k]) => touched'[m][k].value = touched[m][k].value
    BY <2>1, <2>2, OlderIs
  <2> QED BY <2>1, <2>3, <2>4 DEF TracesAreOpen, Agreed
<1>4. ASSUME NEW r \in Readers, Cancel(r) PROVE TracesAreOpen'
  BY <1>4 DEF Cancel, TracesAreOpen, Agreed
<1> QED BY <1>1, <1>2, <1>3, <1>4

LEMMA TracesStep ==
    ASSUME TypeInv, ~habit.overlap, ~habit.restarts, TracesAreOpen, [Next]_vars
    PROVE  TracesAreOpen'
<1>1. ASSUME NEW r \in Readers, NEW k \in Keys, NEW w \in Windows, NEW force \in BOOLEAN,
             Fetch(r, k, w, force)
      PROVE  TracesAreOpen'
  BY <1>1, FetchTraces
<1>2. ASSUME NEW k \in Keys, Answer(k) \/ LoadFails(k) \/ Settle(k) PROVE TracesAreOpen'
  BY <1>2, LoadTraces
<1>3. ASSUME NEW p \in Prefixes, Invalidate(p) \/ Drop(p) PROVE TracesAreOpen'
  BY <1>3, InvalidateTraces
<1>4. ASSUME NEW m \in Mutations, NEW p \in Prefixes, Begin(m, p) PROVE TracesAreOpen'
  BY <1>4, BeginTraces
<1>5. ASSUME NEW m \in Mutations,
             \/ RemoteWrite(m) \/ Accept(m) \/ RefuseWrite(m) \/ Keep(m)
             \/ Undo(m) \/ UndoByHand(m) \/ UndoAgain(m)
      PROVE  TracesAreOpen'
  BY <1>5, ChangeTraces
<1>6. CASE \/ Persist \/ PersistEnds \/ Reload \/ RestoreEnds \/ Tick
           \/ \E r \in Readers : Cancel(r)
           \/ \E k \in Keys : PersistKey(k) \/ RestoreKey(k)
  BY <1>6, ReloadTraces
<1>7. CASE UNCHANGED vars BY <1>7 DEF vars, TracesAreOpen, Agreed
<1> QED BY <1>1, <1>2, <1>3, <1>4, <1>5, <1>6, <1>7, QueriesAreKeys DEF Next

-----------------------------------------------------------------------------
(* Both, each under what it needs of the application.                      *)

CacheInv ==
    /\ TypeInv
    /\ ~habit.busyInvalidate /\ NarrowWindows => OutdatedIsStale
    /\ ~habit.overlap /\ ~habit.restarts => TracesAreOpen

\* The types, and why an invalidated entry is stale and a refused change gone.
THEOREM CacheInvariant == Spec => []CacheInv
<1>1. Init => CacheInv BY TypesInit, OutdatedInit, TracesInit DEF CacheInv
<1>2. CacheInv /\ [Next]_vars => CacheInv'
  <2> SUFFICES ASSUME CacheInv, [Next]_vars PROVE CacheInv' OBVIOUS
  <2>1. TypeInv' BY TypeInvStep DEF CacheInv
  <2>2. ~habit.busyInvalidate /\ NarrowWindows => OutdatedIsStale' BY OutdatedStep DEF CacheInv
  <2>3. ~habit.overlap /\ ~habit.restarts => TracesAreOpen' BY TracesStep DEF CacheInv
  <2> QED BY <2>1, <2>2, <2>3, HabitStays DEF CacheInv, NarrowWindows
<1> QED BY <1>1, <1>2, PTL DEF Spec

\* QueryCache.invalidate and fetch: if nothing is invalidated while it loads or
\* while a change of it is open, and no read asks for more than the window of the
\* cache, what was invalidated is served from a load that began later.
\* QueryCache.optimistic: if no two changes of an entry are open at once, and
\* nothing is kept over a restart, a change that was refused and undone is gone
\* from every entry, also when it was undone twice.
THEOREM CarefulReads == Spec => []CarefulReadsTrue
<1>1. CacheInv => CarefulReadsTrue
  BY DEF CacheInv, TypeInv, OutdatedIsStale, TracesAreOpen, CarefulReadsTrue,
         InvalidatedIsReloaded, RefusedLeavesNoTrace
<1> QED BY <1>1, CacheInvariant, PTL
=============================================================================
