---------------------------- MODULE Server_proofs ----------------------------
(***************************************************************************)
(* Safety of three parts of the server for any number of everything: the   *)
(* dispatch of one session, the rate limiter, SSE sessions across workers. *)
(* Each has an invariant, the lemmas that a step keeps it, and theorems.   *)
(***************************************************************************)
EXTENDS KeyedDispatch, RateLimiter, SseWorkers,
        SequenceTheorems, FiniteSetTheorems, WellFoundedInduction, TLAPS

-----------------------------------------------------------------------------
(***************************************************************************)
(* KeyedDispatch: the handlers of a widget run one at a time and in order, *)
(* the tables count the tasks there are, and a closed session leaves none. *)
(***************************************************************************)

(* Queues of numbered events.                                              *)

Members(s) == {s[i] : i \in 1..Len(s)}
Rising(s) == \A i, j \in 1..Len(s) : i < j => s[i] < s[j]

Arrived == 1..Len(keyOf)
Passed == {"waiting", "running", "done"}    \* those that left the ready queue
States == {"none", "done"} \cup Alive

-----------------------------------------------------------------------------
(* The invariant.                                                          *)

\* An event is in the inbox until a loop reads it, after every event read.
InboxRises ==
    /\ Rising(inbox)
    /\ \A n \in Members(inbox) : n \in Arrived /\ task[n] = "none"
    /\ \A n \in Members(inbox), m \in Events : task[m] # "none" => m < n
    /\ \A m \in Events : task[m] # "none" => m \in Arrived

\* Then it is in the ready queue until its task starts, after every task that
\* did.
ReadyRises ==
    /\ Rising(ready)
    /\ Members(ready) = {n \in Events : task[n] = "ready"}
    /\ \A n \in Members(ready), m \in Events : task[m] \in Passed => m < n

\* Then it is in the line of its widget's lock until its handler ends; whoever
\* runs is the first in line.
LinesRise == concurrent /\ phase = "open" =>
    /\ \A o \in Events :
          /\ Rising(line[o])
          /\ \A n \in Members(line[o]) : task[n] \in Started /\ uses[n] = o
    /\ \A n \in Events : task[n] \in Started =>
          /\ uses[n] = lock[keyOf[n]] /\ uses[n] \in Events
          /\ n \in Members(line[uses[n]])
    /\ \A n \in Events : task[n] = "running" => Head(line[uses[n]]) = n
    /\ \A k \in Keys : lock[k] # NoLock => task[lock[k]] \in Passed

\* Of one widget, whose handler began came before who waits.
BegunFirst == concurrent =>
    /\ \A n \in Members(begun) : n \in Arrived /\ task[n] \in {"running", "done"}
    /\ \A n \in Members(begun), m \in Events :
          task[m] = "waiting" /\ keyOf[n] = keyOf[m] => n < m

\* In series a task runs only in the loop that read it.
LoopsRun ==
    /\ concurrent => \A l \in Loops : at[l] \notin Events
    /\ \A l \in Loops : at[l] \in Events => task[at[l]] \in {"running", "done"}
    /\ ~concurrent => /\ \A n \in Events : task[n] \in {"none", "running", "done"}
                      /\ \A k \in Keys : lock[k] = NoLock /\ users[k] = 0

\* If a client reconnects between handlers only, that loop is the last.
LastLoopRuns == ~MayTakeOver /\ ~concurrent =>
    /\ \A l \in Loops : reads[l] = l /\ (at[l] \in Events => l = pipe)
    /\ \A n \in Events : task[n] = "running" => at[pipe] = n

\* close() covers whatever may still run, if no clean-up spawns more.
CloseCovers == ~CleanupSpawns /\ phase = "closing" => \A n \in Events :
    /\ work[n] = "running" => n \in doomed.works
    /\ concurrent /\ task[n] \in Started => n \in doomed.events

ClosedIsQuiet == ~CleanupSpawns => NothingOutlives

Relations ==
    /\ InboxRises /\ ReadyRises /\ LinesRise /\ BegunFirst /\ LoopsRun /\ LastLoopRuns
    /\ OneAtATime /\ ArrivalOrder /\ LocksAreCounted
    /\ CloseCovers /\ ClosedIsQuiet

DispatchInv == TypeOK /\ Relations

-----------------------------------------------------------------------------
(* Lemmas on queues.                                                       *)

LEMMA MembersOf ==
    ASSUME NEW S, NEW s \in Seq(S)
    PROVE  /\ Members(s) \subseteq S /\ Len(s) \in Nat
           /\ s = <<>> <=> Members(s) = {}
           /\ s # <<>> => Head(s) \in Members(s) /\ Head(s) = s[1] /\ Len(s) > 0
<1>1. Len(s) \in Nat /\ (s # <<>> => Len(s) > 0) BY EmptySeq, LenProperties
<1>2. Members(s) \subseteq S BY ElementOfSeq DEF Members
<1>3. s # <<>> => Head(s) = s[1] /\ s[1] \in Members(s) BY <1>1 DEF Members
<1>4. s = <<>> => Members(s) = {} BY EmptySeq DEF Members
<1> QED BY <1>1, <1>2, <1>3, <1>4

\* What enters at the end.
LEMMA Enters ==
    ASSUME NEW S \in SUBSET Nat, NEW s \in Seq(S), NEW x \in S
    PROVE  LET t == Append(s, x) IN
           /\ t \in Seq(S) /\ Members(t) = Members(s) \cup {x}
           /\ Head(t) = IF s = <<>> THEN x ELSE Head(s)
           /\ Rising(s) /\ (\A m \in Members(s) : m < x) => Rising(t)
<1> DEFINE t == Append(s, x)
<1>1. /\ t \in Seq(S) /\ Len(t) = Len(s) + 1 /\ Len(s) \in Nat
      /\ \A i \in 1..Len(s) : t[i] = s[i]
      /\ t[Len(s) + 1] = x /\ \A i \in 1..Len(s) : s[i] \in S
  BY AppendProperties, LenProperties, ElementOfSeq
<1>2. Head(t) = IF s = <<>> THEN x ELSE Head(s) BY HeadTailAppend
<1> HIDE DEF t
<1>3. Members(t) = Members(s) \cup {x}
  <2>1. \A m \in Members(t) : m \in Members(s) \/ m = x BY <1>1 DEF Members
  <2>2. \A m \in Members(s) : m \in Members(t) BY <1>1 DEF Members
  <2>3. x \in Members(t) BY <1>1 DEF Members
  <2> QED BY <2>1, <2>2, <2>3
<1>4. Rising(s) /\ (\A m \in Members(s) : m < x) => Rising(t)
  BY <1>1 DEF Members, Rising
<1> QED BY <1>1, <1>2, <1>3, <1>4 DEF t

\* What leaves at the front.
LEMMA Leaves ==
    ASSUME NEW S \in SUBSET Nat, NEW s \in Seq(S), Rising(s), s # <<>>
    PROVE  /\ Tail(s) \in Seq(S) /\ Rising(Tail(s)) /\ Head(s) \in S /\ Head(s) \in Members(s)
           /\ Members(Tail(s)) = Members(s) \ {Head(s)}
           /\ \A m \in Members(Tail(s)) : Head(s) < m
<1> DEFINE t == Tail(s)
<1>1. /\ t \in Seq(S) /\ Len(t) = Len(s) - 1 /\ Len(s) \in Nat /\ Len(s) > 0
      /\ \A i \in 1..Len(t) : t[i] = s[i + 1]
      /\ Head(s) = s[1] /\ Head(s) \in Members(s)
      /\ \A i \in 1..Len(s) : s[i] \in S
  BY HeadTailProperties, MembersOf, ElementOfSeq
<1> HIDE DEF t
<1>2. Rising(t) /\ \A m \in Members(t) : Head(s) < m
  <2>1. \A i \in 1..Len(t) : i + 1 \in 1..Len(s) /\ t[i] = s[i + 1] /\ 1 < i + 1
    BY <1>1
  <2>2. Rising(t)
    <3> SUFFICES ASSUME NEW i \in 1..Len(t), NEW j \in 1..Len(t), i < j PROVE t[i] < t[j]
      BY DEF Rising
    <3> QED BY <1>1, <2>1 DEF Rising
  <2>3. \A i \in 1..Len(t) : Head(s) < t[i]
    BY <1>1, <2>1 DEF Rising
  <2> QED BY <2>2, <2>3 DEF Members
<1>3. Members(t) = Members(s) \ {Head(s)}
  <2>1. \A m \in Members(t) : m \in Members(s) BY <1>1 DEF Members
  <2>2. ASSUME NEW m \in Members(s), m # Head(s) PROVE m \in Members(t)
    <3>1. PICK i \in 1..Len(s) : m = s[i] BY DEF Members
    <3>2. i # 1 /\ i - 1 \in 1..Len(t) /\ t[i - 1] = s[i] BY <1>1, <2>2, <3>1
    <3> QED BY <3>1, <3>2 DEF Members
  <2>3. Head(s) \notin Members(t)
    <3>1. Members(t) \subseteq Nat BY <1>1, MembersOf
    <3> QED BY <1>1, <1>2, <3>1
  <2> QED BY <2>1, <2>2, <2>3
<1> QED BY <1>1, <1>2, <1>3 DEF t

\* The first of a rising queue is before all others.
LEMMA FirstIsLeast ==
    ASSUME NEW S \in SUBSET Nat, NEW s \in Seq(S), Rising(s), s # <<>>
    PROVE  \A m \in Members(s) : m # Head(s) => Head(s) < m
  BY Leaves

-----------------------------------------------------------------------------
(* What the parts are, and what does not change them.                      *)

USE KeyedAssumption DEF vars, loops, tables

LEMMA Parts ==
    ASSUME TypeOK
    PROVE  /\ Events \in SUBSET Nat /\ 0 \notin Events /\ -1 \notin Events
           /\ keyOf \in Seq(Keys) /\ Len(keyOf) \in Nat /\ Arrived \subseteq Events
           /\ \A n \in Arrived : keyOf[n] \in Keys
           /\ task \in [Events -> States] /\ uses \in [Events -> {NoLock} \cup Events]
           /\ lock \in [Keys -> {NoLock} \cup Events] /\ users \in [Keys -> Nat]
           /\ \A o \in Events : line[o] \in Seq(Events)
<1>1. /\ keyOf \in Seq(Keys) /\ Len(keyOf) \in Nat
      /\ \A n \in Arrived : keyOf[n] \in Keys
  BY LenProperties, ElementOfSeq DEF TypeOK, Arrived
<1> QED BY <1>1 DEF TypeOK, Events, Arrived, States, KeyedAssumption

LEMMA OrderStays ==
    ASSUME DispatchInv, UNCHANGED <<concurrent, keyOf, ready, task, begun>>
    PROVE  (ReadyRises /\ BegunFirst /\ OneAtATime /\ ArrivalOrder)'
<1> USE DEF DispatchInv, Relations
<1>1. ReadyRises' BY DEF ReadyRises, Members, Rising
<1>2. BegunFirst' BY DEF BegunFirst, Members, Arrived
<1>3. OneAtATime' BY DEF OneAtATime, Handling, Arrived
<1>4. ArrivalOrder' BY DEF ArrivalOrder
<1> QED BY <1>1, <1>2, <1>3, <1>4

LEMMA QueuesStay ==
    ASSUME DispatchInv, UNCHANGED <<concurrent, keyOf, inbox, ready, task, begun>>
    PROVE  (InboxRises /\ ReadyRises /\ BegunFirst /\ OneAtATime /\ ArrivalOrder)'
<1>1. InboxRises'
  BY DEF DispatchInv, Relations, InboxRises, Arrived, Members, Rising
<1> QED BY <1>1, OrderStays

LEMMA TablesStay ==
    ASSUME DispatchInv, UNCHANGED <<concurrent, keyOf, phase, task, tables>>
    PROVE  (LinesRise /\ LocksAreCounted)'
<1>1. LinesRise' BY DEF DispatchInv, Relations, LinesRise, Members, Rising
<1>2. \A k \in Keys : Here(k)' = Here(k) BY DEF Here, TasksOf
<1>3. LocksAreCounted' BY <1>2 DEF DispatchInv, Relations, LocksAreCounted
<1> QED BY <1>1, <1>3

LEMMA LoopsStay ==
    ASSUME DispatchInv, UNCHANGED <<concurrent, at, reads, pipe, task, lock, users>>
    PROVE  (LoopsRun /\ LastLoopRuns)'
  BY DEF DispatchInv, Relations, LoopsRun, LastLoopRuns

\* A task that starts nothing needs no cover.
LEMMA CloseStays ==
    ASSUME DispatchInv, UNCHANGED <<concurrent, phase, doomed>>,
           \A n \in Events : /\ work'[n] = "running" /\ phase # "open" => work[n] = "running"
                             /\ concurrent /\ phase # "open" /\ task'[n] \in Started
                                   => task[n] \in Started
    PROVE  (CloseCovers /\ ClosedIsQuiet)'
  BY DEF DispatchInv, Relations, CloseCovers, ClosedIsQuiet, NothingOutlives

\* The tasks of one widget that hold or await its lock are finitely many.
LEMMA HereIsFinite ==
    ASSUME TypeOK, NEW k \in Keys
    PROVE  /\ IsFiniteSet(Here(k)) /\ Cardinality(Here(k)) \in Nat
           /\ Here(k) = {} <=> Cardinality(Here(k)) = 0
           /\ \A n \in Here(k) : /\ IsFiniteSet(Here(k) \ {n})
                                 /\ Cardinality(Here(k) \ {n}) = Cardinality(Here(k)) - 1
           /\ \A n : n \notin Here(k) => Cardinality(Here(k) \cup {n}) = Cardinality(Here(k)) + 1
<1>1. Here(k) \subseteq 1..Len(keyOf) BY DEF Here, TasksOf
<1>2. IsFiniteSet(1..Len(keyOf)) BY Parts, FS_Interval
<1>3. IsFiniteSet(Here(k)) BY <1>1, <1>2, FS_Subset
<1>4. Cardinality(Here(k)) \in Nat BY <1>3, FS_CardinalityType
<1>5. Here(k) = {} <=> Cardinality(Here(k)) = 0 BY <1>3, FS_EmptySet
<1>6. \A n \in Here(k) : /\ IsFiniteSet(Here(k) \ {n})
                         /\ Cardinality(Here(k) \ {n}) = Cardinality(Here(k)) - 1
  BY <1>3, FS_RemoveElement
<1>7. \A n : n \notin Here(k) => Cardinality(Here(k) \cup {n}) = Cardinality(Here(k)) + 1
  BY <1>3, FS_AddElement
<1> QED BY <1>3, <1>4, <1>5, <1>6, <1>7

LEMMA DispatchStart == Init => DispatchInv
<1> SUFFICES ASSUME Init PROVE DispatchInv OBVIOUS
<1>1. /\ Events \in SUBSET Nat /\ 0 \notin Events /\ -1 \notin Events
      /\ Len(keyOf) = 0 /\ \A S : <<>> \in Seq(S)
  BY EmptySeq DEF Events, Init, KeyedAssumption
<1>2. TypeOK
  BY <1>1 DEF Init, TypeOK, Loops, Off, Receiving, NoLock, Alive, KeyedAssumption
<1>3. Members(<<>>) = {} /\ Rising(<<>>) BY DEF Members, Rising
<1>4. Len(begun) = 0 /\ \A n \in Events : task[n] = "none" BY DEF Init
<1>5. \A k \in Keys : Here(k) = {} /\ users[k] = 0 /\ lock[k] = NoLock
  BY <1>1, <1>4 DEF Init, Here, TasksOf
<1>6. LocksAreCounted
  BY <1>1, <1>2, <1>5, HereIsFinite DEF LocksAreCounted, Here, TasksOf
<1>7. InboxRises /\ ReadyRises /\ LinesRise /\ BegunFirst
  BY <1>1, <1>2, <1>3, <1>4, <1>5
     DEF Init, InboxRises, ReadyRises, LinesRise, BegunFirst, Started
<1>8. LoopsRun /\ LastLoopRuns
  BY <1>1, <1>4, <1>5 DEF Init, LoopsRun, LastLoopRuns, Off, Receiving
<1>9. OneAtATime /\ ArrivalOrder /\ CloseCovers /\ ClosedIsQuiet
  BY <1>1, <1>4 DEF Init, OneAtATime, ArrivalOrder, CloseCovers, ClosedIsQuiet, NothingOutlives
<1> QED BY <1>2, <1>6, <1>7, <1>8, <1>9 DEF DispatchInv, Relations

-----------------------------------------------------------------------------
(* Events arrive and are read.                                             *)

LEMMA ArriveIInv ==
    ASSUME DispatchInv, NEW k \in Keys, Arrive(k), NEW n, n = Len(keyOf) + 1
    PROVE  DispatchInv'
<1>1. /\ keyOf' = Append(keyOf, k) /\ inbox' = Append(inbox, Len(keyOf'))
      /\ Len(keyOf) < MaxEvents
      /\ UNCHANGED <<concurrent, pipe, at, reads, ready, task, work, tables, begun, phase, doomed>>
  BY DEF Arrive
<1>2. TypeOK BY DEF DispatchInv
<1>3. /\ keyOf' \in Seq(Keys) /\ Len(keyOf') = n /\ keyOf'[n] = k
      /\ \A m \in Arrived : keyOf'[m] = keyOf[m]
      /\ n \in Events /\ Len(keyOf) \in Nat
  BY <1>1, <1>2, AppendProperties, Parts DEF Arrived, Events, KeyedAssumption
<1>4. /\ Arrived' = 1..n /\ n \notin Arrived /\ Arrived \subseteq Arrived'
      /\ \A m \in Arrived : m < n
  BY <1>3 DEF Arrived
<1>5. /\ inbox' \in Seq(Events) /\ Members(inbox') = Members(inbox) \cup {n} /\ Rising(inbox')
  <2>1. inbox \in Seq(Events) /\ Events \in SUBSET Nat BY <1>2, Parts DEF TypeOK
  <2>2. Rising(inbox) /\ \A m \in Members(inbox) : m < n
    BY <1>4 DEF DispatchInv, Relations, InboxRises
  <2> QED BY <1>1, <1>3, <2>1, <2>2, Enters
<1>6. TypeOK'
  <2>1. Len(keyOf') <= MaxEvents BY <1>3 DEF Events
  <2> QED BY <1>1, <1>3, <1>5, <2>1 DEF DispatchInv, TypeOK
<1>7. \A m \in Events : task[m] # "none" => m \in Arrived /\ m < n
  BY <1>4 DEF DispatchInv, Relations, InboxRises
<1>8. InboxRises'
  <2>1. task[n] = "none" BY <1>3, <1>4, <1>7
  <2>2. \A m \in Members(inbox) : m \in Arrived' /\ task[m] = "none"
    BY <1>4 DEF DispatchInv, Relations, InboxRises
  <2>3. \A m \in Members(inbox), q \in Events : task[q] # "none" => q < m
    BY DEF DispatchInv, Relations, InboxRises
  <2>4. n \in Arrived' BY <1>3, <1>4
  <2> QED BY <1>1, <1>4, <1>5, <1>7, <2>1, <2>2, <2>3, <2>4 DEF InboxRises
<1>9. ReadyRises'
  BY <1>1 DEF DispatchInv, Relations, ReadyRises, Members, Rising
<1>10. LinesRise'
  <2>1. \A m \in Events : task[m] \in Started => keyOf'[m] = keyOf[m]
    BY <1>3, <1>7 DEF Started
  <2> QED BY <1>1, <2>1 DEF DispatchInv, Relations, LinesRise
<1>11. BegunFirst' /\ OneAtATime' /\ ArrivalOrder'
  <2>1. concurrent => \A i \in 1..Len(begun) : begun[i] \in Arrived
    BY DEF DispatchInv, Relations, BegunFirst, Members
  <2>2. \A m \in 1..n : Handling(m) => m \in Arrived
    BY <1>3, <1>7, <1>2, Parts DEF Handling, Events, KeyedAssumption
  <2>3. BegunFirst'
    <3>1. concurrent => \A m \in Members(begun) :
             /\ m \in Arrived /\ m \in Arrived' /\ keyOf'[m] = keyOf[m]
             /\ task[m] \in {"running", "done"}
      BY <1>3, <1>4 DEF DispatchInv, Relations, BegunFirst
    <3>2. \A m \in Events : task[m] = "waiting" => keyOf'[m] = keyOf[m]
      BY <1>3, <1>7
    <3>3. concurrent => \A m \in Members(begun), q \in Events :
             task[q] = "waiting" /\ keyOf'[m] = keyOf'[q] => m < q
      BY <3>1, <3>2 DEF DispatchInv, Relations, BegunFirst
    <3> QED BY <1>1, <3>1, <3>3 DEF BegunFirst
  <2>4. OneAtATime'
    <3>1. \A m \in 1..n : Handling(m)' => m \in Arrived /\ Handling(m)
      BY <1>1, <2>2 DEF Handling
    <3> QED BY <1>1, <1>3, <3>1 DEF DispatchInv, Relations, OneAtATime, Arrived
  <2>5. ArrivalOrder'
    <3> SUFFICES ASSUME concurrent, NEW i \in 1..Len(begun), NEW j \in 1..Len(begun),
                        i < j, keyOf'[begun[i]] = keyOf'[begun[j]]
                 PROVE  begun[i] < begun[j]
      BY <1>1 DEF ArrivalOrder
    <3>1. keyOf[begun[i]] = keyOf[begun[j]] BY <1>3, <2>1
    <3> QED BY <3>1 DEF DispatchInv, Relations, ArrivalOrder
  <2> QED BY <2>3, <2>4, <2>5
<1>12. LocksAreCounted'
  <2>1. \A q \in Keys : Here(q)' = Here(q)
    BY <1>1, <1>3, <1>4, <1>7 DEF Here, TasksOf, Started, Arrived
  <2> QED BY <1>1, <2>1 DEF DispatchInv, Relations, LocksAreCounted
<1>13. (LoopsRun /\ LastLoopRuns)' BY <1>1, LoopsStay
<1>14. (CloseCovers /\ ClosedIsQuiet)' BY <1>1, CloseStays
<1> QED BY <1>6, <1>8, <1>9, <1>10, <1>11, <1>12, <1>13, <1>14 DEF DispatchInv, Relations

\* A new transport; the loop that serves it is the last.
LEMMA RebindIInv == ASSUME DispatchInv, Rebind PROVE DispatchInv'
<1>1. /\ phase = "open" /\ pipe < MaxBinds /\ pipe' = pipe + 1 /\ inbox' = <<>>
      /\ MayTakeOver \/ \A l \in Loops : at[l] \in {Off, Receiving}
      /\ at' = [at EXCEPT ![pipe'] = Receiving]
      /\ UNCHANGED <<concurrent, keyOf, reads, ready, task, work, tables, begun, phase, doomed>>
  BY DEF Rebind
<1>2. pipe' \in Loops /\ pipe \in Loops BY <1>1 DEF DispatchInv, TypeOK, Loops, KeyedAssumption
<1>3. Off \notin Events /\ Receiving \notin Events BY DEF Off, Receiving, Events
<1>4. TypeOK' BY <1>1, <1>2, EmptySeq DEF DispatchInv, TypeOK
<1>5. InboxRises'
  <2>1. Members(inbox') = {} /\ Rising(inbox') BY <1>1, EmptySeq DEF Members, Rising
  <2> QED BY <1>1, <2>1 DEF DispatchInv, Relations, InboxRises, Arrived
<1>6. (ReadyRises /\ BegunFirst /\ OneAtATime /\ ArrivalOrder)' BY <1>1, OrderStays
<1>7. (LinesRise /\ LocksAreCounted)' BY <1>1, TablesStay
<1>8. LoopsRun'
  BY <1>1, <1>2, <1>3 DEF DispatchInv, TypeOK, Relations, LoopsRun
<1>9. LastLoopRuns'
  BY <1>1, <1>2, <1>3 DEF DispatchInv, TypeOK, Relations, LastLoopRuns
<1>10. (CloseCovers /\ ClosedIsQuiet)' BY <1>1, CloseStays
<1> QED BY <1>4, <1>5, <1>6, <1>7, <1>8, <1>9, <1>10 DEF DispatchInv, Relations

LEMMA LoopEndsIInv == ASSUME DispatchInv, NEW l \in Loops, LoopEnds(l) PROVE DispatchInv'
<1>1. /\ at' = [at EXCEPT ![l] = Off] /\ at[l] = Receiving
      /\ UNCHANGED <<concurrent, keyOf, inbox, pipe, reads, ready, task, work, tables, begun,
                     phase, doomed>>
  BY DEF LoopEnds
<1>2. Off \notin Events /\ Receiving \notin Events BY DEF Off, Receiving, Events
<1>3. TypeOK' BY <1>1 DEF DispatchInv, TypeOK
<1>4. LoopsRun' /\ LastLoopRuns'
  BY <1>1, <1>2 DEF DispatchInv, TypeOK, Relations, LoopsRun, LastLoopRuns
<1> QED BY <1>1, <1>3, <1>4, QueuesStay, TablesStay, CloseStays DEF DispatchInv, Relations

\* The next turn of a loop: it waits again, on the transport of the moment.
LEMMA TurnTaken ==
    ASSUME TypeOK, NEW l \in Loops, NextTurn(l), pipe' = pipe
    PROVE  /\ at' \in [Loops -> {Off, Receiving} \cup Events] /\ reads' \in [Loops -> Loops]
           /\ at'[l] \notin Events /\ reads'[l] = pipe
           /\ \A m \in Loops : m # l => at'[m] = at[m] /\ reads'[m] = reads[m]
<1>1. Off \notin Events /\ Receiving \notin Events BY DEF Off, Receiving, Events
<1> QED BY <1>1 DEF NextTurn, TypeOK

\* What reading an event does to the inbox.
LEMMA ReadOne ==
    ASSUME DispatchInv, NEW l \in Loops, Read(l), NEW n, n = Head(inbox)
    PROVE  /\ n \in Arrived /\ n \in Events /\ task[n] = "none" /\ reads[l] = pipe
           /\ at[l] = Receiving
           /\ inbox' \in Seq(Events) /\ Rising(inbox') /\ Members(inbox') = Members(inbox) \ {n}
           /\ \A m \in Members(inbox') : n < m
           /\ \A m \in Events : task[m] # "none" => m < n
<1>1. inbox \in Seq(Events) /\ inbox # <<>> /\ Events \in SUBSET Nat /\ inbox' = Tail(inbox)
  BY Parts DEF DispatchInv, TypeOK, Read
<1>2. Rising(inbox) BY DEF DispatchInv, Relations, InboxRises
<1>3. n \in Members(inbox) /\ n \in Events BY <1>1, <1>2, Leaves
<1> QED BY <1>1, <1>2, <1>3, Leaves DEF DispatchInv, Relations, InboxRises, Read

\* A task changes state.
LEMMA TaskMoves ==
    ASSUME TypeOK, NEW n \in Events, NEW to \in States, task' = [task EXCEPT ![n] = to]
    PROVE  /\ task' \in [Events -> States] /\ task'[n] = to
           /\ \A m \in Events : m # n => task'[m] = task[m]
  BY Parts

LEMMA SpawnTaskIInv ==
    ASSUME DispatchInv, NEW l \in Loops, SpawnTask(l), NEW n, n = Head(inbox)
    PROVE  DispatchInv'
<1>1. /\ concurrent /\ Read(l) /\ NextTurn(l)
      /\ task' = [task EXCEPT ![n] = "ready"] /\ ready' = Append(ready, n)
      /\ UNCHANGED <<concurrent, keyOf, pipe, work, tables, begun, phase, doomed>>
  BY DEF SpawnTask
<1>2. /\ n \in Arrived /\ n \in Events /\ task[n] = "none"
      /\ inbox' \in Seq(Events) /\ Rising(inbox') /\ Members(inbox') = Members(inbox) \ {n}
      /\ \A m \in Members(inbox') : n < m
      /\ \A m \in Events : task[m] # "none" => m < n
  BY <1>1, ReadOne
<1>3. /\ task' \in [Events -> States] /\ task'[n] = "ready"
      /\ \A m \in Events : m # n => task'[m] = task[m]
      /\ "ready" \in States
  BY <1>1, <1>2, TaskMoves DEF DispatchInv, States, Alive
<1>4. /\ at' \in [Loops -> {Off, Receiving} \cup Events] /\ reads' \in [Loops -> Loops]
      /\ at'[l] \notin Events
      /\ \A m \in Loops : m # l => at'[m] = at[m]
  BY <1>1, TurnTaken DEF DispatchInv
<1>5. /\ ready' \in Seq(Events) /\ Members(ready') = Members(ready) \cup {n} /\ Rising(ready')
  <2>1. ready \in Seq(Events) /\ Events \in SUBSET Nat BY Parts DEF DispatchInv, TypeOK
  <2>2. Rising(ready) /\ \A m \in Members(ready) : m < n
    BY <1>2 DEF DispatchInv, Relations, ReadyRises
  <2> QED BY <1>1, <1>2, <2>1, <2>2, Enters
<1>6. TypeOK' BY <1>1, <1>2, <1>3, <1>4, <1>5 DEF DispatchInv, TypeOK, States
<1>7. InboxRises'
  BY <1>1, <1>2, <1>3 DEF DispatchInv, Relations, InboxRises, Arrived
<1>8. ReadyRises'
  <2>1. Members(ready') = {m \in Events : task'[m] = "ready"}
    BY <1>2, <1>3, <1>5 DEF DispatchInv, Relations, ReadyRises
  <2>2. \A m \in Events : task'[m] \in Passed => m < n /\ task[m] \in Passed
    BY <1>2, <1>3 DEF Passed
  <2> QED BY <1>5, <2>1, <2>2 DEF DispatchInv, Relations, ReadyRises
<1>9. \A m \in Events : /\ task'[m] \in Started <=> task[m] \in Started
                        /\ task[m] \in Passed => task'[m] = task[m] /\ m # n
                        /\ task'[m] \in {"waiting", "running"} => task[m] = task'[m]
  BY <1>2, <1>3 DEF Started, Passed
<1>10. LinesRise'
  <2>1. \A k \in Keys : lock[k] # NoLock => lock[k] \in Events BY Parts DEF DispatchInv
  <2>2. \A o \in Events : Members(line[o]) \subseteq Events BY Parts, MembersOf DEF DispatchInv
  <2> QED BY <1>1, <1>3, <1>9, <2>1, <2>2 DEF DispatchInv, Relations, LinesRise
<1>11. BegunFirst' /\ OneAtATime' /\ ArrivalOrder'
  <2>1. \A m \in Members(begun) : m \in Arrived /\ m \in Events /\ task'[m] \in {"running", "done"}
    BY <1>1, <1>2, <1>3, Parts DEF DispatchInv, Relations, BegunFirst
  <2>2. BegunFirst'
    BY <1>1, <1>9, <2>1 DEF DispatchInv, Relations, BegunFirst, Arrived
  <2>3. OneAtATime'
    BY <1>1, <1>9, Parts DEF DispatchInv, Relations, OneAtATime, Handling, Arrived
  <2> QED BY <1>1, <2>2, <2>3 DEF DispatchInv, Relations, ArrivalOrder
<1>12. LocksAreCounted'
  <2>1. \A k \in Keys : Here(k)' = Here(k)
    BY <1>1, <1>9, Parts DEF DispatchInv, Here, TasksOf, Arrived
  <2> QED BY <1>1, <2>1 DEF DispatchInv, Relations, LocksAreCounted
<1>13. LoopsRun' /\ LastLoopRuns'
  BY <1>1, <1>4 DEF DispatchInv, Relations, LoopsRun, LastLoopRuns
<1>14. (CloseCovers /\ ClosedIsQuiet)' BY <1>1, <1>9, CloseStays
<1> QED BY <1>6, <1>7, <1>8, <1>10, <1>11, <1>12, <1>13, <1>14 DEF DispatchInv, Relations

\* In series nothing is queued, locked or counted.
LEMMA SeriesIInv ==
    ASSUME DispatchInv, ~concurrent, TypeOK', InboxRises', LoopsRun', LastLoopRuns',
           UNCHANGED <<concurrent, keyOf, ready, work, tables, phase, doomed>>
    PROVE  DispatchInv'
<1>1. Members(ready) = {} /\ \A n \in Events : task'[n] # "ready"
  BY DEF DispatchInv, Relations, LoopsRun, ReadyRises
<1>2. ReadyRises' BY <1>1 DEF DispatchInv, Relations, ReadyRises
<1>3. LocksAreCounted' BY DEF DispatchInv, Relations, LoopsRun, LocksAreCounted
<1>4. (LinesRise /\ BegunFirst /\ OneAtATime /\ ArrivalOrder)'
  BY DEF LinesRise, BegunFirst, OneAtATime, ArrivalOrder
<1>5. (CloseCovers /\ ClosedIsQuiet)' BY CloseStays
<1> QED BY <1>2, <1>3, <1>4, <1>5 DEF DispatchInv, Relations

LEMMA HandleInSeriesIInv ==
    ASSUME DispatchInv, NEW l \in Loops, HandleInSeries(l), NEW n, n = Head(inbox)
    PROVE  DispatchInv'
<1>1. /\ ~concurrent /\ Read(l)
      /\ UNCHANGED <<concurrent, keyOf, pipe, ready, work, tables, phase, doomed>>
      /\ \/ /\ at' = [at EXCEPT ![l] = n] /\ task' = [task EXCEPT ![n] = "running"]
            /\ begun' = Append(begun, n) /\ UNCHANGED reads
         \/ NextTurn(l) /\ task' = [task EXCEPT ![n] = "done"] /\ UNCHANGED begun
  BY DEF HandleInSeries
<1>2. /\ n \in Arrived /\ n \in Events /\ task[n] = "none" /\ reads[l] = pipe
      /\ at[l] = Receiving /\ Receiving \notin Events
      /\ inbox' \in Seq(Events) /\ Rising(inbox') /\ Members(inbox') = Members(inbox) \ {n}
      /\ \A m \in Members(inbox') : n < m
      /\ \A m \in Events : task[m] # "none" => m < n
  BY <1>1, ReadOne DEF Receiving, Events
<1>3. /\ task' \in [Events -> States] /\ task'[n] \in {"running", "done"}
      /\ \A m \in Events : m # n => task'[m] = task[m]
  BY <1>1, <1>2, TaskMoves DEF DispatchInv, States, Alive
<1>4. /\ at' \in [Loops -> {Off, Receiving} \cup Events] /\ reads' \in [Loops -> Loops]
      /\ \A m \in Loops : m # l => at'[m] = at[m] /\ reads'[m] = reads[m]
      /\ reads'[l] = pipe
      /\ at'[l] \in Events => at'[l] = n
      /\ task'[n] = "running" => at'[l] = n
  <2>1. CASE NextTurn(l) /\ task' = [task EXCEPT ![n] = "done"]
    <3>1. task'[n] = "done" BY <1>2, <2>1 DEF DispatchInv, TypeOK
    <3> QED BY <1>1, <2>1, <3>1, TurnTaken DEF DispatchInv
  <2>2. CASE at' = [at EXCEPT ![l] = n] /\ UNCHANGED reads
    BY <1>2, <2>2 DEF DispatchInv, TypeOK
  <2> QED BY <1>1, <2>1, <2>2
<1>5. begun' \in Seq(Events)
  <2>1. begun \in Seq(Events) BY DEF DispatchInv, TypeOK
  <2>2. Append(begun, n) \in Seq(Events) BY <1>2, <2>1, AppendProperties
  <2> QED BY <1>1, <2>1, <2>2
<1>6. TypeOK' BY <1>1, <1>2, <1>3, <1>4, <1>5 DEF DispatchInv, TypeOK, States
<1>7. InboxRises'
  <2>1. \A m \in Members(inbox) : m \in Arrived /\ task[m] = "none"
    BY DEF DispatchInv, Relations, InboxRises
  <2>2. \A m \in Events : task[m] # "none" => m \in Arrived
    BY DEF DispatchInv, Relations, InboxRises
  <2>3. \A m \in Events : task'[m] # "none" => m \in Arrived /\ (m = n \/ m < n)
    BY <1>2, <1>3, <2>2
  <2>4. n \in Nat /\ \A m \in Members(inbox') : m \in Nat /\ m \in Events /\ m # n /\ n < m
    BY <1>2, <2>1, Parts DEF DispatchInv
  <2>5. ASSUME NEW m \in Members(inbox'), NEW q \in Events, task'[q] # "none" PROVE q < m
    <3>1. q \in Nat /\ (q = n \/ q < n) BY <2>3, <2>5, Parts DEF DispatchInv
    <3> QED BY <2>4, <3>1
  <2> QED BY <1>1, <1>2, <1>3, <2>1, <2>3, <2>4, <2>5 DEF InboxRises, Arrived
<1>8. LoopsRun'
  <2>1. \A m \in Loops : at[m] \in Events => at[m] # n /\ task[at[m]] \in {"running", "done"}
    BY <1>2 DEF DispatchInv, Relations, LoopsRun
  <2>2. \A m \in Loops : at'[m] \in Events => task'[at'[m]] \in {"running", "done"}
    BY <1>2, <1>3, <1>4, <2>1
  <2> QED BY <1>1, <1>3, <2>2 DEF DispatchInv, Relations, LoopsRun
<1>9. LastLoopRuns'
  <2> SUFFICES ASSUME ~MayTakeOver PROVE LastLoopRuns' BY DEF LastLoopRuns
  <2>1. l = pipe /\ \A m \in Events : task[m] # "running"
    BY <1>1, <1>2 DEF DispatchInv, Relations, LastLoopRuns
  <2> QED BY <1>1, <1>2, <1>3, <1>4, <2>1 DEF DispatchInv, Relations, LastLoopRuns
<1> QED BY <1>1, <1>6, <1>7, <1>8, <1>9, SeriesIInv

LEMMA SeriesHandlerEndsIInv ==
    ASSUME DispatchInv, NEW l \in Loops, SeriesHandlerEnds(l), NEW n, n = at[l]
    PROVE  DispatchInv'
<1>1. /\ n \in Events /\ task' = [task EXCEPT ![n] = "done"] /\ NextTurn(l)
      /\ UNCHANGED <<concurrent, keyOf, inbox, pipe, ready, work, tables, begun, phase, doomed>>
  BY DEF SeriesHandlerEnds
<1>2. ~concurrent /\ task[n] \in {"running", "done"}
  BY <1>1 DEF DispatchInv, Relations, LoopsRun
<1>3. /\ task' \in [Events -> States] /\ task'[n] = "done"
      /\ \A m \in Events : m # n => task'[m] = task[m]
  BY <1>1, TaskMoves DEF DispatchInv, States
<1>4. /\ at' \in [Loops -> {Off, Receiving} \cup Events] /\ reads' \in [Loops -> Loops]
      /\ at'[l] \notin Events /\ reads'[l] = pipe
      /\ \A m \in Loops : m # l => at'[m] = at[m] /\ reads'[m] = reads[m]
  BY <1>1, TurnTaken DEF DispatchInv
<1>5. TypeOK' BY <1>1, <1>3, <1>4 DEF DispatchInv, TypeOK, States
<1>6. InboxRises'
  BY <1>1, <1>2, <1>3 DEF DispatchInv, Relations, InboxRises, Arrived
<1>7. LoopsRun'
  BY <1>1, <1>2, <1>3, <1>4 DEF DispatchInv, Relations, LoopsRun
<1>8. LastLoopRuns'
  BY <1>1, <1>2, <1>3, <1>4 DEF DispatchInv, Relations, LastLoopRuns
<1> QED BY <1>1, <1>2, <1>5, <1>6, <1>7, <1>8, SeriesIInv

-----------------------------------------------------------------------------
(* A task starts.                                                          *)

\* Who is first in the ready queue, and what is left without it.
LEMMA FirstReady ==
    ASSUME DispatchInv, ready # <<>>, ready' = Tail(ready), NEW n, n = Head(ready)
    PROVE  /\ n \in Events /\ n \in Arrived /\ task[n] = "ready" /\ concurrent
           /\ ready' \in Seq(Events) /\ Rising(ready') /\ Members(ready') = Members(ready) \ {n}
           /\ \A m \in Members(ready') : n < m
           /\ \A m \in Events : task[m] \in Passed => m < n
<1>1. ready \in Seq(Events) /\ Events \in SUBSET Nat BY Parts DEF DispatchInv, TypeOK
<1>2. Rising(ready) BY DEF DispatchInv, Relations, ReadyRises
<1>3. n \in Members(ready) BY <1>1, <1>2, Leaves
<1>4. n \in Events /\ task[n] = "ready" BY <1>3 DEF DispatchInv, Relations, ReadyRises
<1>5. n \in Arrived /\ concurrent
  BY <1>4 DEF DispatchInv, Relations, InboxRises, LoopsRun
<1> QED BY <1>1, <1>2, <1>3, <1>4, <1>5, Leaves DEF DispatchInv, Relations, ReadyRises

\* The order in which tasks leave the ready queue.
LEMMA ReadyLeaves ==
    ASSUME DispatchInv, ready # <<>>, ready' = Tail(ready), NEW n, n = Head(ready),
           NEW to \in Passed, task' = [task EXCEPT ![n] = to],
           UNCHANGED <<keyOf, inbox>>
    PROVE  /\ (InboxRises /\ ReadyRises)'
           /\ task' \in [Events -> States] /\ task'[n] = to
           /\ \A m \in Events : m # n => task'[m] = task[m]
<1>1. /\ n \in Events /\ n \in Arrived /\ task[n] = "ready"
      /\ Rising(ready') /\ Members(ready') = Members(ready) \ {n}
      /\ \A m \in Members(ready') : n < m
  BY FirstReady
<1>2. /\ task' \in [Events -> States] /\ task'[n] = to
      /\ \A m \in Events : m # n => task'[m] = task[m]
  BY <1>1, TaskMoves DEF DispatchInv, Passed, States, Alive
<1>3. \A m \in Events : /\ task'[m] = "none" <=> task[m] = "none"
                        /\ task'[m] = "ready" <=> task[m] = "ready" /\ m # n
                        /\ task'[m] \in Passed => m = n \/ task[m] \in Passed
  BY <1>1, <1>2 DEF Passed
<1>4. InboxRises'
  <2>1. Members(inbox) \subseteq Events BY Parts, MembersOf DEF DispatchInv, TypeOK
  <2> QED BY <1>3, <2>1 DEF DispatchInv, Relations, InboxRises, Arrived
<1>5. ReadyRises'
  BY <1>1, <1>3 DEF DispatchInv, Relations, ReadyRises
<1> QED BY <1>2, <1>4, <1>5

\* A loop has nothing to do with the tasks of a concurrent session.
LEMMA ConcurrentLoops ==
    ASSUME DispatchInv, concurrent, UNCHANGED <<concurrent, at, reads, pipe>>
    PROVE  (\A l \in Loops : at[l] \in Events => task'[at[l]] \in {"running", "done"})
              => (LoopsRun /\ LastLoopRuns)'
  BY DEF DispatchInv, Relations, LoopsRun, LastLoopRuns

LEMMA LateStartIInv ==
    ASSUME DispatchInv, Start, phase # "open", NEW n, n = Head(ready)
    PROVE  DispatchInv'
<1>1. /\ ready # <<>> /\ ready' = Tail(ready) /\ task' = [task EXCEPT ![n] = "done"]
      /\ UNCHANGED <<concurrent, keyOf, loops, work, tables, begun, phase, doomed>>
  BY DEF Start
<1>2. /\ n \in Events /\ task[n] = "ready" /\ concurrent /\ ready' \in Seq(Events)
  BY <1>1, FirstReady
<1>3. /\ (InboxRises /\ ReadyRises)'
      /\ task' \in [Events -> States] /\ task'[n] = "done"
      /\ \A m \in Events : m # n => task'[m] = task[m]
  BY <1>1, ReadyLeaves DEF Passed
<1>4. TypeOK' BY <1>1, <1>2, <1>3 DEF DispatchInv, TypeOK, States
<1>5. BegunFirst'
  <2>1. Members(begun) \subseteq Events BY Parts, MembersOf DEF DispatchInv, TypeOK
  <2> QED BY <1>1, <1>2, <1>3, <2>1 DEF DispatchInv, Relations, BegunFirst, Arrived
<1>6. OneAtATime' /\ ArrivalOrder'
  BY <1>1, <1>2, <1>3, Parts DEF DispatchInv, Relations, OneAtATime, ArrivalOrder, Handling, Arrived
<1>7. LinesRise' /\ LocksAreCounted'
  BY <1>1 DEF LinesRise, LocksAreCounted
<1>8. (LoopsRun /\ LastLoopRuns)'
  BY <1>1, <1>2, ConcurrentLoops DEF DispatchInv, Relations, LoopsRun
<1>9. (CloseCovers /\ ClosedIsQuiet)'
  BY <1>1, <1>2, <1>3, CloseStays DEF Started
<1> QED BY <1>3, <1>4, <1>5, <1>6, <1>7, <1>8, <1>9 DEF DispatchInv, Relations

\* What the lock table says of one widget.
LEMMA LockOf ==
    ASSUME DispatchInv, concurrent, phase = "open", NEW n \in Events, n \in Arrived,
           NEW k, k = keyOf[n], NEW o, o = LockFor(n)
    PROVE  /\ k \in Keys /\ o \in Events
           /\ lock[k] # NoLock => o = lock[k] /\ task[o] \in Passed
           /\ lock[k] = NoLock => o = n
           /\ \A m \in Events : task[m] \in Started /\ keyOf[m] = k => uses[m] = o /\ lock[k] = o
           /\ task[n] = "ready" /\ lock[k] = NoLock => line[o] = <<>>
<1>1. k \in Keys /\ lock[k] \in {NoLock} \cup Events /\ NoLock \notin Events
  BY Parts DEF DispatchInv, NoLock
<1>2. /\ \A m \in Events : task[m] \in Started =>
            uses[m] = lock[keyOf[m]] /\ uses[m] \in Events
      /\ \A p \in Events : \A m \in Members(line[p]) : task[m] \in Started /\ uses[m] = p
      /\ \A q \in Keys : lock[q] # NoLock => task[lock[q]] \in Passed
  BY DEF DispatchInv, Relations, LinesRise
<1>3. o \in Events /\ (lock[k] # NoLock => o = lock[k]) /\ (lock[k] = NoLock => o = n)
  BY <1>1 DEF LockFor
<1>4. \A m \in Events : task[m] \in Started /\ keyOf[m] = k => uses[m] = o /\ lock[k] = o
  BY <1>1, <1>2, <1>3
<1>5. ASSUME task[n] = "ready", lock[k] = NoLock PROVE line[o] = <<>>
  <2> SUFFICES ASSUME NEW m \in Members(line[n]) PROVE FALSE
    BY <1>3, <1>5, Parts, MembersOf DEF DispatchInv
  <2>1. m \in Events BY Parts, MembersOf DEF DispatchInv
  <2>2. uses[m] = n /\ task[m] \in Started /\ uses[m] = lock[keyOf[m]] BY <1>2, <2>1
  <2>3. m \in Arrived BY <2>1, <2>2 DEF DispatchInv, Relations, InboxRises, Started
  <2>4. keyOf[m] \in Keys BY <2>3, Parts DEF DispatchInv
  <2>5. task[n] \in Passed BY <1>1, <1>2, <2>2, <2>4
  <2> QED BY <1>5, <2>5 DEF Passed
<1> QED BY <1>1, <1>2, <1>3, <1>4, <1>5

LEMMA StartIInv ==
    ASSUME DispatchInv, Start, phase = "open",
           NEW n, n = Head(ready), NEW k, k = keyOf[n], NEW o, o = LockFor(n)
    PROVE  DispatchInv'
<1> DEFINE to == IF line[o] = <<>> THEN "running" ELSE "waiting"
<1>1. /\ ready # <<>> /\ ready' = Tail(ready)
      /\ lock' = [lock EXCEPT ![k] = o] /\ users' = [users EXCEPT ![k] = users[k] + 1]
      /\ line' = [line EXCEPT ![o] = Append(line[o], n)]
      /\ uses' = [uses EXCEPT ![n] = o]
      /\ task' = [task EXCEPT ![n] = to]
      /\ begun' = IF line[o] = <<>> THEN Append(begun, n) ELSE begun
      /\ UNCHANGED <<concurrent, keyOf, loops, work, phase, doomed>>
  BY DEF Start, CountIn, QueueUp
<1>2. /\ n \in Events /\ n \in Arrived /\ task[n] = "ready" /\ concurrent
      /\ ready' \in Seq(Events)
      /\ \A m \in Events : task[m] \in Passed => m < n
  BY <1>1, FirstReady
<1>3. /\ k \in Keys /\ o \in Events
      /\ lock[k] # NoLock => o = lock[k] /\ task[o] \in Passed
      /\ lock[k] = NoLock => o = n
      /\ \A m \in Events : task[m] \in Started /\ keyOf[m] = k => uses[m] = o /\ lock[k] = o
      /\ lock[k] = NoLock => line[o] = <<>>
  BY <1>2, LockOf
<1>4. to \in {"running", "waiting"} /\ (to = "running" <=> line[o] = <<>>)
  OBVIOUS
<1> HIDE DEF to
<1>5. /\ (InboxRises /\ ReadyRises)'
      /\ task' \in [Events -> States] /\ task'[n] = to
      /\ \A m \in Events : m # n => task'[m] = task[m]
  BY <1>1, <1>4, ReadyLeaves DEF Passed
<1>6. /\ lock' \in [Keys -> {NoLock} \cup Events] /\ lock'[k] = o
      /\ \A q \in Keys : q # k => lock'[q] = lock[q]
      /\ uses' \in [Events -> {NoLock} \cup Events] /\ uses'[n] = o
      /\ \A m \in Events : m # n => uses'[m] = uses[m]
      /\ users' \in [Keys -> Nat] /\ users'[k] = users[k] + 1
      /\ \A q \in Keys : q # k => users'[q] = users[q]
      /\ o # NoLock
  BY <1>1, <1>2, <1>3, Parts, SMTT(30) DEF DispatchInv, NoLock
<1>7. /\ Rising(line[o]) /\ \A m \in Members(line[o]) : m \in Events /\ task[m] \in Started
      /\ \A m \in Members(line[o]) : m < n
  <2>1. Members(line[o]) \subseteq Events BY <1>3, Parts, MembersOf DEF DispatchInv
  <2> QED BY <1>2, <1>3, <2>1 DEF DispatchInv, Relations, LinesRise, Started, Passed
<1>8. /\ line' \in [Events -> Seq(Events)]
      /\ Rising(line'[o]) /\ Members(line'[o]) = Members(line[o]) \cup {n}
      /\ Head(line'[o]) = IF line[o] = <<>> THEN n ELSE Head(line[o])
      /\ \A p \in Events : p # o => line'[p] = line[p]
  <2>1. line \in [Events -> Seq(Events)] /\ line[o] \in Seq(Events) /\ Events \in SUBSET Nat
    BY <1>3, Parts DEF DispatchInv, TypeOK
  <2>2. LET t == Append(line[o], n) IN
        /\ t \in Seq(Events) /\ Members(t) = Members(line[o]) \cup {n} /\ Rising(t)
        /\ Head(t) = IF line[o] = <<>> THEN n ELSE Head(line[o])
    BY <1>2, <1>7, <2>1, Enters
  <2> QED BY <1>1, <1>3, <2>1, <2>2
<1>9. /\ begun' \in Seq(Events)
      /\ Members(begun') = IF line[o] = <<>> THEN Members(begun) \cup {n} ELSE Members(begun)
      /\ Members(begun) \subseteq Events
  <2>1. begun \in Seq(Events) /\ Events \in SUBSET Nat BY Parts DEF DispatchInv, TypeOK
  <2>2. LET t == Append(begun, n) IN
        t \in Seq(Events) /\ Members(t) = Members(begun) \cup {n}
    BY <1>2, <2>1, Enters
  <2>3. Members(begun) \subseteq Events BY <2>1, MembersOf
  <2> QED BY <1>1, <2>1, <2>2, <2>3
<1>10. TypeOK' BY <1>1, <1>2, <1>5, <1>6, <1>8, <1>9 DEF DispatchInv, TypeOK, States
<1>11. \A m \in Events : m # n =>
         /\ task'[m] \in Started => m \in Arrived /\ task[m] \in Started /\ keyOf[m] \in Keys
         /\ task'[m] \in Started /\ keyOf[m] = k => m \in Members(line[o])
  <2> SUFFICES ASSUME NEW m \in Events, m # n, task[m] \in Started
               PROVE  /\ m \in Arrived /\ keyOf[m] \in Keys
                      /\ keyOf[m] = k => m \in Members(line[o])
    BY <1>5
  <2>1. m \in Arrived /\ keyOf[m] \in Keys
    BY Parts DEF DispatchInv, Relations, InboxRises, Started
  <2>2. m \in Members(line[uses[m]]) BY <1>2 DEF DispatchInv, Relations, LinesRise
  <2> QED BY <1>3, <2>1, <2>2
<1>12. LinesRise'
  <2>1. \A p \in Events :
          /\ Rising(line'[p])
          /\ \A m \in Members(line'[p]) : task'[m] \in Started /\ uses'[m] = p
    <3>1. \A p \in Events : \A m \in Members(line[p]) :
             m \in Events /\ m # n /\ task[m] \in Started /\ uses[m] = p /\ Rising(line[p])
      <4>1. \A p \in Events : Members(line[p]) \subseteq Events BY Parts, MembersOf DEF DispatchInv
      <4> QED BY <1>2, <4>1 DEF DispatchInv, Relations, LinesRise, Started
    <3>2. \A p \in Events : Rising(line[p]) BY <1>2 DEF DispatchInv, Relations, LinesRise
    <3>3. task'[n] \in Started BY <1>4, <1>5 DEF Started
    <3> SUFFICES ASSUME NEW p \in Events
                 PROVE  /\ Rising(line'[p])
                        /\ \A m \in Members(line'[p]) : task'[m] \in Started /\ uses'[m] = p
      OBVIOUS
    <3>4. CASE p = o BY <1>5, <1>6, <1>8, <3>1, <3>3, <3>4
    <3>5. CASE p # o BY <1>5, <1>6, <1>8, <3>1, <3>2, <3>5
    <3> QED BY <3>4, <3>5
  <2>2. ASSUME NEW m \in Events, task'[m] \in Started
        PROVE  /\ uses'[m] = lock'[keyOf[m]] /\ uses'[m] \in Events
               /\ m \in Members(line'[uses'[m]])
    <3>1. CASE m = n BY <1>3, <1>6, <1>8, <3>1
    <3>2. CASE m # n
      <4>1. /\ uses[m] = lock[keyOf[m]] /\ uses[m] \in Events /\ m \in Members(line[uses[m]])
            /\ keyOf[m] \in Keys
        BY <1>2, <1>11, <2>2, <3>2 DEF DispatchInv, Relations, LinesRise
      <4>2. uses'[m] = lock'[keyOf[m]]
        BY <1>3, <1>5, <1>6, <2>2, <3>2, <4>1
      <4>3. uses'[m] = uses[m] BY <1>6, <3>2
      <4>4. m \in Members(line'[uses[m]])
        <5>1. CASE uses[m] = o BY <1>8, <4>1, <5>1
        <5>2. CASE uses[m] # o BY <1>8, <4>1, <5>2
        <5> QED BY <5>1, <5>2
      <4> QED BY <4>1, <4>2, <4>3, <4>4
    <3> QED BY <3>1, <3>2
  <2>3. ASSUME NEW m \in Events, task'[m] = "running" PROVE Head(line'[uses'[m]]) = m
    <3>1. CASE m = n BY <1>4, <1>5, <1>6, <1>8, <2>3, <3>1
    <3>2. CASE m # n
      <4>1. task[m] = "running" /\ Head(line[uses[m]]) = m /\ m \in Members(line[uses[m]])
            /\ uses[m] \in Events
        BY <1>2, <1>5, <2>3, <3>2 DEF DispatchInv, Relations, LinesRise, Started
      <4>2. uses[m] = o => line[o] # <<>>
        BY <4>1, Parts, MembersOf DEF DispatchInv
      <4> QED BY <1>6, <1>8, <3>2, <4>1, <4>2
    <3> QED BY <3>1, <3>2
  <2>4. ASSUME NEW q \in Keys, lock'[q] # NoLock PROVE task'[lock'[q]] \in Passed
    <3>1. CASE q = k BY <1>2, <1>3, <1>4, <1>5, <1>6, <3>1 DEF Passed
    <3>2. CASE q # k
      <4>1. task[lock[q]] \in Passed /\ lock[q] \in Events
        BY <1>2, <1>6, <2>4, <3>2, Parts DEF DispatchInv, Relations, LinesRise
      <4> QED BY <1>2, <1>5, <1>6, <3>2, <4>1 DEF Passed
    <3> QED BY <3>1, <3>2
  <2> QED BY <1>1, <2>1, <2>2, <2>3, <2>4 DEF LinesRise
\* Every handler that began before is of an earlier event.
<1>13. \A m \in Members(begun) :
          m \in Events /\ m # n /\ m \in Arrived /\ task[m] \in {"running", "done"} /\ m < n
  BY <1>2, <1>9 DEF DispatchInv, Relations, BegunFirst, Passed
<1>14. BegunFirst'
  <2>1. \A m \in Members(begun') : m \in Arrived /\ task'[m] \in {"running", "done"}
    BY <1>2, <1>4, <1>5, <1>9, <1>13
  <2>2. ASSUME NEW m \in Members(begun'), NEW q \in Events,
               task'[q] = "waiting", keyOf[m] = keyOf[q]
        PROVE  m < q
    <3>1. CASE q = n BY <1>4, <1>5, <1>9, <1>13, <2>2, <3>1
    <3>2. CASE q # n /\ m \in Members(begun)
      BY <1>2, <1>5, <2>2, <3>2 DEF DispatchInv, Relations, BegunFirst
    <3>3. CASE q # n /\ m = n /\ line[o] = <<>>
      <4>1. q \in Members(line[o]) BY <1>11, <2>2, <3>3 DEF Started
      <4> QED BY <1>3, <3>3, <4>1, Parts, MembersOf DEF DispatchInv
    <3> QED BY <1>9, <3>1, <3>2, <3>3
  <2> QED BY <1>1, <2>1, <2>2 DEF BegunFirst, Arrived
<1>15. OneAtATime'
  <2>1. ASSUME NEW m \in Arrived, m # n, task'[m] = "running", keyOf[m] = k, line[o] = <<>>
        PROVE  FALSE
    <3>1. m \in Events /\ m \in Members(line[o]) BY <1>11, <2>1, Parts DEF DispatchInv, Started
    <3> QED BY <1>3, <2>1, <3>1, Parts, MembersOf DEF DispatchInv
  <2>2. \A m \in Arrived : m \in Events BY Parts DEF DispatchInv
  <2> QED BY <1>1, <1>2, <1>3, <1>4, <1>5, <2>1, <2>2
          DEF DispatchInv, Relations, OneAtATime, Handling, Arrived
<1>16. ArrivalOrder'
  <2>1. CASE line[o] # <<>> BY <1>1, <2>1 DEF DispatchInv, Relations, ArrivalOrder
  <2>2. CASE line[o] = <<>>
    <3>1. begun' = Append(begun, n) /\ begun \in Seq(Events) BY <1>1, <2>2 DEF DispatchInv, TypeOK
    <3>2. /\ Len(begun') = Len(begun) + 1 /\ Len(begun) \in Nat
          /\ \A i \in 1..Len(begun) : begun'[i] = begun[i] /\ begun[i] \in Members(begun)
          /\ begun'[Len(begun) + 1] = n
      BY <1>2, <3>1, AppendProperties, LenProperties DEF Members
    <3>3. \A i \in 1..Len(begun) : begun[i] < n BY <1>13, <3>2
    <3> QED BY <1>1, <1>2, <3>2, <3>3 DEF DispatchInv, Relations, ArrivalOrder
  <2> QED BY <2>1, <2>2
<1>17. LocksAreCounted'
  <2>1. \A q \in Keys : \A m \in Here(q)' : uses'[m] = lock'[q]
    BY <1>1, <1>2, <1>12, Parts, SMTT(30) DEF DispatchInv, LinesRise, Here, TasksOf, Arrived
  <2>2. ASSUME NEW q \in Keys
        PROVE  /\ users'[q] = Cardinality(Here(q)')
               /\ lock'[q] = NoLock <=> users'[q] = 0
    <3>1. \A m \in Arrived : m \in Events BY Parts DEF DispatchInv
    <3>2. \A m : m # n => (m \in Here(q)' <=> m \in Here(q))
      BY <1>1, <1>5, <3>1 DEF Here, TasksOf, Arrived
    <3>3. n \notin Here(q) /\ (n \in Here(q)' <=> q = k)
      BY <1>1, <1>2, <1>4, <1>5 DEF Here, TasksOf, Arrived, Started
    <3>4. Here(q)' = IF q = k THEN Here(q) \cup {n} ELSE Here(q)
      BY <3>2, <3>3
    <3>5. /\ Cardinality(Here(q)) \in Nat
          /\ Cardinality(Here(q) \cup {n}) = Cardinality(Here(q)) + 1
      BY <3>3, HereIsFinite DEF DispatchInv
    <3>6. users[q] = Cardinality(Here(q)) /\ (lock[q] = NoLock <=> users[q] = 0)
      BY <1>2 DEF DispatchInv, Relations, LocksAreCounted
    <3> HIDE DEF Here
    <3> QED BY <1>6, <3>4, <3>5, <3>6
  <2> QED BY <1>1, <1>2, <2>1, <2>2 DEF LocksAreCounted
<1>18. (LoopsRun /\ LastLoopRuns)'
  BY <1>1, <1>2, ConcurrentLoops DEF DispatchInv, Relations, LoopsRun
<1>19. (CloseCovers /\ ClosedIsQuiet)' BY <1>1, CloseStays
<1> QED BY <1>5, <1>10, <1>12, <1>14, <1>15, <1>16, <1>17, <1>18, <1>19 DEF DispatchInv, Relations

-----------------------------------------------------------------------------
(* Handlers begin and end.                                                 *)

\* One lock for those of one widget who hold or await it.
LEMMA OneLock ==
    ASSUME DispatchInv, concurrent, phase = "open", NEW n \in Events, task[n] \in Started
    PROVE  /\ n \in Arrived /\ keyOf[n] \in Keys /\ uses[n] \in Events
           /\ uses[n] = lock[keyOf[n]] /\ n \in Members(line[uses[n]])
           /\ line[uses[n]] # <<>> /\ line[uses[n]] \in Seq(Events) /\ Rising(line[uses[n]])
           /\ \A m \in Events : task[m] \in Started /\ keyOf[m] = keyOf[n] => uses[m] = uses[n]
<1>1. n \in Arrived BY DEF DispatchInv, Relations, InboxRises, Started
<1>2. uses[n] \in Events /\ uses[n] = lock[keyOf[n]] /\ n \in Members(line[uses[n]])
  BY DEF DispatchInv, Relations, LinesRise
<1> QED BY <1>1, <1>2, Parts, MembersOf DEF DispatchInv, Relations, LinesRise

LEMMA AcquireIInv == ASSUME DispatchInv, NEW n \in Events, Acquire(n) PROVE DispatchInv'
<1>1. /\ phase = "open" /\ task[n] = "waiting" /\ Head(line[uses[n]]) = n
      /\ task' = [task EXCEPT ![n] = "running"] /\ begun' = Append(begun, n)
      /\ UNCHANGED <<concurrent, keyOf, loops, ready, work, tables, phase, doomed>>
  BY DEF Acquire
<1>2. /\ concurrent /\ task[n] \in Started
  BY <1>1 DEF DispatchInv, Relations, LoopsRun, Started
<1>3. /\ n \in Arrived /\ keyOf[n] \in Keys /\ uses[n] \in Events
      /\ line[uses[n]] # <<>> /\ line[uses[n]] \in Seq(Events) /\ Rising(line[uses[n]])
      /\ \A m \in Events : task[m] \in Started /\ keyOf[m] = keyOf[n] => uses[m] = uses[n]
  BY <1>1, <1>2, OneLock
<1>4. /\ task' \in [Events -> States] /\ task'[n] = "running"
      /\ \A m \in Events : m # n => task'[m] = task[m]
  BY <1>1, TaskMoves DEF DispatchInv, States, Alive
<1>5. \A m \in Events : /\ task'[m] \in Started <=> task[m] \in Started
                        /\ task'[m] \in Passed <=> task[m] \in Passed
                        /\ task'[m] = "none" <=> task[m] = "none"
                        /\ task'[m] = "ready" <=> task[m] = "ready"
  BY <1>1, <1>4 DEF Started, Passed
<1>6. begun \in Seq(Events) /\ Events \in SUBSET Nat BY Parts DEF DispatchInv, TypeOK
<1>7. begun' \in Seq(Events) /\ Members(begun') = Members(begun) \cup {n}
  BY <1>1, <1>6, Enters
<1>8. TypeOK' BY <1>1, <1>4, <1>7 DEF DispatchInv, TypeOK, States
<1>9. InboxRises' /\ ReadyRises'
  <2>1. Members(inbox) \subseteq Events BY Parts, MembersOf DEF DispatchInv, TypeOK
  <2> QED BY <1>1, <1>5, <2>1 DEF DispatchInv, Relations, InboxRises, ReadyRises, Arrived
<1>10. LinesRise'
  <2>1. \A o \in Events : Members(line[o]) \subseteq Events BY Parts, MembersOf DEF DispatchInv
  <2>2. \A k \in Keys : lock[k] # NoLock => lock[k] \in Events BY Parts DEF DispatchInv
  <2> QED BY <1>1, <1>2, <1>4, <1>5, <2>1, <2>2 DEF DispatchInv, Relations, LinesRise
\* Who waits behind is of a later event.
<1>11. \A m \in Events : task'[m] = "waiting" /\ keyOf[m] = keyOf[n] => n < m
  <2> SUFFICES ASSUME NEW m \in Events, task'[m] = "waiting", keyOf[m] = keyOf[n]
               PROVE  n < m
    OBVIOUS
  <2>1. m # n /\ task[m] \in Started BY <1>4, <1>5 DEF Started
  <2>2. m \in Members(line[uses[n]])
    BY <1>1, <1>2, <1>3, <2>1, OneLock
  <2> QED BY <1>1, <1>3, <1>6, <2>1, <2>2, FirstIsLeast
<1>12. \A m \in Members(begun) :
          /\ m \in Arrived /\ m # n /\ task'[m] \in {"running", "done"}
          /\ keyOf[m] = keyOf[n] => m < n
  <2>1. Members(begun) \subseteq Events BY <1>6, MembersOf
  <2> QED BY <1>1, <1>2, <1>4, <2>1 DEF DispatchInv, Relations, BegunFirst
<1>13. BegunFirst'
  <2>1. \A m \in Members(begun), q \in Events :
           task'[q] = "waiting" /\ keyOf[m] = keyOf[q] => m < q
    BY <1>2, <1>4 DEF DispatchInv, Relations, BegunFirst
  <2> QED BY <1>1, <1>3, <1>4, <1>7, <1>11, <1>12, <2>1 DEF BegunFirst, Arrived
<1>14. OneAtATime'
  <2>1. ASSUME NEW m \in Arrived, task[m] = "running", keyOf[m] = keyOf[n] PROVE m = n
    <3>1. m \in Events /\ task[m] \in Started BY <2>1, Parts DEF DispatchInv, Started
    <3>2. Head(line[uses[m]]) = m BY <1>1, <1>2, <2>1, <3>1 DEF DispatchInv, Relations, LinesRise
    <3> QED BY <1>1, <1>3, <2>1, <3>1, <3>2
  <2>2. \A m \in Arrived : m \in Events BY Parts DEF DispatchInv
  <2> QED BY <1>1, <1>2, <1>4, <2>1, <2>2 DEF DispatchInv, Relations, OneAtATime, Handling, Arrived
<1>15. ArrivalOrder'
  <2>1. /\ Len(begun') = Len(begun) + 1 /\ Len(begun) \in Nat
        /\ \A i \in 1..Len(begun) : begun'[i] = begun[i] /\ begun[i] \in Members(begun)
        /\ begun'[Len(begun) + 1] = n
    BY <1>1, <1>6, AppendProperties, LenProperties DEF Members
  <2>2. \A i \in 1..Len(begun) : keyOf[begun[i]] = keyOf[n] => begun[i] < n BY <1>12, <2>1
  <2> SUFFICES ASSUME NEW i \in 1..Len(begun'), NEW j \in 1..Len(begun'), i < j,
                      keyOf[begun'[i]] = keyOf[begun'[j]]
               PROVE  begun'[i] < begun'[j]
    BY <1>1 DEF ArrivalOrder
  <2>3. i \in 1..Len(begun) BY <2>1
  <2>4. CASE j \in 1..Len(begun)
    BY <1>2, <2>1, <2>3, <2>4 DEF DispatchInv, Relations, ArrivalOrder
  <2>5. CASE j = Len(begun) + 1 BY <2>1, <2>2, <2>3, <2>5
  <2> QED BY <2>1, <2>4, <2>5
<1>16. LocksAreCounted'
  <2>1. \A k \in Keys : Here(k)' = Here(k)
    BY <1>1, <1>5, Parts DEF DispatchInv, Here, TasksOf, Arrived
  <2> QED BY <1>1, <2>1 DEF DispatchInv, Relations, LocksAreCounted
<1>17. (LoopsRun /\ LastLoopRuns)'
  BY <1>1, <1>2, ConcurrentLoops DEF DispatchInv, Relations, LoopsRun
<1>18. (CloseCovers /\ ClosedIsQuiet)' BY <1>1, CloseStays
<1> QED BY <1>8, <1>9, <1>10, <1>13, <1>14, <1>15, <1>16, <1>17, <1>18 DEF DispatchInv, Relations

LEMMA HandlerEndsIInv ==
    ASSUME DispatchInv, NEW n \in Events, HandlerEnds(n), NEW k, k = keyOf[n], NEW o, o = uses[n]
    PROVE  DispatchInv'
<1>1. /\ concurrent /\ phase = "open" /\ task[n] = "running" /\ task[n] \in Started
      /\ task' = [task EXCEPT ![n] = "done"]
      /\ line' = [line EXCEPT ![o] = Tail(line[o])]
      /\ users' = [users EXCEPT ![k] = users[k] - 1]
      /\ lock' = [lock EXCEPT ![k] = IF users[k] > 1 THEN lock[k] ELSE NoLock]
      /\ UNCHANGED <<uses, concurrent, keyOf, loops, ready, work, begun, phase, doomed>>
  BY DEF HandlerEnds, Leave, CountOut, Started
<1>2. /\ n \in Arrived /\ k \in Keys /\ o \in Events /\ o = lock[k] /\ o # NoLock
      /\ n \in Members(line[o]) /\ Head(line[o]) = n
      /\ line[o] # <<>> /\ line[o] \in Seq(Events) /\ Rising(line[o])
  BY <1>1, OneLock DEF DispatchInv, Relations, LinesRise, NoLock, Events
<1>3. /\ task' \in [Events -> States] /\ task'[n] = "done"
      /\ \A m \in Events : m # n => task'[m] = task[m]
  BY <1>1, TaskMoves DEF DispatchInv, States
<1>4. \A m \in Events : /\ task'[m] \in Started <=> task[m] \in Started /\ m # n
                        /\ task'[m] \in Passed <=> task[m] \in Passed
                        /\ task'[m] = "none" <=> task[m] = "none"
                        /\ task'[m] = "ready" <=> task[m] = "ready"
  BY <1>1, <1>3 DEF Started, Passed
<1>5. /\ line' \in [Events -> Seq(Events)]
      /\ Rising(line'[o]) /\ Members(line'[o]) = Members(line[o]) \ {n}
      /\ \A p \in Events : p # o => line'[p] = line[p]
  <2>1. line \in [Events -> Seq(Events)] /\ Events \in SUBSET Nat BY Parts DEF DispatchInv, TypeOK
  <2>2. LET t == Tail(line[o]) IN
        t \in Seq(Events) /\ Rising(t) /\ Members(t) = Members(line[o]) \ {n}
    BY <1>2, <2>1, Leaves
  <2> QED BY <1>1, <1>2, <2>1, <2>2
\* Whoever else holds or awaits the lock is counted.
<1>6. /\ users[k] = Cardinality(Here(k)) /\ users[k] \in Nat /\ users[k] > 0
      /\ \A m \in Events : m # n /\ task[m] \in Started /\ keyOf[m] = k => users[k] > 1
  <2>1. users[k] = Cardinality(Here(k)) BY <1>1, <1>2 DEF DispatchInv, Relations, LocksAreCounted
  <2>2. n \in Here(k) BY <1>1, <1>2 DEF Here, TasksOf, Arrived
  <2>3. /\ Cardinality(Here(k)) \in Nat /\ Cardinality(Here(k)) # 0
        /\ IsFiniteSet(Here(k) \ {n}) /\ Cardinality(Here(k) \ {n}) = Cardinality(Here(k)) - 1
    BY <1>2, <2>2, HereIsFinite DEF DispatchInv
  <2>4. ASSUME NEW m \in Events, m # n, task[m] \in Started, keyOf[m] = k
        PROVE  users[k] > 1
    <3>1. m \in Arrived BY <2>4, <1>1, OneLock
    <3>2. m \in Here(k) \ {n} BY <2>4, <3>1 DEF Here, TasksOf, Arrived
    <3>3. Cardinality(Here(k) \ {n}) \in Nat /\ Cardinality(Here(k) \ {n}) # 0
      BY <2>3, <3>2, FS_EmptySet, FS_CardinalityType
    <3> QED BY <2>1, <2>3, <3>3
  <2> QED BY <2>1, <2>3, <2>4
<1>7. /\ lock' \in [Keys -> {NoLock} \cup Events]
      /\ lock'[k] = IF users[k] > 1 THEN o ELSE NoLock
      /\ \A q \in Keys : q # k => lock'[q] = lock[q]
      /\ users' \in [Keys -> Nat] /\ users'[k] = users[k] - 1
      /\ \A q \in Keys : q # k => users'[q] = users[q]
  BY <1>1, <1>2, <1>6, Parts, SMTT(30) DEF DispatchInv
<1>8. TypeOK' BY <1>1, <1>3, <1>5, <1>7 DEF DispatchInv, TypeOK, States
<1>9. InboxRises' /\ ReadyRises'
  <2>1. Members(inbox) \subseteq Events BY Parts, MembersOf DEF DispatchInv, TypeOK
  <2> QED BY <1>1, <1>4, <2>1 DEF DispatchInv, Relations, InboxRises, ReadyRises, Arrived
<1>10. LinesRise'
  <2>1. ASSUME NEW p \in Events
        PROVE  /\ Rising(line'[p])
               /\ \A m \in Members(line'[p]) : task'[m] \in Started /\ uses[m] = p
    <3>1. /\ Rising(line[p]) /\ Members(line[p]) \subseteq Events
          /\ \A m \in Members(line[p]) : task[m] \in Started /\ uses[m] = p
      BY <1>1, Parts, MembersOf DEF DispatchInv, Relations, LinesRise
    <3>2. CASE p = o BY <1>2, <1>4, <1>5, <3>1, <3>2
    <3>3. CASE p # o BY <1>2, <1>4, <1>5, <3>1, <3>3
    <3> QED BY <3>2, <3>3
  <2>2. ASSUME NEW m \in Events, task'[m] \in Started
        PROVE  /\ uses[m] = lock'[keyOf[m]] /\ uses[m] \in Events
               /\ m \in Members(line'[uses[m]])
    <3>1. /\ m # n /\ task[m] \in Started /\ keyOf[m] \in Keys
          /\ uses[m] = lock[keyOf[m]] /\ uses[m] \in Events /\ m \in Members(line[uses[m]])
      BY <1>1, <1>4, <2>2, OneLock
    <3> QED BY <1>2, <1>5, <1>6, <1>7, <3>1
  <2>3. ASSUME NEW m \in Events, task'[m] = "running" PROVE Head(line'[uses[m]]) = m
    <3>1. m # n /\ task[m] = "running" BY <1>3, <2>3
    <3>2. Head(line[uses[m]]) = m /\ uses[m] \in Events
      BY <1>1, <3>1, OneLock DEF DispatchInv, Relations, LinesRise, Started
    <3> QED BY <1>2, <1>5, <3>1, <3>2
  <2>4. \A q \in Keys : lock'[q] # NoLock => task'[lock'[q]] \in Passed
    <3>1. \A q \in Keys : lock[q] # NoLock => lock[q] \in Events /\ task[lock[q]] \in Passed
      BY <1>1, Parts DEF DispatchInv, Relations, LinesRise
    <3> QED BY <1>2, <1>4, <1>7, <3>1
  <2> QED BY <1>1, <2>1, <2>2, <2>3, <2>4 DEF LinesRise
<1>11. BegunFirst' /\ OneAtATime' /\ ArrivalOrder'
  <2>1. \A m \in Members(begun) : m \in Arrived /\ m \in Events /\ task'[m] \in {"running", "done"}
    BY <1>1, <1>3, Parts DEF DispatchInv, Relations, BegunFirst
  <2>2. \A m \in Events : /\ task'[m] = "waiting" => task[m] = "waiting"
                          /\ task'[m] = "running" => task[m] = "running"
    BY <1>3
  <2>3. BegunFirst' BY <1>1, <2>1, <2>2 DEF DispatchInv, Relations, BegunFirst, Arrived
  <2>4. OneAtATime' BY <1>1, <2>2, Parts DEF DispatchInv, Relations, OneAtATime, Handling, Arrived
  <2> QED BY <1>1, <2>3, <2>4 DEF DispatchInv, Relations, ArrivalOrder
<1>12. LocksAreCounted'
  <2>1. \A q \in Keys : \A m \in Here(q)' : uses'[m] = lock'[q]
    BY <1>1, <1>10, Parts DEF DispatchInv, LinesRise, Here, TasksOf, Arrived
  <2>2. ASSUME NEW q \in Keys
        PROVE  /\ users'[q] = Cardinality(Here(q)')
               /\ lock'[q] = NoLock <=> users'[q] = 0
    <3>1. \A m \in Arrived : m \in Events BY Parts DEF DispatchInv
    <3>2. \A m : m \in Here(q)' <=> m \in Here(q) /\ m # n
      BY <1>1, <1>4, <3>1 DEF Here, TasksOf, Arrived
    <3>3. n \in Here(q) <=> q = k
      BY <1>1, <1>2 DEF Here, TasksOf, Arrived
    <3>4. Here(q)' = IF q = k THEN Here(q) \ {n} ELSE Here(q)
      BY <3>2, <3>3
    <3>5. /\ Cardinality(Here(q)) \in Nat
          /\ q = k => Cardinality(Here(q) \ {n}) = Cardinality(Here(q)) - 1
      BY <3>3, HereIsFinite DEF DispatchInv
    <3>6. users[q] = Cardinality(Here(q)) /\ (lock[q] = NoLock <=> users[q] = 0)
      BY <1>1 DEF DispatchInv, Relations, LocksAreCounted
    <3> HIDE DEF Here
    <3> QED BY <1>2, <1>6, <1>7, <3>4, <3>5, <3>6
  <2> QED BY <1>1, <2>1, <2>2 DEF LocksAreCounted
<1>13. (LoopsRun /\ LastLoopRuns)'
  BY <1>1, ConcurrentLoops DEF DispatchInv, Relations, LoopsRun
<1>14. (CloseCovers /\ ClosedIsQuiet)' BY <1>1, CloseStays
<1> QED BY <1>8, <1>9, <1>10, <1>11, <1>12, <1>13, <1>14 DEF DispatchInv, Relations

-----------------------------------------------------------------------------
(* Background work, and close.                                             *)

LEMMA WorkIInv ==
    ASSUME DispatchInv, NEW n \in Events, Spawn(n) \/ WorkStep(n)
    PROVE  DispatchInv'
<1>1. /\ UNCHANGED <<concurrent, keyOf, loops, ready, task, tables, begun, phase, doomed>>
      /\ \/ work' = [work EXCEPT ![n] = "running"] /\ phase = "open"
         \/ work' = [work EXCEPT ![n] = "done"]
  BY DEF Spawn, WorkStep, WorkEnds, WorkCancelled
<1>2. /\ work' \in [Events -> {"none", "running", "done"}]
      /\ \A m \in Events : work'[m] = "running" /\ phase # "open" => work[m] = "running"
  BY <1>1 DEF DispatchInv, TypeOK
<1>3. TypeOK' BY <1>1, <1>2 DEF DispatchInv, TypeOK
<1> QED BY <1>1, <1>2, <1>3, QueuesStay, TablesStay, LoopsStay, CloseStays DEF DispatchInv, Relations

LEMMA CloseIInv == ASSUME DispatchInv, Close PROVE DispatchInv'
<1>1. /\ phase' = "closing" /\ doomed' = Tracked
      /\ lock' = [k \in Keys |-> NoLock] /\ users' = [k \in Keys |-> 0]
      /\ UNCHANGED <<concurrent, keyOf, loops, ready, task, work, uses, line, begun>>
  BY DEF Close
<1>2. TypeOK' BY <1>1 DEF DispatchInv, TypeOK, Tracked
<1>3. (LoopsRun /\ LastLoopRuns)'
  BY <1>1 DEF DispatchInv, Relations, LoopsRun, LastLoopRuns
<1>4. (LinesRise /\ LocksAreCounted)' BY <1>1 DEF LinesRise, LocksAreCounted
<1>5. (CloseCovers /\ ClosedIsQuiet)'
  BY <1>1 DEF CloseCovers, ClosedIsQuiet, NothingOutlives, Tracked, Started, Alive
<1> QED BY <1>1, <1>2, <1>3, <1>4, <1>5, QueuesStay DEF DispatchInv, Relations

LEMMA EventCancelledIInv == ASSUME DispatchInv, NEW n \in Events, EventCancelled(n) PROVE DispatchInv'
<1>1. /\ phase = "closing" /\ task[n] \in Alive /\ task' = [task EXCEPT ![n] = "done"]
      /\ IF task[n] = "ready" THEN Head(ready) = n /\ ready' = Tail(ready) ELSE UNCHANGED ready
      /\ \/ UNCHANGED work
         \/ CleanupSpawns /\ work' = [work EXCEPT ![n] = "running"]
      /\ UNCHANGED <<concurrent, keyOf, loops, tables, begun, phase, doomed>>
  BY DEF EventCancelled, Unwinds
<1>2. /\ task' \in [Events -> States] /\ task'[n] = "done"
      /\ \A m \in Events : m # n => task'[m] = task[m]
  BY <1>1, TaskMoves DEF DispatchInv, States
<1>3. /\ (InboxRises /\ ReadyRises)' /\ ready' \in Seq(Events)
  <2>1. CASE task[n] = "ready"
    <3>1. n \in Members(ready) BY <2>1 DEF DispatchInv, Relations, ReadyRises
    <3>2. ready # <<>> BY <3>1, MembersOf DEF DispatchInv, TypeOK
    <3> QED BY <1>1, <2>1, <3>2, ReadyLeaves, FirstReady DEF Passed
  <2>2. CASE task[n] # "ready"
    <3>1. \A m \in Events : /\ task'[m] \in Passed <=> task[m] \in Passed
                            /\ task'[m] = "none" <=> task[m] = "none"
                            /\ task'[m] = "ready" <=> task[m] = "ready"
      BY <1>1, <1>2, <2>2 DEF Passed, Alive
    <3>2. Members(inbox) \subseteq Events BY Parts, MembersOf DEF DispatchInv, TypeOK
    <3> QED BY <1>1, <2>2, <3>1, <3>2
            DEF DispatchInv, TypeOK, Relations, InboxRises, ReadyRises, Arrived
  <2> QED BY <2>1, <2>2
<1>4. TypeOK'
  <2>1. work' \in [Events -> {"none", "running", "done"}] BY <1>1 DEF DispatchInv, TypeOK
  <2> QED BY <1>1, <1>2, <1>3, <2>1 DEF DispatchInv, TypeOK, States
<1>5. \A m \in Events : /\ task'[m] = "waiting" => task[m] = "waiting"
                        /\ task'[m] = "running" => task[m] = "running"
                        /\ task[m] \in {"running", "done"} => task'[m] \in {"running", "done"}
                        /\ task[m] \in {"none", "running", "done"}
                              => task'[m] \in {"none", "running", "done"}
  BY <1>2
<1>6. BegunFirst' /\ OneAtATime' /\ ArrivalOrder'
  <2>1. Members(begun) \subseteq Events BY Parts, MembersOf DEF DispatchInv, TypeOK
  <2>2. BegunFirst' BY <1>1, <1>5, <2>1 DEF DispatchInv, Relations, BegunFirst, Arrived
  <2>3. OneAtATime' BY <1>1, <1>5, Parts DEF DispatchInv, Relations, OneAtATime, Handling, Arrived
  <2> QED BY <1>1, <2>2, <2>3 DEF DispatchInv, Relations, ArrivalOrder
<1>7. (LinesRise /\ LocksAreCounted)' BY <1>1 DEF LinesRise, LocksAreCounted
<1>8. LoopsRun' /\ LastLoopRuns'
  BY <1>1, <1>5 DEF DispatchInv, Relations, LoopsRun, LastLoopRuns
<1>9. (CloseCovers /\ ClosedIsQuiet)'
  BY <1>1, <1>5 DEF DispatchInv, Relations, CloseCovers, ClosedIsQuiet, NothingOutlives, Started
<1> QED BY <1>3, <1>4, <1>6, <1>7, <1>8, <1>9 DEF DispatchInv, Relations

LEMMA ClosedIInv == ASSUME DispatchInv, Closed PROVE DispatchInv'
<1>1. /\ phase = "closing" /\ phase' = "closed" /\ inbox' = <<>>
      /\ \A n \in doomed.events : task[n] = "done"
      /\ \A n \in doomed.works : work[n] = "done"
      /\ UNCHANGED <<concurrent, keyOf, pipe, at, reads, ready, task, work, tables, begun, doomed>>
  BY DEF Closed
<1>2. TypeOK' BY <1>1, EmptySeq DEF DispatchInv, TypeOK
<1>3. InboxRises'
  <2>1. Members(inbox') = {} /\ Rising(inbox') BY <1>1, EmptySeq DEF Members, Rising
  <2> QED BY <1>1, <2>1 DEF DispatchInv, Relations, InboxRises, Arrived
<1>4. (ReadyRises /\ BegunFirst /\ OneAtATime /\ ArrivalOrder)' BY <1>1, OrderStays
<1>5. (LinesRise /\ LocksAreCounted)' BY <1>1 DEF LinesRise, LocksAreCounted
<1>6. (LoopsRun /\ LastLoopRuns)' BY <1>1, LoopsStay
<1>7. (CloseCovers /\ ClosedIsQuiet)'
  BY <1>1 DEF DispatchInv, Relations, CloseCovers, ClosedIsQuiet, NothingOutlives, Started
<1> QED BY <1>2, <1>3, <1>4, <1>5, <1>6, <1>7 DEF DispatchInv, Relations

LEMMA DispatchStep == ASSUME DispatchInv, [Next]_vars PROVE DispatchInv'
<1>1. ASSUME NEW k \in Keys, Arrive(k) PROVE DispatchInv' BY <1>1, ArriveIInv
<1>2. CASE Rebind BY <1>2, RebindIInv
<1>3. CASE Start
  <2>1. CASE phase = "open" BY <1>3, <2>1, StartIInv
  <2>2. CASE phase # "open" BY <1>3, <2>2, LateStartIInv
  <2> QED BY <2>1, <2>2
<1>4. CASE Close BY <1>4, CloseIInv
<1>5. CASE Closed BY <1>5, ClosedIInv
<1>6. ASSUME NEW l \in Loops, LoopStep(l) PROVE DispatchInv'
  BY <1>6, SpawnTaskIInv, HandleInSeriesIInv, SeriesHandlerEndsIInv, LoopEndsIInv DEF LoopStep
<1>7. ASSUME NEW n \in Events, EventStep(n) PROVE DispatchInv'
  BY <1>7, AcquireIInv, HandlerEndsIInv, EventCancelledIInv DEF EventStep
<1>8. ASSUME NEW n \in Events, Spawn(n) \/ WorkStep(n) PROVE DispatchInv' BY <1>8, WorkIInv
<1>9. CASE UNCHANGED vars
  BY <1>9, QueuesStay, TablesStay, LoopsStay, CloseStays DEF DispatchInv, TypeOK, Relations
<1> QED BY <1>1, <1>2, <1>3, <1>4, <1>5, <1>6, <1>7, <1>8, <1>9 DEF Next

-----------------------------------------------------------------------------
(* The theorems.                                                           *)

\* The invariant of the dispatch holds of every reachable state.
THEOREM DispatchInvariant == Spec => []DispatchInv
<1>1. Init => DispatchInv BY DispatchStart
<1>2. DispatchInv /\ [Next]_vars => DispatchInv' BY DispatchStep
<1> QED BY <1>1, <1>2, PTL DEF Spec

\* _dispatch_ordered_by_key: the handlers of one widget run one at a time and in
\* the order its events arrived, whatever reconnects, closes or is cancelled.
THEOREM WidgetsInTurn == Spec => [](OneAtATime /\ ArrivalOrder)
<1>1. DispatchInv => OneAtATime /\ ArrivalOrder BY DEF DispatchInv, Relations
<1> QED BY <1>1, DispatchInvariant, PTL

\* The same, and in series no handler is called while another runs, where a
\* client reconnects only between handlers.
THEOREM HandlersInTurn == ASSUME ~MayTakeOver PROVE Spec => []InTurn
<1>1. DispatchInv => InSeries
  <2> SUFFICES ASSUME DispatchInv, ~concurrent
               PROVE  Cardinality({n \in Events : Handling(n)}) <= 1
    BY DEF InSeries
  <2>1. {n \in Events : Handling(n)} \subseteq {at[pipe]}
    BY DEF DispatchInv, Relations, LastLoopRuns, Handling
  <2>2. IsFiniteSet({at[pipe]}) /\ Cardinality({at[pipe]}) = 1 BY FS_Singleton
  <2> QED BY <2>1, <2>2, FS_Subset
<1>2. DispatchInv => InTurn BY <1>1 DEF DispatchInv, Relations, InTurn
<1> QED BY <1>2, DispatchInvariant, PTL

\* _key_lock_users, AppSession._tasks: the tables count the tasks there are, and
\* a closed session leaves none, where cancelled handlers spawn no more work.
THEOREM TablesCountTasks == ASSUME ~CleanupSpawns PROVE Spec => []TasksAreCounted
<1>1. DispatchInv => TasksAreCounted
  BY DEF DispatchInv, Relations, ClosedIsQuiet, TasksAreCounted
<1> QED BY <1>1, DispatchInvariant, PTL

-----------------------------------------------------------------------------
(***************************************************************************)
(* RateLimiter: what it forgets never changes what it decides.             *)
(***************************************************************************)

\* The positions of a sequence of times that are later than c.
Above(times, c) == {i \in 1..Len(times) : times[i] > c}

\* The events allowed to an address later than c.
Allowed(a, c) == {m \in 1..Len(events) :
    events[m].of = a /\ events[m].ok /\ events[m].at > c}

LimiterTypes ==
    /\ now \in Nat /\ calls \in Nat
    /\ DOMAIN hits \subseteq Addresses
    /\ \A a \in DOMAIN hits : hits[a] \in Seq(Nat)
    /\ events \in Seq([of : Addresses, at : Nat, ok : BOOLEAN])
    /\ swept \in [at : Int, call : Nat]

Climbing(times) ==
    /\ \A i, j \in 1..Len(times) : i <= j => times[i] <= times[j]
    /\ \A i \in 1..Len(times) : times[i] <= now

\* The times of an address, and of the history, are in the order of the clock.
TimesRise ==
    /\ \A a \in DOMAIN hits : Climbing(hits[a])
    /\ \A n \in 1..Len(events) : events[n].at <= now

\* The table forgets nothing the window may still show: later than its start,
\* an address has as many times as it was allowed events.
KeepsTheWindow == \A a \in Addresses, c \in Int :
    c >= now - Window =>
        Cardinality(Above(TimesOf(hits, a), c)) = Cardinality(Allowed(a, c))

\* Every call is an event, the sweeping one among them.
CallsAreEvents == calls = Len(events) /\ swept.call <= calls

LimiterInv == LimiterTypes /\ TimesRise /\ KeepsTheWindow /\ CallsAreEvents /\ LimiterIsExact

-----------------------------------------------------------------------------
(* Counting.                                                               *)

LEMMA ItemType ==
    ASSUME NEW S, NEW s \in Seq(S), NEW i \in 1..Len(s)
    PROVE  s[i] \in S
  OBVIOUS

LEMMA AboveIsFinite ==
    ASSUME NEW s \in Seq(Nat), NEW c \in Int
    PROVE  IsFiniteSet(Above(s, c)) /\ Cardinality(Above(s, c)) \in Nat
<1>1. IsFiniteSet(1..Len(s)) BY FS_Interval
<1>2. Above(s, c) \in SUBSET (1..Len(s)) BY DEF Above
<1> QED BY <1>1, <1>2, FS_Subset, FS_CardinalityType

LEMMA AllowedIsFinite ==
    ASSUME LimiterTypes, NEW a, NEW c \in Int
    PROVE  IsFiniteSet(Allowed(a, c)) /\ Cardinality(Allowed(a, c)) \in Nat
<1>1. Len(events) \in Nat BY DEF LimiterTypes
<1>2. IsFiniteSet(1..Len(events)) BY <1>1, FS_Interval
<1>3. Allowed(a, c) \in SUBSET (1..Len(events)) BY DEF Allowed
<1> QED BY <1>2, <1>3, FS_Subset, FS_CardinalityType

\* A time put at the end counts where it is later.
LEMMA AppendCounts ==
    ASSUME NEW s \in Seq(Nat), NEW t \in Nat, NEW c \in Int
    PROVE  Cardinality(Above(Append(s, t), c))
             = Cardinality(Above(s, c)) + (IF t > c THEN 1 ELSE 0)
<1> DEFINE n == Len(s) + 1
<1>1. /\ Len(Append(s, t)) = n /\ Append(s, t)[n] = t /\ n \in Nat
      /\ \A i \in 1..Len(s) : Append(s, t)[i] = s[i]
  OBVIOUS
<1>2. n \notin Above(s, c) BY DEF Above
<1>3. IsFiniteSet(Above(s, c)) /\ Cardinality(Above(s, c)) \in Nat BY AboveIsFinite
<1>4. CASE t > c
  <2>1. Above(Append(s, t), c) = Above(s, c) \cup {n}
    BY <1>1, <1>4 DEF Above
  <2> QED BY <1>2, <1>3, <1>4, <2>1, FS_AddElement
<1>5. CASE ~(t > c)
  <2>1. Above(Append(s, t), c) = Above(s, c)
    BY <1>1, <1>5 DEF Above
  <2> QED BY <1>3, <1>5, <2>1
<1> QED BY <1>4, <1>5

\* Times dropped from the front do not count where they are not later.
LEMMA DropCounts ==
    ASSUME NEW s \in Seq(Nat), NEW k \in 0..Len(s), NEW c \in Int,
           \A i \in 1..k : s[i] <= c
    PROVE  Cardinality(Above(SubSeq(s, k + 1, Len(s)), c)) = Cardinality(Above(s, c))
<1> DEFINE r == SubSeq(s, k + 1, Len(s))
           A == Above(r, c)
           B == Above(s, c)
           f == [i \in A |-> i + k]
<1>1. /\ Len(s) \in Nat /\ Len(r) = Len(s) - k
      /\ \A i \in 1..Len(r) : r[i] = s[i + k]
  OBVIOUS
<1>2. IsFiniteSet(A)
  <2>1. r \in Seq(Nat) OBVIOUS
  <2> QED BY <2>1, AboveIsFinite
<1>3. \A i \in A : i \in 1..Len(r) /\ f[i] = i + k /\ f[i] \in B
  BY <1>1 DEF Above
<1>4. f \in [A -> B] BY <1>3, Zenon
<1>5. \A i, j \in A : f[i] = f[j] => i = j
  BY <1>1, <1>3
<1>6. \A j \in B : \E i \in A : f[i] = j
  <2> SUFFICES ASSUME NEW j \in B PROVE \E i \in A : f[i] = j
    OBVIOUS
  <2>1. j \in 1..Len(s) /\ s[j] > c /\ s[j] \in Nat BY DEF Above
  <2>2. j > k BY <2>1, <1>1
  <2>3. j - k \in 1..Len(r) /\ r[j - k] = s[j] BY <1>1, <2>1, <2>2
  <2>4. j - k \in A BY <2>1, <2>3 DEF Above
  <2>5. f[j - k] = j BY <2>1, <2>4, <1>1
  <2> QED BY <2>4, <2>5, Zenon
<1>7. f \in Bijection(A, B)
  BY <1>4, <1>5, <1>6, Zenon DEF Bijection, Injection, Surjection, IsInjective
<1>8. ExistsBijection(A, B) BY <1>7 DEF ExistsBijection
<1> QED BY <1>2, <1>8, FS_Bijection

-----------------------------------------------------------------------------
(* The operators of the limiter.                                           *)

\* A set of natural numbers that is not empty has a least one.
LEMMA LeastExists ==
    ASSUME NEW T \in SUBSET Nat, T # {}
    PROVE  \E m \in T : \A k \in T : m <= k
<1>1. PICK m \in T : \A y \in T : ~(<<y, m>> \in OpToRel(<, Nat))
  BY WFMin, NatLessThanWellFounded, Zenon
<1>2. \A y \in T : ~(y < m)
  BY <1>1 DEF OpToRel
<1> QED BY <1>2

\* allow pops what left the window and nothing else, of times in order.
LEMMA ExpiredIsPrefix ==
    ASSUME LimiterAssumption, NEW s \in Seq(Nat), NEW t \in Nat
    PROVE  /\ Expired(s, t) \in 0..Len(s)
           /\ \A i \in 1..Expired(s, t) : s[i] <= t - Window
           /\ Expired(s, t) < Len(s) => s[Expired(s, t) + 1] > t - Window
<1> DEFINE T == {k \in 0..Len(s) : k < Len(s) => s[k + 1] > t - Window}
<1>1. Len(s) \in T /\ T \in SUBSET Nat OBVIOUS
<1>2. PICK m \in T : \A k \in T : m <= k BY <1>1, LeastExists, Zenon
<1>3. \A i \in 1..m : s[i] <= t - Window
  <2> SUFFICES ASSUME NEW i \in 1..m, ~(s[i] <= t - Window) PROVE FALSE
    OBVIOUS
  <2>1. Len(s) \in Nat /\ m \in 0..Len(s) /\ s[i] \in Nat BY <1>2
  <2>2. i - 1 \in 0..Len(s) /\ (i - 1) + 1 = i BY <2>1
  <2>3. i - 1 \in T BY <2>1, <2>2, LimiterAssumption DEF LimiterAssumption
  <2>4. m <= i - 1 BY <1>2, <2>3, Zenon
  <2> QED BY <2>1, <2>4
<1> DEFINE P(k) == /\ \A i \in 1..k : s[i] <= t - Window
                   /\ k < Len(s) => s[k + 1] > t - Window
<1>4. \E k \in 0..Len(s) : P(k) BY <1>2, <1>3
<1>5. Expired(s, t) = CHOOSE k \in 0..Len(s) : P(k) BY DEF Expired
<1>6. Expired(s, t) \in 0..Len(s) /\ P(Expired(s, t)) BY <1>4, <1>5, Zenon
<1> QED BY <1>6

\* What allow keeps: times in order, as many as before later than the window's
\* start, and none that is not.
LEMMA RecentKeeps ==
    ASSUME LimiterAssumption, NEW s \in Seq(Nat), NEW t \in Nat, Climbing(s), t = now
    PROVE  /\ Recent(s, t) \in Seq(Nat) /\ Climbing(Recent(s, t))
           /\ \A c \in Int : c >= t - Window =>
                Cardinality(Above(Recent(s, t), c)) = Cardinality(Above(s, c))
           /\ Len(Recent(s, t)) = Cardinality(Above(s, t - Window))
<1> DEFINE k == Expired(s, t)
           r == Recent(s, t)
<1>1. /\ k \in 0..Len(s) /\ r = SubSeq(s, k + 1, Len(s))
      /\ \A i \in 1..k : s[i] <= t - Window
      /\ k < Len(s) => s[k + 1] > t - Window
  BY ExpiredIsPrefix DEF Recent
<1> HIDE DEF k, r
<1>2. /\ r \in Seq(Nat) /\ Len(r) = Len(s) - k /\ Len(s) \in Nat
      /\ \A i \in 1..Len(r) : r[i] = s[i + k] /\ i + k \in 1..Len(s)
  <2>1. Len(s) \in Nat /\ k \in Nat /\ k <= Len(s) BY <1>1
  <2>2. k + 1 \in Int /\ Len(s) \in Int /\ \A i \in (k + 1)..Len(s) : s[i] \in Nat
    <3>1. \A i \in (k + 1)..Len(s) : i \in 1..Len(s) BY <2>1
    <3> QED BY <2>1, <3>1, ItemType
  <2>3. /\ r \in Seq(Nat)
        /\ Len(r) = IF k + 1 <= Len(s) THEN Len(s) - (k + 1) + 1 ELSE 0
        /\ \A i \in 1..(Len(s) - (k + 1) + 1) : r[i] = s[k + 1 + i - 1]
    BY <1>1, <2>2, SubSeqProperties
  <2>4. Len(r) = Len(s) - k
    <3>1. k + 1 <= Len(s) => Len(r) = Len(s) - k BY <2>1, <2>3
    <3>2. ~(k + 1 <= Len(s)) => Len(r) = 0 /\ Len(s) = k BY <2>1, <2>3
    <3> QED BY <2>1, <3>1, <3>2
  <2>5. ASSUME NEW i \in 1..Len(r) PROVE r[i] = s[i + k] /\ i + k \in 1..Len(s)
    <3>1. i \in 1..(Len(s) - (k + 1) + 1) /\ k + 1 + i - 1 = i + k BY <2>1, <2>4
    <3> QED BY <2>1, <2>3, <2>4, <3>1
  <2> QED BY <2>1, <2>3, <2>4, <2>5
<1>3. Climbing(r)
  <2>1. \A i \in 1..Len(r) : r[i] <= now BY <1>2 DEF Climbing
  <2>2. ASSUME NEW i \in 1..Len(r), NEW j \in 1..Len(r), i <= j PROVE r[i] <= r[j]
    <3>1. i + k \in 1..Len(s) /\ j + k \in 1..Len(s) /\ i + k <= j + k
      BY <1>1, <1>2, <2>2
    <3>2. s[i + k] <= s[j + k] BY <3>1 DEF Climbing
    <3> QED BY <1>2, <3>2
  <2> QED BY <2>1, <2>2 DEF Climbing
<1>4. \A c \in Int : c >= t - Window => Cardinality(Above(r, c)) = Cardinality(Above(s, c))
  <2> SUFFICES ASSUME NEW c \in Int, c >= t - Window
               PROVE  Cardinality(Above(r, c)) = Cardinality(Above(s, c))
    OBVIOUS
  <2>1. \A i \in 1..k : s[i] \in Nat BY <1>1
  <2>2. \A i \in 1..k : s[i] <= c
    BY <1>1, <2>1, LimiterAssumption DEF LimiterAssumption
  <2> QED BY <1>1, <2>2, DropCounts
<1>5. Above(r, t - Window) = 1..Len(r)
  <2>1. \A i \in 1..Len(r) : r[i] > t - Window
    <3> SUFFICES ASSUME NEW i \in 1..Len(r) PROVE r[i] > t - Window
      OBVIOUS
    <3>1. k + 1 \in 1..Len(s) /\ i + k \in 1..Len(s) /\ k + 1 <= i + k BY <1>1, <1>2
    <3>2. s[k + 1] <= s[i + k] BY <3>1 DEF Climbing
    <3>3. s[k + 1] > t - Window BY <1>1, <3>1
    <3>4. s[k + 1] \in Nat /\ s[i + k] \in Nat BY <3>1
    <3> QED BY <1>2, <3>2, <3>3, <3>4, LimiterAssumption DEF LimiterAssumption
  <2> QED BY <2>1 DEF Above
<1>6. Cardinality(1..Len(r)) = Len(r)
  BY <1>2, FS_Interval
<1>7. t - Window \in Int /\ t - Window >= t - Window
  BY LimiterAssumption DEF LimiterAssumption
<1>8. Cardinality(Above(r, t - Window)) = Cardinality(Above(s, t - Window))
  BY <1>4, <1>7
<1> QED BY <1>2, <1>3, <1>4, <1>5, <1>6, <1>8 DEF r

-----------------------------------------------------------------------------
(* The steps.                                                              *)

LEMMA LimiterStart == ASSUME LimiterAssumption PROVE LimiterInit => LimiterInv
<1> SUFFICES ASSUME LimiterInit PROVE LimiterInv
  OBVIOUS
<1>1. /\ now = 0 /\ calls = 0 /\ hits = <<>> /\ events = <<>>
      /\ swept = [at |-> 0 - Window, call |-> 0]
  BY DEF LimiterInit
<1>2. LimiterTypes BY <1>1, LimiterAssumption DEF LimiterTypes, LimiterAssumption
<1>3. TimesRise BY <1>1 DEF TimesRise
<1>4. KeepsTheWindow
  <2> SUFFICES ASSUME NEW a \in Addresses, NEW c \in Int
               PROVE  Cardinality(Above(TimesOf(hits, a), c)) = Cardinality(Allowed(a, c))
    BY DEF KeepsTheWindow
  <2>1. TimesOf(hits, a) = <<>> BY <1>1 DEF TimesOf
  <2>2. Above(<<>>, c) = {} BY DEF Above
  <2>3. Allowed(a, c) = {} BY <1>1 DEF Allowed
  <2> QED BY <2>1, <2>2, <2>3
<1>5. CallsAreEvents BY <1>1 DEF CallsAreEvents
<1>6. LimiterIsExact BY <1>1 DEF LimiterIsExact, DecidesByTheWindow, TracksTheActive
<1> QED BY <1>2, <1>3, <1>4, <1>5, <1>6 DEF LimiterInv

LEMMA WaitStep == ASSUME LimiterAssumption, LimiterInv, Wait PROVE LimiterInv'
<1>1. now \in Nat /\ now' = now + 1 /\ UNCHANGED <<calls, hits, events, swept>>
  BY DEF LimiterInv, LimiterTypes, Wait
<1>2. LimiterTypes' BY <1>1 DEF LimiterInv, LimiterTypes
<1>3. TimesRise'
  <2>1. ASSUME NEW a \in DOMAIN hits PROVE Climbing(hits[a])'
    <3>1. Climbing(hits[a]) /\ hits[a] \in Seq(Nat) BY DEF LimiterInv, LimiterTypes, TimesRise
    <3>2. \A i \in 1..Len(hits[a]) : hits[a][i] \in Nat /\ hits[a][i] <= now BY <3>1 DEF Climbing
    <3>3. \A i \in 1..Len(hits[a]) : hits[a][i] <= now + 1 BY <1>1, <3>2
    <3> QED BY <1>1, <3>1, <3>3 DEF Climbing
  <2>2. ASSUME NEW n \in 1..Len(events) PROVE events[n].at <= now'
    <3>1. events[n] \in [of : Addresses, at : Nat, ok : BOOLEAN]
      BY ItemType DEF LimiterInv, LimiterTypes
    <3>2. events[n].at \in Nat BY <3>1
    <3>3. events[n].at <= now BY DEF LimiterInv, TimesRise
    <3> QED BY <1>1, <3>2, <3>3
  <2> QED BY <1>1, <2>1, <2>2 DEF TimesRise
<1>4. KeepsTheWindow'
  <2> SUFFICES ASSUME NEW a \in Addresses, NEW c \in Int, c >= (now + 1) - Window
               PROVE  Cardinality(Above(TimesOf(hits, a), c)) = Cardinality(Allowed(a, c))
    BY <1>1 DEF KeepsTheWindow, Allowed, TimesOf
  <2>1. c >= now - Window BY <1>1, LimiterAssumption DEF LimiterAssumption
  <2> QED BY <2>1 DEF LimiterInv, KeepsTheWindow
<1>5. (CallsAreEvents /\ LimiterIsExact)'
  BY <1>1 DEF LimiterInv, CallsAreEvents, LimiterIsExact, DecidesByTheWindow, TracksTheActive, AllowedBefore
<1> QED BY <1>2, <1>3, <1>4, <1>5 DEF LimiterInv

\* A swept table: what is left was there, and what is gone had left the window.
LEMMA SweepKeeps ==
    ASSUME LimiterAssumption, LimiterInv, NEW table, table \in {hits, Sweep(hits, now)}
    PROVE  /\ DOMAIN table \subseteq DOMAIN hits
           /\ \A a \in DOMAIN table : table[a] = hits[a]
           /\ \A a : TimesOf(table, a) \in Seq(Nat) /\ Climbing(TimesOf(table, a))
           /\ \A a \in Addresses, c \in Int : c >= now - Window =>
                Cardinality(Above(TimesOf(table, a), c)) = Cardinality(Allowed(a, c))
<1>1. /\ DOMAIN table \subseteq DOMAIN hits
      /\ \A a \in DOMAIN table : table[a] = hits[a]
      /\ \A a \in DOMAIN hits : a \notin DOMAIN table => Quiet(hits[a], now)
  BY DEF Sweep
<1>2. now \in Nat /\ \A a \in DOMAIN hits : hits[a] \in Seq(Nat) /\ Climbing(hits[a])
  BY DEF LimiterInv, LimiterTypes, TimesRise
<1>3. \A a : TimesOf(table, a) \in Seq(Nat) /\ Climbing(TimesOf(table, a))
  <2>1. Climbing(<<>>) BY DEF Climbing
  <2> QED BY <1>1, <1>2, <2>1 DEF TimesOf
<1>4. ASSUME NEW a \in Addresses, NEW c \in Int, c >= now - Window
      PROVE  Cardinality(Above(TimesOf(table, a), c)) = Cardinality(Allowed(a, c))
  <2>1. Cardinality(Above(TimesOf(hits, a), c)) = Cardinality(Allowed(a, c))
    BY <1>4 DEF LimiterInv, KeepsTheWindow
  <2>2. CASE a \in DOMAIN hits /\ a \notin DOMAIN table
    <3>1. Quiet(hits[a], now) BY <1>1, <2>2
    <3>2. ASSUME NEW i \in 1..Len(hits[a]) PROVE hits[a][i] <= c
      <4>1. hits[a] \in Seq(Nat) /\ Len(hits[a]) \in 1..Len(hits[a]) BY <1>2, <2>2
      <4>2. hits[a][i] <= hits[a][Len(hits[a])]
        <5>1. i <= Len(hits[a]) BY <4>1
        <5> QED BY <1>2, <2>2, <4>1, <5>1 DEF Climbing
      <4>3. hits[a][Len(hits[a])] <= now - Window
        BY <3>1, <4>1 DEF Quiet, Last
      <4>4. hits[a][i] \in Nat /\ hits[a][Len(hits[a])] \in Nat BY <4>1
      <4>5. now - Window \in Int /\ hits[a][Len(hits[a])] <= c
        BY <1>2, <1>4, <4>3, <4>4, LimiterAssumption
      <4> QED BY <1>4, <4>2, <4>4, <4>5
    <3>3. Above(hits[a], c) = {}
      <4>1. \A i \in 1..Len(hits[a]) : hits[a][i] \in Nat BY <1>2, <2>2
      <4> QED BY <3>2, <4>1 DEF Above
    <3>4. Above(<<>>, c) = {} BY DEF Above
    <3> QED BY <2>1, <2>2, <3>3, <3>4 DEF TimesOf
  <2>3. CASE ~(a \in DOMAIN hits /\ a \notin DOMAIN table)
    <3>1. TimesOf(table, a) = TimesOf(hits, a) BY <1>1, <2>3 DEF TimesOf
    <3> QED BY <2>1, <3>1
  <2> QED BY <2>2, <2>3
<1> QED BY <1>1, <1>3, <1>4

LEMMA AllowStep ==
    ASSUME LimiterAssumption, LimiterInv, NEW a \in Addresses, Allow(a)
    PROVE  LimiterInv'
<1> DEFINE table == IF SweepsNow THEN Sweep(hits, now) ELSE hits
           bucket == Recent(TimesOf(table, a), now)
           ok == Len(bucket) < Limit
           event == [of |-> a, at |-> now, ok |-> ok]
           n == Len(events) + 1
<1>0. now \in Nat /\ calls \in Nat /\ events \in Seq([of : Addresses, at : Nat, ok : BOOLEAN])
  BY DEF LimiterInv, LimiterTypes
<1>1. table \in {hits, Sweep(hits, now)} OBVIOUS
<1>2. /\ calls' = calls + 1 /\ now' = now
      /\ hits' = [b \in DOMAIN table \cup {a} |->
                    IF b /= a THEN table[b] ELSE IF ok THEN Append(bucket, now) ELSE bucket]
      /\ events' = Append(events, event)
      /\ swept' = IF SweepsNow THEN [at |-> now, call |-> calls'] ELSE swept
  BY DEF Allow
<1>3. /\ DOMAIN table \subseteq DOMAIN hits
      /\ \A b \in DOMAIN table : table[b] = hits[b]
      /\ \A b : TimesOf(table, b) \in Seq(Nat) /\ Climbing(TimesOf(table, b))
      /\ \A b \in Addresses, c \in Int : c >= now - Window =>
           Cardinality(Above(TimesOf(table, b), c)) = Cardinality(Allowed(b, c))
  BY <1>1, SweepKeeps
<1>4. SweepsNow => table = Sweep(hits, now) OBVIOUS
<1> HIDE DEF table
<1>5. /\ bucket \in Seq(Nat) /\ Climbing(bucket)
      /\ \A c \in Int : c >= now - Window =>
           Cardinality(Above(bucket, c)) = Cardinality(Above(TimesOf(table, a), c))
      /\ Len(bucket) = Cardinality(Above(TimesOf(table, a), now - Window))
  BY <1>0, <1>3, RecentKeeps
<1> HIDE DEF bucket
<1>6. /\ now - Window \in Int /\ Window \in Nat /\ Limit \in Nat
  BY <1>0, LimiterAssumption DEF LimiterAssumption
\* The decision is that of the history.
<1>7. Len(bucket) = Cardinality(Allowed(a, now - Window))
  BY <1>3, <1>5, <1>6
<1>8. /\ Len(events') = n /\ n \in Nat /\ events'[n] = event
      /\ \A m \in 1..Len(events) : events'[m] = events[m]
      /\ event \in [of : Addresses, at : Nat, ok : BOOLEAN]
      /\ events' \in Seq([of : Addresses, at : Nat, ok : BOOLEAN])
  BY <1>0, <1>2
<1> DEFINE new == IF ok THEN Append(bucket, now) ELSE bucket
<1>9. new \in Seq(Nat) /\ Climbing(new)
  <2>1. CASE ok
    <3>1. /\ new = Append(bucket, now) /\ Len(new) = Len(bucket) + 1
          /\ new[Len(bucket) + 1] = now /\ Len(bucket) \in Nat
          /\ \A i \in 1..Len(bucket) : new[i] = bucket[i] /\ new[i] \in Nat
      BY <1>0, <1>5, <2>1
    <3>2. \A i \in 1..Len(new) : i \in 1..Len(bucket) \/ i = Len(bucket) + 1
      BY <3>1
    <3>3. \A i \in 1..Len(new) : new[i] <= now
      BY <1>0, <1>5, <3>1, <3>2 DEF Climbing
    <3>4. ASSUME NEW i \in 1..Len(new), NEW j \in 1..Len(new), i <= j
          PROVE  new[i] <= new[j]
      <4>1. CASE j = Len(bucket) + 1 BY <3>1, <3>3, <4>1
      <4>2. CASE j \in 1..Len(bucket)
        <5>1. i \in 1..Len(bucket) BY <3>1, <3>2, <3>4, <4>2
        <5> QED BY <1>5, <3>1, <3>4, <4>2, <5>1 DEF Climbing
      <4> QED BY <3>2, <4>1, <4>2
    <3>5. Climbing(new) BY <3>3, <3>4 DEF Climbing
    <3> QED BY <1>0, <1>5, <2>1, <3>5
  <2>2. CASE ~ok BY <1>5, <2>2
  <2> QED BY <2>1, <2>2
<1>10. LimiterTypes'
  <2>1. DOMAIN hits' = DOMAIN table \cup {a} /\ hits'[a] = new
        /\ \A b \in DOMAIN hits' : b # a => b \in DOMAIN table /\ hits'[b] = table[b]
    BY <1>2
  <2>2. DOMAIN hits' \subseteq Addresses BY <1>3, <2>1 DEF LimiterInv, LimiterTypes
  <2>3. \A b \in DOMAIN hits' : hits'[b] \in Seq(Nat)
    BY <1>3, <1>9, <2>1 DEF LimiterInv, LimiterTypes
  <2>4. swept' \in [at : Int, call : Nat]
    BY <1>0, <1>2 DEF LimiterInv, LimiterTypes
  <2>5. now' \in Nat /\ calls' \in Nat BY <1>0, <1>2
  <2>6. events' \in Seq([of : Addresses, at : Nat, ok : BOOLEAN]) BY <1>8
  <2> HIDE <1>2
  <2> QED BY <2>2, <2>3, <2>4, <2>5, <2>6 DEF LimiterTypes
<1>11. TimesRise'
  <2>1. \A b \in DOMAIN table : Climbing(table[b])
    BY <1>3 DEF LimiterInv, TimesRise
  <2>2. \A b \in DOMAIN hits' : Climbing(hits'[b])
    BY <1>2, <1>9, <2>1
  <2>4. \A m \in 1..Len(events') : events'[m].at <= now'
    <3> SUFFICES ASSUME NEW m \in 1..Len(events') PROVE events'[m].at <= now'
      OBVIOUS
    <3>1. m \in 1..Len(events) \/ m = n BY <1>8, <1>0
    <3> QED BY <1>0, <1>2, <1>8, <3>1 DEF LimiterInv, TimesRise
  <2>3. now' = now BY <1>2
  <2>5. (\A b \in DOMAIN hits : Climbing(hits[b]))' BY <2>2, <2>3 DEF Climbing
  <2>6. (\A m \in 1..Len(events) : events[m].at <= now)' BY <2>4
  <2> QED BY <2>5, <2>6 DEF TimesRise
\* The history gains this event where it was allowed.
<1>12. ASSUME NEW b \in Addresses, NEW c \in Int
       PROVE  Cardinality(Allowed(b, c)')
                = Cardinality(Allowed(b, c)) + (IF b = a /\ ok /\ now > c THEN 1 ELSE 0)
  <2>1. n \notin Allowed(b, c) BY <1>0 DEF Allowed
  <2>2. IsFiniteSet(Allowed(b, c)) /\ Cardinality(Allowed(b, c)) \in Nat
    BY AllowedIsFinite DEF LimiterInv
  <2>3. \A m : m \in 1..n <=> m \in 1..Len(events) \/ m = n BY <1>0
  <2>4. CASE b = a /\ ok /\ now > c
    <3>1. Allowed(b, c)' = Allowed(b, c) \cup {n}
      BY <1>8, <2>3, <2>4 DEF Allowed
    <3> QED BY <2>1, <2>2, <2>4, <3>1, FS_AddElement
  <2>5. CASE ~(b = a /\ ok /\ now > c)
    <3>1. Allowed(b, c)' = Allowed(b, c)
      BY <1>8, <2>3, <2>5 DEF Allowed
    <3> QED BY <2>2, <2>5, <3>1
  <2> QED BY <2>4, <2>5
<1>13. KeepsTheWindow'
  <2> SUFFICES ASSUME NEW b \in Addresses, NEW c \in Int, c >= now - Window
               PROVE  Cardinality(Above(TimesOf(hits', b), c)) = Cardinality(Allowed(b, c)')
    BY <1>2 DEF KeepsTheWindow, TimesOf
  <2>1. CASE b # a
    <3>1. TimesOf(hits', b) = TimesOf(table, b) BY <1>2, <2>1 DEF TimesOf
    <3>2. Cardinality(Allowed(b, c)) \in Nat BY AllowedIsFinite DEF LimiterInv
    <3> QED BY <1>3, <1>12, <2>1, <3>1, <3>2
  <2>2. CASE b = a
    <3>1. TimesOf(hits', b) = new BY <1>2, <2>2 DEF TimesOf
    <3>2. Cardinality(Above(bucket, c)) = Cardinality(Allowed(a, c))
      BY <1>3, <1>5
    <3>3. Cardinality(Above(Append(bucket, now), c))
            = Cardinality(Above(bucket, c)) + (IF now > c THEN 1 ELSE 0)
      BY <1>0, <1>5, AppendCounts
    <3>4. Cardinality(Allowed(a, c)) \in Nat BY AllowedIsFinite DEF LimiterInv
    <3>5. CASE ok BY <1>12, <2>2, <3>1, <3>2, <3>3, <3>4, <3>5
    <3>6. CASE ~ok BY <1>12, <2>2, <3>1, <3>2, <3>4, <3>6
    <3> QED BY <3>5, <3>6
  <2> QED BY <2>1, <2>2
<1>14. CallsAreEvents'
  BY <1>0, <1>2, <1>8 DEF LimiterInv, CallsAreEvents, LimiterTypes
<1>15. DecidesByTheWindow'
  <2> SUFFICES ASSUME NEW m \in 1..n
               PROVE  events'[m].ok <=> Cardinality(AllowedBefore(m)') < Limit
    BY <1>8 DEF DecidesByTheWindow
  <2>1. CASE m = n
    <3>1. AllowedBefore(m)' = Allowed(a, now - Window)
      <4>1. 1..(m - 1) = 1..Len(events) BY <1>0, <2>1
      <4>2. \A k \in 1..Len(events) : events'[k] = events[k] BY <1>8
      <4>3. events'[m].of = a /\ events'[m].at = now BY <1>8, <2>1
      <4> QED BY <4>1, <4>2, <4>3 DEF AllowedBefore, Allowed
    <3> QED BY <1>7, <1>8, <2>1, <3>1
  <2>2. CASE m # n
    <3>1. m \in 1..Len(events) BY <1>0, <2>2
    <3>2. AllowedBefore(m)' = AllowedBefore(m)
      <4>1. \A k \in 1..(m - 1) : k \in 1..Len(events) BY <1>0, <3>1
      <4>2. \A k \in 1..(m - 1) : events'[k] = events[k] BY <1>8, <4>1
      <4>3. events'[m] = events[m] BY <1>8, <3>1
      <4> QED BY <4>2, <4>3 DEF AllowedBefore
    <3> QED BY <1>8, <3>1, <3>2 DEF LimiterInv, LimiterIsExact, DecidesByTheWindow
  <2> QED BY <2>1, <2>2
<1>16. TracksTheActive'
  <2> SUFFICES ASSUME NEW b \in DOMAIN hits'
               PROVE  \E m \in 1..n : events'[m].of = b
                         /\ (events'[m].at > swept'.at - Window \/ m >= swept'.call)
    BY <1>8 DEF TracksTheActive
  <2>1. CASE b = a
    <3>1. swept'.call <= n
      BY <1>0, <1>2 DEF LimiterInv, CallsAreEvents, LimiterTypes
    <3> QED BY <1>8, <2>1, <3>1
  <2>2. CASE b # a /\ ~SweepsNow
    <3>1. b \in DOMAIN hits /\ swept' = swept BY <1>2, <1>3, <2>2
    <3>2. PICK m \in 1..Len(events) :
            events[m].of = b /\ (events[m].at > swept.at - Window \/ m >= swept.call)
      BY <3>1 DEF LimiterInv, LimiterIsExact, TracksTheActive
    <3>3. m \in 1..n BY <1>0
    <3>4. events'[m] = events[m] BY <1>8
    <3>5. events'[m].of = b /\ (events'[m].at > swept'.at - Window \/ m >= swept'.call)
      BY <3>1, <3>2, <3>4
    <3> QED BY <3>3, <3>5
  <2>3. CASE b # a /\ SweepsNow
    <3>1. /\ b \in DOMAIN hits /\ b \in DOMAIN table /\ ~Quiet(hits[b], now)
          /\ swept' = [at |-> now, call |-> calls']
      BY <1>2, <1>3, <1>4, <2>3 DEF Sweep
    <3>2. hits[b] \in Seq(Nat) /\ hits[b] # <<>> /\ b \in Addresses
      BY <3>1 DEF LimiterInv, LimiterTypes, Quiet
    <3>3. Len(hits[b]) \in Above(hits[b], now - Window)
      BY <1>6, <3>1, <3>2 DEF Above, Quiet, Last
    <3>4. Cardinality(Above(hits[b], now - Window)) # 0
      BY <1>6, <3>2, <3>3, AboveIsFinite, FS_EmptySet
    <3>5. Cardinality(Allowed(b, now - Window)) = Cardinality(Above(hits[b], now - Window))
      BY <1>6, <3>1, <3>2 DEF LimiterInv, KeepsTheWindow, TimesOf
    <3>6. PICK m : m \in Allowed(b, now - Window)
      BY <1>6, <3>4, <3>5, FS_EmptySet
    <3>7. m \in 1..Len(events) /\ events[m].of = b /\ events[m].at > now - Window
      BY <3>6 DEF Allowed
    <3>8. m \in 1..n /\ events'[m] = events[m]
      <4>1. events'[m] = events[m] BY <1>8, <3>7
      <4>2. Len(events) \in Nat BY <1>0
      <4> QED BY <3>7, <4>1, <4>2
    <3>9. swept'.at = now BY <3>1
    <3> QED BY <3>7, <3>8, <3>9
  <2> QED BY <2>1, <2>2, <2>3
<1> QED BY <1>10, <1>11, <1>13, <1>14, <1>15, <1>16 DEF LimiterInv, LimiterIsExact

LEMMA LimiterStep == ASSUME LimiterAssumption, LimiterInv, [LimiterNext]_limiterVars PROVE LimiterInv'
<1>1. CASE UNCHANGED limiterVars
  <2> USE <1>1 DEF limiterVars
  <2>1. LimiterTypes' BY DEF LimiterInv, LimiterTypes
  <2>2. TimesRise' BY DEF LimiterInv, TimesRise, Climbing
  <2>3. KeepsTheWindow' BY DEF LimiterInv, KeepsTheWindow, Allowed
  <2>4. (CallsAreEvents /\ LimiterIsExact)'
    BY DEF LimiterInv, CallsAreEvents, LimiterIsExact, DecidesByTheWindow, TracksTheActive, AllowedBefore
  <2> QED BY <2>1, <2>2, <2>3, <2>4 DEF LimiterInv
<1> QED BY <1>1, WaitStep, AllowStep DEF LimiterNext

-----------------------------------------------------------------------------
(* The theorems.                                                           *)

\* The invariant of the limiter holds of every reachable state.
THEOREM LimiterInvariant == LimiterSpec => []LimiterInv
<1>1. LimiterInit => LimiterInv BY LimiterStart, LimiterAssumption
<1>2. LimiterInv /\ [LimiterNext]_limiterVars => LimiterInv' BY LimiterStep, LimiterAssumption
<1> QED BY <1>1, <1>2, PTL DEF LimiterSpec

\* RateLimiter.allow decides as a count of the whole history would, though it
\* pops, sweeps and forgets; and it tracks no address that was quiet through a
\* window before the last sweep.
THEOREM DecidesAsTheHistory == LimiterSpec => []LimiterIsExact
<1>1. LimiterInv => LimiterIsExact BY DEF LimiterInv
<1> QED BY <1>1, LimiterInvariant, PTL

-----------------------------------------------------------------------------
(***************************************************************************)
(* SseWorkers: a click is handled once, and no subscription outlives its   *)
(* session, on whichever workers the page comes and goes.                  *)
(***************************************************************************)

NoDup(q) == \A i, j \in 1..Len(q) : q[i] = q[j] => i = j

\* A record is of a kept session of its worker, and every kept session has one.
KeptIsRecorded ==
    /\ \A w \in Workers : record[w] # Nobody =>
          session[record[w]].state = "kept" /\ stream[record[w]].at = w
    /\ \A s \in Streams : session[s].state = "kept" => record[stream[s].at] = s

\* A stream not made has nothing, one made has a worker, one opened a token.
Placed == \A g \in Streams :
    /\ Made(g) => stream[g].at \in Workers
    /\ stream[g].state \in {"opened", "open"} => stream[g].token >= 1
    /\ session[g].state # "none" \/ session[g].bound => Made(g)
    /\ ~Made(g) => session[g].token = 0 /\ session[g].task # "running"

\* Only a session whose bind ended is subscribed or was published to, and only
\* one that was not dropped is read.
BoundIsRead == \A g \in Streams :
    /\ stream[g].state = "binding" => session[g].state \in {"kept", "closed"} /\ ~session[g].bound
    /\ channel[g].subscribed \/ channel[g].read \/ got[g].published # <<>> => session[g].bound
    /\ channel[g].read => session[g].state \in {"kept", "closed"}

\* A GET that binds alone meets no session on its way out of its worker.
Gone(s) == session[s].state \in {"none", "closed", "forgotten"}
            /\ (session[s].state = "closed" => session[s].task # "running")
BindsAlone == "hasty" \notin habit => \A g \in Streams : stream[g].state = "binding" =>
    /\ session[g].state = "kept" /\ session[g].token = 0
    /\ \A s \in Streams \ {g} : stream[s].at = stream[g].at => Gone(s)

\* A page that does not roam has a record on one worker.
OneRecord == "roams" \notin habit =>
    \A v, w \in Workers : record[v] # Nobody /\ record[w] # Nobody => v = w

Routes == KeptIsRecorded /\ Placed /\ BoundIsRead /\ BindsAlone /\ OneRecord /\ NoGhost

\* A click not taken is in no session.
Untaken == \A n \in Clicks : post[n] # "taken" => \A s \in Streams :
    n \notin Members(got[s].published) \cup Members(got[s].queue) \cup Members(got[s].handled)

\* A session has a click once.
HasOnce == \A s \in Streams :
    /\ NoDup(got[s].published) /\ NoDup(got[s].queue) /\ NoDup(got[s].handled)
    /\ Members(got[s].published) \cap Members(got[s].queue) = {}
    /\ Members(got[s].published) \cap Members(got[s].handled) = {}
    /\ Members(got[s].queue) \cap Members(got[s].handled) = {}

\* The session handled the click, or still may.
MayHandle(s, n) ==
    \/ n \in Members(got[s].handled)
    \/ session[s].state # "closed" /\ n \in Members(got[s].queue)
    \/ session[s].state # "closed" /\ channel[s].read /\ n \in Members(got[s].published)

OneTaker == "roams" \notin habit =>
    \A n \in Clicks, s, o \in Streams : MayHandle(s, n) /\ MayHandle(o, n) => s = o

ClicksOnce == Untaken /\ HasOnce /\ OneTaker

RoutesInv == WorkersTypes /\ Routes /\ ClicksOnce

-----------------------------------------------------------------------------
LEMMA QueueGrows ==
    ASSUME NEW S, NEW q \in Seq(S), NEW x \in S
    PROVE  /\ Append(q, x) \in Seq(S) /\ Append(q, x) # <<>>
           /\ Members(Append(q, x)) = Members(q) \cup {x}
           /\ NoDup(q) /\ x \notin Members(q) => NoDup(Append(q, x))
<1> DEFINE t == Append(q, x)
<1>1. /\ t \in Seq(S) /\ Len(t) = Len(q) + 1 /\ Len(q) \in Nat
      /\ \A i \in 1..Len(q) : t[i] = q[i]
      /\ t[Len(q) + 1] = x
  BY AppendProperties
<1> HIDE DEF t
<1>2. 1..Len(t) = (1..Len(q)) \cup {Len(q) + 1} BY <1>1
<1>3. Members(t) = Members(q) \cup {x} BY <1>1, <1>2 DEF Members
<1>4. ASSUME NoDup(q), x \notin Members(q) PROVE NoDup(t)
  <2>1. \A i \in 1..Len(q) : q[i] # x BY <1>4 DEF Members
  <2> QED BY <1>1, <1>2, <1>4, <2>1 DEF NoDup
<1>5. t # <<>> BY <1>1
<1> QED BY <1>1, <1>3, <1>4, <1>5 DEF t

LEMMA QueueShrinks ==
    ASSUME NEW S, NEW q \in Seq(S), q # <<>>
    PROVE  /\ Tail(q) \in Seq(S) /\ Head(q) \in S /\ Head(q) \in Members(q)
           /\ Members(Tail(q)) \subseteq Members(q)
           /\ NoDup(q) => /\ NoDup(Tail(q)) /\ Members(Tail(q)) = Members(q) \ {Head(q)}
<1> DEFINE t == Tail(q)
<1>1. /\ t \in Seq(S) /\ Len(t) = Len(q) - 1 /\ Len(q) \in Nat /\ Len(q) > 0
      /\ \A i \in 1..Len(t) : t[i] = q[i + 1]
      /\ Head(q) = q[1] /\ q[1] \in S
  BY HeadTailProperties
<1> HIDE DEF t
<1>2. \A i \in 1..Len(t) : i + 1 \in 1..Len(q) /\ i + 1 # 1 BY <1>1
<1>3. 1 \in 1..Len(q) /\ \A j \in 1..Len(q) : j # 1 => j - 1 \in 1..Len(t) /\ (j - 1) + 1 = j BY <1>1
<1>4. Head(q) \in Members(q) BY <1>1, <1>3 DEF Members
<1>5. Members(t) \subseteq Members(q) BY <1>1, <1>2 DEF Members
<1>6. ASSUME NoDup(q) PROVE NoDup(t) /\ Members(t) = Members(q) \ {Head(q)}
  <2>1. NoDup(t)
    <3> SUFFICES ASSUME NEW i \in 1..Len(t), NEW j \in 1..Len(t), t[i] = t[j] PROVE i = j
      BY DEF NoDup
    <3>1. i + 1 = j + 1 BY <1>1, <1>2, <1>6 DEF NoDup
    <3> QED BY <1>1, <3>1
  <2>2. Head(q) \notin Members(t)
    <3> SUFFICES ASSUME NEW i \in 1..Len(t), t[i] = Head(q) PROVE FALSE BY DEF Members
    <3>1. q[i + 1] = q[1] BY <1>1
    <3> QED BY <1>2, <1>3, <1>6, <3>1 DEF NoDup
  <2>3. ASSUME NEW x \in Members(q), x # Head(q) PROVE x \in Members(t)
    <3>1. PICK j \in 1..Len(q) : q[j] = x BY DEF Members
    <3>2. j # 1 BY <1>1, <2>3, <3>1
    <3>3. j - 1 \in 1..Len(t) /\ t[j - 1] = x BY <1>1, <1>3, <3>1, <3>2
    <3> QED BY <3>3 DEF Members
  <2> QED BY <1>5, <2>1, <2>2, <2>3
<1> QED BY <1>1, <1>4, <1>5, <1>6 DEF t

LEMMA EmptyQueue ==
    ASSUME NEW S
    PROVE  <<>> \in Seq(S) /\ Len(<<>>) = 0 /\ Members(<<>>) = {} /\ NoDup(<<>>)
BY DEF Members, NoDup

-----------------------------------------------------------------------------
(* What the operations do to one stream, one session, one subscription.    *)

StreamStates == {"none", "binding", "opened", "open", "ended", "failed", "abandoned"}

LEMMA FieldTypes ==
    ASSUME WorkersTypes, NEW s \in Streams
    PROVE  /\ stream[s] \in StreamRecords /\ stream[s].token \in Nat
           /\ stream[s].state \in StreamStates
           /\ session[s] \in SessionRecords /\ session[s].token \in Nat /\ session[s].bound \in BOOLEAN
           /\ channel[s] \in Subscriptions /\ channel[s].read \in BOOLEAN
           /\ got[s] \in Queues /\ got[s].published \in Seq(Clicks)
           /\ got[s].queue \in Seq(Clicks) /\ got[s].handled \in Seq(Clicks)
<1>1. stream[s] \in StreamRecords /\ session[s] \in SessionRecords BY DEF WorkersTypes
<1>2. channel[s] \in Subscriptions /\ got[s] \in Queues BY DEF WorkersTypes
<1>3. stream[s].token \in Nat /\ stream[s].state \in StreamStates
  BY <1>1 DEF StreamRecords, StreamStates
<1>4. session[s].token \in Nat /\ session[s].bound \in BOOLEAN BY <1>1 DEF SessionRecords
<1>5. channel[s].read \in BOOLEAN BY <1>2 DEF Subscriptions
<1>6. /\ got[s].published \in Seq(Clicks) /\ got[s].queue \in Seq(Clicks)
      /\ got[s].handled \in Seq(Clicks)
  BY <1>2 DEF Queues
<1> QED BY <1>1, <1>2, <1>3, <1>4, <1>5, <1>6

\* A session, a stream, changes its state.
SessionEnters(s, state) == session' = [session EXCEPT ![s].state = state]
StreamEnters(g, state) == stream' = [stream EXCEPT ![g].state = state]

LEMMA StateChanges ==
    ASSUME WorkersTypes, NEW s \in Streams,
           NEW state \in {"none", "kept", "leaving", "closed", "forgotten"},
           SessionEnters(s, state)
    PROVE  /\ session' \in [Streams -> SessionRecords]
           /\ \A x \in Streams :
                 /\ session'[x].state = IF x = s THEN state ELSE session[x].state
                 /\ session'[x].token = session[x].token /\ session'[x].bound = session[x].bound
                 /\ session'[x].task = session[x].task
<1>1. session[s] \in SessionRecords BY FieldTypes
<1>2. /\ [session[s] EXCEPT !.state = state] \in SessionRecords
      /\ [session[s] EXCEPT !.state = state].state = state
      /\ [session[s] EXCEPT !.state = state].token = session[s].token
      /\ [session[s] EXCEPT !.state = state].bound = session[s].bound
      /\ [session[s] EXCEPT !.state = state].task = session[s].task
  BY <1>1 DEF SessionRecords
<1> QED BY <1>2 DEF WorkersTypes, SessionEnters, StreamEnters

LEMMA StreamChanges ==
    ASSUME WorkersTypes, NEW g \in Streams, NEW state \in StreamStates,
           StreamEnters(g, state)
    PROVE  /\ stream' \in [Streams -> StreamRecords]
           /\ \A x \in Streams :
                 /\ stream'[x].state = IF x = g THEN state ELSE stream[x].state
                 /\ stream'[x].at = stream[x].at /\ stream'[x].token = stream[x].token
<1>1. stream[g] \in StreamRecords BY FieldTypes
<1>2. /\ [stream[g] EXCEPT !.state = state] \in StreamRecords
      /\ [stream[g] EXCEPT !.state = state].state = state
      /\ [stream[g] EXCEPT !.state = state].at = stream[g].at
      /\ [stream[g] EXCEPT !.state = state].token = stream[g].token
  BY <1>1 DEF StreamRecords, StreamStates
<1> QED BY <1>2 DEF WorkersTypes, SessionEnters, StreamEnters

LEMMA ChannelChanges ==
    ASSUME WorkersTypes, NEW s \in Streams, NEW a \in BOOLEAN, NEW b \in BOOLEAN,
           channel' = [channel EXCEPT ![s] = [subscribed |-> a, read |-> b]]
    PROVE  /\ channel' \in [Streams -> Subscriptions]
           /\ \A x \in Streams :
                 /\ channel'[x].subscribed = IF x = s THEN a ELSE channel[x].subscribed
                 /\ channel'[x].read = IF x = s THEN b ELSE channel[x].read
<1>1. [subscribed |-> a, read |-> b] \in Subscriptions BY DEF Subscriptions
<1> QED BY <1>1 DEF WorkersTypes

\* The record of w, if any, is dropped with its session.
Drops(w) ==
    /\ record' \in [Workers -> {Nobody} \cup Streams]
    /\ session' \in [Streams -> SessionRecords] /\ channel' \in [Streams -> Subscriptions]
    /\ \A v \in Workers : record'[v] = IF v = w THEN Nobody ELSE record[v]
    /\ \A x \in Streams :
          /\ session'[x].state = IF x # record[w] THEN session[x].state
                                 ELSE IF session[x].bound THEN "leaving" ELSE "closed"
          /\ session'[x].token = session[x].token /\ session'[x].bound = session[x].bound
          /\ session'[x].task = "running" => session[x].task = "running"
          /\ channel'[x].subscribed = channel[x].subscribed
          /\ channel'[x].read => channel[x].read /\ x # record[w]

LEMMA ReadingStops ==
    ASSUME WorkersTypes, NEW s \in Streams, channel' = [channel EXCEPT ![s].read = FALSE]
    PROVE  /\ channel' \in [Streams -> Subscriptions]
           /\ \A x \in Streams : /\ channel'[x].subscribed = channel[x].subscribed
                                 /\ channel'[x].read => channel[x].read /\ x # s
<1>1. channel[s] \in Subscriptions BY FieldTypes
<1>2. /\ [channel[s] EXCEPT !.read = FALSE] \in Subscriptions
      /\ [channel[s] EXCEPT !.read = FALSE].read = FALSE
      /\ [channel[s] EXCEPT !.read = FALSE].subscribed = channel[s].subscribed
  BY <1>1 DEF Subscriptions
<1>3. \A x \in Streams : channel[x].read \in BOOLEAN BY FieldTypes
<1> QED BY <1>2, <1>3 DEF WorkersTypes

LEMMA DropIs ==
    ASSUME WorkersTypes, KeptIsRecorded, NEW w \in Workers, NEW aborted \in BOOLEAN,
           Drop(w, aborted)
    PROVE  Drops(w)
<1>0. \A x \in Streams : x # Nobody /\ channel[x].read \in BOOLEAN
  BY WorkersAssumption, FieldTypes DEF Streams, Nobody
<1>1. CASE record[w] = Nobody
  <2>1. UNCHANGED <<record, session, channel>> BY <1>1 DEF Drop
  <2> QED BY <1>0, <1>1, <2>1 DEF Drops, WorkersTypes
<1>2. CASE record[w] # Nobody
  <2> DEFINE s == record[w]
             state == IF session[s].bound THEN "leaving" ELSE "closed"
  <2>1. s \in Streams /\ session[s].state = "kept" BY <1>2 DEF WorkersTypes, KeptIsRecorded
  <2>2. /\ record' = [record EXCEPT ![w] = Nobody]
        /\ session' = [session EXCEPT
              ![s].state = IF @ = "kept" /\ session[s].bound THEN "leaving" ELSE "closed",
              ![s].aborted = aborted]
        /\ channel' = [channel EXCEPT ![s].read = FALSE]
    BY <1>2 DEF Drop
  <2> HIDE DEF s
  <2>5. /\ session' \in [Streams -> SessionRecords]
        /\ \A x \in Streams :
              /\ session'[x].state = IF x = s THEN state ELSE session[x].state
              /\ session'[x].token = session[x].token /\ session'[x].bound = session[x].bound
              /\ session'[x].task = session[x].task
    <3> DEFINE dropped == [session[s] EXCEPT !.state = state, !.aborted = aborted]
    <3>1. session[s] \in SessionRecords /\ session \in [Streams -> SessionRecords]
      BY <2>1, FieldTypes DEF WorkersTypes
    <3>2. state \in {"leaving", "closed"} BY DEF state
    <3> HIDE DEF state
    <3>3. dropped \in SessionRecords BY <3>1, <3>2 DEF SessionRecords
    <3>4. /\ dropped.state = state /\ dropped.token = session[s].token
          /\ dropped.bound = session[s].bound /\ dropped.task = session[s].task
      BY <3>1 DEF SessionRecords
    <3>5. session' = [session EXCEPT ![s] = dropped]
      <4>1. dropped = [session[s] EXCEPT
              !.state = IF @ = "kept" /\ session[s].bound THEN "leaving" ELSE "closed",
              !.aborted = aborted]
        BY <2>1 DEF state
      <4> HIDE DEF dropped
      <4> QED BY <2>1, <2>2, <3>1, <4>1
    <3> HIDE DEF dropped
    <3> QED BY <2>1, <3>1, <3>3, <3>4, <3>5
  <2>6. /\ channel' \in [Streams -> Subscriptions]
        /\ \A x \in Streams : /\ channel'[x].subscribed = channel[x].subscribed
                              /\ channel'[x].read => channel[x].read /\ x # s
    BY <2>1, <2>2, ReadingStops
  <2>7. /\ record' \in [Workers -> {Nobody} \cup Streams]
        /\ \A v \in Workers : record'[v] = IF v = w THEN Nobody ELSE record[v]
    BY <2>2 DEF WorkersTypes
  <2> QED BY <2>5, <2>6, <2>7 DEF Drops, s
<1> QED BY <1>1, <1>2

LEMMA UnwindIs ==
    ASSUME WorkersTypes, KeptIsRecorded, Placed, NEW s \in Streams, TaskUnwinds(s)
    PROVE  stream[s].at \in Workers /\ Drops(stream[s].at)
<1> DEFINE w == stream[s].at
           o == record[w]
<1>1. session[s].state = "closed" /\ session[s].task = "running" BY DEF TaskUnwinds
<1>2. w \in Workers BY <1>1 DEF Placed
<1>3. o \in {Nobody} \cup Streams /\ o # s BY <1>1, <1>2 DEF WorkersTypes, KeptIsRecorded, Nobody, Streams
<1>4. /\ record' = [record EXCEPT ![w] = Nobody]
      /\ session' = [r \in Streams |->
              IF r = s THEN [session[s] EXCEPT !.task = "done"]
              ELSE IF r = o
              THEN [session[o] EXCEPT !.state = IF session[o].bound THEN "leaving" ELSE "closed"]
              ELSE session[r]]
      /\ channel' = IF o = Nobody THEN channel ELSE [channel EXCEPT ![o].read = FALSE]
  BY DEF TaskUnwinds
<1>5. \A x \in Streams : session[x] \in SessionRecords /\ x # Nobody /\ channel[x].read \in BOOLEAN
  BY FieldTypes, WorkersAssumption DEF Streams, Nobody
<1> HIDE DEF o, w
<1>6. \A x \in Streams :
        /\ session'[x] \in SessionRecords
        /\ session'[x].state = IF x # o THEN session[x].state
                               ELSE IF session[x].bound THEN "leaving" ELSE "closed"
        /\ session'[x].token = session[x].token /\ session'[x].bound = session[x].bound
        /\ session'[x].task = "running" => session[x].task = "running"
  <2> SUFFICES ASSUME NEW x \in Streams
               PROVE  /\ session'[x] \in SessionRecords
                      /\ session'[x].state = IF x # o THEN session[x].state
                                             ELSE IF session[x].bound THEN "leaving" ELSE "closed"
                      /\ session'[x].token = session[x].token /\ session'[x].bound = session[x].bound
                      /\ session'[x].task = "running" => session[x].task = "running"
    OBVIOUS
  <2>1. CASE x = s
    <3>1. session'[x] = [session[s] EXCEPT !.task = "done"] BY <1>4, <2>1
    <3> QED BY <1>3, <1>5, <2>1, <3>1 DEF SessionRecords
  <2>2. CASE x # s /\ x = o
    <3>1. session'[x] = [session[x] EXCEPT !.state = IF session[x].bound THEN "leaving" ELSE "closed"]
      BY <1>4, <2>2
    <3> QED BY <1>5, <2>2, <3>1 DEF SessionRecords
  <2>3. CASE x # s /\ x # o BY <1>4, <1>5, <2>3
  <2> QED BY <2>1, <2>2, <2>3
<1>7. /\ channel' \in [Streams -> Subscriptions]
      /\ \A x \in Streams : /\ channel'[x].subscribed = channel[x].subscribed
                            /\ channel'[x].read => channel[x].read /\ x # o
  <2>1. CASE o = Nobody BY <1>4, <1>5, <2>1 DEF WorkersTypes
  <2>2. CASE o # Nobody BY <1>3, <1>4, <2>2, ReadingStops
  <2> QED BY <2>1, <2>2
<1>8. /\ record' \in [Workers -> {Nobody} \cup Streams]
      /\ \A v \in Workers : record'[v] = IF v = w THEN Nobody ELSE record[v]
  BY <1>4 DEF WorkersTypes
<1>9. session' \in [Streams -> SessionRecords] BY <1>4, <1>6
<1> QED BY <1>2, <1>6, <1>7, <1>8, <1>9 DEF Drops, o, w

-----------------------------------------------------------------------------
(* What an operation does not disturb.                                     *)

LEMMA RecordsStay ==
    ASSUME WorkersTypes, KeptIsRecorded, UNCHANGED record,
           \A x \in Streams : /\ session'[x].state = "kept" <=> session[x].state = "kept"
                              /\ stream'[x].at = stream[x].at
    PROVE  KeptIsRecorded'
<1>1. ASSUME NEW w \in Workers, record[w] # Nobody
      PROVE  session'[record[w]].state = "kept" /\ stream'[record[w]].at = w
  <2>1. record[w] \in Streams BY <1>1 DEF WorkersTypes
  <2>2. session[record[w]].state = "kept" /\ stream[record[w]].at = w BY <1>1 DEF KeptIsRecorded
  <2> QED BY <2>1, <2>2
<1>2. ASSUME NEW s \in Streams, session'[s].state = "kept" PROVE record[stream'[s].at] = s
  BY <1>2 DEF KeptIsRecorded
<1> QED BY <1>1, <1>2 DEF KeptIsRecorded

LEMMA RoutesStay ==
    ASSUME RoutesInv, UNCHANGED <<habit, record, stream, session, channel>>,
           \A s \in Streams : got'[s].published # <<>> =>
               got[s].published # <<>> \/ channel[s].subscribed
    PROVE  Routes'
BY DEF RoutesInv, Routes, KeptIsRecorded, Placed, Made, BoundIsRead, BindsAlone, Gone, OneRecord, NoGhost

LEMMA ClicksStay ==
    ASSUME RoutesInv, UNCHANGED <<habit, got>>,
           \A n \in Clicks : post[n] = "taken" => post'[n] = "taken",
           \A s \in Streams :
               /\ session[s].state = "closed" => session'[s].state = "closed"
               /\ channel'[s].read => channel[s].read \/ got[s].published = <<>>
    PROVE  ClicksOnce'
<1>1. \A s \in Streams, n \in Clicks : MayHandle(s, n)' => MayHandle(s, n)
  BY EmptyQueue DEF MayHandle
<1>2. OneTaker' BY <1>1 DEF RoutesInv, ClicksOnce, OneTaker
<1>3. HasOnce' BY DEF RoutesInv, ClicksOnce, HasOnce
<1>4. Untaken' BY DEF RoutesInv, ClicksOnce, Untaken
<1> QED BY <1>2, <1>3, <1>4 DEF ClicksOnce

LEMMA DropKeeps ==
    ASSUME RoutesInv, NEW w \in Workers, Drops(w), UNCHANGED <<habit, got, post>>,
           \A g \in Streams :
              /\ stream'[g].at = stream[g].at /\ stream'[g].token = stream[g].token
              /\ \/ stream'[g].state = stream[g].state
                 \/ stream[g].state = "open" /\ stream'[g].state = "ended",
           "hasty" \notin habit =>
              \A g \in Streams : stream[g].state = "binding" => stream[g].at # w
    PROVE  Routes' /\ ClicksOnce'
<1> USE DEF RoutesInv, Routes
<1>0. record \in [Workers -> {Nobody} \cup Streams] /\ \A x \in Streams : x # Nobody
  BY WorkersAssumption DEF WorkersTypes, Streams, Nobody
<1>1. KeptIsRecorded'
  <2>1. ASSUME NEW v \in Workers, record'[v] # Nobody
        PROVE  session'[record'[v]].state = "kept" /\ stream'[record'[v]].at = v
    <3>1. v # w /\ record'[v] = record[v] BY <2>1 DEF Drops
    <3>2. record[v] \in Streams /\ session[record[v]].state = "kept" /\ stream[record[v]].at = v
      BY <1>0, <2>1, <3>1 DEF KeptIsRecorded
    <3>3. record[v] # record[w] BY <1>0, <2>1, <3>1, <3>2 DEF KeptIsRecorded
    <3> QED BY <3>1, <3>2, <3>3 DEF Drops
  <2>2. ASSUME NEW s \in Streams, session'[s].state = "kept" PROVE record'[stream'[s].at] = s
    <3>1. s # record[w] /\ session[s].state = "kept" BY <2>2 DEF Drops
    <3>2. stream[s].at \in Workers /\ record[stream[s].at] = s
      BY <3>1 DEF Placed, KeptIsRecorded
    <3> QED BY <3>1, <3>2 DEF Drops
  <2> QED BY <2>1, <2>2 DEF KeptIsRecorded
<1>2. Placed'
  <2>1. \A x \in Streams : session[x].state = "none" => x # record[w]
    BY <1>0 DEF KeptIsRecorded
  <2>2. \A g \in Streams : Made(g)' <=> Made(g) BY DEF Made
  <2> QED BY <2>1, <2>2 DEF Placed, Drops
<1>3. BoundIsRead'
  <2> SUFFICES ASSUME NEW g \in Streams
               PROVE  /\ stream'[g].state = "binding" =>
                            session'[g].state \in {"kept", "closed"} /\ ~session'[g].bound
                      /\ channel'[g].subscribed \/ channel'[g].read \/ got'[g].published # <<>>
                            => session'[g].bound
                      /\ channel'[g].read => session'[g].state \in {"kept", "closed"}
    BY DEF BoundIsRead
  <2> QED BY DEF BoundIsRead, Drops
<1>4. BindsAlone'
  <2> SUFFICES ASSUME "hasty" \notin habit, NEW g \in Streams, stream'[g].state = "binding"
               PROVE  /\ session'[g].state = "kept" /\ session'[g].token = 0
                      /\ \A s \in Streams \ {g} : stream'[s].at = stream'[g].at => Gone(s)'
    BY DEF BindsAlone
  <2>1. /\ stream[g].state = "binding" /\ session[g].state = "kept" /\ session[g].token = 0
        /\ stream[g].at # w /\ stream[g].at \in Workers
        /\ \A s \in Streams \ {g} : stream[s].at = stream[g].at => Gone(s)
    BY DEF BindsAlone, Placed, Made
  <2>2. \A s \in Streams : stream[s].at = stream[g].at => s # record[w]
    BY <1>0, <2>1 DEF KeptIsRecorded
  <2> QED BY <2>1, <2>2 DEF Drops, Gone
<1>5. OneRecord' BY <1>0 DEF OneRecord, Drops
<1>6. NoGhost' BY <1>0, KeptIsRecorded DEF NoGhost, Drops, BoundIsRead
<1>7. ClicksOnce'
  <2>1. \A s \in Streams : session[s].state = "closed" => s # record[w]
    BY <1>0 DEF KeptIsRecorded
  <2> QED BY <2>1, ClicksStay DEF Drops
<1> QED BY <1>1, <1>2, <1>3, <1>4, <1>5, <1>6, <1>7

-----------------------------------------------------------------------------
(* The operations.                                                         *)

LEMMA WorkersStart == WorkersInit => RoutesInv
<1> SUFFICES ASSUME WorkersInit PROVE RoutesInv OBVIOUS
<1> USE DEF WorkersInit
<1>1. WorkersTypes
  <2>1. habit \subseteq Quirks BY HabitsAssumption
  <2>2. /\ [state |-> "none", at |-> Nobody, of |-> Nobody, token |-> 0] \in StreamRecords
        /\ [state |-> "none", token |-> 0, task |-> "none", bound |-> FALSE,
            reader |-> Nobody, aborted |-> FALSE] \in SessionRecords
        /\ [subscribed |-> FALSE, read |-> FALSE] \in Subscriptions
    BY DEF StreamRecords, SessionRecords, Subscriptions
  <2>3. [published |-> <<>>, queue |-> <<>>, handled |-> <<>>] \in Queues
    BY EmptyQueue DEF Queues
  <2>4. outbox \in Seq(Clicks) /\ Len(outbox) <= MaxOutbox BY WorkersAssumption
  <2> QED BY <2>1, <2>2, <2>3, <2>4 DEF WorkersTypes, PostStates
<1>2. Routes
  BY DEF Routes, KeptIsRecorded, Placed, Made, BoundIsRead, BindsAlone, OneRecord, NoGhost
<1>3. ClicksOnce
  BY EmptyQueue DEF ClicksOnce, Untaken, HasOnce, OneTaker, MayHandle
<1> QED BY <1>1, <1>2, <1>3 DEF RoutesInv

LEMMA MakeStep ==
    ASSUME RoutesInv, NEW w \in Workers, NEW g \in Streams, ~Made(g), record[w] = Nobody,
           MakeSession(g, w), "roams" \in habit \/ \A v \in Workers \ {w} : record[v] = Nobody,
           "hasty" \in habit \/ Still, UNCHANGED <<habit, channel, got, isOpen, outbox, post>>,
           follows' = g
    PROVE  RoutesInv'
<1> USE DEF RoutesInv, Routes
<1>0. record \in [Workers -> {Nobody} \cup Streams] /\ \A x \in Streams : x # Nobody
  BY WorkersAssumption DEF WorkersTypes, Streams, Nobody
<1>1. /\ record' \in [Workers -> {Nobody} \cup Streams]
      /\ \A v \in Workers : record'[v] = IF v = w THEN g ELSE record[v]
  BY <1>0 DEF MakeSession
<1>2. SessionEnters(g, "kept") BY DEF MakeSession, SessionEnters
<1>3. /\ session' \in [Streams -> SessionRecords]
      /\ \A x \in Streams :
            /\ session'[x].state = IF x = g THEN "kept" ELSE session[x].state
            /\ session'[x].token = session[x].token /\ session'[x].bound = session[x].bound
            /\ session'[x].task = session[x].task
  BY <1>2, StateChanges
<1>4. /\ stream' \in [Streams -> StreamRecords]
      /\ stream'[g].state = "binding" /\ stream'[g].at = w
      /\ \A x \in Streams : x # g => stream'[x] = stream[x]
  <2>1. stream[g] \in StreamRecords BY FieldTypes
  <2> DEFINE made == [stream[g] EXCEPT !.state = "binding", !.at = w, !.of = g]
  <2>2. made \in StreamRecords /\ made.state = "binding" /\ made.at = w
    BY <2>1 DEF StreamRecords
  <2>3. stream' = [stream EXCEPT ![g] = made] BY DEF MakeSession
  <2> HIDE DEF made
  <2> QED BY <2>2, <2>3 DEF WorkersTypes
<1>5. session[g].state = "none" /\ ~session[g].bound /\ session[g].token = 0
  BY DEF Placed
<1>6. WorkersTypes' BY <1>1, <1>3, <1>4 DEF WorkersTypes
<1>7. KeptIsRecorded'
  <2>1. ASSUME NEW v \in Workers, record'[v] # Nobody
        PROVE  session'[record'[v]].state = "kept" /\ stream'[record'[v]].at = v
    <3>1. CASE v = w BY <1>1, <1>3, <1>4, <3>1
    <3>2. CASE v # w
      <4>1. record'[v] = record[v] /\ record[v] \in Streams BY <1>0, <1>1, <2>1, <3>2
      <4>2. session[record[v]].state = "kept" /\ stream[record[v]].at = v
        BY <2>1, <4>1 DEF KeptIsRecorded
      <4> QED BY <1>3, <1>4, <1>5, <4>1, <4>2
    <3> QED BY <3>1, <3>2
  <2>2. ASSUME NEW s \in Streams, session'[s].state = "kept" PROVE record'[stream'[s].at] = s
    <3>1. CASE s = g BY <1>1, <1>4, <3>1
    <3>2. CASE s # g
      <4>1. session[s].state = "kept" BY <1>3, <2>2, <3>2
      <4>2. stream[s].at \in Workers /\ record[stream[s].at] = s BY <4>1 DEF Placed, KeptIsRecorded
      <4>3. stream[s].at # w BY <1>0, <4>2
      <4> QED BY <1>1, <1>4, <3>2, <4>2, <4>3
    <3> QED BY <3>1, <3>2
  <2> QED BY <2>1, <2>2 DEF KeptIsRecorded
<1>8. Placed' BY <1>3, <1>4 DEF Placed, Made
<1>9. BoundIsRead'
  BY <1>3, <1>4, <1>5 DEF BoundIsRead
<1>10. BindsAlone'
  <2> SUFFICES ASSUME "hasty" \notin habit, NEW h \in Streams, stream'[h].state = "binding"
               PROVE  /\ session'[h].state = "kept" /\ session'[h].token = 0
                      /\ \A s \in Streams \ {h} : stream'[s].at = stream'[h].at => Gone(s)'
    BY DEF BindsAlone
  <2>1. h = g BY <1>4 DEF Still
  <2>2. ASSUME NEW s \in Streams \ {g}, stream'[s].at = w PROVE Gone(s)'
    <3>1. stream[s].at = w BY <1>4, <2>2
    <3>2. session[s].state # "kept" BY <1>0, <3>1 DEF KeptIsRecorded
    <3>3. session[s].state # "leaving" /\ (session[s].state = "closed" => session[s].task # "running")
      BY DEF Still
    <3>4. session[s] \in SessionRecords BY FieldTypes
    <3> QED BY <1>3, <2>2, <3>2, <3>3, <3>4 DEF Gone, SessionRecords
  <2> QED BY <1>3, <1>4, <1>5, <2>1, <2>2
<1>11. OneRecord' BY <1>0, <1>1 DEF OneRecord
<1>12. NoGhost' BY <1>3 DEF NoGhost
<1>13. ClicksOnce' BY <1>3, <1>5, ClicksStay
<1> QED BY <1>6, <1>7, <1>8, <1>9, <1>10, <1>11, <1>12, <1>13

LEMMA TakeStep ==
    ASSUME RoutesInv, NEW w \in Workers, NEW g \in Streams, ~Made(g), record[w] # Nobody,
           TakeOver(g, w), "hasty" \in habit \/ Still,
           UNCHANGED <<habit, channel, got, isOpen, outbox, post>>, follows' = g
    PROVE  RoutesInv'
<1> USE DEF RoutesInv, Routes
<1> DEFINE o == record[w]
<1>0. o \in Streams /\ session[o].state = "kept" /\ stream[o].at = w
  BY DEF WorkersTypes, KeptIsRecorded
<1>1. session' = [session EXCEPT ![o].token = @ + 1]
      /\ stream' = [stream EXCEPT ![g] = [state |-> "opened", at |-> w, of |-> o, token |-> session[o].token + 1]]
      /\ record' = record
  BY DEF TakeOver
<1>2. session[o] \in SessionRecords /\ session[o].token \in Nat BY <1>0, FieldTypes
<1> HIDE DEF o
<1>3. /\ session' \in [Streams -> SessionRecords]
      /\ \A x \in Streams :
            /\ session'[x].state = session[x].state /\ session'[x].bound = session[x].bound
            /\ session'[x].task = session[x].task
            /\ x # o => session'[x].token = session[x].token
  <2> DEFINE taken == [session[o] EXCEPT !.token = session[o].token + 1]
  <2>1. taken \in SessionRecords /\ taken.state = session[o].state /\ taken.bound = session[o].bound
        /\ taken.task = session[o].task
    BY <1>2 DEF SessionRecords
  <2>2. session' = [session EXCEPT ![o] = taken] BY <1>1
  <2> HIDE DEF taken
  <2> QED BY <2>1, <2>2 DEF WorkersTypes
<1>4. /\ stream' \in [Streams -> StreamRecords]
      /\ stream'[g].state = "opened" /\ stream'[g].at = w /\ stream'[g].token >= 1
      /\ \A x \in Streams : x # g => stream'[x] = stream[x]
  <2> DEFINE opened == [state |-> "opened", at |-> w, of |-> o, token |-> session[o].token + 1]
  <2>1. opened \in StreamRecords /\ opened.state = "opened" /\ opened.at = w /\ opened.token >= 1
    BY <1>0, <1>2 DEF StreamRecords
  <2>2. stream' = [stream EXCEPT ![g] = opened] BY <1>1
  <2> HIDE DEF opened
  <2> QED BY <2>1, <2>2 DEF WorkersTypes
<1>5. session[g].state = "none" /\ ~session[g].bound /\ g # o /\ session[g].token = 0
      /\ session[g].task # "running" /\ Made(o)
  BY <1>0 DEF Placed
<1>6. WorkersTypes' BY <1>1, <1>3, <1>4 DEF WorkersTypes
<1>7. KeptIsRecorded'
  <2>1. ASSUME NEW v \in Workers, record[v] # Nobody
        PROVE  session'[record[v]].state = "kept" /\ stream'[record[v]].at = v
    <3>1. record[v] \in Streams /\ session[record[v]].state = "kept" /\ stream[record[v]].at = v
      BY <2>1 DEF WorkersTypes, KeptIsRecorded
    <3>2. record[v] # g BY <1>5, <3>1
    <3> QED BY <1>3, <1>4, <3>1, <3>2
  <2>2. ASSUME NEW s \in Streams, session'[s].state = "kept" PROVE record[stream'[s].at] = s
    BY <1>3, <1>4, <1>5, <2>2 DEF KeptIsRecorded
  <2> QED BY <1>1, <2>1, <2>2 DEF KeptIsRecorded
<1>8. Placed' BY <1>3, <1>4, <1>5 DEF Placed, Made
<1>9. BoundIsRead' BY <1>3, <1>4, <1>5 DEF BoundIsRead
<1>10. BindsAlone' BY <1>4 DEF BindsAlone, Still
<1>11. OneRecord' BY <1>1 DEF OneRecord
<1>12. NoGhost' BY <1>3 DEF NoGhost
<1>13. ClicksOnce' BY <1>3, ClicksStay
<1> QED BY <1>6, <1>7, <1>8, <1>9, <1>10, <1>11, <1>12, <1>13

LEMMA ConnectStep == ASSUME RoutesInv, NEW w \in Workers, Connect(w) PROVE RoutesInv'
<1>1. PICK g \in Streams : /\ ~Made(g) /\ follows' = g
                           /\ IF record[w] = Nobody THEN MakeSession(g, w) ELSE TakeOver(g, w)
  BY DEF Connect
<1>2. /\ "roams" \in habit \/ \A v \in Workers \ {w} : record[v] = Nobody
      /\ "hasty" \in habit \/ Still
      /\ UNCHANGED <<habit, channel, got, isOpen, outbox, post>>
  BY DEF Connect
<1> QED BY <1>1, <1>2, MakeStep, TakeStep

LEMMA BindStep == ASSUME RoutesInv, NEW g \in Streams, BindEnds(g) PROVE RoutesInv'
<1> USE DEF RoutesInv, Routes
<1>1. CASE Bound(g)
  <2>1. /\ stream[g].state = "binding"
        /\ session' = [session EXCEPT ![g].bound = TRUE, ![g].task = "running", ![g].token = @ + 1]
        /\ stream' = [stream EXCEPT ![g].state = "opened", ![g].token = session[g].token + 1]
        /\ channel' = [channel EXCEPT ![g] = [subscribed |-> TRUE, read |-> TRUE]]
        /\ UNCHANGED <<habit, record, got, follows, isOpen, outbox, post>>
    BY <1>1 DEF Bound, Subscribe, page
  <2>2. session[g] \in SessionRecords /\ stream[g] \in StreamRecords /\ session[g].token \in Nat
    BY FieldTypes
  <2>3. /\ session' \in [Streams -> SessionRecords]
        /\ session'[g].state = session[g].state /\ session'[g].bound
        /\ \A x \in Streams : x # g => session'[x] = session[x]
    <3> DEFINE b == [session[g] EXCEPT !.bound = TRUE, !.task = "running",
                                       !.token = session[g].token + 1]
    <3>1. b \in SessionRecords /\ b.state = session[g].state /\ b.bound
      <4> DEFINE b1 == [session[g] EXCEPT !.bound = TRUE]
                 b2 == [b1 EXCEPT !.task = "running"]
      <4>1. b1 \in SessionRecords /\ b1.state = session[g].state /\ b1.bound
        BY <2>2 DEF SessionRecords
      <4> HIDE DEF b1
      <4>2. b2 \in SessionRecords /\ b2.state = session[g].state /\ b2.bound
        BY <4>1 DEF SessionRecords
      <4> HIDE DEF b2
      <4>3. [b2 EXCEPT !.token = session[g].token + 1] \in SessionRecords
            /\ [b2 EXCEPT !.token = session[g].token + 1].state = session[g].state
            /\ [b2 EXCEPT !.token = session[g].token + 1].bound
        BY <2>2, <4>2 DEF SessionRecords
      <4> QED BY <4>3 DEF b1, b2
    <3>2. session' = [session EXCEPT ![g] = b]
      <4>1. session \in [Streams -> SessionRecords] BY DEF WorkersTypes
      <4>2. DOMAIN session' = Streams /\ \A x \in Streams : x # g => session'[x] = session[x]
        BY <2>1, <4>1
      <4>3. session'[g] = b BY <2>1, <2>2, <4>1 DEF SessionRecords
      <4> QED BY <2>1, <4>1, <4>2, <4>3
    <3> HIDE DEF b
    <3> QED BY <3>1, <3>2 DEF WorkersTypes
  <2>4. /\ stream' \in [Streams -> StreamRecords]
        /\ stream'[g].state = "opened" /\ stream'[g].at = stream[g].at /\ stream'[g].token >= 1
        /\ \A x \in Streams : x # g => stream'[x] = stream[x]
    <3> DEFINE b == [stream[g] EXCEPT !.state = "opened", !.token = session[g].token + 1]
    <3>1. b \in StreamRecords /\ b.state = "opened" /\ b.at = stream[g].at /\ b.token >= 1
      <4> DEFINE b1 == [stream[g] EXCEPT !.state = "opened"]
      <4>1. b1 \in StreamRecords /\ b1.state = "opened" /\ b1.at = stream[g].at
        BY <2>2 DEF StreamRecords
      <4> HIDE DEF b1
      <4>2. [b1 EXCEPT !.token = session[g].token + 1] \in StreamRecords
            /\ [b1 EXCEPT !.token = session[g].token + 1].state = "opened"
            /\ [b1 EXCEPT !.token = session[g].token + 1].at = stream[g].at
            /\ [b1 EXCEPT !.token = session[g].token + 1].token >= 1
        BY <2>2, <4>1 DEF StreamRecords
      <4> QED BY <4>2 DEF b1
    <3>2. stream' = [stream EXCEPT ![g] = b]
      <4>1. stream \in [Streams -> StreamRecords] BY DEF WorkersTypes
      <4>2. DOMAIN stream' = Streams /\ \A x \in Streams : x # g => stream'[x] = stream[x]
        BY <2>1, <4>1
      <4>3. stream'[g] = b BY <2>1, <2>2, <4>1 DEF StreamRecords
      <4> QED BY <2>1, <4>1, <4>2, <4>3
    <3> HIDE DEF b
    <3> QED BY <3>1, <3>2 DEF WorkersTypes
  <2>5. /\ channel' \in [Streams -> Subscriptions]
        /\ \A x \in Streams : /\ channel'[x].subscribed = IF x = g THEN TRUE ELSE channel[x].subscribed
                              /\ channel'[x].read = IF x = g THEN TRUE ELSE channel[x].read
    BY <2>1, ChannelChanges
  <2>6. /\ session[g].state \in {"kept", "closed"} /\ ~session[g].bound /\ Made(g)
        /\ got[g].published = <<>> /\ stream[g].at \in Workers
    BY <2>1 DEF BoundIsRead, Placed, Made
  <2>7. WorkersTypes' BY <2>1, <2>3, <2>4, <2>5 DEF WorkersTypes
  <2>8. \A x \in Streams : session'[x].state = session[x].state /\ stream'[x].at = stream[x].at
    BY <2>3, <2>4
  <2>9. KeptIsRecorded' BY <2>1, <2>8, RecordsStay
  <2>10. Placed' BY <2>3, <2>4, <2>6 DEF Placed, Made
  <2>11. BoundIsRead' BY <2>1, <2>3, <2>4, <2>5, <2>6 DEF BoundIsRead
  <2>12. BindsAlone'
    <3> SUFFICES ASSUME "hasty" \notin habit, NEW h \in Streams, stream'[h].state = "binding"
                 PROVE  /\ session'[h].state = "kept" /\ session'[h].token = 0
                        /\ \A s \in Streams \ {h} : stream'[s].at = stream'[h].at => Gone(s)'
      BY <2>1 DEF BindsAlone
    <3>1. h # g /\ stream[h].state = "binding" BY <2>4
    <3>2. stream[g].at # stream[h].at BY <2>1, <2>6, <3>1 DEF BindsAlone, Gone
    <3> QED BY <2>3, <2>4, <3>1, <3>2 DEF BindsAlone, Gone
  <2>13. OneRecord' BY <2>1 DEF OneRecord
  <2>14. NoGhost'
    <3> SUFFICES ASSUME "hasty" \notin habit, NEW x \in Streams, channel'[x].subscribed
                 PROVE  \/ session[x].state \in {"kept", "leaving"}
                        \/ session[x].state = "forgotten" /\ "aborts" \in habit
      BY <2>1, <2>8 DEF NoGhost
    <3>1. CASE x = g BY <2>1, <3>1 DEF BindsAlone
    <3>2. CASE x # g BY <2>5, <3>2 DEF NoGhost
    <3> QED BY <3>1, <3>2
  <2>15. ClicksOnce' BY <2>1, <2>5, <2>6, <2>8, ClicksStay
  <2> QED BY <2>7, <2>9, <2>10, <2>11, <2>12, <2>13, <2>14, <2>15
<1>2. CASE BindFails(g)
  <2>1. /\ stream[g].state = "binding" /\ StreamEnters(g, "failed")
        /\ UNCHANGED <<habit, record, session, channel, got, follows, isOpen, outbox, post>>
    BY <1>2 DEF BindFails, StreamEnters, page
  <2>2. /\ stream' \in [Streams -> StreamRecords]
        /\ \A x \in Streams :
              /\ stream'[x].state = IF x = g THEN "failed" ELSE stream[x].state
              /\ stream'[x].at = stream[x].at /\ stream'[x].token = stream[x].token
    BY <2>1, StreamChanges DEF StreamStates
  <2>3. WorkersTypes' BY <2>1, <2>2 DEF WorkersTypes
  <2>4. KeptIsRecorded' BY <2>1, <2>2, RecordsStay
  <2>5. Placed' BY <2>1, <2>2 DEF Placed, Made
  <2>6. BoundIsRead' BY <2>1, <2>2 DEF BoundIsRead
  <2>7. BindsAlone' BY <2>1, <2>2 DEF BindsAlone, Gone
  <2>8. OneRecord' /\ NoGhost' BY <2>1 DEF OneRecord, NoGhost
  <2>9. ClicksOnce' BY <2>1, ClicksStay
  <2> QED BY <2>3, <2>4, <2>5, <2>6, <2>7, <2>8, <2>9
<1> QED BY <1>1, <1>2 DEF BindEnds

LEMMA BodyStep == ASSUME RoutesInv, NEW g \in Streams, BodyBegins(g) PROVE RoutesInv'
<1> USE DEF RoutesInv, Routes
<1>1. /\ stream[g].state = "opened" /\ (StreamEnters(g, "open") \/ StreamEnters(g, "abandoned"))
      /\ UNCHANGED <<habit, record, channel, got, follows, isOpen, outbox, post>>
  BY DEF BodyBegins, Reads, Abandons, StreamEnters, page
<1>2. /\ stream' \in [Streams -> StreamRecords]
      /\ \A x \in Streams :
            /\ x # g => stream'[x].state = stream[x].state
            /\ stream'[x].at = stream[x].at /\ stream'[x].token = stream[x].token
      /\ stream'[g].state \in {"open", "abandoned"}
  BY <1>1, StreamChanges DEF StreamStates
<1>3. /\ session' \in [Streams -> SessionRecords]
      /\ \A x \in Streams :
            /\ session'[x].state = session[x].state
            /\ session'[x].token = session[x].token /\ session'[x].bound = session[x].bound
            /\ session'[x].task = session[x].task
  <2>1. CASE Reads(g)
    <3> DEFINE s == stream[g].of
    <3>1. session' = [session EXCEPT ![s].reader = g] BY <2>1 DEF Reads
    <3>2. session \in [Streams -> SessionRecords] BY DEF WorkersTypes
    <3> HIDE DEF s
    <3>3. ASSUME NEW x \in Streams
          PROVE  /\ session'[x] \in SessionRecords
                 /\ session'[x].state = session[x].state
                 /\ session'[x].token = session[x].token /\ session'[x].bound = session[x].bound
                 /\ session'[x].task = session[x].task
      <4>1. session[x] \in SessionRecords BY FieldTypes
      <4>2. session'[x] = session[x] \/ session'[x] = [session[x] EXCEPT !.reader = g]
        BY <3>1, <3>2
      <4> QED BY <4>1, <4>2 DEF SessionRecords
    <3>4. session' \in [Streams -> SessionRecords] BY <3>1, <3>2, <3>3
    <3> QED BY <3>3, <3>4
  <2>2. CASE Abandons(g) BY <2>2 DEF Abandons, WorkersTypes
  <2> QED BY <2>1, <2>2 DEF BodyBegins
<1>4. WorkersTypes' BY <1>1, <1>2, <1>3 DEF WorkersTypes
<1>5. KeptIsRecorded' BY <1>1, <1>2, <1>3, RecordsStay
<1>6. Placed' BY <1>1, <1>2, <1>3 DEF Placed, Made
<1>7. BoundIsRead' BY <1>1, <1>2, <1>3 DEF BoundIsRead
<1>8. BindsAlone' BY <1>1, <1>2, <1>3 DEF BindsAlone, Gone
<1>9. OneRecord' /\ NoGhost' BY <1>1, <1>3 DEF OneRecord, NoGhost
<1>10. ClicksOnce' BY <1>1, <1>3, ClicksStay
<1> QED BY <1>4, <1>5, <1>6, <1>7, <1>8, <1>9, <1>10

LEMMA TeardownStep == ASSUME RoutesInv, NEW s \in Streams, TeardownEnds(s) PROVE RoutesInv'
<1> USE DEF RoutesInv, Routes
<1>1. /\ SessionEnters(s, "closed") \/ SessionEnters(s, "forgotten")
      /\ UNCHANGED <<habit, record, stream, got, follows, isOpen, outbox, post>>
  BY DEF TeardownEnds, TornDown, TeardownFails, TeardownCut, SessionEnters, page
<1>2. /\ session' \in [Streams -> SessionRecords]
      /\ session'[s].state \in {"closed", "forgotten"}
      /\ \A x \in Streams :
            /\ x # s => session'[x].state = session[x].state
            /\ session'[x].token = session[x].token /\ session'[x].bound = session[x].bound
            /\ session'[x].task = session[x].task
  BY <1>1, StateChanges
<1>3. /\ channel' \in [Streams -> Subscriptions]
      /\ \A x \in Streams : /\ channel'[x].subscribed => channel[x].subscribed
                            /\ channel'[x].read => channel[x].read
      /\ channel'[s].subscribed => session'[s].state = "forgotten" /\ "aborts" \in habit
  <2>1. CASE Unsubscribe(s)
    <3>1. channel' = [channel EXCEPT ![s] = [subscribed |-> FALSE, read |-> FALSE]]
      BY <2>1 DEF Unsubscribe
    <3>2. channel' \in [Streams -> Subscriptions] BY <3>1, ChannelChanges
    <3>3. ASSUME NEW x \in Streams
          PROVE  /\ channel'[x].subscribed => channel[x].subscribed /\ x # s
                 /\ channel'[x].read => channel[x].read
      BY <3>1, ChannelChanges
    <3> QED BY <3>2, <3>3
  <2>2. CASE TeardownCut(s) /\ UNCHANGED channel
    <3>1. SessionEnters(s, "forgotten") /\ "aborts" \in habit BY <2>2 DEF TeardownCut, SessionEnters
    <3>2. session'[s].state = "forgotten" BY <3>1, StateChanges
    <3> QED BY <2>2, <3>1, <3>2 DEF WorkersTypes
  <2> QED BY <2>1, <2>2 DEF TeardownEnds, TornDown, TeardownFails, TeardownCut, Unsubscribe
<1>4. session[s].state = "leaving" /\ Made(s)
  BY <1>1 DEF TeardownEnds, TornDown, TeardownFails, TeardownCut, Placed
<1>5. WorkersTypes' BY <1>1, <1>2, <1>3 DEF WorkersTypes
<1>6. KeptIsRecorded' BY <1>1, <1>2, <1>4, RecordsStay
<1>7. Placed' BY <1>1, <1>2, <1>4 DEF Placed, Made
<1>8. BoundIsRead' BY <1>1, <1>2, <1>3, <1>4 DEF BoundIsRead
<1>9. BindsAlone'
  <2> SUFFICES ASSUME "hasty" \notin habit, NEW h \in Streams, stream[h].state = "binding"
               PROVE  /\ session'[h].state = "kept" /\ session'[h].token = 0
                      /\ \A x \in Streams \ {h} : stream[x].at = stream[h].at => Gone(x)'
    BY <1>1 DEF BindsAlone
  <2>1. h # s /\ stream[s].at # stream[h].at BY <1>4 DEF BindsAlone, Gone
  <2> QED BY <1>2, <2>1 DEF BindsAlone, Gone
<1>10. OneRecord' BY <1>1 DEF OneRecord
<1>11. NoGhost' BY <1>1, <1>2, <1>3 DEF NoGhost
<1>12. ClicksOnce' BY <1>1, <1>2, <1>3, <1>4, ClicksStay
<1> QED BY <1>5, <1>6, <1>7, <1>8, <1>9, <1>10, <1>11, <1>12

LEMMA UnwindStep == ASSUME RoutesInv, NEW s \in Streams, TaskUnwinds(s) PROVE RoutesInv'
<1> USE DEF RoutesInv, Routes
<1>1. stream[s].at \in Workers /\ Drops(stream[s].at) BY UnwindIs
<1>2. UNCHANGED <<habit, stream, got, follows, isOpen, outbox, post>> BY DEF TaskUnwinds, page
<1>3. ASSUME "hasty" \notin habit, NEW g \in Streams, stream[g].state = "binding"
      PROVE  stream[g].at # stream[s].at
  BY <1>3 DEF TaskUnwinds, BindsAlone, Gone
<1>4. WorkersTypes' BY <1>1, <1>2 DEF Drops, WorkersTypes
<1>5. Routes' /\ ClicksOnce' BY <1>1, <1>2, <1>3, DropKeeps
<1> QED BY <1>4, <1>5

LEMMA EndsStep == ASSUME RoutesInv, NEW g \in Streams, Ends(g) PROVE RoutesInv'
<1> USE DEF RoutesInv, Routes
<1> DEFINE w == stream[g].at
<1>1. /\ stream[g].state = "open" /\ StreamEnters(g, "ended")
      /\ follows' \in {Nobody} \cup Streams /\ isOpen' \in BOOLEAN
      /\ IF Owner(g) THEN Drop(w, follows # g) ELSE UNCHANGED <<record, session, channel>>
      /\ UNCHANGED <<habit, got, outbox, post>>
  BY DEF Ends, StreamEnters, WorkersTypes
<1>2. /\ stream' \in [Streams -> StreamRecords]
      /\ \A x \in Streams :
            /\ stream'[x].state = IF x = g THEN "ended" ELSE stream[x].state
            /\ stream'[x].at = stream[x].at /\ stream'[x].token = stream[x].token
  BY <1>1, StreamChanges DEF StreamStates
<1>3. w \in Workers /\ stream[g].token >= 1 BY <1>1 DEF Placed, Made
<1>4. CASE Owner(g)
  <2>1. Drops(w)
    <3>1. (follows # g) \in BOOLEAN OBVIOUS
    <3>2. Drop(w, follows # g) BY <1>1, <1>4
    <3> HIDE DEF w
    <3> QED BY <1>3, <3>1, <3>2, DropIs
  <2>2. ASSUME "hasty" \notin habit, NEW h \in Streams, stream[h].state = "binding"
        PROVE  stream[h].at # w
    <3>1. session[h].state = "kept" /\ session[h].token = 0 BY <2>2 DEF BindsAlone
    <3>2. record[stream[h].at] = h BY <3>1 DEF KeptIsRecorded
    <3>3. session[record[w]].token = stream[g].token BY <1>4 DEF Owner
    <3> QED BY <1>3, <3>1, <3>2, <3>3
  <2>3. WorkersTypes' BY <1>1, <1>2, <2>1 DEF Drops, WorkersTypes
  <2>4. Routes' /\ ClicksOnce' 
    <3> HIDE DEF w
    <3> QED BY <1>1, <1>2, <1>3, <2>1, <2>2, DropKeeps
  <2> QED BY <2>3, <2>4
<1>5. CASE ~Owner(g)
  <2>1. UNCHANGED <<habit, record, session, channel, got, outbox, post>> BY <1>1, <1>5
  <2>2. WorkersTypes' BY <1>1, <1>2, <2>1 DEF WorkersTypes
  <2>3. KeptIsRecorded' BY <1>2, <2>1, RecordsStay
  <2>4. Placed' BY <1>1, <1>2, <2>1 DEF Placed, Made
  <2>5. BoundIsRead' BY <1>2, <2>1 DEF BoundIsRead
  <2>6. BindsAlone' BY <1>2, <2>1 DEF BindsAlone, Gone
  <2>7. OneRecord' /\ NoGhost' BY <2>1 DEF OneRecord, NoGhost
  <2>8. ClicksOnce' BY <2>1, ClicksStay
  <2> QED BY <2>2, <2>3, <2>4, <2>5, <2>6, <2>7, <2>8
<1> QED BY <1>4, <1>5

LEMMA PageStep ==
    ASSUME RoutesInv, Opens \/ Breaks \/ Reload \/ \E n \in Clicks : Click(n)
    PROVE  RoutesInv'
<1> USE DEF RoutesInv
<1>1. UNCHANGED <<habit, record, stream, session, channel, got>>
  BY DEF Opens, Breaks, Reload, Click, registry
<1>2. /\ post' \in [Clicks -> PostStates]
      /\ \A n \in Clicks : post[n] = "taken" => post'[n] = "taken"
  BY DEF Opens, Breaks, Reload, Click, Flushed, WorkersTypes, PostStates
<1>3. follows' \in {Nobody} \cup Streams /\ isOpen' \in BOOLEAN
  BY DEF Opens, Breaks, Reload, Click, WorkersTypes
<1>4. outbox' \in Seq(Clicks) /\ Len(outbox') <= MaxOutbox
  <2>1. CASE Opens \/ Reload
    <3>1. outbox' = <<>> BY <2>1 DEF Opens, Reload
    <3> QED BY <3>1, EmptyQueue, WorkersAssumption
  <2>2. CASE Breaks BY <2>2 DEF Breaks, WorkersTypes
  <2>3. ASSUME NEW n \in Clicks, Click(n) PROVE outbox' \in Seq(Clicks) /\ Len(outbox') <= MaxOutbox
    <3>1. outbox' = outbox \/ outbox' = Buffered(n) BY <2>3 DEF Click
    <3>2. outbox \in Seq(Clicks) /\ Len(outbox) <= MaxOutbox BY DEF WorkersTypes
    <3>3. CASE Len(outbox) >= MaxOutbox
      <4>1. outbox # <<>> BY <3>3, WorkersAssumption
      <4>2. Tail(outbox) \in Seq(Clicks) /\ Len(Tail(outbox)) = Len(outbox) - 1
        BY <3>2, <4>1, HeadTailProperties
      <4>3. /\ Append(Tail(outbox), n) \in Seq(Clicks)
            /\ Len(Append(Tail(outbox), n)) = Len(Tail(outbox)) + 1
        BY <4>2, AppendProperties
      <4>4. Buffered(n) = Append(Tail(outbox), n) BY <3>3 DEF Buffered
      <4>5. Len(outbox) \in Nat /\ Len(Append(Tail(outbox), n)) = Len(outbox) BY <3>2, <4>2, <4>3
      <4> QED BY <3>1, <3>2, <4>3, <4>4, <4>5
    <3>4. CASE ~(Len(outbox) >= MaxOutbox)
      <4>1. Append(outbox, n) \in Seq(Clicks) /\ Len(Append(outbox, n)) = Len(outbox) + 1
        BY <3>2, AppendProperties
      <4> QED BY <3>1, <3>2, <3>4, <4>1, WorkersAssumption DEF Buffered
    <3> QED BY <3>3, <3>4
  <2> QED BY <2>1, <2>2, <2>3
<1>5. WorkersTypes' BY <1>1, <1>2, <1>3, <1>4 DEF WorkersTypes
<1>6. Routes' BY <1>1, RoutesStay
<1>7. ClicksOnce' BY <1>1, <1>2, ClicksStay
<1> QED BY <1>5, <1>6, <1>7

-----------------------------------------------------------------------------
(* The clicks: where each of them is, and how it moves.                    *)

\* What the session was published, has queued, has handled.
Pub(s) == Members(got[s].published)
Queued(s) == Members(got[s].queue)
Done(s) == Members(got[s].handled)

\* Only s is given anything, and only the click n, which went nowhere yet.
GetsClick(s, n) ==
    /\ \A x \in Streams : x # s => got'[x] = got[x]
    /\ got'[s].published = got[s].published /\ got'[s].handled = got[s].handled
    /\ got'[s].queue = Append(got[s].queue, n)

LEMMA GetsOne ==
    ASSUME RoutesInv, NEW s \in Streams, NEW n \in Clicks,
           got' = [got EXCEPT ![s].queue = Append(@, n)]
    PROVE  got' \in [Streams -> Queues] /\ GetsClick(s, n)
<1>1. got \in [Streams -> Queues] /\ got[s] \in Queues /\ got[s].queue \in Seq(Clicks)
  BY FieldTypes DEF RoutesInv, WorkersTypes
<1>2. Append(got[s].queue, n) \in Seq(Clicks) BY <1>1, QueueGrows
<1> DEFINE q == Append(got[s].queue, n)
<1> HIDE DEF q
<1>3. /\ [got[s] EXCEPT !.queue = q] \in Queues
      /\ [got[s] EXCEPT !.queue = q].published = got[s].published
      /\ [got[s] EXCEPT !.queue = q].handled = got[s].handled
      /\ [got[s] EXCEPT !.queue = q].queue = q
  BY <1>1, <1>2 DEF Queues, q
<1>4. got' = [got EXCEPT ![s] = [got[s] EXCEPT !.queue = q]] BY <1>1 DEF q
<1> QED BY <1>1, <1>3, <1>4 DEF GetsClick, q

LEMMA PostStep == ASSUME RoutesInv, NEW n \in Clicks, NEW w \in Workers, Post(n, w) PROVE RoutesInv'
<1> USE DEF RoutesInv
<1>1. /\ post[n] = "sent"
      /\ UNCHANGED <<habit, record, stream, session, channel, follows, isOpen, outbox>>
  BY DEF Post, registry, page
<1>2. CASE record[w] = Nobody
  <2>1. post' = [post EXCEPT ![n] = "publishing"] /\ got' = got BY <1>2 DEF Post
  <2>2. /\ post' \in [Clicks -> PostStates]
        /\ \A m \in Clicks : post[m] = "taken" => post'[m] = "taken"
    BY <1>1, <2>1 DEF WorkersTypes, PostStates
  <2>3. WorkersTypes' BY <1>1, <2>1, <2>2 DEF WorkersTypes
  <2>4. Routes' BY <1>1, <2>1, RoutesStay
  <2>5. ClicksOnce' BY <1>1, <2>1, <2>2, ClicksStay
  <2> QED BY <2>3, <2>4, <2>5
<1>3. CASE record[w] # Nobody
  <2>1. PICK s \in Streams : s = record[w] BY <1>3 DEF WorkersTypes
  <2>2. /\ got' = [got EXCEPT ![s].queue = Append(@, n)]
        /\ post' = [post EXCEPT ![n] = "taken"]
    BY <1>3, <2>1 DEF Post, FeedLocal
  <2>3. got' \in [Streams -> Queues] /\ GetsClick(s, n) BY <2>1, <2>2, GetsOne
  <2>4. /\ post' \in [Clicks -> PostStates]
        /\ \A m \in Clicks : post'[m] = IF m = n THEN "taken" ELSE post[m]
    BY <2>2 DEF WorkersTypes, PostStates
  <2>5. WorkersTypes' BY <1>1, <2>3, <2>4 DEF WorkersTypes
  <2>6. \A x \in Streams : got'[x].published = got[x].published BY <2>3 DEF GetsClick
  <2>7. Routes' BY <1>1, <2>6, RoutesStay
  <2>8. \A x \in Streams : n \notin Pub(x) /\ n \notin Queued(x) /\ n \notin Done(x)
    BY <1>1 DEF ClicksOnce, Untaken, Pub, Queued, Done
  <2>9. got[s].queue \in Seq(Clicks) BY <2>1, FieldTypes
  <2>10. Queued(s)' = Queued(s) \cup {n} /\ (NoDup(got[s].queue) => NoDup(got'[s].queue))
    BY <2>3, <2>8, <2>9, QueueGrows DEF GetsClick, Queued
  <2>11. \A x \in Streams : Pub(x)' = Pub(x) /\ Done(x)' = Done(x) /\ (x # s => Queued(x)' = Queued(x))
    BY <2>3 DEF GetsClick, Pub, Queued, Done
  <2>12. Untaken' BY <2>4, <2>10, <2>11 DEF ClicksOnce, Untaken, Pub, Queued, Done
  <2>13. HasOnce'
    <3> SUFFICES ASSUME NEW x \in Streams
                 PROVE  /\ NoDup(got'[x].published) /\ NoDup(got'[x].queue) /\ NoDup(got'[x].handled)
                        /\ Pub(x)' \cap Queued(x)' = {} /\ Pub(x)' \cap Done(x)' = {}
                        /\ Queued(x)' \cap Done(x)' = {}
      BY DEF HasOnce, Pub, Queued, Done
    <3>1. /\ NoDup(got[x].published) /\ NoDup(got[x].queue) /\ NoDup(got[x].handled)
          /\ Pub(x) \cap Queued(x) = {} /\ Pub(x) \cap Done(x) = {} /\ Queued(x) \cap Done(x) = {}
      BY DEF ClicksOnce, HasOnce, Pub, Queued, Done
    <3>2. NoDup(got'[x].published) /\ NoDup(got'[x].handled) BY <2>3, <3>1 DEF GetsClick
    <3>3. NoDup(got'[x].queue) BY <2>3, <2>10, <3>1 DEF GetsClick
    <3> QED BY <2>8, <2>10, <2>11, <3>1, <3>2, <3>3
  <2>14. OneTaker'
    <3> SUFFICES ASSUME "roams" \notin habit, NEW m \in Clicks, NEW x \in Streams, NEW o \in Streams,
                        MayHandle(x, m)', MayHandle(o, m)'
                 PROVE  x = o
      BY <1>1 DEF OneTaker
    <3>1. CASE m = n
      <4>1. \A y \in Streams : MayHandle(y, n)' => y = s
        BY <2>8, <2>11 DEF MayHandle, Pub, Queued, Done
      <4> QED BY <3>1, <4>1
    <3>2. CASE m # n
      <4>1. \A y \in Streams : MayHandle(y, m)' => MayHandle(y, m)
        BY <1>1, <2>10, <2>11, <3>2 DEF MayHandle, Pub, Queued, Done
      <4> QED BY <4>1 DEF ClicksOnce, OneTaker
    <3> QED BY <3>1, <3>2
  <2> QED BY <2>5, <2>7, <2>12, <2>13, <2>14 DEF ClicksOnce
<1> QED BY <1>2, <1>3

LEMMA PublishStep == ASSUME RoutesInv, NEW n \in Clicks, Publish(n) PROVE RoutesInv'
<1> USE DEF RoutesInv
<1> DEFINE receivers == {s \in Streams : channel[s].subscribed}
<1>1. /\ post[n] = "publishing"
      /\ got' = [s \in Streams |-> IF s \in receivers
                   THEN [got[s] EXCEPT !.published = Append(@, n)] ELSE got[s]]
      /\ post' = [post EXCEPT ![n] = Answer(receivers)]
      /\ UNCHANGED <<habit, record, stream, session, channel, follows, isOpen, outbox>>
  BY DEF Publish, registry, page
<1>2. \A x \in Streams : n \notin Pub(x) /\ n \notin Queued(x) /\ n \notin Done(x)
  BY <1>1 DEF ClicksOnce, Untaken, Pub, Queued, Done
<1>3. \A x \in Streams :
        /\ got'[x] \in Queues
        /\ got'[x].queue = got[x].queue /\ got'[x].handled = got[x].handled
        /\ x \in receivers => /\ Pub(x)' = Pub(x) \cup {n}
                              /\ NoDup(got[x].published) => NoDup(got'[x].published)
        /\ x \notin receivers => got'[x] = got[x]
  <2> SUFFICES ASSUME NEW x \in Streams
               PROVE  /\ got'[x] \in Queues
                      /\ got'[x].queue = got[x].queue /\ got'[x].handled = got[x].handled
                      /\ x \in receivers => /\ Pub(x)' = Pub(x) \cup {n}
                                            /\ NoDup(got[x].published) => NoDup(got'[x].published)
                      /\ x \notin receivers => got'[x] = got[x]
    OBVIOUS
  <2>1. got[x] \in Queues /\ got[x].published \in Seq(Clicks) BY FieldTypes
  <2> DEFINE q == Append(got[x].published, n)
  <2>2. q \in Seq(Clicks) /\ Members(q) = Pub(x) \cup {n} /\ (NoDup(got[x].published) => NoDup(q))
    BY <1>2, <2>1, QueueGrows DEF Pub
  <2>3. CASE x \in receivers
    <3>1. got'[x] = [got[x] EXCEPT !.published = q] BY <1>1, <2>3
    <3> HIDE DEF q
    <3>2. /\ got'[x] \in Queues /\ got'[x].published = q
          /\ got'[x].queue = got[x].queue /\ got'[x].handled = got[x].handled
      BY <2>1, <2>2, <3>1 DEF Queues
    <3> QED BY <2>2, <2>3, <3>2 DEF Pub
  <2>4. CASE x \notin receivers BY <1>1, <2>1, <2>4
  <2> QED BY <2>3, <2>4
<1>4. \A x \in Streams : /\ Queued(x)' = Queued(x) /\ Done(x)' = Done(x)
                         /\ x \notin receivers => Pub(x)' = Pub(x)
  BY <1>3 DEF Pub, Queued, Done
<1>5. /\ post' \in [Clicks -> PostStates]
      /\ \A m \in Clicks : m # n => post'[m] = post[m]
      /\ receivers # {} => post'[n] = "taken"
  BY <1>1 DEF WorkersTypes, PostStates, Answer
<1>6. got' \in [Streams -> Queues] BY <1>1, <1>3
<1>7. WorkersTypes' BY <1>1, <1>5, <1>6 DEF WorkersTypes
<1>8. Routes' 
  <2>1. \A x \in Streams : got'[x].published # <<>> => got[x].published # <<>> \/ channel[x].subscribed
    BY <1>3
  <2> QED BY <1>1, <2>1, RoutesStay
<1>9. Untaken'
  <2> SUFFICES ASSUME NEW m \in Clicks, post'[m] # "taken", NEW x \in Streams
               PROVE  m \notin Pub(x)' /\ m \notin Queued(x)' /\ m \notin Done(x)'
    BY DEF Untaken, Pub, Queued, Done
  <2>1. CASE m = n BY <1>2, <1>4, <1>5, <2>1
  <2>2. CASE m # n
    <3>1. m \notin Pub(x) /\ m \notin Queued(x) /\ m \notin Done(x)
      BY <1>5, <2>2 DEF ClicksOnce, Untaken, Pub, Queued, Done
    <3> QED BY <1>3, <1>4, <2>2, <3>1
  <2> QED BY <2>1, <2>2
<1>10. HasOnce'
  <2> SUFFICES ASSUME NEW x \in Streams
               PROVE  /\ NoDup(got'[x].published) /\ NoDup(got'[x].queue) /\ NoDup(got'[x].handled)
                      /\ Pub(x)' \cap Queued(x)' = {} /\ Pub(x)' \cap Done(x)' = {}
                      /\ Queued(x)' \cap Done(x)' = {}
    BY DEF HasOnce, Pub, Queued, Done
  <2>1. /\ NoDup(got[x].published) /\ NoDup(got[x].queue) /\ NoDup(got[x].handled)
        /\ Pub(x) \cap Queued(x) = {} /\ Pub(x) \cap Done(x) = {} /\ Queued(x) \cap Done(x) = {}
    BY DEF ClicksOnce, HasOnce, Pub, Queued, Done
  <2>2. NoDup(got'[x].published) /\ NoDup(got'[x].queue) /\ NoDup(got'[x].handled) BY <1>3, <2>1
  <2>3. Pub(x)' \subseteq Pub(x) \cup {n} BY <1>3, <1>4
  <2> QED BY <1>2, <1>4, <2>1, <2>2, <2>3
<1>11. OneTaker'
  <2> SUFFICES ASSUME "roams" \notin habit, NEW m \in Clicks, NEW x \in Streams, NEW o \in Streams,
                      MayHandle(x, m)', MayHandle(o, m)'
               PROVE  x = o
    BY <1>1 DEF OneTaker
  <2>1. CASE m = n
    <3>1. \A y \in Streams : MayHandle(y, n)' => session[y].state = "kept"
      BY <1>1, <1>2, <1>4 DEF MayHandle, Pub, Queued, Done, Routes, BoundIsRead
    <3>2. \A y \in Streams : MayHandle(y, n)' => stream[y].at \in Workers /\ record[stream[y].at] = y
      BY <3>1 DEF Routes, Placed, KeptIsRecorded
    <3>3. \A y \in Streams : y # Nobody BY WorkersAssumption DEF Streams, Nobody
    <3> QED BY <2>1, <3>2, <3>3 DEF Routes, OneRecord
  <2>2. CASE m # n
    <3>1. \A y \in Streams : MayHandle(y, m)' => MayHandle(y, m)
      <4> SUFFICES ASSUME NEW y \in Streams, MayHandle(y, m)' PROVE MayHandle(y, m) OBVIOUS
      <4>1. /\ m \in Pub(y)' => m \in Pub(y)
            /\ m \in Queued(y)' => m \in Queued(y)
            /\ m \in Done(y)' => m \in Done(y)
        BY <1>3, <1>4, <2>2
      <4> QED BY <1>1, <4>1 DEF MayHandle, Pub, Queued, Done
    <3> QED BY <3>1 DEF ClicksOnce, OneTaker
  <2> QED BY <2>1, <2>2
<1> QED BY <1>7, <1>8, <1>9, <1>10, <1>11 DEF ClicksOnce

\* A click moves within its session.
LEMMA ClickMoves ==
    ASSUME RoutesInv, NEW s \in Streams, UNCHANGED <<habit, post>>,
           \A x \in Streams : x # s => got'[x] = got[x],
           \A x \in Streams : session'[x] = session[x] /\ channel'[x] = channel[x],
           NoDup(got'[s].published), NoDup(got'[s].queue), NoDup(got'[s].handled),
           Pub(s)' \cap Queued(s)' = {}, Pub(s)' \cap Done(s)' = {}, Queued(s)' \cap Done(s)' = {},
           Pub(s)' \cup Queued(s)' \cup Done(s)' \subseteq Pub(s) \cup Queued(s) \cup Done(s),
           \A n \in Clicks : MayHandle(s, n)' => MayHandle(s, n)
    PROVE  ClicksOnce'
<1> USE DEF RoutesInv
<1>1. Untaken'
  <2> SUFFICES ASSUME NEW n \in Clicks, post[n] # "taken", NEW x \in Streams
               PROVE  n \notin Pub(x)' \cup Queued(x)' \cup Done(x)'
    BY DEF Untaken, Pub, Queued, Done
  <2>1. n \notin Pub(x) \cup Queued(x) \cup Done(x)
    BY DEF ClicksOnce, Untaken, Pub, Queued, Done
  <2>2. CASE x = s BY <2>1, <2>2
  <2>3. CASE x # s BY <2>1, <2>3 DEF Pub, Queued, Done
  <2> QED BY <2>2, <2>3
<1>2. HasOnce' BY DEF ClicksOnce, HasOnce, Pub, Queued, Done
<1>3. \A x \in Streams, n \in Clicks : MayHandle(x, n)' => MayHandle(x, n) BY DEF MayHandle
<1>4. OneTaker' BY <1>3 DEF ClicksOnce, OneTaker
<1> QED BY <1>1, <1>2, <1>4 DEF ClicksOnce

LEMMA FeedStep == ASSUME RoutesInv, NEW s \in Streams, Feed(s) PROVE RoutesInv'
<1> USE DEF RoutesInv
<1>1. /\ got[s].published # <<>> /\ channel[s].read
      /\ UNCHANGED <<habit, record, stream, session, channel, follows, isOpen, outbox, post>>
  BY DEF Feed, registry, page
<1>2. /\ got \in [Streams -> Queues] /\ got[s] \in Queues
      /\ got[s].published \in Seq(Clicks) /\ got[s].queue \in Seq(Clicks)
  BY FieldTypes DEF WorkersTypes
<1>3. /\ NoDup(got[s].published) /\ NoDup(got[s].queue) /\ NoDup(got[s].handled)
      /\ Pub(s) \cap Queued(s) = {} /\ Pub(s) \cap Done(s) = {} /\ Queued(s) \cap Done(s) = {}
  BY DEF ClicksOnce, HasOnce, Pub, Queued, Done
<1> DEFINE h == Head(got[s].published)
           rest == Tail(got[s].published)
           q == Append(got[s].queue, h)
<1>4. /\ rest \in Seq(Clicks) /\ h \in Clicks /\ h \in Pub(s)
      /\ Members(rest) = Pub(s) \ {h} /\ NoDup(rest)
  BY <1>1, <1>2, <1>3, QueueShrinks DEF Pub
<1>5. q \in Seq(Clicks) /\ Members(q) = Queued(s) \cup {h} /\ NoDup(q)
  <2> HIDE DEF h
  <2>1. h \notin Members(got[s].queue) BY <1>3, <1>4 DEF Queued
  <2> QED BY <1>2, <1>3, <1>4, <2>1, QueueGrows DEF Queued
<1>6. got' = [got EXCEPT ![s] = [got[s] EXCEPT !.published = rest, !.queue = q]]
  BY <1>2 DEF Feed
<1> HIDE DEF h, rest, q
<1>7. /\ [got[s] EXCEPT !.published = rest, !.queue = q] \in Queues
      /\ [got[s] EXCEPT !.published = rest, !.queue = q].published = rest
      /\ [got[s] EXCEPT !.published = rest, !.queue = q].queue = q
      /\ [got[s] EXCEPT !.published = rest, !.queue = q].handled = got[s].handled
  <2> DEFINE left == [got[s] EXCEPT !.published = rest]
  <2>1. /\ left \in Queues /\ left.published = rest
        /\ left.handled = got[s].handled
    BY <1>2, <1>4 DEF Queues
  <2> HIDE DEF left
  <2>2. /\ [left EXCEPT !.queue = q] \in Queues
        /\ [left EXCEPT !.queue = q].published = rest
        /\ [left EXCEPT !.queue = q].queue = q
        /\ [left EXCEPT !.queue = q].handled = got[s].handled
    BY <1>5, <2>1 DEF Queues
  <2> QED BY <2>2 DEF left
<1>8. /\ got' \in [Streams -> Queues]
      /\ got'[s].published = rest /\ got'[s].queue = q /\ got'[s].handled = got[s].handled
      /\ \A x \in Streams : x # s => got'[x] = got[x]
  BY <1>2, <1>6, <1>7
<1>9. /\ Pub(s)' = Pub(s) \ {h} /\ Queued(s)' = Queued(s) \cup {h} /\ Done(s)' = Done(s)
  BY <1>4, <1>5, <1>8 DEF Pub, Queued, Done
<1>10. WorkersTypes' BY <1>1, <1>8 DEF WorkersTypes
<1>11. Routes'
  <2>1. \A x \in Streams : got'[x].published # <<>> => got[x].published # <<>> BY <1>1, <1>8
  <2> QED BY <1>1, <2>1, RoutesStay
<1>12. \A n \in Clicks : MayHandle(s, n)' => MayHandle(s, n)
  BY <1>1, <1>4, <1>9 DEF MayHandle, Pub, Queued, Done
<1>13. ClicksOnce' BY <1>1, <1>3, <1>4, <1>5, <1>8, <1>9, <1>12, ClickMoves
<1> QED BY <1>10, <1>11, <1>13

LEMMA HandleStep == ASSUME RoutesInv, NEW s \in Streams, Handle(s) PROVE RoutesInv'
<1> USE DEF RoutesInv
<1>1. /\ got[s].queue # <<>> /\ session[s].state # "closed"
      /\ UNCHANGED <<habit, record, stream, session, channel, follows, isOpen, outbox, post>>
  BY DEF Handle, registry, page
<1>2. /\ got \in [Streams -> Queues] /\ got[s] \in Queues
      /\ got[s].queue \in Seq(Clicks) /\ got[s].handled \in Seq(Clicks)
  BY FieldTypes DEF WorkersTypes
<1>3. /\ NoDup(got[s].published) /\ NoDup(got[s].queue) /\ NoDup(got[s].handled)
      /\ Pub(s) \cap Queued(s) = {} /\ Pub(s) \cap Done(s) = {} /\ Queued(s) \cap Done(s) = {}
  BY DEF ClicksOnce, HasOnce, Pub, Queued, Done
<1> DEFINE h == Head(got[s].queue)
           rest == Tail(got[s].queue)
           q == Append(got[s].handled, h)
<1>4. /\ rest \in Seq(Clicks) /\ h \in Clicks /\ h \in Queued(s)
      /\ Members(rest) = Queued(s) \ {h} /\ NoDup(rest)
  BY <1>1, <1>2, <1>3, QueueShrinks DEF Queued
<1>5. q \in Seq(Clicks) /\ Members(q) = Done(s) \cup {h} /\ NoDup(q)
  <2> HIDE DEF h
  <2>1. h \notin Members(got[s].handled) BY <1>3, <1>4 DEF Done
  <2> QED BY <1>2, <1>3, <1>4, <2>1, QueueGrows DEF Done
<1>6. got' = [got EXCEPT ![s] = [got[s] EXCEPT !.queue = rest, !.handled = q]]
  BY <1>2 DEF Handle
<1> HIDE DEF h, rest, q
<1>7. /\ [got[s] EXCEPT !.queue = rest, !.handled = q] \in Queues
      /\ [got[s] EXCEPT !.queue = rest, !.handled = q].queue = rest
      /\ [got[s] EXCEPT !.queue = rest, !.handled = q].handled = q
      /\ [got[s] EXCEPT !.queue = rest, !.handled = q].published = got[s].published
  <2> DEFINE left == [got[s] EXCEPT !.queue = rest]
  <2>1. /\ left \in Queues /\ left.queue = rest
        /\ left.published = got[s].published
    BY <1>2, <1>4 DEF Queues
  <2> HIDE DEF left
  <2>2. /\ [left EXCEPT !.handled = q] \in Queues
        /\ [left EXCEPT !.handled = q].queue = rest
        /\ [left EXCEPT !.handled = q].handled = q
        /\ [left EXCEPT !.handled = q].published = got[s].published
    BY <1>5, <2>1 DEF Queues
  <2> QED BY <2>2 DEF left
<1>8. /\ got' \in [Streams -> Queues]
      /\ got'[s].queue = rest /\ got'[s].handled = q /\ got'[s].published = got[s].published
      /\ \A x \in Streams : x # s => got'[x] = got[x]
  BY <1>2, <1>6, <1>7
<1>9. Queued(s)' = Queued(s) \ {h} /\ Done(s)' = Done(s) \cup {h} /\ Pub(s)' = Pub(s)
  BY <1>4, <1>5, <1>8 DEF Pub, Queued, Done
<1>10. WorkersTypes' BY <1>1, <1>8 DEF WorkersTypes
<1>11. Routes'
  <2>1. \A x \in Streams : got'[x].published # <<>> => got[x].published # <<>> BY <1>8
  <2> QED BY <1>1, <2>1, RoutesStay
<1>12. \A n \in Clicks : MayHandle(s, n)' => MayHandle(s, n)
  BY <1>1, <1>4, <1>9 DEF MayHandle, Pub, Queued, Done
<1>13. ClicksOnce' BY <1>1, <1>3, <1>4, <1>5, <1>8, <1>9, <1>12, ClickMoves
<1> QED BY <1>10, <1>11, <1>13

-----------------------------------------------------------------------------
(* The theorems.                                                           *)

LEMMA WorkersStep == ASSUME RoutesInv, [WorkersNext]_workersVars PROVE RoutesInv'
<1>1. CASE UNCHANGED workersVars
  <2>1. UNCHANGED <<habit, record, stream, session, channel, got, follows, isOpen, outbox, post>>
    BY <1>1 DEF workersVars, registry, page
  <2>2. WorkersTypes' BY <2>1 DEF RoutesInv, WorkersTypes
  <2>3. Routes' BY <2>1, RoutesStay
  <2>4. ClicksOnce' BY <2>1, ClicksStay
  <2> QED BY <2>2, <2>3, <2>4 DEF RoutesInv
<1>2. CASE Opens \/ Breaks \/ Reload \/ \E n \in Clicks : Click(n) BY <1>2, PageStep
<1>3. ASSUME NEW w \in Workers, Connect(w) PROVE RoutesInv' BY <1>3, ConnectStep
<1>4. ASSUME NEW g \in Streams,
             BindEnds(g) \/ BodyBegins(g) \/ Ends(g) \/ TeardownEnds(g) \/ TaskUnwinds(g)
      PROVE  RoutesInv'
  BY <1>4, BindStep, BodyStep, EndsStep, TeardownStep, UnwindStep
<1>5. ASSUME NEW s \in Streams, Feed(s) \/ Handle(s) PROVE RoutesInv' BY <1>5, FeedStep, HandleStep
<1>6. ASSUME NEW n \in Clicks, PostEnds(n) PROVE RoutesInv'
  BY <1>6, PublishStep, PostStep DEF PostEnds
<1> QED BY <1>1, <1>2, <1>3, <1>4, <1>5, <1>6 DEF WorkersNext

\* RedisSessionRouter (server/sessions.py) and _open_sse, _release_sse and
\* _drop_sse (server/app.py), for any number of workers, streams and clicks:
\* a worker's record is of a kept session it made, only a session whose bind
\* ended is subscribed or read, and a click is in one place of a session.
THEOREM WorkersInvariant == WorkersSpec => []RoutesInv
<1> QED BY WorkersStart, WorkersStep, PTL DEF WorkersSpec

LEMMA RoutesInvHolds == RoutesInv => RoutesHold
<1> SUFFICES ASSUME RoutesInv PROVE RoutesHold OBVIOUS
<1>1. ASSUME "roams" \notin habit, NEW s \in Streams, NEW o \in Streams,
             NEW i \in 1..Len(got[s].handled), NEW j \in 1..Len(got[o].handled),
             got[s].handled[i] = got[o].handled[j]
      PROVE  s = o /\ i = j
  <2> DEFINE n == got[s].handled[i]
  <2>1. n \in Members(got[s].handled) /\ n \in Members(got[o].handled) BY <1>1 DEF Members
  <2>2. got[s].handled \in Seq(Clicks) BY FieldTypes DEF RoutesInv
  <2>3. n \in Clicks BY <2>2
  <2>4. s = o BY <1>1, <2>1, <2>3 DEF RoutesInv, ClicksOnce, OneTaker, MayHandle
  <2> QED BY <1>1, <2>4 DEF RoutesInv, ClicksOnce, HasOnce, NoDup
<1>2. ClickOnce BY <1>1 DEF ClickOnce
<1> QED BY <1>2 DEF RoutesInv, Routes, RoutesHold

\* RedisSessionRouter.deliver and bind, for any number of workers, streams and
\* clicks: the clicks of a page that does not roam are handled once each, and
\* no subscription outlives its session unless one is dropped while it binds or
\* its teardown is cut.
THEOREM RoutesStayTrue == WorkersSpec => []RoutesHold
<1> QED BY WorkersInvariant, RoutesInvHolds, PTL
=============================================================================
