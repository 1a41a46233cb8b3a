------------------------- MODULE OfflineQueue_proofs -------------------------
(***************************************************************************)
(* Safety of the offline write queue for any number of drainers, mutations *)
(* and attempts, whatever is lost, strays or dies; and, for a page that    *)
(* drains alone, that the queue implements OrderedDelivery.                *)
(***************************************************************************)
EXTENDS OfflineQueue, SequenceTheorems, WellFoundedInduction, TLAPS

Known == 1 .. enqueued
Verdicts == {"ok", "conflict", "rejected", "transient"}
DrainerStates == [stage : {"idle", "asked", "answered"}, verdict : {"none"} \cup Verdicts,
                  left : SUBSET Rows, seen : [Rows -> 0 .. MaxAttempts]]
RowStates == [status : {"gone", "pending", "failed", "conflict"}, attempts : 0 .. MaxAttempts]

(* What the rows, the drainers and the server know of each other.          *)

\* Only mutations that were made are in the store, at the server, or astray.
OnlyKnown ==
    /\ applied \in Seq(Known) /\ stray \subseteq Known
    /\ \A r \in Rows : r > enqueued => store[r] = Gone

\* A row that waits has attempts left; one that is gone left nothing behind.
RowsAreWhole == \A r \in Rows :
    /\ store[r].status = "pending" => store[r].attempts < MaxAttempts
    /\ store[r].status = "gone" => store[r] = Gone

\* A drainer that is at work has known rows left, which had attempts left when
\* it read them.
DrainersHoldRows == \A d \in Drainers : drainer[d].stage # "idle" =>
    /\ drainer[d].left # {} /\ drainer[d].left \subseteq Known
    /\ \A r \in drainer[d].left : drainer[d].seen[r] < MaxAttempts

\* A drainer that was answered has a verdict, and one that was told "ok" holds a
\* row the server did apply.
AnswersAreTrue == \A d \in Drainers : drainer[d].stage = "answered" =>
    /\ drainer[d].verdict \in Verdicts
    /\ drainer[d].verdict = "ok" => IsApplied(Current(d))

Relations == OnlyKnown /\ RowsAreWhole /\ DrainersHoldRows /\ AnswersAreTrue /\ NothingLost

IInv == TypeOK /\ Relations

\* What holds besides when the page drains alone: its snapshot is the oldest of
\* what is pending, and nobody else does anything.
SnapshotIsOldest ==
    /\ drainer[Page].stage = "idle" => drainer[Page].left = {}
    /\ \A r \in drainer[Page].left : store[r].status = "pending"
    /\ \A r \in Pending \ drainer[Page].left, q \in drainer[Page].left : q < r

Alone == habit = {} =>
    /\ ~syncDue /\ stray = {}
    /\ \A w \in Workers : drainer[w].stage = "idle"
    /\ SnapshotIsOldest

-----------------------------------------------------------------------------
(* Lemmas.                                                                 *)

\* A set of natural numbers that is not empty has a least one.
LEMMA LeastExists ==
    ASSUME NEW T \in SUBSET Nat, T # {}
    PROVE  \E m \in T : \A k \in T : m <= k
<1>1. PICK m \in T : \A y \in T : ~(<<y, m>> \in OpToRel(<, Nat))
  BY WFMin, NatLessThanWellFounded, Zenon
<1>2. \A y \in T : ~(y < m)
  BY <1>1 DEF OpToRel
<1> QED BY <1>2

\* So a drainer with rows left has a current one, and it is the oldest.
LEMMA OldestIsLeast ==
    ASSUME NEW T \in SUBSET Nat, T # {}
    PROVE  Oldest(T) \in T /\ \A k \in T : Oldest(T) <= k
  BY LeastExists, Zenon DEF Oldest

LEMMA CurrentIsLeft ==
    ASSUME BoundsAssumption, IInv, NEW d \in Drainers, drainer[d].stage # "idle"
    PROVE  /\ Current(d) \in drainer[d].left /\ Current(d) \in Known /\ Current(d) \in Rows
           /\ \A q \in drainer[d].left : Current(d) <= q
<1>1. drainer[d].left \in SUBSET Nat /\ drainer[d].left # {} /\ drainer[d].left \subseteq Known
  BY DEF IInv, TypeOK, Relations, DrainersHoldRows, Rows
<1>2. Known \subseteq Rows
  BY DEF BoundsAssumption, IInv, TypeOK, Known, Rows
<1> QED BY <1>1, <1>2, OldestIsLeast DEF Current

\* What the server applied stays applied, and one more mutation may be.
LEMMA ApplyOne ==
    ASSUME NEW S, applied \in Seq(S), NEW r \in S, applied' = Append(applied, r)
    PROVE  \A q : IsApplied(q)' <=> IsApplied(q) \/ q = r
<1>1. /\ Len(applied) \in Nat
      /\ DOMAIN applied = 1 .. Len(applied)
      /\ DOMAIN applied' = 1 .. (Len(applied) + 1)
      /\ \A i \in 1 .. Len(applied) : applied'[i] = applied[i]
      /\ applied'[Len(applied) + 1] = r
  BY AppendProperties, LenProperties
<1> SUFFICES ASSUME NEW q
             PROVE  (\E i \in 1 .. (Len(applied) + 1) : applied'[i] = q)
                       <=> (\E i \in 1 .. Len(applied) : applied[i] = q) \/ q = r
  BY <1>1 DEF IsApplied
<1> QED BY <1>1


LEMMA TypeParts ==
    ASSUME TypeOK
    PROVE  /\ drainer \in [Drainers -> DrainerStates] /\ store \in [Rows -> RowStates]
           /\ enqueued \in 0 .. MaxRows /\ crashes \in 0 .. MaxCrashes
  BY DEF TypeOK, DrainerStates, RowStates, Verdicts

\* An answer changes neither the rows a drainer has left nor what it read.
LEMMA AnsweredKeeps ==
    ASSUME drainer \in [Drainers -> DrainerStates], NEW d \in Drainers,
           NEW verdict \in Verdicts, Answered(d, verdict)
    PROVE  /\ drainer' \in [Drainers -> DrainerStates]
           /\ drainer'[d].stage = "answered" /\ drainer'[d].verdict = verdict
           /\ \A e \in Drainers : /\ drainer'[e].left = drainer[e].left
                                  /\ drainer'[e].seen = drainer[e].seen
                                  /\ e # d => drainer'[e] = drainer[e]
  BY DEF Answered, DrainerStates, Verdicts

\* A drainer goes on with what is left, or is done.
LEMMA SendingState ==
    ASSUME NEW left \in SUBSET Rows, NEW seen \in [Rows -> 0 .. MaxAttempts]
    PROVE  /\ Sending(left, seen) \in DrainerStates
           /\ Sending(left, seen).stage \in {"idle", "asked"}
           /\ Sending(left, seen).left = left
           /\ Sending(left, seen).stage # "idle" => left # {} /\ Sending(left, seen).seen = seen
<1>1. 0 \in 0 .. MaxAttempts
  BY BoundsAssumption DEF BoundsAssumption
<1> QED BY <1>1 DEF Sending, Idle, DrainerStates

\* Who is current depends on what is left only.
LEMMA SameCurrent ==
    ASSUME NEW d \in Drainers, drainer'[d].left = drainer[d].left
    PROVE  Current(d)' = Current(d)
  BY DEF Current

-----------------------------------------------------------------------------
(* The invariant is inductive, action by action.                           *)

USE DEF vars

LEMMA InitIInv == ASSUME BoundsAssumption PROVE Init => IInv
<1> SUFFICES ASSUME Init PROVE IInv OBVIOUS
<1>1. Gone \in RowStates /\ Idle \in DrainerStates
  BY BoundsAssumption DEF BoundsAssumption, Gone, Idle, RowStates, DrainerStates
<1>2. TypeOK
  <2>1. store \in [Rows -> RowStates] /\ drainer \in [Drainers -> DrainerStates]
    BY <1>1 DEF Init
  <2>2. /\ enqueued \in 0 .. MaxRows /\ crashes \in 0 .. MaxCrashes
        /\ applied \in Seq(Rows)
    BY BoundsAssumption DEF BoundsAssumption, Init
  <2> QED BY <2>1, <2>2 DEF Init, TypeOK, RowStates, DrainerStates, Verdicts
<1>3. \A r \in Rows : store[r] = Gone BY DEF Init
<1>4. \A d \in Drainers : drainer[d].stage = "idle" BY DEF Init, Idle
<1> QED BY <1>2, <1>3, <1>4
        DEF IInv, Relations, OnlyKnown, RowsAreWhole, DrainersHoldRows, AnswersAreTrue,
            NothingLost, Init, Gone, Known

LEMMA EnqueueIInv == ASSUME IInv, Enqueue PROVE IInv'
<1> DEFINE row == [status |-> "pending", attempts |-> 0]
<1>1. /\ enqueued' = enqueued + 1 /\ enqueued' \in Rows /\ enqueued \in Nat
      /\ store' = [store EXCEPT ![enqueued'] = row] /\ row \in RowStates
      /\ UNCHANGED <<habit, drainer, applied, stray, crashes>> /\ syncDue' \in BOOLEAN
  BY BoundsAssumption
     DEF BoundsAssumption, IInv, TypeOK, Enqueue, Rows, RowStates
<1>2. TypeOK'
  BY <1>1, TypeParts DEF IInv, TypeOK, RowStates, Rows
<1>3. OnlyKnown'
  <2>1. applied' \in Seq(Known)' BY <1>1, SeqMonotonic DEF IInv, Relations, OnlyKnown, Known
  <2> QED BY <1>1, <2>1 DEF IInv, Relations, OnlyKnown, Known, TypeOK
<1>4. RowsAreWhole'
  BY <1>1, BoundsAssumption DEF BoundsAssumption, IInv, TypeOK, Relations, RowsAreWhole
<1>5. DrainersHoldRows'
  BY <1>1 DEF IInv, Relations, DrainersHoldRows, Known
<1>6. AnswersAreTrue'
  BY <1>1 DEF IInv, Relations, AnswersAreTrue, IsApplied, Current
<1>7. NothingLost'
  BY <1>1 DEF IInv, TypeOK, Relations, NothingLost, IsApplied, Gone
<1> QED BY <1>2, <1>3, <1>4, <1>5, <1>6, <1>7 DEF IInv, Relations

\* A replay begins, whoever asks for it.
LEMMA ReplayIInv ==
    ASSUME IInv, NEW d \in Drainers, Replay(d), syncDue' \in BOOLEAN,
           UNCHANGED <<habit, enqueued, store, applied, stray, crashes>>
    PROVE  IInv'
<1> DEFINE seen == [r \in Rows |-> store[r].attempts]
           new == Sending(Pending, seen)
<1>1. drainer' = [drainer EXCEPT ![d] = new] BY DEF Replay
<1>2. Pending \in SUBSET Rows /\ seen \in [Rows -> 0 .. MaxAttempts]
  BY DEF IInv, TypeOK, Pending
<1>3. /\ new \in DrainerStates /\ new.stage \in {"idle", "asked"}
      /\ new.stage # "idle" => Pending # {} /\ new.left = Pending /\ new.seen = seen
  BY <1>2, SendingState
<1>4. TypeOK'
  BY <1>1, <1>3, TypeParts DEF IInv, TypeOK, DrainerStates, Verdicts
<1>5. DrainersHoldRows'
  <2>1. /\ Pending \subseteq Known
        /\ \A r \in Pending : seen[r] < MaxAttempts
    <3>1. \A r \in Pending : r <= enqueued /\ r >= 1
      BY DEF IInv, TypeOK, Relations, OnlyKnown, Pending, Rows, Gone
    <3> QED BY <3>1 DEF IInv, TypeOK, Relations, RowsAreWhole, Pending, Known, Rows
  <2> SUFFICES ASSUME NEW e \in Drainers, drainer'[e].stage # "idle"
               PROVE  /\ drainer'[e].left # {} /\ drainer'[e].left \subseteq Known
                      /\ \A r \in drainer'[e].left : drainer'[e].seen[r] < MaxAttempts
    BY DEF DrainersHoldRows, Known
  <2>2. CASE e = d
    BY <2>2, <2>1, <1>1, <1>3, TypeParts DEF IInv
  <2>3. CASE e # d
    BY <2>3, <1>1, TypeParts DEF IInv, Relations, DrainersHoldRows
  <2> QED BY <2>2, <2>3
<1>6. AnswersAreTrue'
  BY <1>1, <1>3, TypeParts DEF IInv, Relations, AnswersAreTrue, IsApplied, Current
<1>7. (OnlyKnown /\ RowsAreWhole /\ NothingLost)'
  BY DEF IInv, Relations, OnlyKnown, RowsAreWhole, NothingLost, IsApplied, Known
<1> QED BY <1>4, <1>5, <1>6, <1>7 DEF IInv, Relations

\* The server applies a mutation that was made, or had applied it already.
LEMMA ApplyIInv ==
    ASSUME IInv, NEW r \in Known,
           applied' = applied \/ applied' = Append(applied, r)
    PROVE  /\ applied' \in Seq(Known) /\ applied' \in Seq(Rows)
           /\ \A q : IsApplied(q) => IsApplied(q)'
<1>1. Known \subseteq Rows
  BY BoundsAssumption DEF BoundsAssumption, IInv, TypeOK, Known, Rows
<1>2. applied \in Seq(Known) BY DEF IInv, Relations, OnlyKnown
<1>3. applied' \in Seq(Known) BY <1>2, AppendProperties
<1>4. applied' \in Seq(Rows) BY <1>1, <1>3, SeqMonotonic
<1>5. CASE applied' = applied BY <1>3, <1>4, <1>5 DEF IsApplied
<1>6. CASE applied' = Append(applied, r) BY <1>2, <1>3, <1>4, <1>6, ApplyOne
<1> QED BY <1>5, <1>6

\* An answer, or none: what the drainer is told is true of what the server did.
LEMMA AnswerIInv ==
    ASSUME IInv, NEW d \in Drainers, drainer[d].stage # "idle",
           NEW verdict \in Verdicts, Answered(d, verdict),
           applied' = applied \/ applied' = Append(applied, Current(d)),
           verdict = "ok" => IsApplied(Current(d))',
           stray' \subseteq stray \cup {Current(d)},
           UNCHANGED <<habit, enqueued, store, syncDue, crashes>>
    PROVE  IInv'
<1>1. Current(d) \in Known /\ Current(d) \in Rows
  BY CurrentIsLeft, BoundsAssumption
<1>2. /\ applied' \in Seq(Known) /\ applied' \in Seq(Rows)
      /\ \A q : IsApplied(q) => IsApplied(q)'
  BY <1>1, ApplyIInv
<1>3. /\ drainer' \in [Drainers -> DrainerStates]
      /\ drainer'[d].stage = "answered" /\ drainer'[d].verdict = verdict
      /\ \A e \in Drainers : /\ drainer'[e].left = drainer[e].left
                             /\ drainer'[e].seen = drainer[e].seen
                             /\ e # d => drainer'[e] = drainer[e]
  BY AnsweredKeeps, TypeParts DEF IInv
<1>4. TypeOK'
  BY <1>1, <1>2, <1>3 DEF IInv, TypeOK, DrainerStates, Verdicts
<1>5. OnlyKnown'
  BY <1>1, <1>2 DEF IInv, Relations, OnlyKnown, Known
<1>6. DrainersHoldRows'
  BY <1>3 DEF IInv, Relations, DrainersHoldRows, Known
<1>7. AnswersAreTrue'
  <2> SUFFICES ASSUME NEW e \in Drainers,
                      drainer'[e].stage = "answered", drainer'[e].verdict = "ok"
               PROVE  IsApplied(Current(e))'
    BY <1>3 DEF IInv, Relations, AnswersAreTrue
  <2>1. Current(e)' = Current(e) BY <1>3, SameCurrent
  <2>2. CASE e = d BY <2>1, <2>2, <1>3 DEF IsApplied
  <2>3. CASE e # d
    <3>1. IsApplied(Current(e)) BY <2>3, <1>3 DEF IInv, Relations, AnswersAreTrue
    <3> QED BY <3>1, <2>1, <1>2 DEF IsApplied
  <2> QED BY <2>2, <2>3
<1>8. (RowsAreWhole /\ NothingLost)'
  BY <1>2 DEF IInv, Relations, RowsAreWhole, NothingLost
<1> QED BY <1>4, <1>5, <1>6, <1>7, <1>8 DEF IInv, Relations

\* A request that strayed arrives.
LEMMA StrayIInv == ASSUME IInv, NEW r \in Rows, StrayArrives(r) PROVE IInv'
<1>1. r \in Known BY DEF StrayArrives, IInv, Relations, OnlyKnown
<1>2. /\ applied' = applied \/ applied' = Append(applied, r)
      /\ stray' \subseteq stray
      /\ UNCHANGED <<habit, enqueued, store, drainer, syncDue, crashes>>
  BY DEF StrayArrives
<1>3. /\ applied' \in Seq(Known) /\ applied' \in Seq(Rows)
      /\ \A q : IsApplied(q) => IsApplied(q)'
  BY <1>1, <1>2, ApplyIInv
<1>4. TypeOK' BY <1>2, <1>3 DEF IInv, TypeOK
<1>5. (OnlyKnown /\ RowsAreWhole /\ DrainersHoldRows /\ NothingLost)'
  BY <1>2, <1>3
     DEF IInv, Relations, OnlyKnown, RowsAreWhole, DrainersHoldRows, NothingLost, Known
<1>6. AnswersAreTrue'
  <2> SUFFICES ASSUME NEW e \in Drainers,
                      drainer[e].stage = "answered", drainer[e].verdict = "ok"
               PROVE  IsApplied(Current(e))'
    BY <1>2 DEF IInv, Relations, AnswersAreTrue
  <2>1. Current(e)' = Current(e) BY <1>2, SameCurrent
  <2>2. IsApplied(Current(e)) BY DEF IInv, Relations, AnswersAreTrue
  <2> QED BY <2>1, <2>2, <1>3 DEF IsApplied
<1> QED BY <1>4, <1>5, <1>6 DEF IInv, Relations

\* A drainer dies.
LEMMA CrashIInv == ASSUME IInv, NEW d \in Drainers, Crash(d) PROVE IInv'
<1>1. Idle \in DrainerStates /\ Idle.stage = "idle"
  BY BoundsAssumption DEF BoundsAssumption, Idle, DrainerStates
<1>2. Current(d) \in Known /\ Current(d) \in Rows
  BY CurrentIsLeft, BoundsAssumption DEF Crash
<1>3. /\ drainer' = [drainer EXCEPT ![d] = Idle]
      /\ stray' \subseteq stray \cup {Current(d)}
      /\ crashes' = crashes + 1 /\ crashes < MaxCrashes
      /\ UNCHANGED <<habit, enqueued, store, syncDue, applied>>
  BY DEF Crash
<1>4. TypeOK'
  BY <1>1, <1>2, <1>3, TypeParts, BoundsAssumption
     DEF BoundsAssumption, IInv, TypeOK, DrainerStates, Verdicts
<1>5. (OnlyKnown /\ RowsAreWhole /\ NothingLost)'
  BY <1>2, <1>3 DEF IInv, Relations, OnlyKnown, RowsAreWhole, NothingLost, IsApplied, Known
<1>6. (DrainersHoldRows /\ AnswersAreTrue)'
  BY <1>1, <1>3, TypeParts
     DEF IInv, Relations, DrainersHoldRows, AnswersAreTrue, Known, IsApplied, Current
<1> QED BY <1>4, <1>5, <1>6 DEF IInv, Relations

\* What is decided: a row is sent only if the server said so, and retried only
\* while it has attempts left.
LEMMA Decisions ==
    ASSUME NEW verdict, NEW attempts \in Nat
    PROVE  LET decision == classifyReplayOutcome(verdict, attempts) IN
           /\ decision \in {"sent", "conflict", "failed", "retry"}
           /\ decision = "sent" <=> verdict = "ok"
           /\ decision = "retry" /\ verdict \in Verdicts => attempts + 1 < MaxAttempts
  BY BoundsAssumption DEF classifyReplayOutcome, BoundsAssumption, Verdicts

\* The row that was settled, and the others.
LEMMA SettledRow ==
    ASSUME IInv, NEW r \in Rows, NEW status \in {"conflict", "failed", "retry"},
           NEW attempts \in 1 .. MaxAttempts,
           status = "retry" => attempts < MaxAttempts
    PROVE  LET after == Update(r, status, attempts) IN
           /\ after \in [Rows -> RowStates]
           /\ \A q \in Rows : q # r => after[q] = store[q]
           /\ after[r] = Gone <=> store[r] = Gone
           /\ after[r].status = "gone" => after[r] = Gone
           /\ after[r].status = "pending" =>
                 status = "retry" /\ store[r].status = "pending" /\ after[r].attempts < MaxAttempts
           /\ status = "retry" => after[r].status = store[r].status
<1>1. store \in [Rows -> RowStates] BY TypeParts DEF IInv
<1>2. store[r].status = "gone" => store[r] = Gone
  BY DEF IInv, Relations, RowsAreWhole
<1>3. CASE store[r] = Gone
  BY <1>1, <1>3 DEF Update, Gone
<1>4. CASE store[r] # Gone
  <2> DEFINE row == [status |-> IF status = "retry" THEN store[r].status ELSE status,
                     attempts |-> attempts]
  <2>1. Update(r, status, attempts) = [store EXCEPT ![r] = row]
    BY <1>4 DEF Update
  <2>2. row \in RowStates BY <1>1, BoundsAssumption DEF RowStates, BoundsAssumption
  <2>3. row.status # "gone" /\ row # Gone
    BY <1>1, <1>2, <1>4 DEF RowStates, Gone
  <2> HIDE DEF row
  <2>4. LET after == [store EXCEPT ![r] = row] IN
        /\ after \in [Rows -> RowStates] /\ after[r] = row
        /\ \A q \in Rows : q # r => after[q] = store[q]
    BY <1>1, <2>2
  <2> QED BY <1>4, <2>1, <2>3, <2>4 DEF row
<1> QED BY <1>3, <1>4

\* The drainer acts on an answer.
LEMMA SettleIInv == ASSUME IInv, NEW d \in Drainers, Settle(d) PROVE IInv'
<1> DEFINE r == Current(d)
           seen == drainer[d].seen
           decision == classifyReplayOutcome(drainer[d].verdict, seen[r])
           rest == IF decision = "retry" THEN {} ELSE drainer[d].left \ {r}
<1>1. /\ drainer[d].stage = "answered"
      /\ store' = IF decision = "sent" THEN [store EXCEPT ![r] = Gone]
                  ELSE Update(r, decision, seen[r] + 1)
      /\ drainer' = [drainer EXCEPT ![d] = Sending(rest, seen)]
      /\ UNCHANGED <<habit, enqueued, syncDue, applied, stray, crashes>>
  BY DEF Settle
<1>2. r \in drainer[d].left /\ r \in Known /\ r \in Rows
  BY <1>1, CurrentIsLeft, BoundsAssumption
<1>3. /\ seen \in [Rows -> 0 .. MaxAttempts] /\ seen[r] \in Nat /\ seen[r] < MaxAttempts
      /\ seen[r] + 1 \in 1 .. MaxAttempts
      /\ drainer[d].left \subseteq Known /\ drainer[d].left \in SUBSET Rows
  BY <1>1, <1>2, TypeParts, BoundsAssumption
     DEF IInv, Relations, DrainersHoldRows, DrainerStates, BoundsAssumption
<1>4. /\ decision \in {"sent", "conflict", "failed", "retry"}
      /\ decision = "sent" <=> drainer[d].verdict = "ok"
  BY <1>3, Decisions
<1>5. decision = "retry" => seen[r] + 1 < MaxAttempts
  BY <1>1, <1>3, Decisions DEF IInv, Relations, AnswersAreTrue
<1>6. rest \in SUBSET Rows /\ rest \subseteq drainer[d].left
  BY <1>3
<1> DEFINE new == Sending(rest, seen)
<1>7. /\ new \in DrainerStates /\ new.stage \in {"idle", "asked"}
      /\ new.stage # "idle" => rest # {} /\ new.left = rest /\ new.seen = seen
  BY <1>3, <1>6, SendingState
<1>8. /\ store' \in [Rows -> RowStates]
      /\ \A q \in Rows : q # r => store'[q] = store[q]
      /\ store'[r].status = "gone" => store'[r] = Gone
      /\ store'[r].status = "pending" => store'[r].attempts < MaxAttempts
      /\ store'[r] = Gone => store[r] = Gone \/ IsApplied(r)
  <2>1. CASE decision = "sent"
    <3>1. IsApplied(r) BY <1>1, <1>4, <2>1 DEF IInv, Relations, AnswersAreTrue
    <3>2. Gone \in RowStates BY BoundsAssumption DEF BoundsAssumption, Gone, RowStates
    <3> QED BY <1>1, <1>2, <2>1, <3>1, <3>2, TypeParts DEF IInv, Gone
  <2>2. CASE decision # "sent"
    <3>1. store' = Update(r, decision, seen[r] + 1) BY <1>1, <2>2
    <3> HIDE DEF decision, seen, r
    <3> QED BY <1>2, <1>3, <1>4, <1>5, <2>2, <3>1, SettledRow
  <2> QED BY <2>1, <2>2
<1> HIDE DEF r, seen, decision, rest, new
<1>9. drainer' = [drainer EXCEPT ![d] = new] BY <1>1 DEF new
<1>10. TypeOK'
  BY <1>1, <1>7, <1>8, <1>9, TypeParts
     DEF IInv, TypeOK, DrainerStates, RowStates, Verdicts
<1>11. OnlyKnown'
  BY <1>1, <1>2, <1>8 DEF IInv, TypeOK, Relations, OnlyKnown, Known, Rows
<1>12. RowsAreWhole'
  BY <1>8 DEF IInv, Relations, RowsAreWhole
<1>13. NothingLost'
  <2>1. Known \subseteq Rows
    BY BoundsAssumption DEF BoundsAssumption, IInv, TypeOK, Known, Rows
  <2> QED BY <1>1, <1>8, <2>1 DEF IInv, Relations, NothingLost, IsApplied, Known
<1>14. DrainersHoldRows'
  <2> SUFFICES ASSUME NEW e \in Drainers, drainer'[e].stage # "idle"
               PROVE  /\ drainer'[e].left # {} /\ drainer'[e].left \subseteq Known
                      /\ \A q \in drainer'[e].left : drainer'[e].seen[q] < MaxAttempts
    BY <1>1 DEF DrainersHoldRows, Known
  <2>1. CASE e = d
    <3>1. drainer'[e] = new BY <1>9, <2>1, TypeParts DEF IInv
    <3> QED BY <2>1, <3>1, <1>1, <1>3, <1>6, <1>7 DEF IInv, Relations, DrainersHoldRows, seen
  <2>2. CASE e # d
    BY <2>2, <1>9, TypeParts DEF IInv, Relations, DrainersHoldRows
  <2> QED BY <2>1, <2>2
<1>15. AnswersAreTrue'
  BY <1>1, <1>7, <1>9, TypeParts DEF IInv, Relations, AnswersAreTrue, IsApplied, Current
<1> QED BY <1>10, <1>11, <1>12, <1>13, <1>14, <1>15 DEF IInv, Relations

\* A request ends, for whichever reason.
LEMMA RequestIInv ==
    ASSUME IInv, NEW d \in Drainers,
           Accepts(d) \/ Declines(d) \/ LoseRequest(d) \/ LoseAnswer(d)
    PROVE  IInv'
<1>1. CASE Accepts(d)
  <2>1. Current(d) \in Known BY <1>1, CurrentIsLeft, BoundsAssumption DEF Accepts
  <2>2. applied \in Seq(Known) BY DEF IInv, Relations, OnlyKnown
  <2>3. applied' = applied \/ applied' = Append(applied, Current(d))
    BY <1>1 DEF Accepts
  <2>4. IsApplied(Current(d))'
    <3>1. Current(d)' = Current(d)
      BY <1>1, AnsweredKeeps, SameCurrent, TypeParts DEF IInv, Accepts, Verdicts
    <3>2. CASE IsApplied(Current(d))
      BY <1>1, <3>1, <3>2 DEF Accepts, IsApplied
    <3>3. CASE ~IsApplied(Current(d))
      <4>1. applied' = Append(applied, Current(d)) BY <1>1, <3>3 DEF Accepts
      <4>2. \A q : IsApplied(q)' <=> IsApplied(q) \/ q = Current(d)
        BY <2>1, <2>2, <4>1, ApplyOne
      <4> QED BY <3>1, <4>2 DEF IsApplied
    <3> QED BY <3>2, <3>3
  <2> QED BY <1>1, <2>3, <2>4, AnswerIInv DEF Accepts, Verdicts
<1>2. CASE Declines(d)
  BY <1>2, AnswerIInv DEF Declines, Verdicts
<1>3. CASE LoseRequest(d)
  BY <1>3, AnswerIInv DEF LoseRequest, Verdicts
<1>4. CASE LoseAnswer(d)
  BY <1>4, AnswerIInv DEF LoseAnswer, Verdicts
<1> QED BY <1>1, <1>2, <1>3, <1>4

LEMMA IInvStep == ASSUME IInv, [Next]_vars PROVE IInv'
<1>1. CASE Enqueue BY <1>1, EnqueueIInv
<1>2. CASE PageReplays BY <1>2, ReplayIInv DEF PageReplays, Drainers, IInv, TypeOK
<1>3. ASSUME NEW w \in Workers, SyncFires(w) PROVE IInv'
  BY <1>3, ReplayIInv DEF SyncFires, Drainers
<1>4. ASSUME NEW d \in Drainers,
             Accepts(d) \/ Declines(d) \/ LoseRequest(d) \/ LoseAnswer(d)
      PROVE  IInv'
  BY <1>4, RequestIInv
<1>5. ASSUME NEW d \in Drainers, Settle(d) PROVE IInv' BY <1>5, SettleIInv
<1>6. ASSUME NEW d \in Drainers, Crash(d) PROVE IInv' BY <1>6, CrashIInv
<1>7. ASSUME NEW r \in Rows, StrayArrives(r) PROVE IInv' BY <1>7, StrayIInv
<1>8. CASE UNCHANGED vars
  BY <1>8 DEF IInv, TypeOK, Relations, OnlyKnown, RowsAreWhole, DrainersHoldRows,
              AnswersAreTrue, NothingLost, IsApplied, Current, Known
<1> QED BY <1>1, <1>2, <1>3, <1>4, <1>5, <1>6, <1>7, <1>8 DEF Next

-----------------------------------------------------------------------------
(* The theorems.                                                           *)

\* The invariant of the queue holds of every reachable state.
THEOREM QueueInvariant == Spec => []IInv
<1>1. Init => IInv BY InitIInv, BoundsAssumption
<1>2. IInv /\ [Next]_vars => IInv' BY IInvStep
<1> QED BY <1>1, <1>2, PTL DEF Spec

\* OfflineQueue.replay deletes a row only when the server applied its mutation:
\* no drainer, loss, stray request or crash makes one disappear.
THEOREM NoMutationDisappears == Spec => []NothingIsLost
<1>1. IInv => NothingIsLost BY DEF IInv, Relations, NothingIsLost
<1> QED BY <1>1, QueueInvariant, PTL

\* What settling does to the row, and to what the drainer has left: it goes on
\* only when the row is out of the queue.
LEMMA SettleEffect ==
    ASSUME IInv, NEW d \in Drainers, Settle(d)
    PROVE  LET c == Current(d) IN
           /\ c \in drainer[d].left /\ c \in Rows
           /\ \A q \in Rows : q # c => store'[q] = store[q]
           /\ store'[c].status = "pending" =>
                 store[c].status = "pending" /\ drainer'[d].left = {}
           /\ drainer'[d].left \in {{}, drainer[d].left \ {c}}
           /\ \A e \in Drainers : e # d => drainer'[e] = drainer[e]
           /\ UNCHANGED <<habit, enqueued, syncDue, applied, stray>>
<1> DEFINE c == Current(d)
           tried == drainer[d].seen[c] + 1
           decision == classifyReplayOutcome(drainer[d].verdict, drainer[d].seen[c])
           rest == IF decision = "retry" THEN {} ELSE drainer[d].left \ {c}
<1>1. /\ store' = IF decision = "sent" THEN [store EXCEPT ![c] = Gone]
                  ELSE Update(c, decision, tried)
      /\ drainer' = [drainer EXCEPT ![d] = Sending(rest, drainer[d].seen)]
      /\ drainer[d].stage = "answered"
      /\ UNCHANGED <<habit, enqueued, syncDue, applied, stray>>
  BY DEF Settle
<1>2. /\ c \in drainer[d].left /\ c \in Rows
      /\ tried \in 1 .. MaxAttempts /\ drainer[d].seen[c] \in Nat
      /\ drainer[d].verdict \in Verdicts
      /\ drainer[d].left \in SUBSET Rows /\ drainer[d].seen \in [Rows -> 0 .. MaxAttempts]
  BY <1>1, CurrentIsLeft, TypeParts, BoundsAssumption
     DEF IInv, Relations, DrainersHoldRows, AnswersAreTrue, DrainerStates, BoundsAssumption
<1>3. /\ decision \in {"sent", "conflict", "failed", "retry"}
      /\ decision = "retry" => tried < MaxAttempts
  BY <1>2, Decisions
<1>4. /\ \A q \in Rows : q # c => store'[q] = store[q]
      /\ store'[c].status = "pending" => store[c].status = "pending" /\ decision = "retry"
  <2> HIDE DEF c, tried, decision
  <2>1. CASE decision = "sent"
    BY <1>1, <1>2, <2>1, TypeParts DEF IInv, Gone
  <2>2. CASE decision # "sent"
    BY <1>1, <1>2, <1>3, <2>2, SettledRow
  <2> QED BY <2>1, <2>2
<1>5. /\ drainer'[d].left = rest
      /\ \A e \in Drainers : e # d => drainer'[e] = drainer[e]
  <2>1. Sending(rest, drainer[d].seen).left = rest BY <1>2, SendingState
  <2> QED BY <1>1, <2>1, TypeParts DEF IInv
<1> HIDE DEF c, decision
<1> QED BY <1>1, <1>2, <1>4, <1>5 DEF c

LEMMA SettledStep ==
    ASSUME IInv, [Next]_vars, NEW r \in Rows, r <= enqueued, store[r].status # "pending"
    PROVE  store'[r].status # "pending"
<1>1. CASE Enqueue
  BY <1>1 DEF Enqueue, IInv, TypeOK
<1>2. ASSUME NEW d \in Drainers, Settle(d) PROVE store'[r].status # "pending"
  BY <1>2, SettleEffect
<1>3. CASE UNCHANGED store BY <1>3
<1> QED BY <1>1, <1>2, <1>3
        DEF Next, PageReplays, SyncFires, Accepts, Declines, LoseRequest, LoseAnswer,
            Crash, StrayArrives

\* store.update: a row that was sent, parked or dead-lettered is never pending
\* again, whatever a slower drainer writes back.
THEOREM SettledForGood == Spec => SettledStaysSettled
<1>1. IInv /\ [Next]_vars => [\A r \in Rows :
         r <= enqueued /\ store[r].status # "pending" => store'[r].status # "pending"]_vars
  BY SettledStep
<1> QED BY <1>1, QueueInvariant, PTL DEF Spec, SettledStaysSettled

-----------------------------------------------------------------------------
(* A page that drains alone implements OrderedDelivery.                    *)

LEMMA AloneStep == ASSUME IInv, Alone, [Next]_vars PROVE Alone'
<1> SUFFICES ASSUME habit = {}, UNCHANGED habit PROVE Alone'
  BY DEF Alone, Next, Enqueue, PageReplays, SyncFires, Accepts, Declines, LoseRequest,
         LoseAnswer, Settle, Crash, StrayArrives
<1>1. /\ ~syncDue /\ stray = {} /\ SnapshotIsOldest
      /\ \A w \in Workers : drainer[w].stage = "idle"
  BY DEF Alone
<1>2. /\ drainer \in [Drainers -> DrainerStates] /\ store \in [Rows -> RowStates]
      /\ Page \in Drainers /\ Workers \subseteq Drainers /\ Page \notin Workers
      /\ drainer[Page].left \in SUBSET Rows
  BY TypeParts, BoundsAssumption DEF IInv, Drainers, BoundsAssumption, DrainerStates
<1>3. CASE Enqueue
  <2>1. /\ enqueued' = enqueued + 1 /\ enqueued \in Nat /\ enqueued' \in Rows
        /\ store' = [store EXCEPT ![enqueued'] = [status |-> "pending", attempts |-> 0]]
        /\ UNCHANGED <<drainer, stray>>
    BY <1>3, BoundsAssumption DEF Enqueue, BoundsAssumption, IInv, TypeOK, Rows
  <2>2. drainer[Page].left \subseteq Known
    BY <1>1, <1>2 DEF IInv, Relations, DrainersHoldRows, SnapshotIsOldest
  <2>3. SnapshotIsOldest'
    BY <1>1, <1>2, <2>1, <2>2 DEF SnapshotIsOldest, Pending, Known, Rows
  <2>4. ~syncDue' BY <1>3, Zenon DEF Enqueue
  <2> QED BY <1>1, <2>1, <2>3, <2>4 DEF Alone
<1>4. CASE PageReplays
  <2> DEFINE new == Sending(Pending, [r \in Rows |-> store[r].attempts])
  <2>1. /\ drainer' = [drainer EXCEPT ![Page] = new]
        /\ UNCHANGED <<store, syncDue, stray>>
    BY <1>4 DEF PageReplays, Replay
  <2>2. new.left = Pending /\ (new.stage = "idle" => new.left = {})
    <3>1. Pending \in SUBSET Rows /\ [r \in Rows |-> store[r].attempts] \in [Rows -> 0 .. MaxAttempts]
      BY DEF IInv, TypeOK, Pending
    <3> QED BY <3>1, SendingState DEF Sending
  <2> HIDE DEF new
  <2>3. /\ drainer'[Page].left = Pending
        /\ drainer'[Page].stage = "idle" => Pending = {}
        /\ \A w \in Workers : drainer'[w] = drainer[w]
    BY <1>2, <2>1, <2>2
  <2>4. Pending' = Pending BY <2>1 DEF Pending
  <2>5. SnapshotIsOldest'
    BY <2>3, <2>4 DEF SnapshotIsOldest, Pending
  <2> QED BY <1>1, <2>1, <2>3, <2>5 DEF Alone
<1>5. ASSUME NEW w \in Workers, SyncFires(w) PROVE Alone'
  BY <1>1, <1>5 DEF SyncFires
<1>6. ASSUME NEW d \in Drainers,
             Accepts(d) \/ Declines(d) \/ LoseRequest(d) \/ LoseAnswer(d)
      PROVE  Alone'
  <2>1. d = Page /\ UNCHANGED <<store, syncDue, stray>>
    BY <1>1, <1>6 DEF Drainers, Accepts, Declines, LoseRequest, LoseAnswer
  <2>2. PICK verdict \in Verdicts : Answered(d, verdict)
    BY <1>6 DEF Accepts, Declines, LoseRequest, LoseAnswer, Verdicts
  <2>3. /\ drainer'[Page].left = drainer[Page].left /\ drainer'[Page].stage # "idle"
        /\ \A w \in Workers : drainer'[w] = drainer[w]
    BY <1>2, <2>1, <2>2, AnsweredKeeps
  <2> QED BY <1>1, <2>1, <2>3 DEF Alone, SnapshotIsOldest, Pending
<1>7. ASSUME NEW d \in Drainers, Settle(d) PROVE Alone'
  <2>1. d = Page
    BY <1>1, <1>7 DEF Drainers, Settle
  <2>2. drainer'[Page].stage = "idle" => drainer'[Page].left = {}
    BY <1>7, <2>1, <1>2 DEF Settle, Sending, Idle
  <2>3. SnapshotIsOldest'
    BY <1>1, <1>2, <1>7, <2>1, <2>2, SettleEffect DEF SnapshotIsOldest, Pending
  <2> QED BY <1>1, <1>2, <1>7, <2>1, <2>3, SettleEffect DEF Alone
<1>8. ASSUME NEW d \in Drainers, Crash(d) PROVE Alone'
  <2>1. d = Page /\ UNCHANGED <<store, syncDue>> /\ stray' = stray
    BY <1>1, <1>8 DEF Drainers, Crash
  <2>2. /\ drainer'[Page].left = {} /\ \A w \in Workers : drainer'[w] = drainer[w]
    BY <1>2, <1>8, <2>1 DEF Crash, Idle
  <2> QED BY <1>1, <2>1, <2>2 DEF Alone, SnapshotIsOldest, Pending
<1>9. ASSUME NEW r \in Rows, StrayArrives(r) PROVE Alone'
  BY <1>1, <1>9 DEF StrayArrives
<1>10. CASE UNCHANGED vars
  BY <1>1, <1>10 DEF Alone, SnapshotIsOldest, Pending
<1> QED BY <1>3, <1>4, <1>5, <1>6, <1>7, <1>8, <1>9, <1>10 DEF Next

\* Every step of a lone page is one of OrderedDelivery, or a stutter.
LEMMA OrderedStep ==
    ASSUME IInv, Alone, habit = {}, [Next]_vars
    PROVE  [Ordered!Next]_Ordered!vars
<1> DEFINE waits == {r \in Pending : ~IsApplied(r)}
<1>1. /\ ~syncDue /\ stray = {} /\ SnapshotIsOldest
      /\ \A w \in Workers : drainer[w].stage = "idle"
  BY DEF Alone
<1>2. /\ store \in [Rows -> RowStates] /\ applied \in Seq(Known) /\ enqueued \in Nat
      /\ drainer \in [Drainers -> DrainerStates] /\ Rows \subseteq Nat
  BY TypeParts, BoundsAssumption DEF IInv, TypeOK, Relations, OnlyKnown, Rows, BoundsAssumption
<1>3. UNCHANGED <<enqueued, store, applied>> => UNCHANGED Ordered!vars
  BY DEF Ordered!vars, Pending, IsApplied
\* The row the page sends is the oldest of those that wait.
<1>4. ASSUME NEW d \in Drainers, drainer[d].stage # "idle"
      PROVE  /\ d = Page /\ Current(d) \in Rows /\ Current(d) \in Known
             /\ Current(d) \in Pending /\ \A q \in Pending : Current(d) <= q
  <2>1. d = Page BY <1>1, <1>4 DEF Drainers
  <2>2. /\ Current(d) \in drainer[d].left /\ Current(d) \in Known /\ Current(d) \in Rows
        /\ \A q \in drainer[d].left : Current(d) <= q
    BY <1>4, CurrentIsLeft, BoundsAssumption
  <2>3. \A q \in Pending \ drainer[d].left : Current(d) < q
    BY <1>1, <2>1, <2>2 DEF SnapshotIsOldest
  <2>4. Pending \subseteq Nat BY <1>2 DEF Pending
  <2> QED BY <1>1, <1>2, <2>1, <2>2, <2>3, <2>4 DEF SnapshotIsOldest, Pending
<1>5. CASE Enqueue
  <2>1. /\ enqueued' = enqueued + 1 /\ enqueued' \in Rows
        /\ store' = [store EXCEPT ![enqueued'] = [status |-> "pending", attempts |-> 0]]
        /\ applied' = applied
    BY <1>5, BoundsAssumption DEF Enqueue, BoundsAssumption, IInv, TypeOK, Rows
  <2>2. ~IsApplied(enqueued')
    BY <1>2, <2>1, LenProperties, ElementOfSeq DEF IsApplied, Known
  <2>3. waits' = waits \cup {enqueued'}
    BY <1>2, <2>1, <2>2 DEF Pending, IsApplied
  <2> QED BY <2>1, <2>3 DEF Ordered!Next, Ordered!Accept
<1>6. ASSUME NEW d \in Drainers, Accepts(d) PROVE [Ordered!Next]_Ordered!vars
  <2> DEFINE c == Current(d)
  <2>1. /\ c \in Rows /\ c \in Known /\ c \in Pending /\ \A q \in Pending : c <= q
        /\ UNCHANGED <<enqueued, store>>
    BY <1>4, <1>6 DEF Accepts
  <2>2. CASE IsApplied(c)
    BY <1>3, <1>6, <2>1, <2>2 DEF Accepts
  <2>3. CASE ~IsApplied(c)
    <3>1. applied' = Append(applied, c) BY <1>6, <2>3 DEF Accepts
    <3>2. \A q : IsApplied(q)' <=> IsApplied(q) \/ q = c
      BY <1>2, <2>1, <3>1, ApplyOne
    <3>3. c \in waits /\ \A q \in waits : c <= q
      BY <2>1, <2>3
    <3>4. Pending' = Pending BY <2>1 DEF Pending
    <3>5. waits' = waits \ {c}
      BY <3>2, <3>4
    <3> HIDE DEF c, waits
    <3>6. Ordered!Deliver
      BY <2>1, <3>1, <3>3, <3>5 DEF Ordered!Deliver, Ordered!Oldest, waits
    <3> QED BY <3>6 DEF Ordered!Next
  <2> QED BY <2>2, <2>3
<1>7. ASSUME NEW d \in Drainers, Settle(d) PROVE [Ordered!Next]_Ordered!vars
  <2> DEFINE c == Current(d)
  <2>1. /\ c \in Rows /\ c \in Pending /\ \A q \in Pending : c <= q
    BY <1>4, <1>7 DEF Settle
  <2>2. /\ \A q \in Rows : q # c => store'[q] = store[q]
        /\ UNCHANGED <<enqueued, applied>>
    BY <1>7, SettleEffect
  <2> HIDE DEF c
  <2>3. waits' = waits \/ (c \in waits /\ waits' = waits \ {c})
    BY <2>1, <2>2 DEF Pending, IsApplied
  <2> HIDE DEF waits
  <2>4. CASE waits' = waits
    BY <2>2, <2>4 DEF Ordered!vars, waits
  <2>5. CASE c \in waits /\ waits' = waits \ {c}
    <3>1. \A q \in waits : c <= q BY <2>1 DEF waits
    <3>2. Ordered!GiveUp
      BY <2>2, <2>5, <3>1 DEF Ordered!GiveUp, Ordered!Oldest, waits
    <3> QED BY <3>2 DEF Ordered!Next
  <2> QED BY <2>3, <2>4, <2>5
<1>8. ASSUME NEW r \in Rows, StrayArrives(r) PROVE FALSE
  BY <1>1, <1>8 DEF StrayArrives
<1>9. CASE UNCHANGED <<enqueued, store, applied>> BY <1>3, <1>9
<1> QED BY <1>5, <1>6, <1>7, <1>8, <1>9
        DEF Next, PageReplays, SyncFires, Declines, LoseRequest, LoseAnswer, Crash

\* Where there is no Background Sync and no request strays, OfflineQueue.replay
\* implements OrderedDelivery: mutations reach the server in the order they were
\* made, each at most once, or are given up in that order, whatever the network
\* loses and whenever the tab is closed.
THEOREM LonePageKeepsOrder == Spec => DeliversInOrder
<1>1. Init => (habit = {} => Ordered!Init)
  BY DEF Init, Ordered!Init, Pending, Gone
<1>2. Init => IInv /\ Alone
  <2>1. Init => Alone
    BY BoundsAssumption
       DEF Init, Alone, SnapshotIsOldest, Pending, Gone, Idle, Drainers
  <2> QED BY <2>1, InitIInv, BoundsAssumption
<1>3. IInv /\ Alone /\ [Next]_vars => (IInv /\ Alone)'
  BY IInvStep, AloneStep
<1>4. IInv /\ Alone /\ [Next]_vars => [habit = {} => [Ordered!Next]_Ordered!vars]_vars
  BY OrderedStep
<1> QED BY <1>1, <1>2, <1>3, <1>4, PTL DEF Spec, DeliversInOrder
=============================================================================
