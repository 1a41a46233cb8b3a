----------------------------- MODULE Page_proofs -----------------------------
(***************************************************************************)
(* Proofs about four parts of the page: the delta pull of a single tab     *)
(* skips nothing; the window of a virtualized list is where the user       *)
(* scrolled to; a page boots the release of its worker; the patches        *)
(* between two trees fit the page they are applied to.                     *)
(***************************************************************************)
EXTENDS VirtualList, PullSync, ServiceWorker, Reconcile, FiniteSetTheorems, FunctionTheorems,
        SequenceTheorems, WellFoundedInduction, TLAPS

-----------------------------------------------------------------------------
(* The delta pull: what a pull in progress has already brought.            *)

\* One tab pulls, and only the first request of a pull may be answered an error.
OneTab == \A t, u \in Tabs : t = u
ErrorsAreSeen == ErrorsAnswer # "any"

\* The table shows every change up to n, but perhaps that of one id.
CoveredBut(n, but) == \A id \in Ids : server[id].at <= n /\ id # but => Shows(id)
Covered(n) == \A id \in Ids : server[id].at <= n => Shows(id)

\* Changes are dated one by one, and nothing is dated later than the clock.
Dated ==
    /\ watermark <= clock
    /\ \A id \in Ids : server[id].at <= clock
    /\ \A i, j \in Ids : server[i].at = server[j].at /\ server[i].at # 0 => i = j

\* How far the table is covered once the row in hand is merged.
Reach(p) == IF p.next = 0 THEN p.latest ELSE p.next

\* The row in hand: as the server has it, unless it changed after the page.
InHand(p) ==
    /\ p.id \in Ids /\ watermark < p.at /\ p.at <= p.latest
    /\ \/ server[p.id].at = p.at /\ server[p.id].deleted = p.deleted
       \/ p.latest < server[p.id].at
    /\ CoveredBut(Reach(p), p.id)

\* What holds of a pull at each of its stages.
PullHolds(p) ==
    /\ p.latest <= clock /\ p.next <= p.latest
    /\ p.stage # "idle" => p.since = watermark
    /\ p.stage = "asked" => /\ p.cursor <= clock /\ Covered(p.cursor)
                            /\ p.cursor = 0 => p.latest = 0
    /\ p.stage \in {"row", "merging"} => InHand(p)
    /\ p.stage = "merging" => ~p.deleted /\ (p.keep => p.at <= local[p.id].at)
    /\ p.stage = "read" => Covered(Reach(p))

PullInv == PullTypes /\ Dated /\ Covered(watermark) /\ \A t \in Tabs : PullHolds(puller[t])

-----------------------------------------------------------------------------
(* Types.                                                                  *)

LEMMA PullTypesStep == ASSUME PullTypes, [PullNext]_pullVars PROVE PullTypes'
<1> /\ clock \in Nat /\ watermark \in Nat /\ errors \in Nat
    /\ server \in [Ids -> [at : Nat, deleted : BOOLEAN]] /\ local \in [Ids -> [at : Nat]]
    /\ queued \in SUBSET Ids /\ puller \in [Tabs -> Pulls]
  BY DEF PullTypes
<1> SUFFICES /\ clock' \in Nat /\ watermark' \in Nat /\ errors' \in Nat
             /\ server' \in [Ids -> [at : Nat, deleted : BOOLEAN]] /\ local' \in [Ids -> [at : Nat]]
             /\ queued' \in SUBSET Ids /\ puller' \in [Tabs -> Pulls]
  BY DEF PullTypes
<1>1. ASSUME NEW id \in Ids, NEW deleted \in BOOLEAN, ServerWrite(id, deleted)
      PROVE  /\ clock' \in Nat /\ server' \in [Ids -> [at : Nat, deleted : BOOLEAN]]
             /\ UNCHANGED <<local, watermark, puller, queued, errors>>
  <2>1. [at |-> clock + 1, deleted |-> deleted] \in [at : Nat, deleted : BOOLEAN] OBVIOUS
  <2> QED BY <1>1, <2>1 DEF ServerWrite
<1>2. ASSUME NEW id \in Ids, LocalEdit(id)
      PROVE  /\ clock' \in Nat /\ local' \in [Ids -> [at : Nat]] /\ queued' \in SUBSET Ids
             /\ UNCHANGED <<server, watermark, puller, errors>>
  BY <1>2 DEF LocalEdit
<1>3. ASSUME NEW id \in Ids, Push(id)
      PROVE  /\ clock' \in Nat /\ server' \in [Ids -> [at : Nat, deleted : BOOLEAN]]
             /\ queued' \in SUBSET Ids /\ UNCHANGED <<local, watermark, puller, errors>>
  <2>1. [at |-> clock + 1, deleted |-> FALSE] \in [at : Nat, deleted : BOOLEAN] OBVIOUS
  <2> QED BY <1>3, <2>1 DEF Push
<1>4. Idle \in Pulls BY DEF Idle, Pulls, Stages
<1>5. ASSUME NEW t \in Tabs,
             Pull(t) \/ PullStep(t) \/ PageFails(t) \/ PageIsAnError(t) \/ Crash(t)
      PROVE  /\ errors' \in Nat /\ watermark' \in Nat /\ local' \in [Ids -> [at : Nat]]
             /\ puller' \in [Tabs -> Pulls] /\ UNCHANGED <<clock, server, queued>>
  <2> DEFINE p == puller[t]
  <2>0. p \in Pulls /\ Absent \in [at : Nat] /\ [at |-> p.at] \in [at : Nat]
    BY DEF Pulls, Absent
  <2>1. CASE Pull(t)
    <3>1. [Idle EXCEPT !.stage = "asked", !.since = watermark] \in Pulls
      BY DEF Idle, Pulls, Stages
    <3> QED BY <2>1, <3>1 DEF Pull
  <2>2. CASE Page(t)
    <3>1. UNCHANGED <<clock, server, local, watermark, queued, errors>> BY <2>2 DEF Page
    <3>2. CASE ChangedAfter(Larger(p.since, p.cursor)) = {}
      <4> DEFINE q == [p EXCEPT !.stage = "read", !.next = 0, !.latest = clock]
      <4>1. q \in Pulls BY <2>0 DEF Pulls, Stages
      <4>2. puller' = [puller EXCEPT ![t] = q] BY <2>2, <3>2 DEF Page
      <4> QED BY <3>1, <4>1, <4>2
    <3>3. CASE ChangedAfter(Larger(p.since, p.cursor)) # {}
      <4>1. PICK id \in ChangedAfter(Larger(p.since, p.cursor)) :
              puller' = [puller EXCEPT ![t] =
                [p EXCEPT !.stage = "row", !.id = id, !.at = server[id].at,
                          !.deleted = server[id].deleted, !.latest = clock,
                          !.next = IF ChangedAfter(Larger(p.since, p.cursor)) = {id}
                                   THEN 0 ELSE server[id].at]]
        BY <2>2, <3>3 DEF Page
      <4>2. id \in Ids /\ server[id].at \in Nat /\ server[id].deleted \in BOOLEAN
        BY DEF ChangedAfter
      <4>3. \A n \in Nat : [p EXCEPT !.stage = "row", !.id = id, !.at = server[id].at,
              !.deleted = server[id].deleted, !.latest = clock, !.next = n] \in Pulls
        BY <2>0, <4>2 DEF Pulls, Stages
      <4> QED BY <3>1, <4>1, <4>2, <4>3
    <3> QED BY <3>2, <3>3
  <2>3. CASE ApplyTombstone(t)
    <3>1. [p EXCEPT !.stage = "read"] \in Pulls BY <2>0 DEF Pulls, Stages
    <3> QED BY <2>3, <3>1, <2>0 DEF ApplyTombstone
  <2>4. CASE ReadLocal(t) BY <2>4, <2>0 DEF ReadLocal, Pulls, Stages
  <2>5. CASE PutRemote(t)
    <3>1. [p EXCEPT !.stage = "read"] \in Pulls BY <2>0 DEF Pulls, Stages
    <3> QED BY <2>5, <3>1, <2>0 DEF PutRemote
  <2>6. CASE NextPage(t) BY <2>6, <2>0 DEF NextPage, Pulls, Stages
  <2>7. CASE Finish(t) BY <2>7, <2>0, <1>4 DEF Finish, Pulls
  <2>8. CASE PageFails(t) \/ Crash(t) BY <2>8, <1>4 DEF PageFails, Crash
  <2>9. CASE PageIsAnError(t)
    <3>1. [p EXCEPT !.stage = "read", !.next = 0] \in Pulls BY <2>0 DEF Pulls, Stages
    <3>2. puller' = [puller EXCEPT ![t] = [p EXCEPT !.stage = "read", !.next = 0]]
      BY <2>9 DEF PageIsAnError
    <3> QED BY <2>9, <3>1, <3>2 DEF PageIsAnError
  <2> QED BY <1>5, <2>1, <2>2, <2>3, <2>4, <2>5, <2>6, <2>7, <2>8, <2>9 DEF PullStep
<1>6. CASE UNCHANGED pullVars BY <1>6 DEF pullVars
<1> QED BY <1>1, <1>2, <1>3, <1>5, <1>6 DEF PullNext

-----------------------------------------------------------------------------
(* The invariant.                                                          *)

\* A change is dated after everything a pull has seen, and covers its own row.
LEMMA ChangeElsewhere ==
    ASSUME PullInv, PullTypes', UNCHANGED <<puller, watermark>>, clock' = clock + 1,
           NEW x \in Ids,
           \A id \in Ids : id # x => server'[id] = server[id] /\ local'[id] = local[id],
           \/ server'[x].at = clock + 1 /\ local'[x] = local[x]
           \/ local'[x].at = clock + 1 /\ server'[x] = server[x]
    PROVE  PullInv'
<1> /\ clock \in Nat /\ watermark \in Nat /\ puller \in [Tabs -> Pulls]
    /\ \A id \in Ids : server[id].at \in Nat /\ local[id].at \in Nat
                       /\ server'[id].at \in Nat /\ local'[id].at \in Nat
  BY DEF PullInv, PullTypes
<1>1. Dated'
  <2>1. \A id \in Ids : server[id].at <= clock BY DEF PullInv, Dated
  <2>2. watermark <= clock /\ \A id \in Ids : server'[id].at <= clock + 1
    BY <2>1 DEF PullInv, Dated
  <2>3. \A i, j \in Ids : server'[i].at = server'[j].at /\ server'[i].at # 0 => i = j
    BY <2>1 DEF PullInv, Dated
  <2> QED BY <2>2, <2>3 DEF Dated
<1>2. \A id \in Ids : server'[id].at <= clock /\ Shows(id) => Shows(id)'
  BY DEF Shows, PullInv, Dated
<1>3. \A id \in Ids : server'[id].at <= clock => server'[id] = server[id]
  OBVIOUS
<1>4. ASSUME NEW n \in Nat, NEW but, n <= clock
      PROVE  /\ Covered(n) => (\A id \in Ids : server'[id].at <= n => Shows(id)')
             /\ CoveredBut(n, but) =>
                  (\A id \in Ids : server'[id].at <= n /\ id # but => Shows(id)')
  BY <1>2, <1>3, <1>4 DEF Covered, CoveredBut
<1>5. Covered(watermark)' BY <1>4 DEF PullInv, Dated, Covered
<1>6. ASSUME NEW t \in Tabs PROVE PullHolds(puller[t])'
  <2> DEFINE p == puller[t]
  <2>1. PullHolds(p) /\ p \in Pulls BY DEF PullInv
  <2>2. /\ p.latest \in Nat /\ p.next \in Nat /\ p.cursor \in Nat /\ p.at \in Nat
        /\ p.latest <= clock /\ p.next <= clock /\ Reach(p) \in Nat /\ Reach(p) <= clock
    BY <2>1 DEF PullHolds, Pulls, Reach
  <2>3. p' = p /\ Reach(p)' = Reach(p) BY DEF Reach
  <2>4. p.stage = "asked" => p.cursor <= clock' /\ Covered(p.cursor)' /\ (p.cursor = 0 => p.latest = 0)
    <3> SUFFICES ASSUME p.stage = "asked"
                 PROVE  p.cursor <= clock' /\ Covered(p.cursor)' /\ (p.cursor = 0 => p.latest = 0)
      OBVIOUS
    <3>1. p.cursor <= clock /\ Covered(p.cursor) /\ (p.cursor = 0 => p.latest = 0)
      BY <2>1 DEF PullHolds
    <3>2. \A id \in Ids : server'[id].at <= p.cursor => Shows(id)' BY <1>4, <2>2, <3>1
    <3>3. Covered(p.cursor)' BY <2>3, <3>2 DEF Covered
    <3> QED BY <2>2, <3>1, <3>3
  <2>5. p.stage \in {"row", "merging"} => InHand(p)'
    <3> SUFFICES ASSUME InHand(p) PROVE InHand(p)'
      BY <2>1 DEF PullHolds
    <3>1. p.id \in Ids /\ watermark < p.at /\ p.at <= p.latest BY DEF InHand
    <3>2. CoveredBut(Reach(p), p.id)' BY <1>4, <2>2, <2>3 DEF InHand, CoveredBut
    <3>3. \/ server'[p.id].at = p.at /\ server'[p.id].deleted = p.deleted
          \/ p.latest < server'[p.id].at
      BY <2>2, <3>1 DEF InHand
    <3> QED BY <2>3, <3>1, <3>2, <3>3 DEF InHand
  <2>6. p.stage = "merging" => ~p.deleted /\ (p.keep => p.at <= local'[p.id].at)
    <3> SUFFICES ASSUME p.stage = "merging" PROVE ~p.deleted /\ (p.keep => p.at <= local'[p.id].at)
      OBVIOUS
    <3>1. ~p.deleted /\ (p.keep => p.at <= local[p.id].at) /\ p.id \in Ids
      BY <2>1 DEF PullHolds, InHand
    <3>2. local[p.id].at <= local'[p.id].at \/ p.at <= local'[p.id].at
      <4>1. p.at <= clock BY <2>1, <2>2 DEF PullHolds, InHand
      <4> QED BY <3>1, <4>1, <2>2
    <3> QED BY <2>2, <3>1, <3>2
  <2>7. p.stage = "read" => Covered(Reach(p))' BY <1>4, <2>1, <2>2, <2>3 DEF PullHolds, Covered
  <2>8. p.latest <= clock' /\ p.next <= p.latest /\ (p.stage # "idle" => p.since = watermark)
    BY <2>1, <2>2 DEF PullHolds
  <2> QED BY <2>3, <2>4, <2>5, <2>6, <2>7, <2>8 DEF PullHolds
<1> QED BY <1>1, <1>5, <1>6 DEF PullInv

\* The pull of the only tab moves.
LEMMA OneMoves ==
    ASSUME OneTab, PullTypes, PullTypes', NEW t \in Tabs, NEW q,
           puller' = [puller EXCEPT ![t] = q],
           Dated', Covered(watermark)', PullHolds(q)'
    PROVE  PullInv'
<1>1. \A u \in Tabs : puller'[u] = q BY DEF OneTab, PullTypes
<1>2. ASSUME NEW u \in Tabs PROVE PullHolds(puller[u])'
  <2>1. puller'[u] = q BY <1>1
  <2> QED BY <2>1 DEF PullHolds, InHand, Covered, CoveredBut, Reach
<1> QED BY <1>2 DEF PullInv

\* A step of the pull that leaves table and watermark alone.
LEMMA NothingIsWritten ==
    ASSUME PullInv, UNCHANGED <<clock, server, local, watermark>>
    PROVE  Dated' /\ Covered(watermark)'
BY DEF PullInv, Dated, Covered, Shows

LEMMA PullMoves ==
    ASSUME OneTab, ErrorsAreSeen, PullAssumption, PullInv, PullTypes', NEW t \in Tabs,
           Pull(t) \/ PullStep(t) \/ PageFails(t) \/ PageIsAnError(t) \/ Crash(t)
    PROVE  PullInv'
<1>1. PICK p : p = puller[t] OBVIOUS
<1> /\ clock \in Nat /\ watermark \in Nat /\ puller \in [Tabs -> Pulls] /\ PullTypes
    /\ \A id \in Ids : server[id].at \in Nat /\ local[id].at \in Nat
  BY DEF PullInv, PullTypes
<1> /\ p \in Pulls /\ p.stage \in Stages /\ p.since \in Nat /\ p.cursor \in Nat /\ p.at \in Nat
    /\ p.next \in Nat /\ p.latest \in Nat /\ p.deleted \in BOOLEAN /\ PullHolds(p)
  BY <1>1 DEF Pulls, PullInv
<1>2. PICK idle : idle = Idle OBVIOUS
<1> idle.stage = "idle" /\ idle.next = 0 /\ idle.latest = 0 BY <1>2 DEF Idle
<1>3. CASE Pull(t)
  <2>1. PICK q : q = [Idle EXCEPT !.stage = "asked", !.since = watermark] OBVIOUS
  <2>2. puller' = [puller EXCEPT ![t] = q] /\ UNCHANGED <<clock, server, local, watermark>>
    BY <1>3, <2>1 DEF Pull
  <2>3. q.stage = "asked" /\ q.since = watermark /\ q.cursor = 0 /\ q.next = 0 /\ q.latest = 0
    BY <2>1 DEF Idle
  <2>4. Covered(0)' BY <2>2, NothingIsWritten DEF Covered
  <2>5. PullHolds(q)' BY <2>2, <2>3, <2>4 DEF PullHolds, Covered
  <2> QED BY <2>2, <2>5, NothingIsWritten, OneMoves
<1>4. CASE Page(t)
  <2>1. p.stage = "asked" /\ UNCHANGED <<clock, server, local, watermark>> BY <1>1, <1>4 DEF Page
  <2>2. p.since = watermark /\ Covered(p.cursor) /\ Covered(watermark)
    BY <2>1 DEF PullHolds, PullInv
  <2>3. /\ Larger(p.since, p.cursor) \in Nat /\ watermark <= Larger(p.since, p.cursor)
        /\ Covered(Larger(p.since, p.cursor))
    BY <2>2 DEF Larger
  <2>4. PICK changed : changed = ChangedAfter(Larger(p.since, p.cursor)) OBVIOUS
  <2>5. \A id \in Ids : id \notin changed => Shows(id) BY <2>3, <2>4 DEF ChangedAfter, Covered
  <2>6. CASE changed = {}
    <3>1. PICK q : q = [p EXCEPT !.stage = "read", !.next = 0, !.latest = clock] OBVIOUS
    <3>2. puller' = [puller EXCEPT ![t] = q] BY <1>1, <1>4, <2>4, <2>6, <3>1 DEF Page
    <3>3. q.stage = "read" /\ q.since = p.since /\ q.next = 0 /\ q.latest = clock
      BY <3>1 DEF Pulls
    <3>4. Covered(clock)' BY <2>1, <2>5, <2>6 DEF Covered, Shows
    <3>5. PullHolds(q)' BY <2>1, <2>2, <3>3, <3>4 DEF PullHolds, Reach, Covered
    <3> QED BY <2>1, <3>2, <3>5, NothingIsWritten, OneMoves
  <2>7. CASE changed # {}
    <3>1. PICK id \in changed :
            /\ \A other \in changed : server[id].at <= server[other].at
            /\ puller' = [puller EXCEPT ![t] =
                 [p EXCEPT !.stage = "row", !.id = id, !.at = server[id].at,
                           !.deleted = server[id].deleted, !.latest = clock,
                           !.next = IF changed = {id} THEN 0 ELSE server[id].at]]
      BY <1>1, <1>4, <2>4, <2>7 DEF Page
    <3>2. PICK q : q = [p EXCEPT !.stage = "row", !.id = id, !.at = server[id].at,
                           !.deleted = server[id].deleted, !.latest = clock,
                           !.next = IF changed = {id} THEN 0 ELSE server[id].at]
      OBVIOUS
    <3>3. /\ q.stage = "row" /\ q.since = p.since /\ q.id = id /\ q.at = server[id].at
          /\ q.deleted = server[id].deleted /\ q.latest = clock
          /\ q.next = IF changed = {id} THEN 0 ELSE server[id].at
      BY <3>2 DEF Pulls
    <3>4. id \in Ids /\ watermark < server[id].at /\ server[id].at <= clock
      BY <2>3, <2>4 DEF ChangedAfter, PullInv, Dated
    <3>5. ASSUME NEW other \in Ids, server[other].at <= Reach(q), other # id PROVE Shows(other)
      <4>1. CASE changed = {id} BY <2>5, <3>5, <4>1
      <4>2. CASE changed # {id}
        <5>1. server[other].at <= server[id].at BY <3>3, <3>4, <3>5, <4>2 DEF Reach
        <5>2. server[other].at = server[id].at => other = id
          BY <3>4 DEF PullInv, Dated
        <5>3. other \notin changed BY <3>1, <3>4, <3>5, <5>1, <5>2
        <5> QED BY <2>5, <5>3
      <4> QED BY <4>1, <4>2
    <3>6. CoveredBut(Reach(q), id)' BY <2>1, <3>5 DEF CoveredBut, Reach, Shows
    <3>7. InHand(q)' BY <2>1, <3>3, <3>4, <3>6 DEF InHand
    <3>8. PullHolds(q)' BY <2>1, <2>2, <3>3, <3>4, <3>7 DEF PullHolds
    <3>9. puller' = [puller EXCEPT ![t] = q] BY <3>1, <3>2
    <3> QED BY <2>1, <3>8, <3>9, NothingIsWritten, OneMoves
  <2> QED BY <2>6, <2>7
<1>5. CASE ApplyTombstone(t) \/ PutRemote(t)
  <2>1. p.stage \in {"row", "merging"} /\ UNCHANGED <<clock, server, watermark>>
    BY <1>1, <1>5 DEF ApplyTombstone, PutRemote
  <2>2. PICK q : q = [p EXCEPT !.stage = "read"] OBVIOUS
  <2>3. puller' = [puller EXCEPT ![t] = q] BY <1>1, <1>5, <2>2 DEF ApplyTombstone, PutRemote
  <2>4. /\ q.stage = "read" /\ q.since = p.since /\ q.next = p.next /\ q.latest = p.latest
        /\ Reach(q) = Reach(p)
    BY <2>2 DEF Pulls, Reach
  <2>5. InHand(p) BY <2>1 DEF PullHolds
  <2>6. p.id \in Ids /\ watermark < p.at /\ CoveredBut(Reach(p), p.id) /\ Reach(p) <= p.latest
        /\ Reach(p) \in Nat
    BY <2>5 DEF InHand, PullHolds, Reach
  <2>7. \A id \in Ids : id # p.id => local'[id] = local[id]
    BY <1>1, <1>5 DEF ApplyTombstone, PutRemote, PullTypes
  <2>8. server[p.id].at = p.at => Shows(p.id)'
    <3> SUFFICES ASSUME server[p.id].at = p.at PROVE Shows(p.id)'
      OBVIOUS
    <3>1. server[p.id].deleted = p.deleted BY <2>5 DEF InHand
    <3>2. CASE ApplyTombstone(t)
      <4>1. p.deleted /\ local'[p.id] = Absent BY <1>1, <2>6, <3>2 DEF ApplyTombstone, PullTypes
      <4> QED BY <2>1, <3>1, <4>1 DEF Shows
    <3>3. CASE PutRemote(t) /\ p.keep
      <4>1. p.stage = "merging" /\ local' = local BY <1>1, <3>3 DEF PutRemote
      <4>2. p.at <= local[p.id].at BY <3>3, <4>1 DEF PullHolds
      <4> QED BY <2>1, <4>1, <4>2 DEF Shows
    <3>4. CASE PutRemote(t) /\ ~p.keep
      <4>1. local'[p.id] = [at |-> p.at] BY <1>1, <2>6, <3>4 DEF PutRemote, PullTypes
      <4> QED BY <2>1, <4>1 DEF Shows
    <3> QED BY <1>5, <3>2, <3>3, <3>4
  <2>9. ASSUME NEW id \in Ids, server[id].at <= Reach(p) PROVE Shows(id)'
    <3>1. CASE id = p.id
      <4>1. server[id].at = p.at BY <2>5, <2>6, <2>9, <3>1 DEF InHand
      <4> QED BY <2>8, <3>1, <4>1
    <3>2. CASE id # p.id
      <4>1. Shows(id) BY <2>6, <2>9, <3>2 DEF CoveredBut
      <4> QED BY <2>1, <2>7, <3>2, <4>1 DEF Shows
    <3> QED BY <3>1, <3>2
  <2>10. Covered(watermark)'
    <3> SUFFICES ASSUME NEW id \in Ids, server[id].at <= watermark PROVE Shows(id)'
      BY <2>1 DEF Covered
    <3>1. CASE id = p.id
      <4>1. p.latest < server[id].at \/ server[id].at = p.at BY <2>5, <3>1 DEF InHand
      <4> QED BY <2>5, <2>6, <3>1, <4>1 DEF InHand
    <3>2. CASE id # p.id
      <4>1. Shows(id) BY DEF PullInv, Covered
      <4> QED BY <2>1, <2>7, <3>2, <4>1 DEF Shows
    <3> QED BY <3>1, <3>2
  <2>11. PullHolds(q)'
    <3>1. Covered(Reach(q))' BY <2>1, <2>4, <2>9 DEF Covered, Reach
    <3>2. p.latest <= clock /\ p.next <= p.latest /\ p.since = watermark BY <2>1 DEF PullHolds
    <3> QED BY <2>1, <2>4, <3>1, <3>2 DEF PullHolds
  <2>12. Dated' BY <2>1 DEF PullInv, Dated
  <2> QED BY <2>3, <2>10, <2>11, <2>12, OneMoves
<1>6. CASE ReadLocal(t)
  <2>1. p.stage = "row" /\ ~p.deleted /\ UNCHANGED <<clock, server, local, watermark>>
    BY <1>1, <1>6 DEF ReadLocal
  <2>2. PICK keep : keep = (/\ PendingWired /\ local[p.id] # Absent
                            /\ p.id \in queued /\ local[p.id].at > p.at)
    OBVIOUS
  <2>3. PICK q : q = [p EXCEPT !.stage = "merging", !.keep = keep] OBVIOUS
  <2>4. puller' = [puller EXCEPT ![t] = q] BY <1>1, <1>6, <2>2, <2>3 DEF ReadLocal
  <2>5. /\ q.stage = "merging" /\ q.since = p.since /\ q.next = p.next /\ q.latest = p.latest
        /\ q.id = p.id /\ q.at = p.at /\ q.deleted = p.deleted /\ q.keep = keep
    BY <2>3 DEF Pulls
  <2>6. InHand(p) BY <2>1 DEF PullHolds
  <2>7. InHand(q)'
    <3>1. CoveredBut(Reach(q), q.id)' BY <2>1, <2>5, <2>6 DEF InHand, CoveredBut, Reach, Shows
    <3> QED BY <2>1, <2>5, <2>6, <3>1 DEF InHand
  <2>8. keep => p.at <= local[p.id].at
    <3>1. p.id \in Ids /\ local[p.id].at \in Nat BY <2>6 DEF InHand
    <3>2. CASE ~keep BY <3>2
    <3>3. CASE keep
      <4>1. local[p.id].at > p.at BY <2>2, <3>3
      <4> QED BY <3>1, <4>1
    <3> QED BY <3>2, <3>3
  <2>9. PullHolds(q)' BY <2>1, <2>5, <2>7, <2>8 DEF PullHolds
  <2> QED BY <2>1, <2>4, <2>9, NothingIsWritten, OneMoves
<1>7. CASE NextPage(t)
  <2>1. p.stage = "read" /\ p.next # 0 /\ UNCHANGED <<clock, server, local, watermark>>
    BY <1>1, <1>7 DEF NextPage
  <2>2. PICK q : q = [p EXCEPT !.stage = "asked", !.cursor = p.next] OBVIOUS
  <2>3. puller' = [puller EXCEPT ![t] = q] BY <1>1, <1>7, <2>2 DEF NextPage
  <2>4. /\ q.stage = "asked" /\ q.since = p.since /\ q.next = p.next /\ q.latest = p.latest
        /\ q.cursor = p.next
    BY <2>2 DEF Pulls
  <2>5. Covered(p.next) BY <2>1 DEF PullHolds, Reach
  <2>6. Covered(q.cursor)' BY <2>1, <2>4, <2>5 DEF Covered, Shows
  <2>7. PullHolds(q)' BY <2>1, <2>4, <2>6 DEF PullHolds
  <2> QED BY <2>1, <2>3, <2>7, NothingIsWritten, OneMoves
<1>8. CASE Finish(t)
  <2>1. /\ p.stage = "read" /\ p.next = 0 /\ UNCHANGED <<clock, server, local>>
        /\ watermark' = IF p.latest = 0 THEN watermark ELSE p.latest
        /\ puller' = [puller EXCEPT ![t] = idle]
    BY <1>1, <1>2, <1>8 DEF Finish
  <2>2. Covered(p.latest) /\ p.latest <= clock BY <2>1 DEF PullHolds, Reach
  <2>3. Covered(watermark)' BY <2>1, <2>2 DEF PullInv, Covered, Shows
  <2>4. Dated' BY <2>1, <2>2 DEF PullInv, Dated
  <2>5. PullHolds(idle)' BY <1>2, <2>1 DEF PullHolds
  <2> QED BY <2>1, <2>3, <2>4, <2>5, OneMoves
<1>9. CASE PageFails(t) \/ Crash(t)
  <2>1. puller' = [puller EXCEPT ![t] = idle] /\ UNCHANGED <<clock, server, local, watermark>>
    BY <1>2, <1>9 DEF PageFails, Crash
  <2>2. PullHolds(idle)' BY <1>2, <2>1 DEF PullHolds
  <2> QED BY <2>1, <2>2, NothingIsWritten, OneMoves
<1>10. CASE PageIsAnError(t)
  <2>1. /\ p.stage = "asked" /\ p.cursor = 0 /\ UNCHANGED <<clock, server, local, watermark>>
    BY <1>1, <1>10 DEF PageIsAnError, ErrorsAreSeen
  <2>2. PICK q : q = [p EXCEPT !.stage = "read", !.next = 0] OBVIOUS
  <2>3. puller' = [puller EXCEPT ![t] = q] BY <1>1, <1>10, <2>2 DEF PageIsAnError
  <2>4. q.stage = "read" /\ q.since = p.since /\ q.next = 0 /\ q.latest = 0
    BY <2>1, <2>2 DEF Pulls, PullHolds
  <2>5. Covered(0)' BY <2>1, NothingIsWritten DEF Covered
  <2>6. PullHolds(q)' BY <2>1, <2>4, <2>5 DEF PullHolds, Reach, Covered
  <2> QED BY <2>1, <2>3, <2>6, NothingIsWritten, OneMoves
<1> QED BY <1>3, <1>4, <1>5, <1>6, <1>7, <1>8, <1>9, <1>10 DEF PullStep

\* The local table holds every change up to the watermark: whatever fails or is
\* interrupted, the next pull of a single tab asks again for what is missing.
THEOREM PullSkipsNothing ==
    ASSUME OneTab, ErrorsAreSeen
    PROVE  PullSpec => []NothingSkipped
<1>1. PullInit => PullInv
  <2> SUFFICES ASSUME PullInit PROVE PullInv
    OBVIOUS
  <2>1. Idle \in Pulls /\ Never \in [at : Nat, deleted : BOOLEAN] /\ Absent \in [at : Nat]
    BY DEF Idle, Pulls, Stages, Never, Absent
  <2>2. PullTypes BY <2>1 DEF PullInit, PullTypes
  <2>3. Dated BY DEF PullInit, Dated, Never
  <2>4. Covered(watermark) BY DEF PullInit, Covered, Shows, Never, Absent
  <2>5. ASSUME NEW t \in Tabs PROVE PullHolds(puller[t])
    <3>1. puller[t] = Idle /\ clock = 0 BY DEF PullInit
    <3> QED BY <3>1 DEF PullHolds, Idle
  <2> QED BY <2>2, <2>3, <2>4, <2>5 DEF PullInv
<1>2. PullInv /\ [PullNext]_pullVars => PullInv'
  <2> SUFFICES ASSUME PullInv, [PullNext]_pullVars PROVE PullInv'
    OBVIOUS
  <2>1. PullTypes' BY PullTypesStep DEF PullInv
  <2>2. ASSUME NEW id \in Ids, NEW deleted \in BOOLEAN, ServerWrite(id, deleted) PROVE PullInv'
    <3>1. /\ UNCHANGED <<puller, watermark, local>> /\ clock' = clock + 1
          /\ \A x \in Ids : x # id => server'[x] = server[x]
          /\ server'[id].at = clock + 1
      BY <2>2 DEF ServerWrite, PullInv, PullTypes
    <3> QED BY <2>1, <3>1, ChangeElsewhere
  <2>3. ASSUME NEW id \in Ids, LocalEdit(id) PROVE PullInv'
    <3>1. /\ UNCHANGED <<puller, watermark, server>> /\ clock' = clock + 1
          /\ \A x \in Ids : x # id => local'[x] = local[x]
          /\ local'[id].at = clock + 1
      BY <2>3 DEF LocalEdit, PullInv, PullTypes
    <3> QED BY <2>1, <3>1, ChangeElsewhere
  <2>4. ASSUME NEW id \in Ids, Push(id) PROVE PullInv'
    <3>1. /\ UNCHANGED <<puller, watermark, local>> /\ clock' = clock + 1
          /\ \A x \in Ids : x # id => server'[x] = server[x]
          /\ server'[id].at = clock + 1
      BY <2>4 DEF Push, PullInv, PullTypes
    <3> QED BY <2>1, <3>1, ChangeElsewhere
  <2>5. ASSUME NEW t \in Tabs,
               Pull(t) \/ PullStep(t) \/ PageFails(t) \/ PageIsAnError(t) \/ Crash(t)
        PROVE  PullInv'
    BY <2>1, <2>5, PullMoves, PullAssumption
  <2>6. CASE UNCHANGED pullVars
    BY <2>6 DEF pullVars, PullInv, PullTypes, Dated, Covered, CoveredBut, Shows, PullHolds,
                InHand, Reach
  <2> QED BY <2>2, <2>3, <2>4, <2>5, <2>6 DEF PullNext
<1>3. PullInv => NothingSkipped BY DEF PullInv, Covered, NothingSkipped
<1> QED BY <1>1, <1>2, <1>3, PTL DEF PullSpec

-----------------------------------------------------------------------------
(* The virtualized list: where the view declares the slid window and the   *)
(* items stay, windows are whole pages of the list.                        *)

\* A window asked for starts at a page of the list and is as long as may be.
IsWhole(w) == w.from \in 0..LastPage /\ w = WholeWindow(w.from)

\* The element, its rows and the application's window agree, and the spacer was
\* laid for them.
Aligned ==
    /\ attr.count = count /\ rows.from = attr.start /\ IsWhole(rows)
    /\ slid = NoWindow => attr.start = 0
    /\ slid # NoWindow => slid = rows
    /\ laid => before = IF attr.count <= Rendered THEN 0 ELSE attr.start
    /\ \A i \in DOMAIN wire : IsWhole(wire[i])

\* Who waits for the window has scrolled into it, or into the one asked for.
Spans(w) == top \in w.from..(w.to - 1)
Follows ==
    /\ wire = <<>> => Spans(rows) /\ requested \in {None, attr.start}
    /\ wire # <<>> => Len(wire) = 1 /\ Spans(wire[1]) /\ requested = wire[1].from

ListInv ==
    /\ ListTypes
    /\ habit.declares /\ ~habit.resizes => Aligned /\ (~habit.hasty => Follows)

LEMMA Lengths == MaxCount \in Nat /\ MaxCount > 0 /\ WindowSize \in Nat /\ WindowSize > 0
BY ListAssumption

\* What is materialized is within the items there are.
LEMMA MaterializedFits ==
    ASSUME NEW s \in Windows \cup {NoWindow}, NEW n \in 1..MaxCount
    PROVE  /\ Materialized(s, n) \in Windows
           /\ Materialized(s, n).from <= Materialized(s, n).to
           /\ Materialized(s, n).to <= n
<1> n \in Nat /\ n <= MaxCount BY Lengths
<1>1. CASE s = NoWindow
  <2> DEFINE m == [from |-> 0, to |-> Least(WindowSize, n)]
  <2>1. Materialized(s, n) = m BY <1>1 DEF Materialized
  <2>2. m.to \in 0..MaxCount /\ m.to <= n BY Lengths DEF Least, Most
  <2> QED BY <2>1, <2>2, Lengths DEF Least, Most, Windows
<1>2. CASE s # NoWindow
  <2>1. s.from \in 0..MaxCount /\ s.to \in 0..MaxCount BY <1>2 DEF Windows
  <2>2. PICK f, g : f = Least(s.from, n) /\ g = Most(f, Least(s.to, n)) OBVIOUS
  <2>3. f \in 0..n /\ Least(s.to, n) \in 0..n BY <2>1, <2>2, Lengths DEF Least, Most
  <2>4. g \in f..n BY <2>2, <2>3, Lengths DEF Least, Most
  <2>5. Materialized(s, n) = [from |-> f, to |-> g] BY <1>2, <2>2 DEF Materialized
  <2>6. f \in 0..MaxCount /\ g \in 0..MaxCount /\ f <= g /\ g <= n BY <2>3, <2>4, Lengths
  <2> QED BY <2>5, <2>6 DEF Windows
<1> QED BY <1>1, <1>2

\* The names of what ListTypes says.
ListShape ==
    /\ habit \in Habits /\ count \in 1..MaxCount /\ slid \in Windows \cup {NoWindow}
    /\ attr.count \in 1..MaxCount /\ attr.start \in 0..MaxCount
    /\ rows.from \in 0..count /\ rows.to \in rows.from..count
    /\ before \in 0..MaxCount /\ top \in 0..(MaxCount - 1)
    /\ LastPage \in 0..MaxCount /\ Rendered \in 0..MaxCount
LEMMA ListUnpack == ASSUME ListTypes PROVE ListShape
<1>1. rows.from \in 0..MaxCount /\ rows.to \in 0..MaxCount BY DEF ListTypes, Windows
<1>2. attr.count \in 1..MaxCount /\ attr.start \in 0..MaxCount /\ count \in 1..MaxCount
  BY DEF ListTypes
<1>3. LastPage \in 0..MaxCount /\ Rendered \in 0..MaxCount
  BY <1>1, <1>2, Lengths DEF Least, Most, LastPage, Rendered, ListTypes
<1> QED BY <1>1, <1>2, <1>3, Lengths DEF Least, Most, ListTypes, ListShape

LEMMA RebuildTypes ==
    ASSUME ListTypes, NEW s \in Windows \cup {NoWindow}, NEW n \in 1..MaxCount,
           s \in Windows \/ s = slid, Rebuild(s, n),
           requested' \in 0..MaxCount \cup {None}, wire' \in Seq(Windows)
    PROVE  ListTypes'
<1>1. ListShape BY ListUnpack
<1>2. rows' \in Windows /\ rows'.from <= rows'.to /\ rows'.to <= count'
  BY MaterializedFits DEF Rebuild
<1>3. attr' \in [count : 1..MaxCount, start : 0..MaxCount]
  <2>1. StartAfter(s) \in 0..MaxCount
    <3>1. CASE Prop(s) # Prop(slid)
      <4>1. habit.declares /\ s # slid BY <3>1 DEF Prop
      <4>2. Prop(s).from \in 0..MaxCount BY <4>1 DEF Prop, Windows
      <4> QED BY <3>1, <4>2 DEF StartAfter
    <3>2. CASE Prop(s) = Prop(slid) BY <3>2, Lengths DEF Least, Most, StartAfter
    <3> QED BY <3>1, <3>2
  <2>2. [count |-> n, start |-> StartAfter(s)] \in [count : 1..MaxCount, start : 0..MaxCount]
    BY <2>1
  <2> QED BY <2>2 DEF Rebuild, ListTypes
<1> QED BY <1>2, <1>3 DEF Rebuild, ListTypes

\* The window at a page of the list.
LEMMA RequestTypes ==
    ASSUME ListTypes, NEW from \in 0..MaxCount, Request(from)
    PROVE  requested' \in 0..MaxCount \cup {None} /\ wire' \in Seq(Windows)
<1>1. ListShape BY ListUnpack
<1> DEFINE w == [from |-> from, to |-> Least(attr.count, from + WindowSize)]
<1>2. Least(attr.count, from + WindowSize) \in 0..MaxCount BY <1>1, Lengths DEF Least, Most, ListShape
<1>3. w \in Windows BY <1>2 DEF Windows
<1> QED BY <1>3 DEF Request, ListTypes

LEMMA NextStartIsAPage ==
    ASSUME ListTypes, NEW t \in 0..(attr.count - 1)
    PROVE  NextStart(t) \in 0..LastPage /\ NextStart(t) \in 0..MaxCount
<1>1. ListShape BY ListUnpack
<1>2. Lead \in Nat BY Lengths DEF Least, Most, Lead
<1>3. t \in Nat BY <1>1 DEF ListShape
<1>4. Most(0, t - Lead) \in Int /\ Most(0, t - Lead) >= 0 BY <1>2, <1>3, Lengths DEF Least, Most
<1> QED BY <1>1, <1>4, Lengths DEF Least, Most, NextStart, ListShape

LEMMA ListTypesStep == ASSUME ListTypes, [ListNext]_listVars PROVE ListTypes'
<1>1. ListShape BY ListUnpack
<1>2. CASE Slide
  <2>1. Head(wire) \in Windows /\ Tail(wire) \in Seq(Windows)
    BY <1>2 DEF Slide, ListTypes
  <2> QED BY <1>1, <1>2, <2>1, RebuildTypes DEF Slide, ListTypes, ListShape
<1>3. CASE Resize
  <2>1. PICK n \in 1..MaxCount : Rebuild(slid, n) /\ UNCHANGED <<requested, wire>>
    BY <1>3 DEF Resize
  <2> QED BY <1>1, <2>1, RebuildTypes DEF ListTypes
<1>4. CASE Refresh
  <2>1. requested' \in 0..MaxCount \cup {None} /\ wire' \in Seq(Windows)
    BY <1>1, <1>4, RequestTypes DEF Refresh, ListTypes, ListShape
  <2>2. before' \in 0..MaxCount BY <1>1, <1>4, Lengths DEF Least, Most, Refresh, ListShape
  <2>3. top' \in 0..(MaxCount - 1)
    <3>1. Most(attr.count, Rendered) - 1 \in 0..MaxCount BY <1>1, Lengths DEF Least, Most, ListShape
    <3>2. Most(0, Most(attr.count, Rendered) - 1) \in Nat BY <3>1, Lengths DEF Least, Most
    <3>3. top \in 0..(MaxCount - 1) BY <1>1 DEF ListShape
    <3> QED BY <1>4, <3>2, <3>3, Lengths DEF Least, Most, Refresh
  <2> QED BY <1>4, <2>1, <2>2, <2>3 DEF Refresh, app, ListTypes
<1>5. CASE Scroll
  <2>1. PICK t \in 0..(attr.count - 1) :
          /\ top' = t /\ UNCHANGED <<app, view>>
          /\ Request(NextStart(t)) \/ UNCHANGED <<requested, wire>>
    BY <1>5 DEF Scroll
  <2>2. requested' \in 0..MaxCount \cup {None} /\ wire' \in Seq(Windows)
    BY <2>1, RequestTypes, NextStartIsAPage DEF ListTypes
  <2>3. top' \in 0..(MaxCount - 1) BY <1>1, <2>1, Lengths DEF Least, Most, ListShape
  <2> QED BY <2>1, <2>2, <2>3 DEF app, view, ListTypes
<1>6. CASE UNCHANGED listVars BY <1>6 DEF listVars, app, view, ListTypes
<1> QED BY <1>2, <1>3, <1>4, <1>5, <1>6 DEF ListNext

\* The window that is shown is a page of the list, and not empty.
LEMMA ShownPage ==
    ASSUME ListTypes, Aligned
    PROVE  /\ attr.count = count /\ rows.from = attr.start /\ attr.start <= LastPage
           /\ rows.to = Least(count, attr.start + WindowSize)
           /\ attr.start < count /\ Rendered > 0
<1>1. ListShape BY ListUnpack
<1>2. /\ attr.count = count /\ rows.from = attr.start /\ attr.start \in 0..LastPage
      /\ rows = [from |-> attr.start, to |-> Least(count, attr.start + WindowSize)]
  BY DEF Aligned, IsWhole, WholeWindow
<1>3. rows.to = Least(count, attr.start + WindowSize) BY <1>2
<1>4. attr.start < count BY <1>1, <1>2, Lengths DEF ListShape, LastPage, Most
<1>5. Rendered > 0 BY <1>1, <1>2, <1>3, <1>4, Lengths DEF ListShape, Rendered, Least
<1> QED BY <1>1, <1>2, <1>3, <1>4, <1>5 DEF ListShape

\* A window that is a page is materialized as it is.
LEMMA WholeIsMaterialized ==
    ASSUME ListTypes, NEW w \in Windows, IsWhole(w), attr.count = count
    PROVE  w # NoWindow /\ Materialized(w, count) = w /\ w.to = Least(count, w.from + WindowSize)
<1>1. ListShape BY ListUnpack
<1>2. w.from \in 0..LastPage /\ w = [from |-> w.from, to |-> Least(count, w.from + WindowSize)]
  BY DEF IsWhole, WholeWindow
<1>3. w.to = Least(count, w.from + WindowSize) BY <1>2
<1>4. w # NoWindow BY <1>2 DEF NoWindow, None
<1>5. w.from <= count BY <1>1, <1>2, Lengths DEF ListShape, LastPage, Most
<1>6. Least(w.from, count) = w.from /\ Most(w.from, Least(w.to, count)) = w.to
  BY <1>1, <1>2, <1>3, <1>5, Lengths DEF ListShape, Least, Most
<1>7. Materialized(w, count) = [from |-> w.from, to |-> w.to]
  BY <1>4, <1>6 DEF Materialized
<1> QED BY <1>2, <1>3, <1>4, <1>7

\* Pages stay pages while the items stay.
LEMMA WholeStays ==
    ASSUME count' = count, attr'.count = attr.count, NEW w, IsWhole(w)
    PROVE  IsWhole(w)'
BY DEF IsWhole, WholeWindow, LastPage

LEMMA SlideKeeps ==
    ASSUME ListTypes, Aligned, habit.declares, Slide
    PROVE  /\ Aligned'
           /\ Follows => Follows'
<1>1. ListShape BY ListUnpack
<1>2. PICK s : s = Head(wire) OBVIOUS
<1>3. /\ wire # <<>> /\ wire' = Tail(wire) /\ requested' = requested
      /\ slid' = s /\ count' = count /\ rows' = Materialized(s, count) /\ laid' = FALSE
      /\ UNCHANGED <<habit, before, top>>
      /\ attr' = IF Prop(s) = Prop(slid) THEN attr ELSE [count |-> count, start |-> StartAfter(s)]
  BY <1>2 DEF Slide, Rebuild
<1>4. /\ s = wire[1] /\ s \in Windows /\ IsWhole(s)
      /\ \A i \in DOMAIN wire' : i + 1 \in DOMAIN wire /\ wire'[i] = wire[i + 1]
  BY <1>2, <1>3 DEF ListTypes, Aligned
<1>5. s # NoWindow /\ rows' = s BY <1>3, <1>4, WholeIsMaterialized DEF Aligned
<1>6. attr'.count = count /\ attr'.start = s.from
  <2>1. Prop(s) = s /\ Prop(slid) = slid BY DEF Prop
  <2>2. CASE s = slid
    <3>1. attr' = attr BY <1>3, <2>1, <2>2
    <3> QED BY <1>5, <2>2, <3>1 DEF Aligned
  <2>3. CASE s # slid BY <1>3, <2>1, <2>3 DEF StartAfter
  <2> QED BY <2>2, <2>3
<1>7. Aligned'
  <2>1. IsWhole(s)' BY <1>3, <1>4, <1>6, WholeStays DEF Aligned
  <2>2. \A i \in DOMAIN wire' : IsWhole(wire[i])'
    <3> SUFFICES ASSUME NEW i \in DOMAIN wire' PROVE IsWhole(wire[i])'
      OBVIOUS
    <3>1. PICK w : w = wire[i + 1] /\ w = wire'[i] BY <1>4
    <3>2. IsWhole(w) BY <1>4, <3>1 DEF Aligned
    <3>3. IsWhole(w)' BY <1>3, <1>6, <3>2, WholeStays DEF Aligned
    <3> QED BY <3>1, <3>3 DEF IsWhole, WholeWindow
  <2>3. IsWhole(rows)' BY <1>5, <2>1 DEF IsWhole, WholeWindow
  <2> QED BY <1>3, <1>5, <1>6, <2>2, <2>3 DEF Aligned
<1>8. ASSUME Follows PROVE Follows'
  <2>1. Len(wire) = 1 /\ Spans(s) /\ requested = s.from BY <1>3, <1>4, <1>8 DEF Follows
  <2>2. wire' = <<>> BY <1>3, <2>1 DEF ListTypes
  <2> QED BY <1>3, <1>5, <1>6, <2>1, <2>2 DEF Follows, Spans
<1> QED BY <1>7, <1>8

LEMMA RefreshKeeps ==
    ASSUME ListTypes, Aligned, Refresh
    PROVE  /\ Aligned'
           /\ Follows => Follows'
<1>1. ListShape BY ListUnpack
<1>2. /\ attr.count = count /\ attr.start <= LastPage /\ attr.start < count /\ Rendered > 0
      /\ rows.to = Least(count, attr.start + WindowSize)
  BY ShownPage
<1>3. ~MustRecover BY <1>1, <1>2 DEF MustRecover, ListShape
<1>4. /\ UNCHANGED <<requested, wire, app, attr, rows>>
      /\ before' = IF attr.count <= Rendered THEN 0 ELSE attr.start
      /\ top' = Least(top, Most(0, Most(attr.count, Rendered) - 1))
  BY <1>1, <1>2, <1>3 DEF Refresh, ListShape
<1>5. Aligned'
  <2>1. IsWhole(rows)' /\ \A i \in DOMAIN wire' : IsWhole(wire[i])'
    BY <1>4 DEF Aligned, IsWhole, WholeWindow, LastPage, app
  <2>2. before' = IF attr'.count <= Rendered' THEN 0 ELSE attr'.start
    BY <1>4 DEF Rendered
  <2> QED BY <1>4, <2>1, <2>2 DEF Aligned, app
<1>6. ASSUME Follows PROVE Follows'
  <2>1. top < count
    <3>1. CASE wire = <<>> BY <1>1, <1>6, <3>1 DEF Follows, Spans, ListShape
    <3>2. CASE wire # <<>>
      <4>1. PICK w : w = wire[1] OBVIOUS
      <4>2. Spans(w) /\ w \in Windows /\ IsWhole(w)
        <5>1. 1 \in DOMAIN wire BY <3>2 DEF ListTypes
        <5> QED BY <1>6, <3>2, <4>1, <5>1 DEF Follows, Aligned, ListTypes
      <4>3. w.to = Least(count, w.from + WindowSize) BY <1>2, <4>2, WholeIsMaterialized
      <4>4. w.from \in Nat /\ w.to \in Nat BY <4>2 DEF Windows
      <4>5. w.to <= count BY <1>1, <4>3, <4>4, Lengths DEF ListShape, Least
      <4> QED BY <1>1, <4>2, <4>4, <4>5 DEF Spans, ListShape
    <3> QED BY <3>1, <3>2
  <2>2. top' = top BY <1>1, <1>2, <1>4, <2>1 DEF ListShape, Least, Most
  <2> QED BY <1>4, <1>6, <2>2 DEF Follows, Spans
<1> QED BY <1>5, <1>6

LEMMA ScrollKeeps ==
    ASSUME ListTypes, Aligned, Scroll
    PROVE  /\ Aligned'
           /\ ~habit.hasty /\ Follows => Follows'
<1>1. ListShape BY ListUnpack
<1>2. /\ attr.count = count /\ rows.from = attr.start /\ attr.start <= LastPage
      /\ attr.start < count /\ Rendered > 0 /\ rows.to = Least(count, attr.start + WindowSize)
  BY ShownPage
<1>3. PICK t \in 0..(attr.count - 1) :
        /\ top' = t /\ UNCHANGED <<app, view>> /\ (habit.hasty \/ Quiet)
        /\ IF Rendered > 0 /\ WindowSize < attr.count /\ MustAsk(NextStart(t))
           THEN Request(NextStart(t)) ELSE UNCHANGED <<requested, wire>>
  BY DEF Scroll
<1>4. UNCHANGED <<habit, count, slid, attr, rows, before, laid>> BY <1>3 DEF app, view
<1>5. PICK n : n = NextStart(t) OBVIOUS
<1>6. n \in 0..LastPage /\ n \in 0..MaxCount BY <1>5, NextStartIsAPage
<1>7. PICK w : w = [from |-> n, to |-> Least(attr.count, n + WindowSize)] OBVIOUS
<1>8. w.from = n /\ w.to = Least(count, n + WindowSize) /\ IsWhole(w)
  BY <1>2, <1>6, <1>7 DEF IsWhole, WholeWindow
<1>9. Lead \in Nat /\ Lead < WindowSize BY Lengths DEF Lead
<1>10. t \in n..(Least(count, n + WindowSize) - 1)
  <2>1. t \in 0..(count - 1) /\ count \in Nat BY <1>1, <1>2, <1>3 DEF ListShape
  <2>2. n = Least(Most(0, count - WindowSize), Most(0, t - Lead))
    BY <1>2, <1>5 DEF NextStart, LastPage
  <2> QED BY <1>9, <2>1, <2>2, Lengths DEF Least, Most
<1>11. CASE Request(n) /\ MustAsk(n)
  <2>1. wire' = Append(wire, w) /\ requested' = n BY <1>7, <1>11 DEF Request
  <2>2. Aligned'
    <3>1. \A i \in DOMAIN wire' : wire'[i] = w \/ (i \in DOMAIN wire /\ wire'[i] = wire[i])
      BY <2>1 DEF ListTypes
    <3>2. \A i \in DOMAIN wire' : IsWhole(wire'[i]) BY <1>8, <3>1 DEF Aligned
    <3>3. \A i \in DOMAIN wire' : IsWhole(wire[i])'
      BY <1>4, <3>2 DEF IsWhole, WholeWindow, LastPage
    <3>4. IsWhole(rows)' BY <1>4 DEF Aligned, IsWhole, WholeWindow, LastPage
    <3> QED BY <1>4, <3>3, <3>4 DEF Aligned, Rendered
  <2>3. ASSUME ~habit.hasty PROVE Follows'
    <3>1. wire = <<>> BY <1>3, <2>3 DEF Quiet
    <3>2. wire' = <<w>> BY <2>1, <3>1
    <3>3. wire' # <<>> /\ Len(wire') = 1 /\ wire'[1] = w BY <3>2
    <3>4. Spans(w)' BY <1>3, <1>8, <1>10 DEF Spans
    <3> QED BY <1>8, <2>1, <3>3, <3>4 DEF Follows, Spans
  <2> QED BY <2>2, <2>3
<1>12. CASE UNCHANGED <<requested, wire>> /\ (WindowSize >= attr.count \/ ~MustAsk(n))
  <2>1. Aligned'
    <3>1. IsWhole(rows)' /\ \A i \in DOMAIN wire' : IsWhole(wire[i])'
      BY <1>4, <1>12 DEF Aligned, IsWhole, WholeWindow, LastPage
    <3> QED BY <1>4, <1>12, <3>1 DEF Aligned, Rendered
  <2>2. ASSUME ~habit.hasty, Follows PROVE Follows'
    <3>1. wire = <<>> /\ requested \in {None, attr.start} BY <1>3, <2>2 DEF Quiet, Follows
    <3>2. t \in rows.from..(rows.to - 1)
      <4>1. CASE n = attr.start BY <1>2, <1>10, <4>1
      <4>2. CASE n # attr.start
        <5>1. n # requested BY <1>6, <3>1, <4>2 DEF None
        <5>2. WindowSize >= count BY <1>2, <1>12, <4>2, <5>1 DEF MustAsk
        <5>3. LastPage = 0 BY <1>1, <1>2, <5>2, Lengths DEF LastPage, Most, ListShape
        <5> QED BY <1>1, <1>2, <1>6, <4>2, <5>3 DEF ListShape
      <4> QED BY <4>1, <4>2
    <3> QED BY <1>3, <1>4, <1>12, <3>1, <3>2 DEF Follows, Spans
  <2> QED BY <2>1, <2>2
<1> QED BY <1>1, <1>2, <1>3, <1>5, <1>11, <1>12, Lengths DEF ListShape

\* However the user scrolls and the application resizes: where the window is
\* declared and the items stay, the spacer puts the rows at their true offset,
\* and they hold what the user who waits for them scrolled to.
THEOREM WindowsAreTrue == ListSpec => []WindowIsTrue
<1>1. ListInit => ListInv
  <2> SUFFICES ASSUME ListInit PROVE ListInv
    OBVIOUS
  <2>1. /\ habit \in Habits /\ count = MaxCount /\ slid = NoWindow
        /\ attr = [count |-> count, start |-> 0] /\ rows = Materialized(NoWindow, count)
        /\ before = 0 /\ laid = TRUE /\ top = 0 /\ requested = None /\ wire = <<>>
    BY DEF ListInit
  <2>2. rows = [from |-> 0, to |-> Least(WindowSize, count)] BY <2>1 DEF Materialized
  <2>3. rows.from = 0 /\ rows.to = Least(WindowSize, count) /\ rows.to \in 1..MaxCount
    BY <2>1, <2>2, Lengths DEF Least
  <2>4. ListTypes
    <3>1. rows \in Windows BY <2>2, <2>3, Lengths DEF Windows
    <3> QED BY <2>1, <2>3, <3>1, Lengths DEF ListTypes
  <2>5. IsWhole(rows)
    <3>1. 0 \in 0..LastPage BY <2>1, Lengths DEF LastPage, Most
    <3>2. Least(count, 0 + WindowSize) = Least(WindowSize, count)
      BY <2>1, Lengths DEF Least
    <3> QED BY <2>2, <2>3, <3>1, <3>2 DEF IsWhole, WholeWindow
  <2>6. Aligned BY <2>1, <2>3, <2>5 DEF Aligned
  <2>7. Follows BY <2>1, <2>3 DEF Follows, Spans
  <2> QED BY <2>4, <2>6, <2>7 DEF ListInv
<1>2. ListInv /\ [ListNext]_listVars => ListInv'
  <2> SUFFICES ASSUME ListInv, [ListNext]_listVars PROVE ListInv'
    OBVIOUS
  <2>1. ListTypes /\ ListTypes' BY ListTypesStep DEF ListInv
  <2>2. habit' = habit
    BY DEF ListNext, Slide, Resize, Rebuild, Refresh, Scroll, listVars, app
  <2>3. ASSUME habit.declares, ~habit.resizes
        PROVE  Aligned' /\ (~habit.hasty => Follows')
    <3>1. Aligned /\ (~habit.hasty => Follows) BY <2>3 DEF ListInv
    <3>2. CASE Slide BY <2>1, <2>3, <3>1, <3>2, SlideKeeps
    <3>3. CASE Resize BY <2>3, <3>3 DEF Resize
    <3>4. CASE Refresh BY <2>1, <3>1, <3>4, RefreshKeeps
    <3>5. CASE Scroll BY <2>1, <3>1, <3>5, ScrollKeeps
    <3>6. CASE UNCHANGED listVars
      BY <3>1, <3>6 DEF listVars, app, view, Aligned, Follows, Spans, IsWhole, WholeWindow,
                        LastPage, Rendered
    <3> QED BY <3>2, <3>3, <3>4, <3>5, <3>6 DEF ListNext
  <2> QED BY <2>1, <2>2, <2>3 DEF ListInv
<1>3. ListInv => WindowIsTrue
  <2> SUFFICES ASSUME ListInv, habit.declares, ~habit.resizes
               PROVE  SpacerIsTrue /\ (~habit.hasty /\ Quiet => top \in rows.from..(rows.to - 1))
    BY DEF ListInv, WindowIsTrue, DeclaredSpacerIsTrue, WindowFollows
  <2>1. ListTypes /\ Aligned /\ (~habit.hasty => Follows) BY DEF ListInv
  <2>2. SpacerIsTrue
    <3>1. attr.count = count /\ rows.from = attr.start BY <2>1, ShownPage
    <3>2. Rendered \in 0..MaxCount /\ count \in Nat BY <2>1, ListUnpack DEF ListShape
    <3> QED BY <2>1, <3>1, <3>2 DEF SpacerIsTrue, Quiet, Aligned
  <2>3. ~habit.hasty /\ Quiet => top \in rows.from..(rows.to - 1)
    BY <2>1 DEF Quiet, Follows, Spans
  <2> QED BY <2>2, <2>3
<1> QED BY <1>1, <1>2, <1>3, PTL DEF ListSpec

-----------------------------------------------------------------------------
(* The app-shell worker: what it answers with across releases.             *)

\* Where a release waits for the one before to settle, a worker that installs is
\* alone with its cache, and one that waits, or runs, has filled its own.
Settles ==
    /\ worker.installing \in Scripts =>
          /\ worker.waiting = Nothing /\ ~orphaned
          /\ live.script \in {worker.installing, Teardown}
    /\ worker.waiting \in Scripts =>
          /\ live.script \in {worker.waiting, Teardown}
          /\ precache[worker.waiting] # Nothing
    /\ worker.active \in Scripts => precache[worker.active] # Nothing

\* The teardown worker comes last, and never runs a page.
TeardownIsLast ==
    /\ worker.active # Teardown
    /\ worker.installing = Teardown \/ worker.waiting = Teardown => live.script = Teardown

ShellInv == ShellTypes /\ TeardownIsLast /\ (~releases.rushed => Settles)

LEMMA SlotFacts ==
    /\ Nothing \notin Scripts /\ Teardown \notin Scripts /\ Nothing # Teardown
    /\ Nothing \notin Contents /\ Broken \notin Contents /\ Broken # Nothing
    /\ Slots = Scripts \cup {Nothing, Teardown} /\ Scripts = Contents /\ 1 \in Contents
BY ReleasesAssumption DEF Nothing, Broken, Teardown, Scripts, Contents, Slots

\* A page is what it was but for the fields that an action sets.
LEMMA PageFacts ==
    /\ Closed \in PageStates
    /\ \A by \in Slots : Loading(by) \in PageStates
    /\ \A by \in Slots, code \in Contents \cup {Nothing, Broken}, reg \in {"none", "due", "done"} :
          [Loading(by) EXCEPT !.at = "open", !.code = code, !.reg = reg] \in PageStates
    /\ \A by \in Slots, code \in Contents \cup {Nothing, Broken}, reg \in {"none", "due", "done"} :
          [Loading(by) EXCEPT !.at = "open", !.code = code, !.reg = reg].code = code
<1>1. Closed \in PageStates BY SlotFacts DEF Closed, PageStates
<1>2. \A by \in Slots : Loading(by) \in PageStates BY <1>1, SlotFacts DEF Loading, PageStates
<1>3. ASSUME NEW by \in Slots, NEW code \in Contents \cup {Nothing, Broken},
             NEW reg \in {"none", "due", "done"}
      PROVE  /\ [Loading(by) EXCEPT !.at = "open", !.code = code, !.reg = reg] \in PageStates
             /\ [Loading(by) EXCEPT !.at = "open", !.code = code, !.reg = reg].code = code
  <2> DEFINE p == Loading(by)
  <2>1. p \in PageStates BY <1>2
  <2> HIDE DEF p
  <2>2. [p EXCEPT !.at = "open", !.code = code, !.reg = reg] \in PageStates BY <2>1 DEF PageStates
  <2>3. [p EXCEPT !.at = "open", !.code = code, !.reg = reg].code = code BY <2>1 DEF PageStates
  <2> QED BY <2>2, <2>3 DEF p
<1> QED BY <1>1, <1>2, <1>3

LEMMA FieldsSet ==
    ASSUME NEW p \in PageStates
    PROVE  /\ [p EXCEPT !.clicked = TRUE] \in PageStates
           /\ [p EXCEPT !.clicked = TRUE, !.armed = TRUE] \in PageStates
           /\ [p EXCEPT !.reg = "done"] \in PageStates
           /\ \A on \in BOOLEAN : [p EXCEPT !.watches = on] \in PageStates
           /\ \A by \in Slots : [p EXCEPT !.by = by] \in PageStates
           /\ ShowUpdatePrompt(p) \in PageStates
<1>1. [p EXCEPT !.clicked = TRUE] \in PageStates BY DEF PageStates
<1>2. [p EXCEPT !.clicked = TRUE, !.armed = TRUE] \in PageStates BY DEF PageStates
<1>3. [p EXCEPT !.reg = "done"] \in PageStates BY DEF PageStates
<1>4. \A on \in BOOLEAN : [p EXCEPT !.watches = on] \in PageStates BY DEF PageStates
<1>5. \A by \in Slots : [p EXCEPT !.by = by] \in PageStates BY DEF PageStates
<1>6. ShowUpdatePrompt(p) \in PageStates BY DEF PageStates, ShowUpdatePrompt
<1> QED BY <1>1, <1>2, <1>3, <1>4, <1>5, <1>6

LEMMA ShellStart == ShellInit => ShellInv
<1> SUFFICES ASSUME ShellInit PROVE ShellInv OBVIOUS
<1> USE SlotFacts DEF ShellInit
<1>1. ShellTypes BY PageFacts DEF ShellTypes, Releases, Registrations
<1> QED BY <1>1 DEF ShellInv, TeardownIsLast, Settles

\* Releases, the network, and pages that come and go leave the worker alone.
LEMMA OutsideStep ==
    ASSUME ShellInv,
           Ship \/ Retire \/ Network \/ \E t \in Pages : Visit(t) \/ Leave(t) \/ Click(t)
    PROVE  ShellInv'
<1> USE SlotFacts DEF ShellInv
<1>1. CASE Ship
  <2>1. live' \in Releases /\ live'.script \in Scripts
    <3>1. live.content \in Nat /\ live.list \in Scripts /\ live.content + 1 \in Contents
      BY <1>1, ReleasesAssumption DEF Ship, ShellTypes, Releases, Contents
    <3> QED BY <1>1, <3>1 DEF Ship, VersionOf, Releases, ShellTypes
  <2>2. live.script # Teardown /\ UNCHANGED <<releases, online, worker, orphaned, skip, precache, due, tab>>
        /\ (releases.rushed \/ (worker.installing = Nothing /\ worker.waiting = Nothing))
    BY <1>1 DEF Ship
  <2>3. ShellTypes' BY <2>1, <2>2 DEF ShellTypes
  <2> QED BY <2>2, <2>3 DEF TeardownIsLast, Settles
<1>2. CASE Retire
  <2>1. live' \in Releases /\ live'.script = Teardown BY <1>2 DEF Retire, ShellTypes, Releases
  <2>2. UNCHANGED <<releases, online, worker, orphaned, skip, precache, due, tab>> BY <1>2 DEF Retire
  <2> QED BY <2>1, <2>2 DEF ShellTypes, TeardownIsLast, Settles
<1>3. CASE Network BY <1>3 DEF Network, ShellTypes, TeardownIsLast, Settles
<1>4. ASSUME NEW t \in Pages, Visit(t) \/ Leave(t) \/ Click(t) PROVE ShellInv'
  <2>1. UNCHANGED <<shipped, worker, orphaned, precache, due>>
    BY <1>4 DEF Visit, Leave, Click
  <2>2. tab[t] \in PageStates /\ tab[t].by \in Slots BY DEF ShellTypes, PageStates
  <2>3. tab' \in [Pages -> PageStates]
    <3>1. /\ [tab[t] EXCEPT !.clicked = TRUE] \in PageStates
          /\ [tab[t] EXCEPT !.clicked = TRUE, !.armed = TRUE] \in PageStates
          /\ Loading(tab[t].by) \in PageStates
      BY <2>2, PageFacts, FieldsSet
    <3>2. PICK new \in PageStates : tab' = [tab EXCEPT ![t] = new]
      <4>1. CASE Visit(t) BY <3>1, <4>1 DEF Visit
      <4>2. CASE Leave(t) BY <4>2, PageFacts DEF Leave
      <4>3. CASE Click(t)
        <5>1. tab' \in {[tab EXCEPT ![t].clicked = TRUE], [tab EXCEPT ![t].clicked = TRUE, ![t].armed = TRUE]}
          BY <4>3 DEF Click
        <5> QED BY <3>1, <5>1 DEF ShellTypes
      <4> QED BY <1>4, <4>1, <4>2, <4>3
    <3> QED BY <3>2 DEF ShellTypes
  <2>4. skip' \in BOOLEAN BY <1>4 DEF Visit, Leave, Click, ShellTypes
  <2> QED BY <2>1, <2>3, <2>4 DEF shipped, ShellTypes, TeardownIsLast, Settles
<1> QED BY <1>1, <1>2, <1>3, <1>4

\* The oldest cache there is answers.
LEMMA MatchIs ==
    ASSUME ShellTypes
    PROVE  /\ Caches = {} => Match = Nothing
           /\ Caches # {} => Match \in Contents
<1> USE SlotFacts
<1>1. CASE Caches = {} BY <1>1 DEF Match
<1>2. CASE Caches # {}
  <2>1. Caches \subseteq Nat BY DEF Caches, Scripts, Contents
  <2>2. PICK s \in Caches : \A o \in Caches : ~(<<o, s>> \in OpToRel(<, Nat))
    BY <1>2, <2>1, NatLessThanWellFounded, WFMin
  <2>3. \A o \in Caches : s <= o
    <3> SUFFICES ASSUME NEW o \in Caches PROVE s <= o OBVIOUS
    <3>1. s \in Nat /\ o \in Nat BY <2>1
    <3>2. <<o, s>> \in Nat \X Nat /\ ~(<<o, s>> \in OpToRel(<, Nat)) BY <2>2, <3>1
    <3>3. ~(<<o, s>>[1] < <<o, s>>[2]) BY <3>2 DEF OpToRel
    <3> QED BY <3>1, <3>3
  <2> DEFINE oldest == CHOOSE c \in Caches : \A o \in Caches : c <= o
  <2>4. oldest \in Caches BY <2>3
  <2> HIDE DEF oldest
  <2>5. precache[oldest] \in Contents BY <2>4 DEF Caches, ShellTypes
  <2> QED BY <1>2, <2>5 DEF Match, oldest
<1> QED BY <1>1, <1>2

LEMMA NetworkIs ==
    ASSUME ShellTypes
    PROVE  /\ FromNetwork \in Contents \cup {Nothing, Broken}
           /\ online => FromNetwork \in Contents
BY DEF FromNetwork, ShellTypes, Releases

\* A page loads, from a cache if there is any; what it fetches fills its worker's.
LEMMA LoadStep ==
    ASSUME ShellInv, NEW t \in Pages, Load(t)
    PROVE  ShellInv'
<1> USE SlotFacts DEF ShellInv
<1> DEFINE by == worker.active
           code == IF by = Nothing \/ Match = Nothing THEN FromNetwork ELSE Match
           reg == IF code = Broken \/ ~Registers THEN "none" ELSE "due"
<1>1. UNCHANGED <<shipped, worker, orphaned, skip>> /\ by \in Slots
  BY DEF Load, ShellTypes, Registrations
<1>2. code \in Contents \cup {Nothing, Broken}
  BY MatchIs, NetworkIs
<1>3. /\ tab' = [tab EXCEPT ![t] =
                  [Loading(by) EXCEPT !.at = "open", !.code = code, !.reg = reg]]
      /\ precache' = IF by \in Scripts /\ Match = Nothing /\ online
                     THEN [precache EXCEPT ![by] = code] ELSE precache
      /\ due' = (due \/ (online /\ by /= Nothing))
  BY DEF Load
<1>4. Match = Nothing => code = FromNetwork OBVIOUS
<1>5. reg \in {"none", "due", "done"} OBVIOUS
<1> HIDE DEF code, reg
<1>6. tab' \in [Pages -> PageStates] BY <1>1, <1>2, <1>3, <1>5, PageFacts DEF ShellTypes
<1>7. precache' \in [Scripts -> Contents \cup {Nothing}]
      /\ \A s \in Scripts : precache[s] # Nothing => precache'[s] # Nothing
  <2>1. CASE by \in Scripts /\ Match = Nothing /\ online
    <3>1. code \in Contents BY <1>4, <2>1, NetworkIs
    <3> QED BY <1>3, <2>1, <3>1 DEF ShellTypes
  <2>2. CASE ~(by \in Scripts /\ Match = Nothing /\ online)
    BY <1>3, <2>2 DEF ShellTypes
  <2> QED BY <2>1, <2>2
<1>8. ShellTypes' BY <1>1, <1>3, <1>6, <1>7 DEF ShellTypes, shipped
<1>9. ~releases.rushed => Settles'
  BY <1>1, <1>7 DEF Settles, shipped, ShellTypes, Registrations
<1> QED BY <1>1, <1>8, <1>9 DEF TeardownIsLast, shipped

\* Who listens hears of the worker that installs; the first one needs nobody.
LEMMA RegisterStep ==
    ASSUME ShellInv, SoftUpdate \/ \E t \in Pages : Register(t)
    PROVE  ShellInv'
<1> USE SlotFacts DEF ShellInv
<1>1. UNCHANGED <<shipped, skip, precache>> /\ worker.installing \in Slots
      /\ worker.waiting \in Slots /\ live.script \in Scripts \cup {Teardown}
  BY DEF SoftUpdate, Register, ShellTypes, Registrations, Releases
<1>2. /\ due' \in BOOLEAN /\ orphaned' \in BOOLEAN
      /\ tab' \in [Pages -> PageStates]
  <2>1. CASE SoftUpdate
    <3>1. \A t \in Pages : /\ tab[t] \in PageStates
                           /\ [tab[t] EXCEPT !.watches = @ \/ tab[t].reg = "done"] \in PageStates
      BY FieldsSet DEF ShellTypes
    <3> QED BY <2>1, <3>1 DEF SoftUpdate, ShellTypes
  <2>2. ASSUME NEW t \in Pages, Register(t) PROVE  due' \in BOOLEAN /\ orphaned' \in BOOLEAN /\ tab' \in [Pages -> PageStates]
    <3> DEFINE tb == [tab[t] EXCEPT !.reg = "done"]
    <3>1. tb \in PageStates BY FieldsSet DEF ShellTypes
    <3>2. OfferWaiting(tb) \in PageStates BY <3>1, FieldsSet DEF OfferWaiting
    <3>3. tab' = [tab EXCEPT ![t] = OfferWaiting(tb)] BY <2>2 DEF Register
    <3> HIDE DEF tb
    <3> QED BY <2>2, <3>2, <3>3 DEF Register, ShellTypes
  <2> QED BY <2>1, <2>2
<1>3. \/ worker' = worker /\ (orphaned' => orphaned)
      \/ /\ worker' = [worker EXCEPT !.installing = live.script] /\ orphaned' = FALSE
         /\ worker.installing = Nothing
         /\ worker.waiting # Nothing => live.script # worker.waiting
  BY <1>1 DEF SoftUpdate, Register, Newest
<1>4. CASE worker' = worker /\ (orphaned' => orphaned)
  BY <1>1, <1>2, <1>4 DEF ShellTypes, TeardownIsLast, Settles, shipped
<1>5. CASE /\ worker' = [worker EXCEPT !.installing = live.script] /\ orphaned' = FALSE
           /\ worker.installing = Nothing
           /\ worker.waiting # Nothing => live.script # worker.waiting
  <2>1. worker' \in Registrations /\ worker'.waiting = worker.waiting
        /\ worker'.active = worker.active /\ worker'.installing = live.script
    BY <1>1, <1>5 DEF ShellTypes, Registrations
  <2>2. ShellTypes' BY <1>1, <1>2, <2>1 DEF ShellTypes, shipped
  <2>3. TeardownIsLast' BY <1>1, <2>1 DEF TeardownIsLast, shipped
  <2>4. ~releases.rushed => Settles'
    BY <1>1, <1>5, <2>1 DEF Settles, TeardownIsLast, shipped
  <2> QED BY <1>1, <2>2, <2>3, <2>4 DEF shipped
<1> QED BY <1>3, <1>4, <1>5

\* The install event, or its failure.
LEMMA InstallStep ==
    ASSUME ShellInv, Install \/ InstallFails
    PROVE  ShellInv'
<1> USE SlotFacts DEF ShellInv
<1>1. UNCHANGED <<shipped, orphaned, due>> /\ worker.installing \in Slots /\ worker.installing # Nothing
  BY DEF Install, InstallFails, ShellTypes, Registrations
<1>2. tab' \in [Pages -> PageStates]
  <2>1. \A t \in Pages : /\ tab[t] \in PageStates
                         /\ [tab[t] EXCEPT !.watches = FALSE] \in PageStates
                         /\ [ShowUpdatePrompt(tab[t]) EXCEPT !.watches = FALSE] \in PageStates
    BY FieldsSet DEF ShellTypes
  <2> QED BY <2>1 DEF Install, InstallFails
<1>3. CASE Install
  <2> DEFINE s == worker.installing
  <2>1. /\ worker' = [worker EXCEPT !.installing = Nothing, !.waiting = s]
        /\ precache' = IF s = Teardown \/ orphaned THEN precache
                       ELSE [precache EXCEPT ![s] = live.content]
        /\ skip' \in BOOLEAN
    BY <1>3 DEF Install, SkipsWaiting
  <2>2. worker' \in Registrations /\ worker'.waiting = s /\ worker'.installing = Nothing
        /\ worker'.active = worker.active
    BY <1>1, <2>1 DEF ShellTypes, Registrations
  <2>3. /\ precache' \in [Scripts -> Contents \cup {Nothing}]
        /\ \A c \in Scripts : precache[c] # Nothing => precache'[c] # Nothing
        /\ s \in Scripts /\ ~orphaned => precache'[s] # Nothing
    BY <1>1, <2>1 DEF ShellTypes, Releases
  <2>4. ShellTypes' BY <1>1, <1>2, <2>1, <2>2, <2>3 DEF ShellTypes, shipped
  <2>5. TeardownIsLast' BY <1>1, <2>2 DEF TeardownIsLast, shipped
  <2>6. ASSUME ~releases.rushed PROVE Settles'
    <3>1. Settles BY <2>6
    <3>2. s \in Scripts => live'.script \in {s, Teardown} /\ precache'[s] # Nothing
      <4>1. live' = live BY <1>1 DEF shipped
      <4>2. s \in Scripts => ~orphaned /\ live.script \in {s, Teardown} BY <3>1 DEF Settles
      <4> QED BY <2>3, <4>1, <4>2
    <3>3. worker.active \in Scripts => precache'[worker.active] # Nothing
      BY <2>3, <3>1 DEF Settles
    <3> QED BY <2>2, <3>2, <3>3 DEF Settles
  <2> QED BY <1>1, <2>4, <2>5, <2>6 DEF shipped
<1>4. CASE InstallFails
  <2>1. worker' = [worker EXCEPT !.installing = Nothing] /\ UNCHANGED <<skip, precache>>
    BY <1>4 DEF InstallFails
  <2>2. worker' \in Registrations /\ worker'.waiting = worker.waiting
        /\ worker'.installing = Nothing /\ worker'.active = worker.active
    BY <2>1 DEF ShellTypes, Registrations
  <2> QED BY <1>1, <1>2, <2>1, <2>2 DEF ShellTypes, TeardownIsLast, Settles, shipped
<1> QED BY <1>3, <1>4

\* The activate event keeps the worker's own cache; the teardown worker, none.
LEMMA ActivateStep ==
    ASSUME ShellInv, Activate \/ TearDown
    PROVE  ShellInv'
<1> USE SlotFacts DEF ShellInv
<1> DEFINE s == worker.waiting
<1>1. /\ UNCHANGED <<shipped, due>> /\ s \in Slots /\ s # Nothing /\ worker.installing \in Slots
      /\ skip' = FALSE
  BY DEF Activate, TearDown, MayActivate, ShellTypes, Registrations
<1>2. CASE Activate
  <2>1. /\ s \in Scripts /\ worker' = [worker EXCEPT !.waiting = Nothing, !.active = s]
        /\ precache' = [c \in Scripts |-> IF c \in StaleCaches(s) THEN Nothing ELSE precache[c]]
        /\ orphaned' = (worker.installing \in StaleCaches(s))
        /\ tab' = [t \in Pages |-> Claimed(t, s)]
    BY <1>1, <1>2 DEF Activate
  <2>2. worker' \in Registrations /\ worker'.waiting = Nothing /\ worker'.active = s
        /\ worker'.installing = worker.installing
    BY <1>1, <2>1 DEF ShellTypes, Registrations
  <2>3. precache' \in [Scripts -> Contents \cup {Nothing}] /\ precache'[s] = precache[s]
    BY <2>1 DEF ShellTypes, StaleCaches
  <2>4. tab' \in [Pages -> PageStates]
    <3>1. \A t \in Pages : tab[t] \in PageStates /\ [tab[t] EXCEPT !.by = s] \in PageStates
      BY <1>1, FieldsSet DEF ShellTypes
    <3> QED BY <1>1, <2>1, <3>1, PageFacts DEF Claimed
  <2>5. orphaned' \in BOOLEAN BY <2>1
  <2>6. ShellTypes' BY <1>1, <2>2, <2>3, <2>4, <2>5 DEF ShellTypes, shipped
  <2>7. TeardownIsLast' BY <1>1, <2>1, <2>2 DEF TeardownIsLast, shipped
  <2>8. ~releases.rushed => Settles' BY <1>1, <2>1, <2>2, <2>3 DEF Settles, shipped
  <2> QED BY <1>1, <2>6, <2>7, <2>8 DEF shipped
<1>3. CASE TearDown
  <2>1. /\ s = Teardown /\ worker' = [worker EXCEPT !.waiting = Nothing, !.active = Nothing]
        /\ precache' = [c \in Scripts |-> Nothing] /\ orphaned' = TRUE
        /\ tab' = [t \in Pages |-> IF tab[t].at = "closed" THEN Closed ELSE Loading(Nothing)]
    BY <1>3 DEF TearDown
  <2>2. worker' \in Registrations /\ worker'.waiting = Nothing /\ worker'.active = Nothing
        /\ worker'.installing = worker.installing
    BY <2>1 DEF ShellTypes, Registrations
  <2>3. tab' \in [Pages -> PageStates] BY <2>1, PageFacts
  <2>4. ShellTypes' BY <1>1, <2>1, <2>2, <2>3 DEF ShellTypes, shipped
  <2>5. TeardownIsLast' BY <1>1, <2>2 DEF TeardownIsLast, shipped
  <2>6. ~releases.rushed => Settles' BY <1>1, <2>1, <2>2 DEF Settles, shipped
  <2> QED BY <1>1, <2>4, <2>5, <2>6 DEF shipped
<1> QED BY <1>2, <1>3

LEMMA ShellStep == ShellInv /\ [ShellNext]_shellVars => ShellInv'
<1>1. ShellInv /\ UNCHANGED shellVars => ShellInv'
  BY DEF shellVars, shipped, ShellInv, ShellTypes, TeardownIsLast, Settles
<1> QED BY <1>1, OutsideStep, LoadStep, RegisterStep, InstallStep, ActivateStep DEF ShellNext

\* The types of the worker's registration, and who has a cache and who is alone.
THEOREM ShellInvariant == ShellSpec => []ShellInv
<1> QED BY ShellStart, ShellStep, PTL DEF ShellSpec

\* handleNavigation and handleFetch of sw.js, through any number of releases and
\* tabs: where a release waits for the one before to settle, a page that loads
\* under a worker gets a shell, with or without a network.
THEOREM WorkersBootTheirPages == ShellSpec => UnrushedBoots
<1>1. ASSUME ShellInv, [ShellNext]_shellVars, NEW t \in Pages,
             ~releases.rushed, Load(t), worker.active /= Nothing
      PROVE  tab'[t].code /= Broken
  <2> USE SlotFacts
  <2>1. worker.active \in Scripts /\ worker.active \in Slots
    BY <1>1 DEF ShellInv, ShellTypes, Registrations, TeardownIsLast
  <2>2. precache[worker.active] # Nothing BY <1>1, <2>1 DEF ShellInv, Settles
  <2>3. Match \in Contents BY <1>1, <2>1, <2>2, MatchIs DEF ShellInv, Caches
  <2> DEFINE shown == Loading(worker.active)
             reg == IF Match = Broken \/ ~Registers THEN "none" ELSE "due"
             page == [shown EXCEPT !.at = "open", !.code = Match, !.reg = reg]
  <2>4. tab' = [tab EXCEPT ![t] = page] BY <1>1, <2>3 DEF Load
  <2>5. shown \in PageStates BY <2>1, PageFacts
  <2>6. page.code = Match
    <3> HIDE DEF shown, reg
    <3> QED BY <2>5 DEF PageStates
  <2> HIDE DEF page
  <2>7. tab'[t] = page BY <1>1, <2>4 DEF ShellInv, ShellTypes
  <2> QED BY <2>3, <2>6, <2>7
<1>2. ShellInv /\ [ShellNext]_shellVars =>
         [\A t \in Pages : ~releases.rushed /\ Load(t) /\ worker.active /= Nothing
             => tab'[t].code /= Broken]_shellVars
  BY <1>1
<1>3. ShellInv => ShellTypes BY DEF ShellInv
<1> QED BY <1>2, <1>3, ShellInvariant, PTL DEF ShellSpec, UnrushedBoots

-----------------------------------------------------------------------------
(* The reconciler: its batches fit the page, whatever the two trees.       *)

LEMMA LeastExists ==
    ASSUME NEW T \in SUBSET Nat, T # {}
    PROVE  \E m \in T : \A j \in T : m <= j
<1>1. PICK m \in T : \A y \in T : ~(<<y, m>> \in OpToRel(<, Nat))
  BY WFMin, NatLessThanWellFounded, Zenon
<1>2. \A y \in T : ~(y < m) BY <1>1 DEF OpToRel
<1> QED BY <1>2

LEMMA AlongUnfolds ==
    ASSUME NEW e, NEW p \in Seq(Nat)
    PROVE  Along(e, p) = [n \in 0..Len(p) |-> IF n = 0 THEN e ELSE Along(e, p)[n - 1].kids[p[n] + 1]]
<1> Len(p) \in Nat OBVIOUS
<1> DEFINE Steps(f, m) == f = [n \in 0..m |-> IF n = 0 THEN e ELSE f[n - 1].kids[p[n] + 1]]
           short == {m \in 0..Len(p) : ~ \E f : Steps(f, m)}
<1>1. short = {}
  <2> SUFFICES ASSUME short # {} PROVE FALSE OBVIOUS
  <2>1. PICK m \in short : \A j \in short : m <= j BY LeastExists, short \in SUBSET Nat
  <2>2. m \in 0..Len(p) /\ ~ \E f : Steps(f, m) BY <2>1
  <2>3. m # 0
    <3>1. Steps([n \in 0..0 |-> e], 0) OBVIOUS
    <3> QED BY <3>1, <2>2
  <2>4. PICK f : Steps(f, m - 1)
    <3>1. m - 1 \in 0..Len(p) /\ ~(m <= m - 1) BY <2>2, <2>3
    <3>2. m - 1 \notin short BY <2>1, <3>1, Zenon
    <3> QED BY <3>1, <3>2
  <2> DEFINE g == [n \in 0..m |-> IF n = m THEN f[m - 1].kids[p[m] + 1] ELSE f[n]]
  <2>5. \A n \in 0..m : g[n] = IF n = 0 THEN e ELSE g[n - 1].kids[p[n] + 1]
    <3> SUFFICES ASSUME NEW n \in 0..m PROVE g[n] = IF n = 0 THEN e ELSE g[n - 1].kids[p[n] + 1] OBVIOUS
    <3>1. CASE n = m
      <4>1. m - 1 \in 0..m /\ m - 1 # m /\ m \in 0..m BY <2>2, <2>3
      <4>2. g[m] = f[m - 1].kids[p[m] + 1] /\ g[m - 1] = f[m - 1] BY <4>1
      <4> QED BY <3>1, <4>2, <2>3
    <3>2. CASE n # m
      <4>1. n \in 0..(m - 1) BY <3>2, <2>2
      <4>2. g[n] = f[n] BY <3>2
      <4>3. f[n] = IF n = 0 THEN e ELSE f[n - 1].kids[p[n] + 1] BY <2>4, <4>1
      <4>4. n # 0 => n - 1 \in 0..m /\ n - 1 # m BY <2>2
      <4>5. n # 0 => g[n - 1] = f[n - 1] BY <4>4
      <4> QED BY <4>2, <4>3, <4>5
    <3> QED BY <3>1, <3>2
  <2>6. Steps(g, m) BY <2>5
  <2> QED BY <2>2, <2>6
<1>2. Len(p) \notin short BY <1>1
<1>3. \E f : Steps(f, Len(p)) BY <1>2
<1> QED BY <1>3 DEF Along

-----------------------------------------------------------------------------
(* The places of a list, in order.                                         *)

Lower(S, i) == {j \in S : j < i}
Places == {S \in SUBSET (Nat \ {0}) : IsFiniteSet(S)}

LEMMA LowerIs ==
    ASSUME NEW S \in Places, NEW i \in S
    PROVE  /\ Cardinality(S) \in Nat /\ Cardinality(Lower(S, i)) \in 0..(Cardinality(S) - 1)
           /\ \A j \in S : j < i => Cardinality(Lower(S, j)) < Cardinality(Lower(S, i))
<1>1. IsFiniteSet(S) /\ (\A j \in S : j \in Nat) /\ Cardinality(S) \in Nat
  BY FS_CardinalityType DEF Places
<1>2. \A T \in SUBSET S : IsFiniteSet(T) /\ Cardinality(T) \in Nat /\ Cardinality(T) <= Cardinality(S)
  BY <1>1, FS_Subset, FS_CardinalityType
<1>3. Cardinality(S \ {i}) = Cardinality(S) - 1 /\ IsFiniteSet(S \ {i})
  BY <1>1, FS_RemoveElement
<1>4. Cardinality(Lower(S, i)) <= Cardinality(S) - 1
  <2>1. Lower(S, i) \in SUBSET (S \ {i}) BY <1>1 DEF Lower
  <2> QED BY <2>1, <1>3, FS_Subset
<1>5. Lower(S, i) \in SUBSET S BY DEF Lower
<1>6. ASSUME NEW j \in S, j < i PROVE Cardinality(Lower(S, j)) < Cardinality(Lower(S, i))
  <2>1. Lower(S, j) \in SUBSET (Lower(S, i) \ {j}) /\ j \in Lower(S, i)
    BY <1>1, <1>6 DEF Lower
  <2>2. IsFiniteSet(Lower(S, i)) /\ Cardinality(Lower(S, i)) \in Nat BY <1>2, <1>5
  <2>3. Cardinality(Lower(S, i) \ {j}) = Cardinality(Lower(S, i)) - 1 /\ IsFiniteSet(Lower(S, i) \ {j})
    BY <2>1, <2>2, FS_RemoveElement
  <2>4. Cardinality(Lower(S, j)) <= Cardinality(Lower(S, i)) - 1 BY <2>1, <2>3, FS_Subset
  <2>5. Cardinality(Lower(S, j)) \in Nat
    <3>1. Lower(S, j) \in SUBSET S BY DEF Lower
    <3> QED BY <3>1, <1>2
  <2> QED BY <2>2, <2>4, <2>5
<1>7. Cardinality(Lower(S, i)) \in Nat BY <1>2, <1>5
<1> QED BY <1>1, <1>4, <1>6, <1>7

\* The n-th place has n - 1 places below it, and every place is the n-th of some n.
LEMMA NthIs ==
    ASSUME NEW S \in Places
    PROVE  /\ \A n \in 1..Cardinality(S) : Nth(S, n) \in S /\ Cardinality(Lower(S, Nth(S, n))) = n - 1
           /\ \A i \in S : Nth(S, Cardinality(Lower(S, i)) + 1) = i
<1>1. IsFiniteSet(S) /\ (\A j \in S : j \in Nat) /\ Cardinality(S) \in Nat
  BY FS_CardinalityType DEF Places
<1>2. \A i, j \in S : Cardinality(Lower(S, i)) = Cardinality(Lower(S, j)) => i = j
  <2> SUFFICES ASSUME NEW i \in S, NEW j \in S,
                      Cardinality(Lower(S, i)) = Cardinality(Lower(S, j)), i # j
               PROVE  FALSE
    OBVIOUS
  <2>1. i < j \/ j < i BY <1>1
  <2>2. /\ Cardinality(Lower(S, i)) \in 0..(Cardinality(S) - 1)
        /\ Cardinality(Lower(S, j)) \in 0..(Cardinality(S) - 1)
    BY LowerIs
  <2> QED BY <1>1, <2>1, <2>2, LowerIs
<1>3. ASSUME NEW n \in 1..Cardinality(S) PROVE \E i \in S : Cardinality(Lower(S, i)) = n - 1
  <2> SUFFICES ASSUME \A i \in S : Cardinality(Lower(S, i)) # n - 1 PROVE FALSE OBVIOUS
  <2> DEFINE ranks == (0..(Cardinality(S) - 1)) \ {n - 1}
             rank == [i \in S |-> Cardinality(Lower(S, i))]
  <2>1. IsFiniteSet(ranks) /\ Cardinality(ranks) = Cardinality(S) - 1
    <3>1. IsFiniteSet(0..(Cardinality(S) - 1)) /\ Cardinality(0..(Cardinality(S) - 1)) = Cardinality(S)
      <4>1. 0 \in Int /\ Cardinality(S) - 1 \in Int /\ ~(0 > Cardinality(S) - 1) BY <1>1
      <4>2. Cardinality(S) - 1 - 0 + 1 = Cardinality(S) BY <1>1
      <4> QED BY <4>1, <4>2, FS_Interval
    <3>2. n - 1 \in 0..(Cardinality(S) - 1) BY <1>1
    <3>3. IsFiniteSet(ranks) /\ Cardinality(ranks) = Cardinality(0..(Cardinality(S) - 1)) - 1
      BY <3>1, <3>2, FS_RemoveElement, Zenon
    <3> QED BY <3>1, <3>3
  <2>2. rank \in [S -> ranks] BY LowerIs
  <2> HIDE DEF rank, ranks
  <2>3. Cardinality(ranks) < Cardinality(S) BY <1>1, <2>1
  <2>4. \E i, j \in S : i # j /\ rank[i] = rank[j] BY <1>1, <2>1, <2>2, <2>3, FS_PigeonHole
  <2> QED BY <1>2, <2>4 DEF rank
<1>4. \A n \in 1..Cardinality(S) : Nth(S, n) \in S /\ Cardinality(Lower(S, Nth(S, n))) = n - 1
  BY <1>3 DEF Nth, Lower
<1>5. ASSUME NEW i \in S PROVE Nth(S, Cardinality(Lower(S, i)) + 1) = i
  <2> DEFINE n == Cardinality(Lower(S, i)) + 1
  <2>1. n \in 1..Cardinality(S) /\ n - 1 = Cardinality(Lower(S, i)) BY <1>1, LowerIs
  <2> QED BY <1>2, <1>4, <2>1
<1> QED BY <1>4, <1>5

\* Places rise.
LEMMA NthRises ==
    ASSUME NEW S \in Places, NEW m \in 1..Cardinality(S), NEW n \in 1..Cardinality(S), m < n
    PROVE  Nth(S, m) < Nth(S, n)
<1>1. IsFiniteSet(S) /\ (\A j \in S : j \in Nat) /\ Cardinality(S) \in Nat
  BY FS_CardinalityType DEF Places
<1>2. /\ Nth(S, m) \in S /\ Cardinality(Lower(S, Nth(S, m))) = m - 1
      /\ Nth(S, n) \in S /\ Cardinality(Lower(S, Nth(S, n))) = n - 1
  BY NthIs
<1>3. Nth(S, m) # Nth(S, n) BY <1>2
<1>4. ~(Nth(S, n) < Nth(S, m)) BY <1>2, LowerIs
<1> QED BY <1>1, <1>2, <1>3, <1>4

\* A place below which every place is taken.
LEMMA FullBelow ==
    ASSUME NEW S \in Places, NEW x \in Nat \ {0}, 1..x \subseteq S
    PROVE  x <= Cardinality(S) /\ \A n \in 1..x : Nth(S, n) = n
<1>1. IsFiniteSet(S) /\ (\A j \in S : j \in Nat \ {0}) /\ Cardinality(S) \in Nat
  BY FS_CardinalityType DEF Places
<1>2. ASSUME NEW n \in 1..x PROVE Nth(S, n) = n
  <2>1. Lower(S, n) = 1..(n - 1)
    <3>1. \A j \in 1..(n - 1) : j \in 1..x /\ j < n OBVIOUS
    <3> QED BY <1>1, <3>1 DEF Lower
  <2>2. Cardinality(Lower(S, n)) = n - 1
    <3>1. 1 \in Int /\ n - 1 \in Int OBVIOUS
    <3>2. (IF 1 > n - 1 THEN 0 ELSE n - 1 - 1 + 1) = n - 1 OBVIOUS
    <3> QED BY <2>1, <3>1, <3>2, FS_Interval
  <2>3. n \in S /\ n - 1 + 1 = n OBVIOUS
  <2> QED BY <2>2, <2>3, NthIs
<1>3. x <= Cardinality(S)
  <2>1. Cardinality(1..x) = x BY FS_Interval
  <2> QED BY <1>1, <2>1, FS_Subset
<1> QED BY <1>2, <1>3

\* What becomes of the places when such a one is left.
LEMMA NthWithout ==
    ASSUME NEW T \in Places, NEW x \in T, 1..x \subseteq T
    PROVE  /\ T \ {x} \in Places /\ Cardinality(T \ {x}) = Cardinality(T) - 1
           /\ \A n \in 1..(Cardinality(T) - 1) : Nth(T \ {x}, n) = IF n < x THEN n ELSE Nth(T, n + 1)
<1> DEFINE S == T \ {x}
<1>1. IsFiniteSet(T) /\ (\A j \in T : j \in Nat \ {0}) /\ Cardinality(T) \in Nat /\ x \in Nat \ {0}
  BY FS_CardinalityType DEF Places
<1>2. S \in Places /\ Cardinality(S) = Cardinality(T) - 1
  BY <1>1, FS_RemoveElement DEF Places
<1>3. ASSUME NEW n \in 1..(Cardinality(T) - 1) PROVE Nth(S, n) = IF n < x THEN n ELSE Nth(T, n + 1)
  <2>1. CASE n < x
    <3>1. 1..n \subseteq S /\ n \in Nat \ {0} BY <1>1, <2>1
    <3> HIDE DEF S
    <3> QED BY <3>1, <1>2, <2>1, FullBelow
  <2>2. CASE ~(n < x)
    <3> DEFINE i == Nth(T, n + 1)
    <3>1. n + 1 \in 1..Cardinality(T) BY <1>1
    <3>2. i \in T /\ Cardinality(Lower(T, i)) = n BY <3>1, NthIs
    <3>3. x \in 1..Cardinality(T) /\ Nth(T, x) = x BY <1>1, FullBelow
    <3>4. x < i BY <1>1, <2>2, <3>1, <3>3, NthRises
    <3>5. Lower(S, i) = Lower(T, i) \ {x} /\ x \in Lower(T, i) /\ i \in S BY <1>1, <3>2, <3>4 DEF Lower
    <3>6. IsFiniteSet(Lower(T, i)) BY <1>1, FS_Subset DEF Lower
    <3>7. Cardinality(Lower(S, i)) = n - 1
      <4>1. Cardinality(Lower(T, i) \ {x}) = Cardinality(Lower(T, i)) - 1
        BY <3>5, <3>6, FS_RemoveElement
      <4> QED BY <3>2, <3>5, <4>1
    <3> HIDE DEF S
    <3>8. Nth(S, Cardinality(Lower(S, i)) + 1) = i BY <1>2, <3>5, NthIs
    <3>9. n - 1 + 1 = n OBVIOUS
    <3> QED BY <2>2, <3>7, <3>8, <3>9
  <2> QED BY <2>1, <2>2
<1> QED BY <1>2, <1>3

LEMMA PlacesOf ==
    ASSUME NEW m \in Nat, NEW S \in SUBSET (1..m)
    PROVE  S \in Places /\ Cardinality(S) \in Nat
<1>1. IsFiniteSet(1..m) BY FS_Interval
<1>2. IsFiniteSet(S) /\ Cardinality(S) \in Nat BY <1>1, FS_Subset, FS_CardinalityType
<1>3. \A j \in S : j \in Nat \ {0} OBVIOUS
<1> QED BY <1>2, <1>3 DEF Places

LEMMA AsFunction ==
    ASSUME NEW E, NEW s \in Seq(E)
    PROVE  Len(s) \in Nat /\ s = [n \in 1..Len(s) |-> s[n]] /\ \A n \in 1..Len(s) : s[n] \in E
OBVIOUS

LEMMA PickedIs ==
    ASSUME NEW E, NEW list \in Seq(E), NEW S \in SUBSET (1..Len(list))
    PROVE  /\ S \in Places /\ Cardinality(S) \in Nat
           /\ Picked(list, S) \in Seq(E) /\ Len(Picked(list, S)) = Cardinality(S)
           /\ \A n \in 1..Cardinality(S) : Nth(S, n) \in S /\ Picked(list, S)[n] = list[Nth(S, n)]
<1>1. Len(list) \in Nat OBVIOUS
<1>2. S \in Places /\ Cardinality(S) \in Nat BY <1>1, PlacesOf
<1>3. \A n \in 1..Cardinality(S) : Nth(S, n) \in S BY <1>2, NthIs
<1>4. \A n \in 1..Cardinality(S) : list[Nth(S, n)] \in E
  <2>1. \A n \in 1..Cardinality(S) : Nth(S, n) \in 1..Len(list) BY <1>3
  <2> QED BY <2>1, AsFunction
<1>5. Picked(list, S) \in [1..Cardinality(S) -> E] BY <1>4 DEF Picked
<1>6. Picked(list, S) \in Seq(E) /\ Len(Picked(list, S)) = Cardinality(S) BY <1>2, <1>5
<1> QED BY <1>2, <1>3, <1>6 DEF Picked

LEMMA RemoveAtIs ==
    ASSUME NEW E, NEW s \in Seq(E), NEW i \in 1..Len(s)
    PROVE  /\ RemoveAt(s, i) \in Seq(E)
           /\ RemoveAt(s, i) = [n \in 1..(Len(s) - 1) |-> IF n < i THEN s[n] ELSE s[n + 1]]
<1> DEFINE a == SubSeq(s, 1, i - 1)
           b == SubSeq(s, i + 1, Len(s))
<1>1. Len(s) \in Nat OBVIOUS
<1>2. a \in Seq(E) /\ Len(a) = i - 1 /\ \A n \in 1..(i - 1) : a[n] = s[n] BY <1>1, SubSeqProperties
<1>3. b \in Seq(E) /\ Len(b) = Len(s) - i /\ \A n \in 1..(Len(s) - i) : b[n] = s[n + i]
  BY <1>1, SubSeqProperties
<1> HIDE DEF a, b
<1>4. /\ a \o b \in Seq(E) /\ Len(a \o b) = Len(s) - 1
      /\ \A n \in 1..(Len(s) - 1) : (a \o b)[n] = IF n < i THEN s[n] ELSE s[n + 1]
  <2>1. a \o b \in Seq(E) /\ Len(a \o b) = Len(s) - 1
    <3>1. i - 1 + (Len(s) - i) = Len(s) - 1 BY <1>1
    <3>2. a \o b \in Seq(E) /\ Len(a \o b) = Len(a) + Len(b) BY <1>2, <1>3, ConcatProperties, Zenon
    <3>3. Len(a) = i - 1 /\ Len(b) = Len(s) - i BY <1>2, <1>3
    <3> QED BY <3>1, <3>2, <3>3
  <2>2. ASSUME NEW n \in 1..(Len(s) - 1) PROVE (a \o b)[n] = IF n < i THEN s[n] ELSE s[n + 1]
    <3>1. CASE n < i BY <1>1, <1>2, <1>3, <3>1
    <3>2. CASE ~(n < i)
      <4>1. (a \o b)[n] = b[n - (i - 1)] BY <1>1, <1>2, <1>3, <3>2
      <4>2. n - (i - 1) \in 1..(Len(s) - i) /\ n - (i - 1) + i = n + 1 BY <1>1, <3>2
      <4> QED BY <1>3, <3>2, <4>1, <4>2
    <3> QED BY <3>1, <3>2
  <2> QED BY <2>1, <2>2
<1>5. RemoveAt(s, i) = a \o b BY DEF RemoveAt, a, b
<1>6. a \o b = [n \in 1..Len(a \o b) |-> (a \o b)[n]] BY <1>4, AsFunction, Zenon
<1> QED BY <1>4, <1>5, <1>6

\* s with e inserted at i, place by place.
Inserted(t, s, i, e) ==
    /\ Len(t) = Len(s) + 1
    /\ \A n \in 1..(Len(s) + 1) : t[n] = IF n < i THEN s[n] ELSE IF n = i THEN e ELSE s[n - 1]

LEMMA InsertAtIs ==
    ASSUME NEW E, NEW s \in Seq(E), NEW i \in 1..(Len(s) + 1), NEW e \in E
    PROVE  InsertAt(s, i, e) \in Seq(E) /\ Inserted(InsertAt(s, i, e), s, i, e)
<1> DEFINE a == SubSeq(s, 1, i - 1)
           b == SubSeq(s, i, Len(s))
           c == a \o <<e>>
<1>1. Len(s) \in Nat OBVIOUS
<1>2. a \in Seq(E) /\ Len(a) = i - 1 /\ \A n \in 1..(i - 1) : a[n] = s[n] BY <1>1, SubSeqProperties
<1>3. b \in Seq(E) /\ Len(b) = Len(s) - i + 1 /\ \A n \in 1..(Len(s) - i + 1) : b[n] = s[n + i - 1]
  BY <1>1, SubSeqProperties
<1> HIDE DEF a, b
<1>4. c \in Seq(E) /\ Len(c) = i /\ \A n \in 1..i : c[n] = IF n < i THEN s[n] ELSE e
  BY <1>1, <1>2
<1> HIDE DEF c
<1>5. /\ c \o b \in Seq(E) /\ Len(c \o b) = Len(s) + 1
      /\ \A n \in 1..(Len(s) + 1) :
            (c \o b)[n] = IF n < i THEN s[n] ELSE IF n = i THEN e ELSE s[n - 1]
  <2>1. c \o b \in Seq(E) /\ Len(c \o b) = Len(s) + 1
    <3>1. i + (Len(s) - i + 1) = Len(s) + 1 BY <1>1
    <3>2. c \o b \in Seq(E) /\ Len(c \o b) = Len(c) + Len(b) BY <1>3, <1>4, ConcatProperties, Zenon
    <3>3. Len(c) = i /\ Len(b) = Len(s) - i + 1 BY <1>3, <1>4
    <3> QED BY <3>1, <3>2, <3>3
  <2>2. ASSUME NEW n \in 1..(Len(s) + 1)
        PROVE  (c \o b)[n] = IF n < i THEN s[n] ELSE IF n = i THEN e ELSE s[n - 1]
    <3>1. CASE n <= i BY <1>1, <1>3, <1>4, <3>1
    <3>2. CASE ~(n <= i)
      <4>1. (c \o b)[n] = b[n - i] BY <1>1, <1>3, <1>4, <3>2
      <4>2. n - i \in 1..(Len(s) - i + 1) /\ n - i + i - 1 = n - 1 BY <1>1, <3>2
      <4> QED BY <1>3, <3>2, <4>1, <4>2
    <3> QED BY <3>1, <3>2
  <2> QED BY <2>1, <2>2
<1>6. InsertAt(s, i, e) = c \o b BY DEF InsertAt, a, b, c
<1>7. Inserted(c \o b, s, i, e) BY <1>5 DEF Inserted
<1> QED BY <1>5, <1>6, <1>7

\* Taking away, or putting back, what stands at a place below which all are taken.
EditedAt(list, T, x) ==
    /\ x <= Len(Picked(list, T)) /\ Len(Picked(list, T \ {x})) = Len(Picked(list, T)) - 1
    /\ Picked(list, T)[x] = list[x]
    /\ RemoveAt(Picked(list, T), x) = Picked(list, T \ {x})
    /\ InsertAt(Picked(list, T \ {x}), x, list[x]) = Picked(list, T)

LEMMA PickedEdits ==
    ASSUME NEW E, NEW list \in Seq(E), NEW T \in SUBSET (1..Len(list)), NEW x \in T, 1..x \subseteq T
    PROVE  EditedAt(list, T, x)
<1> DEFINE S == T \ {x}
           size == Cardinality(T)
<1>1. /\ Len(list) \in Nat /\ x \in Nat \ {0} /\ size \in Nat /\ list[x] \in E
      /\ T \in Places /\ S \in SUBSET (1..Len(list))
  BY PickedIs
<1>2. /\ Picked(list, T) \in Seq(E) /\ Len(Picked(list, T)) = size
      /\ \A n \in 1..size : Picked(list, T)[n] = list[Nth(T, n)]
  BY PickedIs
<1>3. x <= size /\ \A n \in 1..x : Nth(T, n) = n BY <1>1, FullBelow
<1>4. /\ Cardinality(S) = size - 1
      /\ \A n \in 1..(size - 1) : Nth(S, n) = IF n < x THEN n ELSE Nth(T, n + 1)
  BY <1>1, NthWithout
<1> HIDE DEF S
<1>5. /\ Picked(list, S) \in Seq(E) /\ Len(Picked(list, S)) = size - 1
      /\ \A n \in 1..(size - 1) : Picked(list, S)[n] = list[Nth(S, n)]
  <2>1. /\ Picked(list, S) \in Seq(E) /\ Len(Picked(list, S)) = Cardinality(S)
        /\ \A n \in 1..Cardinality(S) : Picked(list, S)[n] = list[Nth(S, n)]
    BY <1>1, PickedIs
  <2> QED BY <1>4, <2>1
<1> HIDE DEF size
<1>6. \A n \in 1..(size - 1) :
          Picked(list, S)[n] = IF n < x THEN Picked(list, T)[n] ELSE Picked(list, T)[n + 1]
  <2> SUFFICES ASSUME NEW n \in 1..(size - 1)
               PROVE  Picked(list, S)[n] = IF n < x THEN Picked(list, T)[n] ELSE Picked(list, T)[n + 1]
    OBVIOUS
  <2>1. n \in 1..size /\ n + 1 \in 1..size BY <1>1
  <2>2. n < x => Nth(T, n) = n
    <3>1. n < x => n \in 1..x BY <1>1
    <3> QED BY <1>3, <3>1
  <2>3. Nth(S, n) = IF n < x THEN n ELSE Nth(T, n + 1) BY <1>4
  <2>4. /\ Picked(list, S)[n] = list[Nth(S, n)] /\ Picked(list, T)[n] = list[Nth(T, n)]
        /\ Picked(list, T)[n + 1] = list[Nth(T, n + 1)]
    BY <1>2, <1>5, <2>1
  <2> QED BY <2>2, <2>3, <2>4
<1>7. x \in 1..size /\ x \in 1..(size - 1 + 1) /\ x \in 1..x BY <1>1, <1>3
<1>8. Picked(list, T)[x] = list[x] BY <1>2, <1>3, <1>7
<1>9. RemoveAt(Picked(list, T), x) = Picked(list, S)
  <2>1. RemoveAt(Picked(list, T), x) =
          [n \in 1..(size - 1) |-> IF n < x THEN Picked(list, T)[n] ELSE Picked(list, T)[n + 1]]
    BY <1>2, <1>7, RemoveAtIs
  <2>2. Picked(list, S) = [n \in 1..(size - 1) |-> Picked(list, S)[n]] BY <1>5
  <2> QED BY <1>6, <2>1, <2>2
<1>10. InsertAt(Picked(list, S), x, list[x]) = Picked(list, T)
  <2> DEFINE s == InsertAt(Picked(list, S), x, list[x])
  <2>1. /\ s \in Seq(E) /\ Len(s) = size
        /\ \A n \in 1..size : s[n] = IF n < x THEN Picked(list, S)[n]
                                      ELSE IF n = x THEN list[x] ELSE Picked(list, S)[n - 1]
    <3> DEFINE t == Picked(list, S)
               e == list[x]
    <3>1. t \in Seq(E) /\ x \in 1..(Len(t) + 1) /\ Len(t) + 1 = size /\ e \in E
      BY <1>1, <1>5, <1>7
    <3> HIDE DEF t, e
    <3>2. InsertAt(t, x, e) \in Seq(E) /\ Inserted(InsertAt(t, x, e), t, x, e) BY <3>1, InsertAtIs
    <3> QED BY <3>1, <3>2 DEF t, e, Inserted
  <2> HIDE DEF s
  <2>2. Picked(list, T) = [n \in 1..size |-> Picked(list, T)[n]] BY <1>2
  <2>3. ASSUME NEW n \in 1..size
        PROVE  Picked(list, T)[n] = IF n < x THEN Picked(list, S)[n]
                                    ELSE IF n = x THEN list[x] ELSE Picked(list, S)[n - 1]
    <3>1. CASE n < x
      <4>1. n \in 1..(size - 1) BY <1>1, <1>3, <3>1
      <4> QED BY <1>6, <3>1, <4>1
    <3>2. CASE n = x BY <1>8, <3>2
    <3>3. CASE x < n
      <4>1. n - 1 \in 1..(size - 1) /\ ~(n - 1 < x) /\ n - 1 + 1 = n BY <1>1, <3>3
      <4> QED BY <1>1, <1>6, <3>3, <4>1
    <3> QED BY <1>1, <3>1, <3>2, <3>3
  <2>4. s = [n \in 1..size |-> s[n]] BY <2>1, AsFunction
  <2>5. s = Picked(list, T)
    <3>1. \A n \in 1..size : s[n] = Picked(list, T)[n] BY <2>1, <2>3
    <3> QED BY <2>2, <2>4, <3>1
  <2> QED BY <2>5 DEF s
<1> QED BY <1>2, <1>3, <1>5, <1>8, <1>9, <1>10 DEF S, EditedAt

LEMMA PickedAll ==
    ASSUME NEW E, NEW list \in Seq(E)
    PROVE  Picked(list, 1..Len(list)) = list
<1>1. Len(list) \in Nat /\ Cardinality(1..Len(list)) = Len(list)
  <2> DEFINE m == Len(list)
  <2>1. m \in Nat OBVIOUS
  <2> HIDE DEF m
  <2>2. (IF 1 > m THEN 0 ELSE m - 1 + 1) = m /\ 1 \in Int /\ m \in Int BY <2>1
  <2>3. Cardinality(1..m) = m BY <2>2, FS_Interval
  <2> QED BY <2>1, <2>3 DEF m
<1>2. ASSUME NEW n \in 1..Len(list) PROVE Nth(1..Len(list), n) = n
  <2>1. 1..Len(list) \in Places BY <1>1, PlacesOf
  <2>2. Len(list) \in Nat \ {0} BY <1>1
  <2> QED BY <2>1, <2>2, FullBelow
<1>3. list = [n \in 1..Len(list) |-> list[n]] OBVIOUS
<1> QED BY <1>1, <1>2, <1>3 DEF Picked

\* The places of 1..m that are not in G, or are among the first r of it.
Filled(m, G, r) == {i \in 1..m : i \in G => Cardinality(Lower(G, i)) < r}

\* The r-th of them is the first that was not taken.
FilledNext(m, G, r) ==
    /\ Nth(G, r) \in Filled(m, G, r) /\ 1..Nth(G, r) \subseteq Filled(m, G, r)
    /\ Filled(m, G, r - 1) = Filled(m, G, r) \ {Nth(G, r)}

LEMMA FilledIs ==
    ASSUME NEW m \in Nat, NEW G \in SUBSET (1..m)
    PROVE  /\ Filled(m, G, 0) = 1..m \ G /\ Filled(m, G, Cardinality(G)) = 1..m
           /\ \A r \in 1..Cardinality(G) : FilledNext(m, G, r)
<1>1. G \in Places /\ Cardinality(G) \in Nat BY PlacesOf
<1>2. \A i \in G : Cardinality(Lower(G, i)) \in Nat /\ Cardinality(Lower(G, i)) < Cardinality(G)
  BY <1>1, LowerIs
<1>3. Filled(m, G, 0) = 1..m \ G BY <1>2 DEF Filled
<1>4. Filled(m, G, Cardinality(G)) = 1..m BY <1>2 DEF Filled
<1>5. ASSUME NEW r \in 1..Cardinality(G)
      PROVE  FilledNext(m, G, r)
  <2> DEFINE x == Nth(G, r)
  <2>1. x \in G /\ x \in 1..m /\ Cardinality(Lower(G, x)) = r - 1 /\ r \in Nat \ {0}
    <3>1. Nth(G, r) \in G /\ Cardinality(Lower(G, Nth(G, r))) = r - 1 BY <1>1, NthIs, Zenon
    <3>2. r \in Nat \ {0} BY <1>1
    <3>3. Nth(G, r) \in 1..m BY <3>1
    <3> QED BY <3>1, <3>2, <3>3
  <2>2. \A i \in G : Cardinality(Lower(G, i)) = r - 1 => i = x
    <3> SUFFICES ASSUME NEW i \in G, Cardinality(Lower(G, i)) = r - 1 PROVE i = x OBVIOUS
    <3>1. r - 1 + 1 = r BY <2>1
    <3> QED BY <1>1, <3>1, NthIs
  <2> HIDE DEF x
  <2>3. x \in Filled(m, G, r) BY <2>1 DEF Filled
  <2>4. 1..x \subseteq Filled(m, G, r)
    <3> SUFFICES ASSUME NEW i \in 1..x, i \in G PROVE Cardinality(Lower(G, i)) < r
      BY <2>1 DEF Filled
    <3>1. CASE i = x BY <2>1, <3>1
    <3>2. CASE i # x
      <4>1. i < x BY <2>1, <3>2
      <4>2. Cardinality(Lower(G, i)) < Cardinality(Lower(G, x)) BY <1>1, <2>1, <4>1, LowerIs
      <4> QED BY <1>2, <2>1, <4>2
    <3> QED BY <3>1, <3>2
  <2>5. Filled(m, G, r - 1) = Filled(m, G, r) \ {x}
    <3>1. \A i \in G : Cardinality(Lower(G, i)) < r - 1 <=> (Cardinality(Lower(G, i)) < r /\ i # x)
      BY <1>2, <2>1, <2>2
    <3> QED BY <2>1, <3>1 DEF Filled
  <2> QED BY <2>3, <2>4, <2>5 DEF x, FilledNext
<1> QED BY <1>3, <1>4, <1>5

-----------------------------------------------------------------------------
(* What a batch makes of the elements.                                     *)

Edits == [op : {"update"}, props : {n.props : n \in Nodes}]
         \cup [op : {"replace"}, node : Nodes]
         \cup [op : {"insert"}, at : Nat, node : Nodes]
         \cup [op : {"remove"}, at : Nat]
         \cup [op : {"reorder"}, order : Seq(Nat)]
Patches == [path : Seq(Nat), edit : Edits]

Whole(patch) == patch.edit.op = "replace" /\ patch.path = <<>>

\* The batch leads from d to e: each of its patches is valid where it is applied,
\* and takes or rebuilds no child under a key in stay, nor all of e.
Taken(h, d, batch, e, stay) ==
    /\ h[0] = d /\ h[Len(batch)] = e
    /\ \A n \in 1..Len(batch) :
          /\ Valid(h[n - 1], batch[n]) /\ h[n] = Patched(h[n - 1], batch[n])
          /\ Lost(h[n - 1], batch[n]) \cap stay = {} /\ ~Whole(batch[n])
Leads(d, batch, e, stay) == batch \in Seq(Patches) /\ \E h : Taken(h, d, batch, e, stay)

LEMMA LeadsNowhere ==
    ASSUME NEW d, NEW stay
    PROVE  Leads(d, <<>>, d, stay)
<1>1. Taken([n \in {0} |-> d], d, <<>>, d, stay) BY DEF Taken
<1> QED BY <1>1 DEF Leads

LEMMA LeadsOn ==
    ASSUME NEW d, NEW e, NEW f, NEW s, NEW t, NEW stay,
           Leads(d, s, e, stay), Leads(e, t, f, stay)
    PROVE  Leads(d, s \o t, f, stay)
<1>1. PICK g : Taken(g, d, s, e, stay) BY DEF Leads
<1>2. PICK h : Taken(h, e, t, f, stay) BY DEF Leads
<1>3. s \in Seq(Patches) /\ t \in Seq(Patches) BY DEF Leads
<1> DEFINE a == Len(s)
           b == Len(t)
           k == [n \in 0..(a + b) |-> IF n <= a THEN g[n] ELSE h[n - a]]
           u == s \o t
<1>4. a \in Nat /\ b \in Nat BY <1>3
<1>5. u \in Seq(Patches) /\ Len(u) = a + b BY <1>3, ConcatProperties, Zenon
<1>6. \A n \in 1..(a + b) : u[n] = IF n <= a THEN s[n] ELSE t[n - a] BY <1>3, <1>4
<1>7. g[a] = h[0] BY <1>1, <1>2 DEF Taken
<1> HIDE DEF u
<1>8. k[0] = d /\ k[a + b] = f
  <2>1. 0 \in 0..(a + b) /\ a + b \in 0..(a + b) /\ 0 <= a BY <1>4
  <2>2. k[0] = d BY <1>1, <2>1 DEF Taken
  <2>3. k[a + b] = IF a + b <= a THEN g[a + b] ELSE h[a + b - a] BY <2>1
  <2>4. h[b] = f BY <1>2 DEF Taken
  <2>5. CASE b = 0 BY <1>4, <1>7, <2>2, <2>3, <2>4, <2>5
  <2>6. CASE b # 0
    <3>1. ~(a + b <= a) /\ a + b - a = b BY <1>4, <2>6
    <3> QED BY <2>2, <2>3, <2>4, <3>1
  <2> QED BY <2>5, <2>6
<1>9. ASSUME NEW n \in 1..(a + b)
      PROVE  /\ Valid(k[n - 1], u[n]) /\ k[n] = Patched(k[n - 1], u[n])
             /\ Lost(k[n - 1], u[n]) \cap stay = {} /\ ~Whole(u[n])
  <2>1. n \in 0..(a + b) /\ n - 1 \in 0..(a + b) BY <1>4
  <2>2. CASE n <= a
    <3>1. n \in 1..a /\ n - 1 <= a BY <1>4, <2>2
    <3>2. u[n] = s[n] /\ k[n] = g[n] /\ k[n - 1] = g[n - 1] BY <1>6, <2>1, <2>2, <3>1
    <3> HIDE DEF k, a
    <3>3. /\ Valid(g[n - 1], s[n]) /\ g[n] = Patched(g[n - 1], s[n])
          /\ Lost(g[n - 1], s[n]) \cap stay = {} /\ ~Whole(s[n])
      BY <1>1, <3>1 DEF Taken, a
    <3> QED BY <3>2, <3>3
  <2>3. CASE ~(n <= a)
    <3>1. n - a \in 1..b /\ n - a - 1 = n - 1 - a BY <1>4, <2>3
    <3>2. k[n - 1] = h[n - 1 - a]
      <4>1. CASE n - 1 = a
        <5>1. n - 1 - a = 0 /\ n - 1 <= a BY <1>4, <4>1
        <5> QED BY <1>7, <2>1, <4>1, <5>1
      <4>2. CASE n - 1 # a
        <5>1. ~(n - 1 <= a) BY <1>4, <2>3, <4>2
        <5> QED BY <2>1, <5>1
      <4> QED BY <4>1, <4>2
    <3>3. u[n] = t[n - a] /\ k[n] = h[n - a] BY <1>6, <2>1, <2>3
    <3> HIDE DEF k, a, b
    <3>4. /\ Valid(h[n - a - 1], t[n - a]) /\ h[n - a] = Patched(h[n - a - 1], t[n - a])
          /\ Lost(h[n - a - 1], t[n - a]) \cap stay = {} /\ ~Whole(t[n - a])
      BY <1>2, <3>1 DEF Taken, b
    <3> QED BY <3>1, <3>2, <3>3, <3>4
  <2> QED BY <2>2, <2>3
<1> HIDE DEF k
<1>10. Taken(k, d, u, f, stay) BY <1>5, <1>8, <1>9 DEF Taken
<1>11. Leads(d, u, f, stay) BY <1>5, <1>10 DEF Leads
<1> QED BY <1>11 DEF u

\* A batch, patch by patch.
LEMMA LeadsAway ==
    ASSUME NEW d, NEW e, NEW batch, NEW stay, Leads(d, batch, e, stay)
    PROVE  /\ batch = <<>> => d = e
           /\ batch # <<>> =>
                /\ Valid(d, Head(batch)) /\ Lost(d, Head(batch)) \cap stay = {}
                /\ Leads(Patched(d, Head(batch)), Tail(batch), e, stay)
<1>1. PICK h : Taken(h, d, batch, e, stay) BY DEF Leads
<1>2. batch \in Seq(Patches) BY DEF Leads
<1>3. CASE batch = <<>>
  <2>1. Len(batch) = 0 BY <1>3
  <2> QED BY <1>1, <1>3, <2>1 DEF Taken
<1>4. CASE batch # <<>>
  <2> DEFINE rest == Tail(batch)
             k == [n \in 0..Len(rest) |-> h[n + 1]]
  <2>1. Len(batch) \in Nat \ {0} /\ Head(batch) = batch[1] BY <1>2, <1>4
  <2>2. rest \in Seq(Patches) /\ Len(rest) = Len(batch) - 1 /\ \A n \in 1..Len(rest) : rest[n] = batch[n + 1]
    BY <1>2, <1>4
  <2>3. /\ Valid(h[0], batch[1]) /\ h[1] = Patched(h[0], batch[1])
        /\ Lost(h[0], batch[1]) \cap stay = {}
    <3>1. 1 \in 1..Len(batch) /\ 1 - 1 = 0 BY <2>1
    <3> QED BY <1>1, <3>1 DEF Taken
  <2>4. h[0] = d /\ h[Len(batch)] = e BY <1>1 DEF Taken
  <2> HIDE DEF rest
  <2>5. k[0] = h[1] /\ k[Len(rest)] = e
    <3>1. 0 \in 0..Len(rest) /\ Len(rest) \in 0..Len(rest) /\ Len(rest) + 1 = Len(batch) BY <2>1, <2>2
    <3> QED BY <2>4, <3>1
  <2>6. ASSUME NEW n \in 1..Len(rest)
        PROVE  /\ Valid(k[n - 1], rest[n]) /\ k[n] = Patched(k[n - 1], rest[n])
               /\ Lost(k[n - 1], rest[n]) \cap stay = {} /\ ~Whole(rest[n])
    <3>1. n \in 0..Len(rest) /\ n - 1 \in 0..Len(rest) /\ n - 1 + 1 = n + 1 - 1 /\ n + 1 \in 1..Len(batch)
      BY <2>1, <2>2
    <3>2. k[n] = h[n + 1] /\ k[n - 1] = h[n + 1 - 1] /\ rest[n] = batch[n + 1] BY <2>2, <3>1
    <3>3. /\ Valid(h[n + 1 - 1], batch[n + 1]) /\ h[n + 1] = Patched(h[n + 1 - 1], batch[n + 1])
          /\ Lost(h[n + 1 - 1], batch[n + 1]) \cap stay = {} /\ ~Whole(batch[n + 1])
      BY <1>1, <3>1 DEF Taken
    <3> HIDE DEF k
    <3> QED BY <3>2, <3>3
  <2> HIDE DEF k
  <2>7. Taken(k, h[1], rest, e, stay) BY <2>5, <2>6 DEF Taken
  <2>8. Leads(h[1], rest, e, stay) BY <2>2, <2>7 DEF Leads
  <2> QED BY <1>4, <2>1, <2>3, <2>4, <2>8 DEF rest
<1> QED BY <1>3, <1>4

-----------------------------------------------------------------------------
(* Patches at an element and below a child of it.                          *)

Of(n, list) == [type |-> n.type, key |-> n.key, props |-> n.props, kids |-> list]

\* What Patched does from the element resolved up to e.
Ups(up, e, p, edit, m) ==
    up = [n \in 0..m |->
             IF n = 0 THEN Changed(Resolved(e, p), edit)
             ELSE [Along(e, p)[Len(p) - n] EXCEPT !.kids[p[Len(p) - n + 1] + 1] = up[n - 1]]]

LEMMA AlongIs ==
    ASSUME NEW e, NEW p \in Seq(Nat)
    PROVE  \A n \in 0..Len(p) : Along(e, p)[n] = IF n = 0 THEN e ELSE Along(e, p)[n - 1].kids[p[n] + 1]
BY AlongUnfolds

LEMMA PatchedUnfolds ==
    ASSUME NEW e, NEW patch, patch.path \in Seq(Nat)
    PROVE  \E up : /\ Ups(up, e, patch.path, patch.edit, Len(patch.path))
                   /\ Patched(e, patch) = up[Len(patch.path)]
<1> DEFINE p == patch.path
           edit == patch.edit
           short == {m \in 0..Len(p) : ~ \E f : Ups(f, e, p, edit, m)}
           From(n, v) == [Along(e, p)[Len(p) - n] EXCEPT !.kids[p[Len(p) - n + 1] + 1] = v]
<1>0. Len(p) \in Nat OBVIOUS
<1>1. short = {}
  <2> SUFFICES ASSUME short # {} PROVE FALSE OBVIOUS
  <2>1. PICK m \in short : \A j \in short : m <= j BY LeastExists, short \in SUBSET Nat
  <2>2. m \in 0..Len(p) /\ ~ \E f : Ups(f, e, p, edit, m) BY <2>1
  <2>3. m # 0
    <3>1. Ups([n \in 0..0 |-> Changed(Resolved(e, p), edit)], e, p, edit, 0) BY DEF Ups
    <3> QED BY <3>1, <2>2
  <2>4. PICK f : Ups(f, e, p, edit, m - 1)
    <3>1. m - 1 \in 0..Len(p) /\ ~(m <= m - 1) BY <1>0, <2>2, <2>3
    <3>2. m - 1 \notin short BY <2>1, <3>1, Zenon
    <3> QED BY <3>1, <3>2
  <2> DEFINE g == [n \in 0..m |-> IF n = m THEN From(m, f[m - 1]) ELSE f[n]]
  <2>5. \A n \in 0..m : g[n] = IF n = 0 THEN Changed(Resolved(e, p), edit) ELSE From(n, g[n - 1])
    <3> SUFFICES ASSUME NEW n \in 0..m
                 PROVE  g[n] = IF n = 0 THEN Changed(Resolved(e, p), edit) ELSE From(n, g[n - 1])
      OBVIOUS
    <3> HIDE DEF From
    <3>1. CASE n = m
      <4>1. m - 1 \in 0..m /\ m - 1 # m /\ m \in 0..m BY <1>0, <2>2, <2>3
      <4>2. g[m] = From(m, f[m - 1]) /\ g[m - 1] = f[m - 1] BY <4>1
      <4> QED BY <3>1, <4>2, <2>3
    <3>2. CASE n # m
      <4>1. n \in 0..(m - 1) BY <1>0, <3>2, <2>2
      <4>2. g[n] = f[n] BY <3>2
      <4>3. f[n] = IF n = 0 THEN Changed(Resolved(e, p), edit) ELSE From(n, f[n - 1])
        BY <2>4, <4>1 DEF Ups, From
      <4>4. n # 0 => n - 1 \in 0..m /\ n - 1 # m BY <1>0, <2>2
      <4>5. n # 0 => g[n - 1] = f[n - 1] BY <4>4
      <4> HIDE DEF g
      <4> QED BY <4>2, <4>3, <4>5
    <3> QED BY <3>1, <3>2
  <2>6. Ups(g, e, p, edit, m)
    <3>1. g = [n \in 0..m |-> g[n]] OBVIOUS
    <3> HIDE DEF g
    <3> QED BY <2>5, <3>1 DEF Ups
  <2> QED BY <2>2, <2>6
<1>2. Len(p) \in 0..Len(p) /\ Len(p) \notin short BY <1>0, <1>1
<1>3. \E f : Ups(f, e, p, edit, Len(p)) BY <1>2
<1> QED BY <1>3 DEF Patched, Ups

LEMMA HereIs ==
    ASSUME NEW e, NEW edit
    PROVE  /\ Resolves(e, <<>>) /\ Resolved(e, <<>>) = e
           /\ Patched(e, [path |-> <<>>, edit |-> edit]) = Changed(e, edit)
<1> DEFINE patch == [path |-> <<>>, edit |-> edit]
<1>1. <<>> \in Seq(Nat) /\ Len(<<>>) = 0 OBVIOUS
<1>2. Resolves(e, <<>>) BY <1>1 DEF Resolves
<1>3. Resolved(e, <<>>) = e
  <2>1. 0 \in 0..Len(<<>>) BY <1>1
  <2>2. Along(e, <<>>)[0] = IF 0 = 0 THEN e ELSE Along(e, <<>>)[0 - 1].kids[<<>>[0] + 1]
    BY ONLY <1>1, <2>1, AlongIs, Zenon
  <2> QED BY <1>1, <2>2 DEF Resolved
<1>4. PICK up : Ups(up, e, <<>>, edit, 0) /\ Patched(e, patch) = up[0]
  <2>1. patch.path = <<>> /\ patch.edit = edit OBVIOUS
  <2> HIDE DEF patch
  <2> QED BY <1>1, <2>1, PatchedUnfolds
<1>5. up[0] = Changed(Resolved(e, <<>>), edit) BY <1>4 DEF Ups
<1> QED BY <1>2, <1>3, <1>4, <1>5

\* The patch of a node's i-th child, as a patch of the node.
Below(i, patch) == [path |-> <<i - 1>> \o patch.path, edit |-> patch.edit]

\* What it does at the child, it does from the node on.
Lifted(b, list, i, patch) ==
    /\ Below(i, patch) \in Patches
    /\ Resolves(list[i], patch.path) => Resolves(Of(b, list), Below(i, patch).path)
    /\ Resolved(Of(b, list), Below(i, patch).path) = Resolved(list[i], patch.path)
    /\ Patched(Of(b, list), Below(i, patch)) = Of(b, [list EXCEPT ![i] = Patched(list[i], patch)])

LEMMA BelowIs ==
    ASSUME NEW b, NEW E, NEW list \in Seq(E), NEW i \in 1..Len(list), NEW patch \in Patches
    PROVE  Lifted(b, list, i, patch)
<1> DEFINE p == patch.path
           q == <<i - 1>> \o p
           T == Of(b, list)
           K == list[i]
           below == [path |-> q, edit |-> patch.edit]
<1>1. p \in Seq(Nat) /\ patch.edit \in Edits /\ i - 1 \in Nat BY DEF Patches
<1>2. Len(p) \in Nat BY <1>1
<1>3. <<i - 1>> \in Seq(Nat) /\ Len(<<i - 1>>) = 1 /\ <<i - 1>>[1] = i - 1 BY <1>1
<1>4. q \in Seq(Nat) /\ Len(q) = Len(p) + 1 /\ q[1] = i - 1 /\ \A n \in 1..Len(p) : q[n + 1] = p[n]
  <2> DEFINE one == <<i - 1>>
  <2>0. one \in Seq(Nat) /\ Len(one) = 1 BY <1>3
  <2>1. q \in Seq(Nat) /\ Len(q) = 1 + Len(p)
    <3> HIDE DEF one, p
    <3>1. one \o p \in Seq(Nat) /\ Len(one \o p) = Len(one) + Len(p)
      BY <1>1, <2>0, ConcatProperties, Zenon
    <3>2. q = one \o p BY DEF one
    <3> HIDE DEF q
    <3> QED BY <2>0, <3>1, <3>2
  <2>2. \A n \in 1..(1 + Len(p)) : q[n] = IF n <= 1 THEN <<i - 1>>[n] ELSE p[n - 1]
    <3> HIDE DEF one
    <3>1. \A n \in 1..(Len(one) + Len(p)) : (one \o p)[n] = IF n <= Len(one) THEN one[n] ELSE p[n - Len(one)]
      BY <1>1, <2>0, ConcatProperties, Zenon
    <3>2. \A n \in 1..(1 + Len(p)) : (one \o p)[n] = IF n <= 1 THEN one[n] ELSE p[n - 1] BY <2>0, <3>1
    <3> QED BY <3>2 DEF one
  <2>3. \A n \in 1..Len(p) : n + 1 \in 1..(1 + Len(p)) /\ ~(n + 1 <= 1) /\ n + 1 - 1 = n BY <1>2
  <2>4. 1 \in 1..(1 + Len(p)) BY <1>2
  <2> HIDE DEF q
  <2> QED BY <1>2, <1>3, <2>1, <2>2, <2>3, <2>4
<1> HIDE DEF q, p, T, K
<1>5. \A n \in 0..Len(p) : Along(K, p)[n] = IF n = 0 THEN K ELSE Along(K, p)[n - 1].kids[p[n] + 1]
  BY <1>1, AlongIs
<1>6. \A n \in 0..Len(q) : Along(T, q)[n] = IF n = 0 THEN T ELSE Along(T, q)[n - 1].kids[q[n] + 1]
  <2>1. q \in Seq(Nat) BY <1>4
  <2> QED BY ONLY <2>1, AlongIs
<1>7. T.kids = list BY DEF T, Of
<1>8. \A n \in 0..Len(p) : Along(T, q)[n + 1] = Along(K, p)[n]
  <2> DEFINE apart == {n \in 0..Len(p) : Along(T, q)[n + 1] # Along(K, p)[n]}
  <2> SUFFICES ASSUME apart # {} PROVE FALSE OBVIOUS
  <2>1. PICK n \in apart : \A j \in apart : n <= j BY LeastExists, apart \in SUBSET Nat
  <2>2. n \in 0..Len(p) /\ n + 1 \in 0..Len(q) /\ n + 1 # 0 /\ n + 1 - 1 = n BY <1>2, <1>4, <2>1
  <2>3. Along(T, q)[n + 1] = Along(T, q)[n].kids[q[n + 1] + 1] BY <1>6, <2>2
  <2>4. CASE n = 0
    <3>1. 0 \in 0..Len(q) /\ 0 \in 0..Len(p) BY <2>2, <2>4
    <3>2. Along(T, q)[0] = T /\ Along(K, p)[0] = K BY <1>5, <1>6, <3>1
    <3>3. q[0 + 1] + 1 = i BY <1>4
    <3> QED BY <1>7, <2>1, <2>3, <2>4, <3>2, <3>3 DEF K
  <2>5. CASE n # 0
    <3>1. n - 1 \in 0..Len(p) /\ ~(n <= n - 1) /\ n \in 1..Len(p) /\ n - 1 + 1 = n BY <2>2, <2>5
    <3>2. n - 1 \notin apart BY <2>1, <3>1, Zenon
    <3>3. Along(T, q)[n] = Along(K, p)[n - 1] BY <3>1, <3>2
    <3>4. q[n + 1] = p[n] BY <1>4, <3>1
    <3>5. Along(K, p)[n] = Along(K, p)[n - 1].kids[p[n] + 1] BY <1>5, <2>2, <2>5
    <3> QED BY <2>1, <2>3, <3>3, <3>4, <3>5
  <2> QED BY <2>4, <2>5
<1>9. Resolved(T, q) = Resolved(K, p)
  <2>1. Len(p) \in 0..Len(p) BY <1>2
  <2> QED BY <1>4, <1>8, <2>1 DEF Resolved
<1>10. ASSUME Resolves(K, p) PROVE Resolves(T, q)
  <2> SUFFICES ASSUME NEW n \in 1..Len(q) PROVE q[n] < Len(Along(T, q)[n - 1].kids) BY DEF Resolves
  <2>1. CASE n = 1
    <3>1. 0 \in 0..Len(q) /\ 1 - 1 = 0 BY <1>2, <1>4
    <3>2. Along(T, q)[0] = T BY <1>6, <3>1
    <3>3. i - 1 < Len(list) OBVIOUS
    <3> QED BY <1>4, <1>7, <2>1, <3>1, <3>2, <3>3
  <2>2. CASE n # 1
    <3>1. n - 1 \in 1..Len(p) /\ n - 1 - 1 \in 0..Len(p) /\ n - 1 - 1 + 1 = n - 1 /\ n - 1 + 1 = n
      BY <1>2, <1>4, <2>2
    <3>2. Along(T, q)[n - 1] = Along(K, p)[n - 1 - 1] BY <1>8, <3>1
    <3>3. q[n] = p[n - 1] BY <1>4, <3>1
    <3>4. p[n - 1] < Len(Along(K, p)[n - 1 - 1].kids) BY <1>10, <3>1 DEF Resolves
    <3> QED BY <3>2, <3>3, <3>4
  <2> QED BY <2>1, <2>2
<1>11. Patched(T, below) = Of(b, [list EXCEPT ![i] = Patched(K, patch)])
  <2>1. PICK f : Ups(f, T, q, patch.edit, Len(q)) /\ Patched(T, below) = f[Len(q)]
    <3>1. below.path = q /\ below.edit = patch.edit OBVIOUS
    <3> HIDE DEF below
    <3>2. below.path \in Seq(Nat) BY <1>4, <3>1
    <3>3. \E up : /\ Ups(up, T, below.path, below.edit, Len(below.path))
                  /\ Patched(T, below) = up[Len(below.path)]
      BY <3>2, PatchedUnfolds
    <3> QED BY <3>1, <3>3
  <2>2. PICK g : Ups(g, K, p, patch.edit, Len(p)) /\ Patched(K, patch) = g[Len(p)]
    BY <1>1, PatchedUnfolds DEF p
  <2>3. \A n \in 0..Len(p) : f[n] = g[n]
    <3> DEFINE apart == {n \in 0..Len(p) : f[n] # g[n]}
    <3> SUFFICES ASSUME apart # {} PROVE FALSE OBVIOUS
    <3>1. PICK n \in apart : \A j \in apart : n <= j BY LeastExists, apart \in SUBSET Nat
    <3>2. n \in 0..Len(p) /\ n \in 0..Len(q) BY <1>2, <1>4, <3>1
    <3>3. CASE n = 0
      <4>1. f[0] = Changed(Resolved(T, q), patch.edit) BY <2>1, <3>2, <3>3 DEF Ups
      <4>2. g[0] = Changed(Resolved(K, p), patch.edit) BY <2>2, <3>2, <3>3 DEF Ups
      <4> QED BY <1>9, <3>1, <3>3, <4>1, <4>2
    <3>4. CASE n # 0
      <4>1. f[n] = [Along(T, q)[Len(q) - n] EXCEPT !.kids[q[Len(q) - n + 1] + 1] = f[n - 1]]
        BY <2>1, <3>2, <3>4 DEF Ups
      <4>2. g[n] = [Along(K, p)[Len(p) - n] EXCEPT !.kids[p[Len(p) - n + 1] + 1] = g[n - 1]]
        BY <2>2, <3>2, <3>4 DEF Ups
      <4>3. n - 1 \in 0..Len(p) /\ ~(n <= n - 1) BY <3>2, <3>4
      <4>4. n - 1 \notin apart BY <3>1, <4>3, Zenon
      <4>5. f[n - 1] = g[n - 1] BY <4>3, <4>4
      <4>6. /\ Len(p) - n \in 0..Len(p) /\ Len(q) - n = Len(p) - n + 1
            /\ Len(p) - n + 1 \in 1..Len(p) /\ Len(q) - n + 1 = Len(p) - n + 1 + 1
        BY <1>2, <1>4, <3>2, <3>4
      <4>7. Along(T, q)[Len(q) - n] = Along(K, p)[Len(p) - n] BY <1>8, <4>6
      <4>8. q[Len(q) - n + 1] = p[Len(p) - n + 1] BY <1>4, <4>6
      <4>9. f[n] = g[n] BY <4>1, <4>2, <4>5, <4>7, <4>8
      <4> QED BY <3>1, <4>9
    <3> QED BY <3>3, <3>4
  <2>4. f[Len(q)] = [T EXCEPT !.kids[i] = f[Len(p)]]
    <3>1. /\ Len(q) \in 0..Len(q) /\ Len(q) # 0 /\ Len(q) - Len(q) = 0 /\ Len(q) - 1 = Len(p)
          /\ Len(q) - Len(q) + 1 = 1 /\ 0 \in 0..Len(q)
      BY <1>2, <1>4
    <3>2. f[Len(q)] = [Along(T, q)[Len(q) - Len(q)] EXCEPT
                          !.kids[q[Len(q) - Len(q) + 1] + 1] = f[Len(q) - 1]]
      BY <2>1, <3>1 DEF Ups
    <3>3. Along(T, q)[0] = T BY <1>6, <3>1
    <3>4. q[1] + 1 = i BY <1>4
    <3> QED BY <3>1, <3>2, <3>3, <3>4
  <2>5. Len(p) \in 0..Len(p) BY <1>2
  <2>6. Patched(T, below) = [T EXCEPT !.kids[i] = Patched(K, patch)] BY <2>1, <2>2, <2>3, <2>4, <2>5
  <2>7. [T EXCEPT !.kids[i] = Patched(K, patch)] = Of(b, [list EXCEPT ![i] = Patched(K, patch)])
    BY DEF T, Of
  <2> QED BY <2>6, <2>7
<1>12. below \in Patches BY <1>1, <1>4 DEF Patches
<1>13. Below(i, patch) = below /\ below.path = q BY DEF Below, p, q
<1> QED BY <1>9, <1>10, <1>11, <1>12, <1>13 DEF T, K, p, Lifted

-----------------------------------------------------------------------------
(* What becomes of one list of children.                                   *)

\* The edit is valid at e and takes or rebuilds no child under a key in stay.
Fits(e, edit, stay) ==
    /\ edit.op # "replace"
    /\ edit.op = "insert" => edit.at <= Len(e.kids)
    /\ edit.op = "remove" => edit.at < Len(e.kids) /\ e.kids[edit.at + 1].key \notin stay
    /\ edit.op = "reorder" => Len(edit.order) = Len(e.kids) /\ Range(edit.order) = 0..(Len(e.kids) - 1)

LEMMA HereLeads ==
    ASSUME NEW edits \in Seq(Edits), NEW els, NEW stay,
           \A n \in 1..Len(edits) : /\ Fits(els[n - 1], edits[n], stay)
                                    /\ Changed(els[n - 1], edits[n]) = els[n],
           \A n \in 0..Len(edits) : Len(els[n].kids) \in Nat
    PROVE  Leads(els[0], AllHere(edits), els[Len(edits)], stay)
<1> DEFINE c == Len(edits)
           batch == AllHere(edits)
           P(edit) == [path |-> <<>>, edit |-> edit]
<1>1. c \in Nat /\ \A n \in 1..c : edits[n] \in Edits BY AsFunction
<1>2. batch = [n \in 1..c |-> P(edits[n])] BY DEF AllHere
<1>3. \A n \in 1..c : P(edits[n]) \in Patches
  <2>1. <<>> \in Seq(Nat) OBVIOUS
  <2> QED BY <1>1, <2>1 DEF Patches
<1>4. batch \in Seq(Patches) /\ Len(batch) = c /\ \A n \in 1..c : batch[n] = P(edits[n])
  <2> HIDE DEF batch, P, c
  <2>1. batch \in [1..c -> Patches] BY <1>2, <1>3
  <2> QED BY <1>1, <1>2, <2>1
<1>5. ASSUME NEW n \in 1..c
      PROVE  /\ Valid(els[n - 1], batch[n]) /\ els[n] = Patched(els[n - 1], batch[n])
             /\ Lost(els[n - 1], batch[n]) \cap stay = {} /\ ~Whole(batch[n])
  <2> DEFINE e == els[n - 1]
             edit == edits[n]
  <2>1. Fits(e, edit, stay) /\ Changed(e, edit) = els[n] OBVIOUS
  <2>2. Len(e.kids) \in Nat
    <3>1. n - 1 \in 0..c BY <1>1
    <3> QED BY <3>1
  <2>3. batch[n] = P(edit) BY <1>4
  <2> HIDE DEF batch, e, edit
  <2>4. Resolves(e, <<>>) /\ Resolved(e, <<>>) = e /\ Patched(e, P(edit)) = Changed(e, edit) BY HereIs
  <2>5. P(edit).path = <<>> /\ P(edit).edit = edit OBVIOUS
  <2> HIDE DEF P
  <2>6. Valid(e, P(edit)) BY <2>1, <2>4, <2>5 DEF Valid, Fits
  <2>7. Lost(e, P(edit)) \cap stay = {}
    <3> SUFFICES ASSUME NEW j \in 1..Len(e.kids), edit.op = "remove", edit.at = j - 1
                 PROVE  e.kids[j].key \notin stay
      BY <2>1, <2>5 DEF Lost, Fits
    <3>1. edit.at + 1 = j BY <2>2
    <3> QED BY <2>1, <3>1 DEF Fits
  <2>8. ~Whole(P(edit)) BY <2>1, <2>5 DEF Whole, Fits
  <2> QED BY <2>1, <2>3, <2>4, <2>6, <2>7, <2>8 DEF e
<1> HIDE DEF batch
<1>6. Taken(els, els[0], batch, els[c], stay) BY <1>4, <1>5 DEF Taken
<1>7. Leads(els[0], batch, els[c], stay) BY <1>4, <1>6 DEF Leads
<1> QED BY <1>7 DEF batch

\* Taking the children at some places away, from the tail.
LEMMA RemovesLead ==
    ASSUME NEW b, NEW list \in Seq(Nodes), NEW G \in SUBSET (1..Len(list)), NEW stay,
           \A i \in G : list[i].key \notin stay
    PROVE  Leads(Of(b, list), Removes(G), Of(b, Picked(list, 1..Len(list) \ G)), stay)
<1> DEFINE m == Len(list)
           c == Cardinality(G)
           edits == [n \in 1..c |-> Removing(Nth(G, c + 1 - n) - 1)]
           els == [n \in 0..c |-> Of(b, Picked(list, Filled(m, G, c - n)))]
<1>1. m \in Nat /\ c \in Nat /\ G \in Places
  <2>1. m \in Nat OBVIOUS
  <2> QED BY <2>1, PlacesOf
<1>2. \A n \in 1..c : Nth(G, n) \in G /\ Nth(G, n) \in 1..m BY <1>1, NthIs
<1>3. \A n \in 1..c : c + 1 - n \in 1..c /\ Nth(G, c + 1 - n) - 1 \in Nat
  <2> SUFFICES ASSUME NEW n \in 1..c PROVE c + 1 - n \in 1..c /\ Nth(G, c + 1 - n) - 1 \in Nat
    OBVIOUS
  <2>1. c + 1 - n \in 1..c BY <1>1
  <2> QED BY <1>1, <1>2, <2>1
<1>4. edits \in Seq(Edits) /\ Len(edits) = c
  <2> HIDE DEF c
  <2>1. \A n \in 1..c : Removing(Nth(G, c + 1 - n) - 1) \in Edits BY <1>3 DEF Removing, Edits
  <2>2. edits \in [1..c -> Edits] BY <2>1
  <2> QED BY <1>1, <2>2
<1>5. \A r \in 0..c : Filled(m, G, r) \in SUBSET (1..m) BY DEF Filled
<1>6. \A r \in 0..c : /\ Picked(list, Filled(m, G, r)) \in Seq(Nodes)
                      /\ Len(Picked(list, Filled(m, G, r))) \in Nat
  BY <1>5, PickedIs
<1>7. ASSUME NEW n \in 1..c
      PROVE  Fits(els[n - 1], edits[n], stay) /\ Changed(els[n - 1], edits[n]) = els[n]
  <2> DEFINE r == c + 1 - n
             x == Nth(G, r)
             T == Filled(m, G, r)
  <2>1. r \in 1..c /\ c - (n - 1) = r /\ c - n = r - 1 /\ n - 1 \in 0..c /\ n \in 0..c BY <1>1
  <2>2. x \in T /\ 1..x \subseteq T /\ Filled(m, G, r - 1) = T \ {x} /\ T \in SUBSET (1..m)
    <3>1. r \in 0..c /\ G \in SUBSET (1..m) /\ m \in Nat BY <1>1, <2>1
    <3>2. T \in SUBSET (1..m) BY <1>5, <3>1
    <3> HIDE DEF m, r
    <3>3. FilledNext(m, G, r) BY <2>1, <3>1, FilledIs
    <3> QED BY <3>2, <3>3 DEF FilledNext
  <2>3. x \in G /\ x \in 1..m /\ x - 1 \in Nat /\ x - 1 + 1 = x BY <1>2, <2>1
  <2>4. edits[n] = [op |-> "remove", at |-> x - 1] BY DEF Removing
  <2>5. els[n - 1] = Of(b, Picked(list, T)) /\ els[n] = Of(b, Picked(list, T \ {x}))
    BY <2>1, <2>2
  <2> HIDE DEF T, x, r, els, edits
  <2>6. /\ x <= Len(Picked(list, T)) /\ Picked(list, T)[x] = list[x]
        /\ RemoveAt(Picked(list, T), x) = Picked(list, T \ {x})
    <3>1. EditedAt(list, T, x) BY <2>2, PickedEdits
    <3> QED BY <3>1 DEF EditedAt
  <2>7. Len(Picked(list, T)) \in Nat BY <2>2, PickedIs
  <2>8. x - 1 < Len(Picked(list, T)) BY <2>3, <2>6, <2>7
  <2>9. Fits(els[n - 1], edits[n], stay)
    BY <2>3, <2>4, <2>5, <2>6, <2>8 DEF Fits, Of
  <2>10. Changed(els[n - 1], edits[n]) = Of(b, RemoveAt(Picked(list, T), x))
    BY <2>3, <2>4, <2>5, <2>8 DEF Changed, Of
  <2> QED BY <2>5, <2>6, <2>9, <2>10
<1>8. \A n \in 0..c : Len(els[n].kids) \in Nat
  <2> SUFFICES ASSUME NEW n \in 0..c PROVE Len(els[n].kids) \in Nat OBVIOUS
  <2>1. c - n \in 0..c BY <1>1
  <2>2. els[n].kids = Picked(list, Filled(m, G, c - n)) BY DEF Of
  <2> QED BY <1>6, <2>1, <2>2
<1>9. els[0] = Of(b, list) /\ els[c] = Of(b, Picked(list, 1..m \ G))
  <2>1. 0 \in 0..c /\ c \in 0..c /\ c - 0 = c /\ c - c = 0 BY <1>1
  <2>2. Filled(m, G, 0) = 1..m \ G /\ Filled(m, G, c) = 1..m BY <1>1, FilledIs
  <2>3. Picked(list, 1..m) = list BY PickedAll
  <2> QED BY <2>1, <2>2, <2>3
<1>10. Removes(G) = AllHere(edits) BY DEF Removes
<1> HIDE DEF els, edits, c
<1>11. Leads(els[0], AllHere(edits), els[c], stay) BY <1>4, <1>7, <1>8, HereLeads
<1> QED BY <1>9, <1>10, <1>11

\* Putting the children at some places where they will stand, from the head.
LEMMA InsertsLead ==
    ASSUME NEW b, NEW list \in Seq(Nodes), NEW new, NEW H \in SUBSET (1..Len(list)), NEW stay,
           \A i \in H : new[i] = list[i]
    PROVE  Leads(Of(b, Picked(list, 1..Len(list) \ H)), Inserts(new, H), Of(b, list), stay)
<1> DEFINE m == Len(list)
           c == Cardinality(H)
           edits == [n \in 1..c |-> Inserting(Nth(H, n) - 1, new[Nth(H, n)])]
           els == [n \in 0..c |-> Of(b, Picked(list, Filled(m, H, n)))]
<1>1. m \in Nat /\ c \in Nat /\ H \in Places BY PlacesOf
<1>2. \A n \in 1..c : Nth(H, n) \in H /\ Nth(H, n) \in 1..m BY <1>1, NthIs
<1>3. \A n \in 1..c : Nth(H, n) - 1 \in Nat /\ new[Nth(H, n)] \in Nodes
  <2>1. \A i \in 1..m : list[i] \in Nodes /\ i - 1 \in Nat BY AsFunction
  <2> QED BY <1>2, <2>1
<1>4. edits \in Seq(Edits) /\ Len(edits) = c
  <2> HIDE DEF c
  <2>1. \A n \in 1..c : Inserting(Nth(H, n) - 1, new[Nth(H, n)]) \in Edits
    BY <1>3 DEF Inserting, Edits
  <2>2. edits \in [1..c -> Edits] BY <2>1
  <2> QED BY <1>1, <2>2
<1>5. \A r \in 0..c : Filled(m, H, r) \in SUBSET (1..m) BY DEF Filled
<1>6. \A r \in 0..c : /\ Picked(list, Filled(m, H, r)) \in Seq(Nodes)
                      /\ Len(Picked(list, Filled(m, H, r))) \in Nat
  BY <1>5, PickedIs
<1>7. ASSUME NEW n \in 1..c
      PROVE  Fits(els[n - 1], edits[n], stay) /\ Changed(els[n - 1], edits[n]) = els[n]
  <2> DEFINE x == Nth(H, n)
             T == Filled(m, H, n)
             short == Picked(list, T \ {x})
  <2>1. n - 1 \in 0..c /\ n \in 0..c BY <1>1
  <2>2. x \in T /\ 1..x \subseteq T /\ Filled(m, H, n - 1) = T \ {x} /\ T \in SUBSET (1..m)
    <3>1. H \in SUBSET (1..m) BY <1>1
    <3>2. T \in SUBSET (1..m) BY <1>5, <2>1
    <3> HIDE DEF m
    <3>3. FilledNext(m, H, n) BY <1>1, <3>1, FilledIs
    <3> QED BY <3>2, <3>3 DEF FilledNext
  <2>3. x \in H /\ x \in 1..m /\ x - 1 \in Nat /\ x - 1 + 1 = x BY <1>2
  <2>4. edits[n] = [op |-> "insert", at |-> x - 1, node |-> list[x]] BY <2>3 DEF Inserting
  <2>5. els[n - 1] = Of(b, short) /\ els[n] = Of(b, Picked(list, T)) BY <2>1, <2>2
  <2> HIDE DEF T, x, els, edits
  <2>6. /\ x <= Len(Picked(list, T)) /\ Len(short) = Len(Picked(list, T)) - 1
        /\ InsertAt(short, x, list[x]) = Picked(list, T)
    <3>1. EditedAt(list, T, x) BY <2>2, PickedEdits
    <3> QED BY <3>1 DEF EditedAt, short
  <2>7. Len(Picked(list, T)) \in Nat BY <2>2, PickedIs
  <2>8. Len(short) \in Nat
    <3>1. T \ {x} \in SUBSET (1..m) BY <2>2
    <3> QED BY <3>1, PickedIs
  <2> HIDE DEF short
  <2>9. x - 1 <= Len(short) /\ ~(x - 1 > Len(short)) BY <2>3, <2>6, <2>7
  <2>10. Fits(els[n - 1], edits[n], stay) BY <2>4, <2>5, <2>9 DEF Fits, Of
  <2>11. Changed(els[n - 1], edits[n]) = Of(b, InsertAt(short, x, list[x]))
    BY <2>3, <2>4, <2>5, <2>9 DEF Changed, Of
  <2> QED BY <2>5, <2>6, <2>10, <2>11
<1>8. \A n \in 0..c : Len(els[n].kids) \in Nat
  <2> SUFFICES ASSUME NEW n \in 0..c PROVE Len(els[n].kids) \in Nat OBVIOUS
  <2>1. els[n].kids = Picked(list, Filled(m, H, n)) BY DEF Of
  <2> QED BY <1>6, <2>1
<1>9. els[0] = Of(b, Picked(list, 1..m \ H)) /\ els[c] = Of(b, list)
  <2>1. 0 \in 0..c /\ c \in 0..c BY <1>1
  <2>2. Filled(m, H, 0) = 1..m \ H /\ Filled(m, H, c) = 1..m BY <1>1, FilledIs
  <2>3. Picked(list, 1..m) = list BY PickedAll
  <2> QED BY <2>1, <2>2, <2>3
<1>10. Inserts(new, H) = AllHere(edits) BY DEF Inserts
<1> HIDE DEF els, edits, c
<1>11. Leads(els[0], AllHere(edits), els[c], stay) BY <1>4, <1>7, <1>8, HereLeads
<1> QED BY <1>9, <1>10, <1>11

\* Moving the children into an order that names each once.
LEMMA ReorderLeads ==
    ASSUME NEW b, NEW list \in Seq(Nodes), NEW order \in Seq(Nat), NEW stay,
           Len(order) = Len(list), Range(order) = 0..(Len(list) - 1)
    PROVE  Leads(Of(b, list), Here(Reordered(order)),
                 Of(b, [n \in 1..Len(list) |-> list[order[n] + 1]]), stay)
<1> DEFINE m == Len(list)
           edit == Reordered(order)
           there == [n \in 1..m |-> list[order[n] + 1]]
           e == Of(b, list)
           els == [n \in 0..1 |-> IF n = 0 THEN e ELSE Of(b, there)]
<1>1. m \in Nat /\ \A n \in 1..m : order[n] \in 0..(m - 1)
  <2>1. order = [n \in 1..m |-> order[n]] BY AsFunction
  <2>2. \A n \in 1..m : order[n] \in Range(order) BY <2>1 DEF Range
  <2> QED BY <2>2
<1>2. edit \in Edits /\ edit.op = "reorder" /\ edit.order = order BY DEF Edits, Reordered
<1>3. e.kids = list BY DEF Of
<1>4. Picked(order, {n \in 1..Len(order) : order[n] < m}) = order
  <2>1. {n \in 1..Len(order) : order[n] < m} = 1..Len(order) BY <1>1
  <2> QED BY <2>1, PickedAll
<1>5. {i \in 1..m : i - 1 \notin Range(order)} = {}
  <2>1. \A i \in 1..m : i - 1 \in 0..(m - 1) BY <1>1
  <2> QED BY <2>1
<1>6. Picked(list, {}) = <<>>
  <2>1. Cardinality({}) = 0 BY FS_EmptySet
  <2> QED BY <2>1 DEF Picked
<1>7. there \in Seq(Nodes) /\ Len(there) = m
  <2>1. \A n \in 1..m : order[n] + 1 \in 1..m BY <1>1
  <2>2. there \in [1..m -> Nodes] BY <2>1, AsFunction
  <2> QED BY <1>1, <2>2
<1>8. <<>> \o there = there BY <1>7
<1> HIDE DEF e, edit
<1>9. Changed(e, edit) = Of(b, there)
  <2>1. Changed(e, edit) = [e EXCEPT !.kids = Picked(list, {}) \o [n \in 1..Len(order) |-> list[order[n] + 1]]]
    BY <1>2, <1>3, <1>4, <1>5 DEF Changed
  <2> QED BY <1>6, <1>8, <2>1 DEF e, Of
<1>10. Fits(e, edit, stay) BY <1>2, <1>3 DEF Fits
<1>11. Len(<<edit>>) = 1 /\ <<edit>> \in Seq(Edits) /\ <<edit>>[1] = edit BY <1>2
<1>12. els[0] = e /\ els[1] = Of(b, there) OBVIOUS
<1>13. \A n \in 0..1 : Len(els[n].kids) \in Nat
  <2>1. Of(b, there).kids = there BY DEF Of
  <2> HIDE DEF there
  <2> QED BY <1>1, <1>3, <1>7, <2>1
<1> HIDE DEF els, there
<1>14. \A n \in 1..1 : Fits(els[n - 1], <<edit>>[n], stay) /\ Changed(els[n - 1], <<edit>>[n]) = els[n]
  BY <1>9, <1>10, <1>11, <1>12
<1>15. Leads(els[0], AllHere(<<edit>>), els[1], stay) BY <1>11, <1>13, <1>14, HereLeads
<1> QED BY <1>12, <1>15 DEF Here, e, edit, there

\* What a batch does at a child, its batch does below the element.
LEMMA LiftLeads ==
    ASSUME NEW b, NEW list \in Seq(Nodes), NEW i \in 1..Len(list), NEW e, NEW batch, NEW old, NEW stay,
           Leads(list[i], batch, e, old)
    PROVE  Leads(Of(b, list), Under(i, batch), Of(b, [list EXCEPT ![i] = e]), stay)
<1>1. PICK h : Taken(h, list[i], batch, e, old) BY DEF Leads
<1>2. batch \in Seq(Patches) BY DEF Leads
<1> DEFINE c == Len(batch)
           E == Nodes \cup {h[n] : n \in 0..c}
           at == [n \in 0..c |-> [list EXCEPT ![i] = h[n]]]
           els == [n \in 0..c |-> Of(b, at[n])]
           us == Under(i, batch)
<1>3. c \in Nat /\ Len(list) \in Nat /\ \A n \in 1..c : batch[n] \in Patches
  BY <1>2, AsFunction
<1>4. us = [n \in 1..c |-> Below(i, batch[n])] BY DEF Under, Below
<1>5. ASSUME NEW n \in 0..c
      PROVE  at[n] \in Seq(E) /\ Len(at[n]) = Len(list) /\ at[n][i] = h[n]
             /\ \A v : [at[n] EXCEPT ![i] = v] = [list EXCEPT ![i] = v]
  <2>1. at[n] = [list EXCEPT ![i] = h[n]] OBVIOUS
  <2>2. list \in [1..Len(list) -> E]
    <3>1. \A j \in 1..Len(list) : list[j] \in E BY AsFunction
    <3>2. list = [j \in 1..Len(list) |-> list[j]] BY AsFunction
    <3> HIDE DEF E
    <3> QED BY <3>1, <3>2
  <2>3. h[n] \in E OBVIOUS
  <2> HIDE DEF E, at
  <2>4. at[n] \in [1..Len(list) -> E] BY <2>1, <2>2, <2>3
  <2>5. at[n] \in Seq(E) /\ Len(at[n]) = Len(list) BY <1>3, <2>4
  <2>6. at[n][i] = h[n] /\ \A v : [at[n] EXCEPT ![i] = v] = [list EXCEPT ![i] = v]
    BY <2>1, <2>2
  <2> QED BY <2>5, <2>6
<1> HIDE DEF E
<1>6. els[0] = Of(b, list) /\ els[c] = Of(b, [list EXCEPT ![i] = e])
  <2>1. h[0] = list[i] /\ h[c] = e BY <1>1 DEF Taken
  <2>2. [list EXCEPT ![i] = list[i]] = list BY AsFunction
  <2>3. 0 \in 0..c /\ c \in 0..c BY <1>3
  <2> QED BY <2>1, <2>2, <2>3
<1>7. ASSUME NEW n \in 1..c
      PROVE  /\ Below(i, batch[n]) \in Patches
             /\ Valid(els[n - 1], Below(i, batch[n])) /\ els[n] = Patched(els[n - 1], Below(i, batch[n]))
             /\ Lost(els[n - 1], Below(i, batch[n])) \cap stay = {} /\ ~Whole(Below(i, batch[n]))
  <2> DEFINE l == at[n - 1]
             p == batch[n]
             u == Below(i, p)
  <2>1. n - 1 \in 0..c /\ n \in 0..c BY <1>3
  <2>2. l \in Seq(E) /\ i \in 1..Len(l) /\ l[i] = h[n - 1] BY <1>5, <2>1
  <2>3. [l EXCEPT ![i] = h[n]] = at[n] BY <1>5, <2>1
  <2>4. els[n - 1] = Of(b, l) /\ els[n] = Of(b, at[n]) BY <2>1
  <2>5. p \in Patches BY <1>3
  <2>6. Valid(h[n - 1], p) /\ h[n] = Patched(h[n - 1], p) /\ ~Whole(p) BY <1>1 DEF Taken
  <2> HIDE DEF l, at, els, p
  <2>7. /\ u \in Patches
        /\ Resolves(l[i], p.path) => Resolves(Of(b, l), u.path)
        /\ Resolved(Of(b, l), u.path) = Resolved(l[i], p.path)
        /\ Patched(Of(b, l), u) = Of(b, [l EXCEPT ![i] = Patched(l[i], p)])
    <3>1. Lifted(b, l, i, p) BY <2>2, <2>5, BelowIs
    <3> QED BY <3>1 DEF Lifted
  <2>8. u.edit = p.edit /\ u.path = <<i - 1>> \o p.path BY DEF Below
  <2>9. p.path \in Seq(Nat) /\ i - 1 \in Nat BY <2>5 DEF Patches
  <2>10. u.path # <<>> BY <2>8, <2>9
  <2>11. \A j : u.path = <<j - 1>> => p.path = <<>>
    <3>1. <<i - 1>> \in Seq(Nat) /\ Len(<<i - 1>>) = 1 BY <2>9
    <3>2. Len(u.path) = 1 + Len(p.path)
      <4>1. Len(<<i - 1>> \o p.path) = Len(<<i - 1>>) + Len(p.path) BY <2>9, <3>1, ConcatProperties, Zenon
      <4> QED BY <2>8, <3>1, <4>1
    <3> SUFFICES ASSUME NEW j, u.path = <<j - 1>> PROVE p.path = <<>> OBVIOUS
    <3>3. Len(<<j - 1>>) = 1 OBVIOUS
    <3>4. Len(p.path) = 0 BY <2>9, <3>2, <3>3
    <3> HIDE DEF u
    <3> QED BY <2>9, <3>4
  <2> HIDE DEF u
  <2>12. Valid(Of(b, l), u) BY <2>2, <2>6, <2>7, <2>8 DEF Valid
  <2>13. els[n] = Patched(els[n - 1], u) BY <2>2, <2>3, <2>4, <2>6, <2>7
  <2>14. ~Whole(u) BY <2>10 DEF Whole
  <2>15. Lost(Of(b, l), u) = {}
    <3>1. p.path = <<>> => u.edit.op # "replace" BY <2>6, <2>8 DEF Whole
    <3>2. u.edit.op = "remove" => u.path # <<>> BY <2>10
    <3>3. \A j \in 1..Len(Of(b, l).kids) :
            /\ ~(u.edit.op = "remove" /\ u.path = <<>> /\ u.edit.at = j - 1)
            /\ ~(u.edit.op = "replace" /\ u.path \in {<<>>, <<j - 1>>})
      BY <2>10, <2>11, <3>1
    <3> QED BY <3>3 DEF Lost
  <2> QED BY <2>4, <2>7, <2>12, <2>13, <2>14, <2>15 DEF u, p
<1> HIDE DEF els, us
<1>8. us \in Seq(Patches) /\ Len(us) = c /\ \A n \in 1..c : us[n] = Below(i, batch[n])
  <2>1. us \in [1..c -> Patches] BY <1>4, <1>7
  <2> QED BY <1>3, <1>4, <2>1
<1>9. Taken(els, els[0], us, els[c], stay) BY <1>7, <1>8 DEF Taken
<1>10. Leads(els[0], us, els[c], stay) BY <1>8, <1>9 DEF Leads
<1> QED BY <1>6, <1>10 DEF us

\* A child that is built again.
LEMMA LiftReplace ==
    ASSUME NEW b, NEW list \in Seq(Nodes), NEW i \in 1..Len(list), NEW n \in Nodes, NEW stay,
           list[i].key \notin stay
    PROVE  Leads(Of(b, list), Under(i, Here(Replacing(n))), Of(b, [list EXCEPT ![i] = n]), stay)
<1> DEFINE here == [path |-> <<>>, edit |-> Replacing(n)]
           u == Below(i, here)
           T == Of(b, list)
           N == Of(b, [list EXCEPT ![i] = n])
           els == [k \in 0..1 |-> IF k = 0 THEN T ELSE N]
<1>1. i - 1 \in Nat /\ <<>> \in Seq(Nat) OBVIOUS
<1>2. here \in Patches BY <1>1 DEF Patches, Edits, Replacing
<1>3. /\ u \in Patches
      /\ Resolves(list[i], here.path) => Resolves(T, u.path)
      /\ Patched(T, u) = Of(b, [list EXCEPT ![i] = Patched(list[i], here)])
  <2> HIDE DEF here
  <2>1. Lifted(b, list, i, here) BY <1>2, BelowIs
  <2> QED BY <2>1 DEF Lifted
<1>4. /\ Resolves(list[i], <<>>) /\ Patched(list[i], here) = Changed(list[i], Replacing(n)) BY HereIs
<1>5. Changed(list[i], Replacing(n)) = n BY DEF Changed, Replacing
<1>6. Patched(T, u) = N BY <1>3, <1>4, <1>5
<1>7. u.path = <<i - 1>> /\ u.edit = Replacing(n) BY <1>1 DEF Below
<1>8. Here(Replacing(n)) = <<here>> BY DEF Here, AllHere
<1>9. Under(i, <<here>>) = <<u>> BY DEF Under, Below
<1>10. Resolves(T, u.path) BY <1>3, <1>4
<1> HIDE DEF here, u, T
<1>11. Valid(T, u) BY <1>7, <1>10 DEF Valid, Replacing
<1>12. ~Whole(u) BY <1>7 DEF Whole
<1>13. Lost(T, u) \cap stay = {}
  <2>1. T.kids = list BY DEF T, Of
  <2>2. u.edit.op = "replace" BY <1>7 DEF Replacing
  <2>3. \A j \in 1..Len(list) : u.path \in {<<>>, <<j - 1>>} => j = i BY <1>7
  <2> QED BY <2>1, <2>2, <2>3 DEF Lost
<1>14. <<u>> \in Seq(Patches) /\ Len(<<u>>) = 1 /\ <<u>>[1] = u BY <1>3
<1>15. els[0] = T /\ els[1] = N OBVIOUS
<1> HIDE DEF els, N
<1>16. Taken(els, T, <<u>>, N, stay)
  <2>1. \A k \in 1..Len(<<u>>) : k = 1 /\ k - 1 = 0 BY <1>14
  <2> QED BY <1>6, <1>11, <1>12, <1>13, <1>14, <1>15, <2>1 DEF Taken
<1>17. Leads(T, <<u>>, N, stay) BY <1>14, <1>16 DEF Leads
<1> QED BY <1>8, <1>9, <1>17 DEF T, N

\* Batches one after the other.
LEMMA FlattenLeads ==
    ASSUME NEW q \in Seq(Seq(Patches)), NEW s, NEW stay,
           \A i \in 1..Len(q) : Leads(s[i - 1], q[i], s[i], stay)
    PROVE  Leads(s[0], FlattenSeq(q), s[Len(q)], stay)
<1> DEFINE c == Len(q)
           Steps(f, m) == f = [i \in 1..m |-> IF i = 1 THEN q[i] ELSE f[i - 1] \o q[i]]
           short == {m \in 1..c : ~ \E f : Steps(f, m)}
<1>1. c \in Nat OBVIOUS
<1>2. short = {}
  <2> SUFFICES ASSUME short # {} PROVE FALSE OBVIOUS
  <2>0. short \in SUBSET Nat
    <3> HIDE DEF Steps
    <3> QED BY <1>1
  <2>1. PICK m \in short : \A j \in short : m <= j
    <3> HIDE DEF short
    <3> QED BY <2>0, LeastExists
  <2>2. m \in 1..c /\ ~ \E f : Steps(f, m) BY <2>1
  <2>3. m # 1
    <3>1. Steps([i \in 1..1 |-> q[1]], 1) OBVIOUS
    <3> QED BY <3>1, <2>2
  <2>4. PICK f : Steps(f, m - 1)
    <3>1. m - 1 \in 1..c /\ ~(m <= m - 1) BY <2>2, <2>3
    <3>2. m - 1 \notin short BY <2>1, <3>1, Zenon
    <3> QED BY <3>1, <3>2
  <2> DEFINE g == [i \in 1..m |-> IF i = m THEN f[m - 1] \o q[m] ELSE f[i]]
  <2>5. \A i \in 1..m : g[i] = IF i = 1 THEN q[i] ELSE g[i - 1] \o q[i]
    <3> SUFFICES ASSUME NEW i \in 1..m PROVE g[i] = IF i = 1 THEN q[i] ELSE g[i - 1] \o q[i] OBVIOUS
    <3>1. CASE i = m
      <4>1. m - 1 \in 1..m /\ m - 1 # m /\ m \in 1..m BY <2>2, <2>3
      <4>2. g[m] = f[m - 1] \o q[m] /\ g[m - 1] = f[m - 1] BY <4>1
      <4> HIDE DEF g
      <4> QED BY <3>1, <4>2, <2>3
    <3>2. CASE i # m
      <4>1. i \in 1..(m - 1) BY <3>2, <2>2
      <4>2. g[i] = f[i] BY <3>2
      <4>3. f[i] = IF i = 1 THEN q[i] ELSE f[i - 1] \o q[i] BY <2>4, <4>1
      <4>4. i # 1 => i - 1 \in 1..m /\ i - 1 # m BY <2>2
      <4>5. i # 1 => g[i - 1] = f[i - 1] BY <4>4
      <4> HIDE DEF g
      <4> QED BY <4>2, <4>3, <4>5
    <3> QED BY <3>1, <3>2
  <2>6. Steps(g, m)
    <3>1. g = [i \in 1..m |-> g[i]] OBVIOUS
    <3> HIDE DEF g
    <3> QED BY <2>5, <3>1
  <2> QED BY <2>2, <2>6
<1>3. CASE c = 0
  <2>1. FlattenSeq(q) = <<>> BY <1>3 DEF FlattenSeq
  <2> QED BY <1>3, <2>1, LeadsNowhere
<1>4. CASE c # 0
  <2>1. c \in 1..c
    <3> HIDE DEF c
    <3> QED BY <1>1, <1>4
  <2>2. \E f : Steps(f, c)
    <3> HIDE DEF c, Steps
    <3> QED BY <1>2, <2>1
  <2> DEFINE flatten == CHOOSE f : Steps(f, c)
  <2>3. Steps(flatten, c) BY <2>2
  <2>4. FlattenSeq(q) = flatten[c] BY <1>4 DEF FlattenSeq
  <2> HIDE DEF flatten
  <2> DEFINE bad == {m \in 1..c : ~Leads(s[0], flatten[m], s[m], stay)}
  <2>5. bad = {}
    <3> SUFFICES ASSUME bad # {} PROVE FALSE OBVIOUS
    <3>1. PICK m \in bad : \A j \in bad : m <= j BY LeastExists, bad \in SUBSET Nat
    <3>2. m \in 1..c /\ Leads(s[m - 1], q[m], s[m], stay) /\ ~Leads(s[0], flatten[m], s[m], stay) BY <3>1
    <3>3. flatten[m] = IF m = 1 THEN q[m] ELSE flatten[m - 1] \o q[m] BY <2>3, <3>2
    <3>4. CASE m = 1
      <4>1. 1 - 1 = 0 OBVIOUS
      <4>2. Leads(s[0], q[1], s[1], stay) BY <3>2, <3>4, <4>1
      <4>3. flatten[1] = q[1] BY <3>3, <3>4
      <4> QED BY <3>2, <3>4, <4>2, <4>3
    <3>5. CASE m # 1
      <4>1. m - 1 \in 1..c /\ ~(m <= m - 1) BY <3>2, <3>5
      <4>2. m - 1 \notin bad BY <3>1, <4>1, Zenon
      <4>3. Leads(s[0], flatten[m - 1], s[m - 1], stay) BY <4>1, <4>2
      <4>4. Leads(s[0], flatten[m - 1] \o q[m], s[m], stay) BY <3>2, <4>3, LeadsOn
      <4> QED BY <3>2, <3>3, <3>5, <4>4
    <3> QED BY <3>4, <3>5
  <2>6. c \notin bad BY <2>5
  <2> QED BY <2>1, <2>4, <2>6
<1> QED BY <1>3, <1>4

-----------------------------------------------------------------------------
(* Keyed children.                                                         *)

LEMMA AtIs ==
    ASSUME NEW list \in Seq(Nodes), FullyKeyed(list)
    PROVE  /\ \A k \in KeysOf(list) : At(list, k) \in 1..Len(list) /\ list[At(list, k)].key = k
           /\ \A i \in 1..Len(list) : list[i].key \in KeysOf(list) /\ At(list, list[i].key) = i
<1> DEFINE m == Len(list)
           key == [i \in 1..m |-> list[i].key]
<1>1. m \in Nat /\ IsFiniteSet(1..m) /\ Cardinality(1..m) = m
  <2>1. m \in Nat OBVIOUS
  <2>2. (IF 1 > m THEN 0 ELSE m - 1 + 1) = m BY <2>1
  <2> HIDE DEF m
  <2> QED BY <2>1, <2>2, FS_Interval
<1>2. \A i \in 1..m : list[i].key \in KeysOf(list) BY DEF KeysOf
<1>3. key \in Surjection(1..m, KeysOf(list))
  <2>1. key \in [1..m -> KeysOf(list)] BY <1>2
  <2>2. \A k \in KeysOf(list) : \E i \in 1..m : key[i] = k BY DEF KeysOf
  <2> HIDE DEF key
  <2> QED BY <2>1, <2>2 DEF Surjection
<1>4. Cardinality(KeysOf(list)) = Cardinality(1..m) BY <1>1 DEF FullyKeyed
<1> HIDE DEF key, m
<1>5. key \in Injection(1..m, KeysOf(list)) BY <1>1, <1>3, <1>4, FS_Surjection
<1>6. \A i, j \in 1..m : list[i].key = list[j].key => i = j
  <2>1. \A i \in 1..m : key[i] = list[i].key BY DEF key
  <2> QED BY <1>5, <2>1 DEF Injection, IsInjective
<1>7. \A k \in KeysOf(list) : At(list, k) \in 1..m /\ list[At(list, k)].key = k
  BY DEF At, KeysOf, m
<1> QED BY <1>2, <1>6, <1>7 DEF m

\* What the survivors and the newcomers are before the matched are patched.
Moved(old, new) ==
    [i \in 1..Len(new) |-> IF i \in Shared(new, old) THEN old[At(old, new[i].key)] ELSE new[i]]

LEMMA MatchedIs ==
    ASSUME NEW old \in Seq(Nodes), NEW new \in Seq(Nodes), FullyKeyed(old), FullyKeyed(new)
    PROVE  /\ \A i \in Shared(old, new) :
                 /\ i \in 1..Len(old) /\ At(new, old[i].key) \in Shared(new, old)
                 /\ new[At(new, old[i].key)].key = old[i].key
                 /\ At(old, new[At(new, old[i].key)].key) = i
           /\ Cardinality(Shared(old, new)) <= Cardinality(Shared(new, old))
<1> DEFINE G == Shared(old, new)
           H == Shared(new, old)
           f == [i \in G |-> At(new, old[i].key)]
<1>1. /\ \A k \in KeysOf(old) : At(old, k) \in 1..Len(old) /\ old[At(old, k)].key = k
      /\ \A i \in 1..Len(old) : old[i].key \in KeysOf(old) /\ At(old, old[i].key) = i
  BY AtIs
<1>2. \A k \in KeysOf(new) : At(new, k) \in 1..Len(new) /\ new[At(new, k)].key = k
  BY AtIs
<1>3. ASSUME NEW i \in G
      PROVE  /\ i \in 1..Len(old) /\ At(new, old[i].key) \in H
             /\ new[At(new, old[i].key)].key = old[i].key /\ At(old, new[At(new, old[i].key)].key) = i
  BY <1>1, <1>2 DEF Shared
<1>4. H \in SUBSET (1..Len(new)) BY DEF Shared
<1>5. IsFiniteSet(H)
  <2>1. Len(new) \in Nat OBVIOUS
  <2> HIDE DEF H
  <2> QED BY <1>4, <2>1, PlacesOf DEF Places
<1>6. f \in Injection(G, H)
  <2>1. f \in [G -> H] BY <1>3
  <2>2. \A i, j \in G : f[i] = f[j] => i = j
    <3> SUFFICES ASSUME NEW i \in G, NEW j \in G, f[i] = f[j] PROVE i = j OBVIOUS
    <3>1. f[i] = At(new, old[i].key) /\ f[j] = At(new, old[j].key) OBVIOUS
    <3> HIDE DEF f
    <3> QED BY <1>3, <3>1
  <2> HIDE DEF f, G, H
  <2> QED BY <2>1, <2>2 DEF Injection, IsInjective
<1> HIDE DEF f, G, H
<1>7. Cardinality(G) <= Cardinality(H) BY <1>5, <1>6, FS_Injection
<1> QED BY <1>3, <1>7 DEF G, H

\* The order names each survivor once, and gives what each is matched with.
LEMMA OrderIs ==
    ASSUME NEW old \in Seq(Nodes), NEW new \in Seq(Nodes), FullyKeyed(old), FullyKeyed(new)
    PROVE  LET was == Picked(old, Shared(old, new)) IN
           /\ was \in Seq(Nodes) /\ Order(old, new) \in Seq(Nat)
           /\ Len(Order(old, new)) = Len(was) /\ Range(Order(old, new)) = 0..(Len(was) - 1)
           /\ [n \in 1..Len(was) |-> was[Order(old, new)[n] + 1]] = Picked(Moved(old, new), Shared(new, old))
<1> DEFINE G == Shared(old, new)
           H == Shared(new, old)
           was == Picked(old, G)
           now == Picked(new, H)
           order == Order(old, new)
           c == Cardinality(G)
<1>1. G \in SUBSET (1..Len(old)) /\ H \in SUBSET (1..Len(new)) BY DEF Shared
<1>2. /\ G \in Places /\ c \in Nat /\ was \in Seq(Nodes) /\ Len(was) = c
      /\ \A n \in 1..c : Nth(G, n) \in G /\ was[n] = old[Nth(G, n)]
  <2> HIDE DEF G
  <2> QED BY <1>1, PickedIs
<1>3. Cardinality(H) = c
  <2>1. c <= Cardinality(H) /\ Cardinality(H) <= c BY MatchedIs
  <2>2. Cardinality(H) \in Nat
    <3> HIDE DEF H
    <3> QED BY <1>1, PickedIs
  <2> QED BY <1>2, <2>1, <2>2
<1>4. /\ H \in Places /\ Len(now) = c
      /\ \A n \in 1..c : Nth(H, n) \in H /\ now[n] = new[Nth(H, n)]
  <2> HIDE DEF H
  <2> QED BY <1>1, <1>3, PickedIs
<1>5. /\ \A i \in G : /\ i \in 1..Len(old) /\ At(new, old[i].key) \in H
                      /\ new[At(new, old[i].key)].key = old[i].key
                      /\ At(old, new[At(new, old[i].key)].key) = i
      /\ \A i \in H : /\ i \in 1..Len(new) /\ At(old, new[i].key) \in G
                      /\ old[At(old, new[i].key)].key = new[i].key
                      /\ At(new, old[At(old, new[i].key)].key) = i
  BY MatchedIs
<1>6. order = [n \in 1..c |-> At(was, now[n].key) - 1] BY <1>4 DEF Order
<1> HIDE DEF G, H, was, now, order
<1>7. /\ \A i \in G : Cardinality(Lower(G, i)) + 1 \in 1..c /\ Nth(G, Cardinality(Lower(G, i)) + 1) = i
      /\ \A i \in H : Cardinality(Lower(H, i)) + 1 \in 1..c /\ Nth(H, Cardinality(Lower(H, i)) + 1) = i
  <2>1. \A i \in G : Cardinality(Lower(G, i)) \in 0..(c - 1) BY <1>2, LowerIs
  <2>2. \A i \in H : Cardinality(Lower(H, i)) \in 0..(c - 1) BY <1>3, <1>4, LowerIs
  <2>3. \A i \in G : Nth(G, Cardinality(Lower(G, i)) + 1) = i BY <1>2, NthIs
  <2>4. \A i \in H : Nth(H, Cardinality(Lower(H, i)) + 1) = i BY <1>4, NthIs
  <2> QED BY <1>2, <2>1, <2>2, <2>3, <2>4
<1>8. \A m, n \in 1..c : was[m].key = was[n].key => m = n
  <2> SUFFICES ASSUME NEW m \in 1..c, NEW n \in 1..c, was[m].key = was[n].key PROVE m = n OBVIOUS
  <2>1. Nth(G, m) = Nth(G, n) BY <1>2, <1>5
  <2>2. /\ Cardinality(Lower(G, Nth(G, m))) = m - 1
        /\ Cardinality(Lower(G, Nth(G, n))) = n - 1
    BY <1>2, NthIs
  <2> QED BY <1>2, <2>1, <2>2
<1>9. \A r \in 1..c : At(was, was[r].key) = r
  <2>1. \A r \in 1..c : At(was, was[r].key) \in 1..c /\ was[At(was, was[r].key)].key = was[r].key
    BY <1>2 DEF At
  <2> QED BY <1>8, <2>1
\* The n-th of the survivors as they will stand is the one with its key.
<1>10. ASSUME NEW n \in 1..c
       PROVE  order[n] \in 0..(c - 1) /\ was[order[n] + 1] = old[At(old, new[Nth(H, n)].key)]
  <2> DEFINE j == At(old, new[Nth(H, n)].key)
             r == Cardinality(Lower(G, j)) + 1
  <2>1. j \in G /\ old[j].key = now[n].key BY <1>4, <1>5
  <2> HIDE DEF j
  <2>2. r \in 1..c /\ was[r] = old[j] BY <1>2, <1>7, <2>1
  <2> HIDE DEF r
  <2>3. At(was, now[n].key) = r BY <1>9, <2>1, <2>2
  <2>4. order[n] = r - 1 BY <1>6, <2>3
  <2>5. r - 1 \in 0..(c - 1) /\ r - 1 + 1 = r BY <1>2, <2>2
  <2> QED BY <2>2, <2>4, <2>5 DEF j
<1>11. ASSUME NEW r \in 1..c PROVE \E n \in 1..c : order[n] = r - 1
  <2> DEFINE i == Nth(G, r)
             j == At(new, old[i].key)
             n == Cardinality(Lower(H, j)) + 1
  <2>1. i \in G /\ was[r] = old[i] BY <1>2
  <2>2. j \in H /\ new[j].key = old[i].key BY <1>5, <2>1
  <2> HIDE DEF i, j
  <2>3. n \in 1..c /\ now[n] = new[j] BY <1>4, <1>7, <2>2
  <2> HIDE DEF n
  <2>4. order[n] = r - 1 BY <1>6, <1>9, <2>1, <2>2, <2>3
  <2> QED BY <2>3, <2>4
<1>12. order \in Seq(Nat) /\ Len(order) = c
  <2>1. \A n \in 1..c : order[n] \in Nat BY <1>2, <1>10
  <2>2. order \in [1..c -> Nat] BY <1>6, <2>1
  <2>3. c \in Nat BY <1>2
  <2> HIDE DEF c
  <2> QED BY <2>2, <2>3
<1>13. Range(order) = 0..(c - 1)
  <2>1. Range(order) = {order[n] : n \in 1..c} BY <1>6 DEF Range
  <2>2. \A k \in 0..(c - 1) : \E n \in 1..c : order[n] = k
    <3> SUFFICES ASSUME NEW k \in 0..(c - 1) PROVE \E n \in 1..c : order[n] = k OBVIOUS
    <3>1. k + 1 \in 1..c /\ k + 1 - 1 = k BY <1>2
    <3> DEFINE r == k + 1
    <3>2. r \in 1..c BY <3>1
    <3> HIDE DEF r, c
    <3>3. \E n \in 1..c : order[n] = r - 1 BY <1>11, <3>2
    <3> QED BY <3>1, <3>3 DEF r
  <2> QED BY <1>10, <2>1, <2>2
<1>14. [n \in 1..c |-> was[order[n] + 1]] = Picked(Moved(old, new), H)
  <2>1. \A n \in 1..c : Moved(old, new)[Nth(H, n)] = old[At(old, new[Nth(H, n)].key)]
    BY <1>1, <1>4 DEF Moved, H
  <2>2. Picked(Moved(old, new), H) = [n \in 1..c |-> Moved(old, new)[Nth(H, n)]] BY <1>3 DEF Picked
  <2> QED BY <1>10, <2>1, <2>2
<1> QED BY <1>2, <1>12, <1>13, <1>14 DEF was, order, G, H

LEMMA RealignLeads ==
    ASSUME NEW b, NEW old \in Seq(Nodes), NEW new \in Seq(Nodes), FullyKeyed(old), FullyKeyed(new), NEW stay
    PROVE  Leads(Of(b, Picked(old, Shared(old, new))), Realign(old, new),
                 Of(b, Picked(Moved(old, new), Shared(new, old))), stay)
<1> DEFINE was == Picked(old, Shared(old, new))
           order == Order(old, new)
           there == [n \in 1..Len(was) |-> was[order[n] + 1]]
<1>1. /\ was \in Seq(Nodes) /\ order \in Seq(Nat)
      /\ Len(order) = Len(was) /\ Range(order) = 0..(Len(was) - 1)
      /\ there = Picked(Moved(old, new), Shared(new, old))
  BY OrderIs
<1> HIDE DEF was, order
<1>2. CASE \A i \in 1..Len(order) : order[i] = i - 1
  <2>1. Realign(old, new) = <<>> BY <1>2 DEF Realign, order
  <2>2. \A n \in 1..Len(was) : order[n] + 1 = n BY <1>1, <1>2
  <2>3. there = [n \in 1..Len(was) |-> was[n]] BY <2>2
  <2>4. there = was BY <1>1, <2>3, AsFunction
  <2> HIDE DEF there
  <2>5. Leads(Of(b, was), <<>>, Of(b, was), stay) BY LeadsNowhere
  <2> QED BY <1>1, <2>1, <2>4, <2>5 DEF was
<1>3. CASE ~ \A i \in 1..Len(order) : order[i] = i - 1
  <2>1. Realign(old, new) = Here(Reordered(order)) BY <1>3 DEF Realign, order
  <2>2. Leads(Of(b, was), Here(Reordered(order)), Of(b, there), stay) BY <1>1, ReorderLeads
  <2> HIDE DEF there
  <2> QED BY <1>1, <2>1, <2>2 DEF was
<1> QED BY <1>2, <1>3

\* What d has for two nodes makes the one the other: it replaces it where their
\* type or key differ, and leads from it otherwise.
Matches(d, a, n) ==
    IF a.type # n.type \/ a.key # n.key THEN d[<<a, n>>] = Here(Replacing(n))
    ELSE \E stay : Leads(a, d[<<a, n>>], n, stay)

LEMMA MatchLeads ==
    ASSUME NEW b, NEW list \in Seq(Nodes), NEW i \in 1..Len(list), NEW n \in Nodes, NEW d, NEW stay,
           Matches(d, list[i], n),
           list[i].type # n.type \/ list[i].key # n.key => list[i].key \notin stay
    PROVE  Leads(Of(b, list), Under(i, d[<<list[i], n>>]), Of(b, [list EXCEPT ![i] = n]), stay)
<1> DEFINE a == list[i]
           batch == d[<<a, n>>]
<1>1. CASE a.type # n.type \/ a.key # n.key
  <2>1. batch = Here(Replacing(n)) BY <1>1 DEF Matches
  <2> HIDE DEF batch
  <2>2. Leads(Of(b, list), Under(i, batch), Of(b, [list EXCEPT ![i] = n]), stay)
    BY <1>1, <2>1, LiftReplace
  <2> QED BY <2>2 DEF batch
<1>2. CASE ~(a.type # n.type \/ a.key # n.key)
  <2>1. PICK old : Leads(a, batch, n, old) BY <1>2 DEF Matches
  <2> HIDE DEF batch
  <2>2. Leads(Of(b, list), Under(i, batch), Of(b, [list EXCEPT ![i] = n]), stay)
    BY <2>1, LiftLeads
  <2> QED BY <2>2 DEF batch
<1> QED BY <1>1, <1>2

\* The i-th batch of q is the one for the i-th child of two lists, or there is none
\* where these are the same; a key in stay is matched with a child of its type.
Blocks(q, c, d, from, to, stay) ==
    /\ q = [i \in 1..c |-> q[i]]
    /\ \A i \in 1..c :
          \/ q[i] = <<>> /\ from[i] = to[i]
          \/ /\ q[i] = Under(i, d[<<from[i], to[i]>>]) /\ Matches(d, from[i], to[i])
             /\ from[i].type # to[i].type \/ from[i].key # to[i].key => from[i].key \notin stay

\* One child after the other becomes what it is matched with.
LEMMA MatchedLead ==
    ASSUME NEW b, NEW from \in Seq(Nodes), NEW to \in Seq(Nodes), NEW c \in Nat, c <= Len(from), c <= Len(to),
           NEW q, NEW d, NEW stay,
           Blocks(q, c, d, from, to, stay)
    PROVE  Leads(Of(b, from), FlattenSeq(q), Of(b, [l \in 1..Len(from) |-> IF l <= c THEN to[l] ELSE from[l]]), stay)
<1> DEFINE lists == [i \in 0..c |-> [l \in 1..Len(from) |-> IF l <= i THEN to[l] ELSE from[l]]]
           s == [i \in 0..c |-> Of(b, lists[i])]
<1>1. Len(from) \in Nat /\ Len(to) \in Nat OBVIOUS
<1>2. /\ \A l \in 1..Len(from) : from[l] \in Nodes
      /\ \A l \in 1..Len(to) : to[l] \in Nodes
  BY AsFunction
<1>3. ASSUME NEW i \in 0..c
      PROVE  /\ lists[i] = [l \in 1..Len(from) |-> IF l <= i THEN to[l] ELSE from[l]]
             /\ lists[i] \in Seq(Nodes) /\ Len(lists[i]) = Len(from)
  <2>1. lists[i] = [l \in 1..Len(from) |-> IF l <= i THEN to[l] ELSE from[l]] OBVIOUS
  <2> HIDE DEF lists
  <2>2. \A l \in 1..Len(from) : (IF l <= i THEN to[l] ELSE from[l]) \in Nodes
    <3> SUFFICES ASSUME NEW l \in 1..Len(from) PROVE (IF l <= i THEN to[l] ELSE from[l]) \in Nodes OBVIOUS
    <3>1. l <= i => l \in 1..Len(to) BY <1>1
    <3> QED BY <1>2, <3>1
  <2>3. lists[i] \in [1..Len(from) -> Nodes] BY <2>1, <2>2
  <2> QED BY <1>1, <2>1, <2>3
<1>4. ASSUME NEW i \in 1..c PROVE Leads(s[i - 1], q[i], s[i], stay)
  <2> DEFINE L == lists[i - 1]
             M == lists[i]
  <2>1. i - 1 \in 0..c /\ i \in 0..c /\ i \in 1..Len(from) /\ i \in 1..Len(to) /\ ~(i <= i - 1) /\ i <= i
    BY <1>1
  <2>2. s[i - 1] = Of(b, L) /\ s[i] = Of(b, M) BY <2>1
  <2>3. /\ L = [l \in 1..Len(from) |-> IF l <= i - 1 THEN to[l] ELSE from[l]]
        /\ L \in Seq(Nodes) /\ Len(L) = Len(from)
    BY <1>3, <2>1
  <2>4. M = [l \in 1..Len(from) |-> IF l <= i THEN to[l] ELSE from[l]]
    BY <1>3, <2>1
  <2> HIDE DEF s, L, M
  <2>5. L[i] = from[i] BY <2>1, <2>3
  <2>6. [L EXCEPT ![i] = to[i]] = M
    <3>1. \A l \in 1..Len(from) : l <= i <=> (l <= i - 1 \/ l = i) BY <2>1
    <3>2. [L EXCEPT ![i] = to[i]] = [l \in 1..Len(from) |-> IF l = i THEN to[i] ELSE L[l]]
      BY <2>3
    <3>3. \A l \in 1..Len(from) :
             (IF l = i THEN to[i] ELSE L[l]) = IF l <= i THEN to[l] ELSE from[l]
      BY <2>1, <2>3, <3>1
    <3> QED BY <2>4, <3>2, <3>3
  <2>7. CASE q[i] = <<>> /\ from[i] = to[i]
    <3>1. [L EXCEPT ![i] = L[i]] = L BY <2>3
    <3>2. L = M BY <2>5, <2>6, <2>7, <3>1
    <3> QED BY <2>2, <2>7, <3>2, LeadsNowhere
  <2>8. CASE /\ q[i] = Under(i, d[<<from[i], to[i]>>]) /\ Matches(d, from[i], to[i])
             /\ from[i].type # to[i].type \/ from[i].key # to[i].key => from[i].key \notin stay
    <3> DEFINE n == to[i]
    <3>1. n \in Nodes /\ i \in 1..Len(L) BY <1>2, <2>1, <2>3
    <3>2. Matches(d, L[i], n) /\ (L[i].type # n.type \/ L[i].key # n.key => L[i].key \notin stay)
      BY <2>5, <2>8
    <3>3. [L EXCEPT ![i] = n] = M BY <2>6
    <3> HIDE DEF n
    <3>4. Leads(Of(b, L), Under(i, d[<<L[i], n>>]), Of(b, [L EXCEPT ![i] = n]), stay)
      BY <2>3, <3>1, <3>2, MatchLeads
    <3>5. q[i] = Under(i, d[<<L[i], n>>]) BY <2>5, <2>8 DEF n
    <3> QED BY <2>2, <3>3, <3>4, <3>5
  <2> QED BY <2>7, <2>8 DEF Blocks
<1>5. q \in Seq(Seq(Patches)) /\ Len(q) = c
  <2>1. \A i \in 1..c : q[i] \in Seq(Patches) BY <1>4 DEF Leads
  <2>2. q \in [1..c -> Seq(Patches)] BY <2>1 DEF Blocks
  <2> QED BY <2>2
<1>6. s[0] = Of(b, from)
  <2>1. 0 \in 0..c OBVIOUS
  <2>2. lists[0] = [l \in 1..Len(from) |-> IF l <= 0 THEN to[l] ELSE from[l]] BY <1>3, <2>1
  <2>3. lists[0] = [l \in 1..Len(from) |-> from[l]]
    <3>1. \A l \in 1..Len(from) : ~(l <= 0) OBVIOUS
    <3> QED BY <2>2, <3>1
  <2>4. from = [l \in 1..Len(from) |-> from[l]] BY AsFunction
  <2> QED BY <2>1, <2>3, <2>4
<1>7. s[c] = Of(b, [l \in 1..Len(from) |-> IF l <= c THEN to[l] ELSE from[l]])
  <2>1. c \in 0..c OBVIOUS
  <2> QED BY <2>1
<1> HIDE DEF s
<1>8. Leads(s[0], FlattenSeq(q), s[Len(q)], stay) BY <1>4, <1>5, FlattenLeads
<1> QED BY <1>5, <1>6, <1>7, <1>8

LEMMA KeyedLeads ==
    ASSUME NEW b, NEW old \in Seq(Nodes), NEW new \in Seq(Nodes), FullyKeyed(old), FullyKeyed(new), NEW d,
           \A i \in 1..Len(old), j \in 1..Len(new) : Matches(d, old[i], new[j])
    PROVE  Leads(Of(b, old), DiffKeyed(d, old, new), Of(b, new), Staying(old, new))
<1> DEFINE G == Shared(old, new)
           H == Shared(new, old)
           moved == Moved(old, new)
           stay == Staying(old, new)
           q == [i \in 1..Len(new) |-> IF i \in H THEN Under(i, d[<<old[At(old, new[i].key)], new[i]>>]) ELSE <<>>]
<1>1. Len(old) \in Nat /\ Len(new) \in Nat OBVIOUS
<1>2. /\ Alone(old, new) \in SUBSET (1..Len(old)) /\ 1..Len(old) \ Alone(old, new) = G
      /\ Alone(new, old) \in SUBSET (1..Len(new)) /\ 1..Len(new) \ Alone(new, old) = H
  BY DEF Alone, Shared
<1>3. \A i \in Alone(old, new) : old[i].key \notin stay BY DEF Alone, Shared, Staying
<1>4. Leads(Of(b, old), Removes(Alone(old, new)), Of(b, Picked(old, G)), stay)
  <2> HIDE DEF stay, G
  <2>1. Leads(Of(b, old), Removes(Alone(old, new)),
              Of(b, Picked(old, 1..Len(old) \ Alone(old, new))), stay)
    BY <1>2, <1>3, RemovesLead
  <2> QED BY <1>2, <2>1
<1>5. Leads(Of(b, Picked(old, G)), Realign(old, new), Of(b, Picked(moved, H)), stay)
  <2> HIDE DEF stay
  <2> QED BY RealignLeads
<1>6. \A i \in H : At(old, new[i].key) \in 1..Len(old) /\ old[At(old, new[i].key)].key = new[i].key
  <2>1. \A k \in KeysOf(old) : At(old, k) \in 1..Len(old) /\ old[At(old, k)].key = k BY AtIs
  <2> QED BY <2>1 DEF Shared
<1>7. moved \in Seq(Nodes) /\ Len(moved) = Len(new)
      /\ \A i \in 1..Len(new) : moved[i] = IF i \in H THEN old[At(old, new[i].key)] ELSE new[i]
  <2>1. \A i \in 1..Len(new) : moved[i] = IF i \in H THEN old[At(old, new[i].key)] ELSE new[i]
    BY DEF Moved
  <2>2. /\ \A i \in 1..Len(old) : old[i] \in Nodes
        /\ \A i \in 1..Len(new) : new[i] \in Nodes
    BY AsFunction
  <2> HIDE DEF H
  <2>3. \A i \in 1..Len(new) : moved[i] \in Nodes BY <1>6, <2>1, <2>2
  <2>4. moved = [i \in 1..Len(new) |-> moved[i]] BY DEF Moved
  <2> HIDE DEF moved
  <2>5. moved \in [1..Len(new) -> Nodes] BY <2>3, <2>4
  <2> QED BY <1>1, <2>1, <2>5
<1>8. Leads(Of(b, Picked(moved, H)), Inserts(new, Alone(new, old)), Of(b, moved), stay)
  <2>1. \A i \in Alone(new, old) : new[i] = moved[i] BY <1>2, <1>7
  <2>2. Alone(new, old) \in SUBSET (1..Len(moved)) /\ 1..Len(moved) \ Alone(new, old) = H BY <1>2, <1>7
  <2> HIDE DEF moved, H, stay
  <2>3. Leads(Of(b, Picked(moved, 1..Len(moved) \ Alone(new, old))), Inserts(new, Alone(new, old)),
              Of(b, moved), stay)
    BY <1>7, <2>1, <2>2, InsertsLead
  <2> QED BY <2>2, <2>3
<1>9. Leads(Of(b, moved), FlattenSeq(q), Of(b, new), stay)
  <2> DEFINE c == Len(new)
  <2>1. Blocks(q, c, d, moved, new, stay)
    <3>1. ASSUME NEW i \in 1..c
          PROVE  \/ q[i] = <<>> /\ moved[i] = new[i]
                 \/ /\ q[i] = Under(i, d[<<moved[i], new[i]>>]) /\ Matches(d, moved[i], new[i])
                    /\ moved[i].type # new[i].type \/ moved[i].key # new[i].key => moved[i].key \notin stay
      <4>1. CASE i \notin H BY <1>7, <4>1
      <4>2. CASE i \in H
        <5> DEFINE j == At(old, new[i].key)
        <5>1. moved[i] = old[j] /\ j \in 1..Len(old) /\ old[j].key = new[i].key BY <1>6, <1>7, <4>2
        <5>2. q[i] = Under(i, d[<<old[j], new[i]>>]) BY <4>2
        <5>3. Matches(d, old[j], new[i]) BY <5>1
        <5>4. At(new, new[i].key) = i BY AtIs
        <5>5. old[j].type # new[i].type => old[j].key \notin stay
          <6>1. At(old, old[j].key) = j BY <5>1
          <6> QED BY <5>1, <5>4, <6>1 DEF Staying
        <5> HIDE DEF j, q, moved, stay, H
        <5> QED BY <5>1, <5>2, <5>3, <5>5
      <4> QED BY <4>1, <4>2
    <3>2. q = [i \in 1..c |-> q[i]] OBVIOUS
    <3> HIDE DEF q, c, moved, stay
    <3> QED BY <3>1, <3>2 DEF Blocks
  <2>2. c \in Nat /\ c <= Len(moved) /\ c <= Len(new) BY <1>1, <1>7
  <2> DEFINE end == [l \in 1..Len(moved) |-> IF l <= c THEN new[l] ELSE moved[l]]
  <2>3. end = new
    <3>1. end = [l \in 1..c |-> new[l]]
      <4>1. Len(moved) = c BY <1>7
      <4>2. \A l \in 1..c : l <= c BY <2>2
      <4> HIDE DEF c, moved
      <4> QED BY <4>1, <4>2
    <3> HIDE DEF end
    <3> QED BY <3>1, AsFunction
  <2> HIDE DEF q, moved, stay, c
  <2>4. Leads(Of(b, moved), FlattenSeq(q), Of(b, end), stay) BY <1>7, <2>1, <2>2, MatchedLead
  <2> QED BY <2>3, <2>4
<1>10. DiffKeyed(d, old, new) = Removes(Alone(old, new)) \o Realign(old, new) \o Inserts(new, Alone(new, old))
                                \o FlattenSeq(q)
  BY DEF DiffKeyed
<1> HIDE DEF q, moved, stay, G, H
<1>11. Leads(Of(b, old), Removes(Alone(old, new)) \o Realign(old, new), Of(b, Picked(moved, H)), stay)
  BY <1>4, <1>5, LeadsOn
<1>12. Leads(Of(b, old), Removes(Alone(old, new)) \o Realign(old, new) \o Inserts(new, Alone(new, old)),
             Of(b, moved), stay)
  BY <1>8, <1>11, LeadsOn
<1>13. Leads(Of(b, old), Removes(Alone(old, new)) \o Realign(old, new) \o Inserts(new, Alone(new, old))
                         \o FlattenSeq(q), Of(b, new), stay)
  BY <1>9, <1>12, LeadsOn
<1> QED BY <1>10, <1>13 DEF stay

\* Two lists that agree up to a place, where it is the first places that are taken.
LEMMA PickedFirst ==
    ASSUME NEW s \in Seq(Nodes), NEW t \in Seq(Nodes), NEW c \in Nat, c <= Len(s), c <= Len(t),
           \A l \in 1..c : s[l] = t[l]
    PROVE  Picked(s, 1..Len(s) \ (c + 1)..Len(s)) = Picked(t, 1..Len(t) \ (c + 1)..Len(t))
<1>1. Len(s) \in Nat /\ Len(t) \in Nat OBVIOUS
<1>2. 1..Len(s) \ (c + 1)..Len(s) = 1..c /\ 1..Len(t) \ (c + 1)..Len(t) = 1..c BY <1>1
<1>3. Cardinality(1..c) = c
  <2>1. (IF 1 > c THEN 0 ELSE c - 1 + 1) = c OBVIOUS
  <2> QED BY <2>1, FS_Interval
<1>4. 1..c \in Places BY PlacesOf
<1>5. \A n \in 1..c : Nth(1..c, n) \in 1..c BY <1>3, <1>4, NthIs
<1>6. \A n \in 1..c : s[Nth(1..c, n)] = t[Nth(1..c, n)] BY <1>5
<1>7. Picked(s, 1..c) = Picked(t, 1..c) BY <1>3, <1>6 DEF Picked
<1> QED BY <1>2, <1>7

LEMMA PositionalLeads ==
    ASSUME NEW b, NEW old \in Seq(Nodes), NEW new \in Seq(Nodes), NEW d,
           \A i \in 1..Len(old), j \in 1..Len(new) : Matches(d, old[i], new[j])
    PROVE  Leads(Of(b, old), DiffPositional(d, old, new), Of(b, new), {})
<1> DEFINE common == IF Len(old) < Len(new) THEN Len(old) ELSE Len(new)
           q == [i \in 1..common |-> Under(i, d[<<old[i], new[i]>>])]
           mid == [l \in 1..Len(old) |-> IF l <= common THEN new[l] ELSE old[l]]
           gone == (common + 1)..Len(old)
           come == (common + 1)..Len(new)
<1>1. Len(old) \in Nat /\ Len(new) \in Nat OBVIOUS
<1>2. common \in Nat /\ common <= Len(old) /\ common <= Len(new) BY <1>1
<1>3. DiffPositional(d, old, new) = FlattenSeq(q) \o Removes(gone) \o Inserts(new, come)
  BY DEF DiffPositional
<1>4. Leads(Of(b, old), FlattenSeq(q), Of(b, mid), {})
  <2>1. Blocks(q, common, d, old, new, {})
    <3> HIDE DEF common
    <3>1. \A i \in 1..common : i \in 1..Len(old) /\ i \in 1..Len(new) BY <1>1, <1>2
    <3>2. \A i \in 1..common : q[i] = Under(i, d[<<old[i], new[i]>>]) /\ Matches(d, old[i], new[i]) BY <3>1
    <3>3. q = [i \in 1..common |-> q[i]] OBVIOUS
    <3> HIDE DEF q
    <3> QED BY <3>2, <3>3 DEF Blocks
  <2> HIDE DEF q, common
  <2> QED BY <1>2, <2>1, MatchedLead
<1> HIDE DEF common, q
<1>5. /\ mid \in Seq(Nodes) /\ Len(mid) = Len(old)
      /\ \A l \in 1..common : mid[l] = new[l]
  <2>1. ASSUME NEW l \in 1..Len(old) PROVE mid[l] \in Nodes /\ (l <= common => mid[l] = new[l])
    <3>1. mid[l] = IF l <= common THEN new[l] ELSE old[l] OBVIOUS
    <3>2. old[l] \in Nodes BY AsFunction
    <3>3. l <= common => new[l] \in Nodes
      <4>1. l <= common => l \in 1..Len(new) BY <1>1, <1>2
      <4> QED BY <4>1, AsFunction
    <3> QED BY <3>1, <3>2, <3>3
  <2>2. mid = [l \in 1..Len(old) |-> mid[l]] OBVIOUS
  <2> HIDE DEF mid
  <2>3. mid \in [1..Len(old) -> Nodes] BY <2>1, <2>2
  <2>4. mid \in Seq(Nodes) /\ Len(mid) = Len(old) BY <1>1, <2>3
  <2>5. \A l \in 1..common : l \in 1..Len(old) /\ l <= common BY <1>1, <1>2
  <2> QED BY <2>1, <2>4, <2>5
<1> HIDE DEF mid
<1>6. Leads(Of(b, mid), Removes(gone), Of(b, Picked(mid, 1..Len(mid) \ gone)), {})
  <2>1. gone \in SUBSET (1..Len(mid)) BY <1>1, <1>2, <1>5
  <2> HIDE DEF gone
  <2> QED BY <1>5, <2>1, RemovesLead
<1>7. Leads(Of(b, Picked(new, 1..Len(new) \ come)), Inserts(new, come), Of(b, new), {})
  <2>1. come \in SUBSET (1..Len(new)) BY <1>1, <1>2
  <2> HIDE DEF come
  <2> QED BY <2>1, InsertsLead
<1>8. Picked(mid, 1..Len(mid) \ gone) = Picked(new, 1..Len(new) \ come)
  BY <1>2, <1>5, PickedFirst
<1> HIDE DEF gone, come
<1>9. Leads(Of(b, old), FlattenSeq(q) \o Removes(gone), Of(b, Picked(mid, 1..Len(mid) \ gone)), {})
  BY <1>4, <1>6, LeadsOn
<1>10. Leads(Of(b, old), FlattenSeq(q) \o Removes(gone) \o Inserts(new, come), Of(b, new), {})
  BY <1>7, <1>8, <1>9, LeadsOn
<1> QED BY <1>3, <1>10

LEMMA ChildrenLead ==
    ASSUME NEW b, NEW old \in Seq(Nodes), NEW new \in Seq(Nodes), NEW d,
           \A i \in 1..Len(old), j \in 1..Len(new) : Matches(d, old[i], new[j])
    PROVE  Leads(Of(b, old), DiffChildren(d, old, new), Of(b, new), Staying(old, new))
<1>1. CASE old # <<>> /\ new # <<>> /\ FullyKeyed(old) /\ FullyKeyed(new)
  BY <1>1, KeyedLeads DEF DiffChildren
<1>2. CASE ~(old # <<>> /\ new # <<>> /\ FullyKeyed(old) /\ FullyKeyed(new))
  <2>1. DiffChildren(d, old, new) = DiffPositional(d, old, new) BY <1>2 DEF DiffChildren
  <2>2. Staying(old, new) = {}
    <3>1. old = <<>> => KeysOf(old) = {} BY DEF KeysOf
    <3>2. new = <<>> => KeysOf(new) = {} BY DEF KeysOf
    <3> QED BY <1>2, <3>1, <3>2 DEF Staying
  <2> QED BY <2>1, <2>2, PositionalLeads
<1> QED BY <1>1, <1>2

-----------------------------------------------------------------------------
(* The batches of all pairs of nodes.                                      *)

LEMMA NodeIs ==
    ASSUME NEW n \in Nodes
    PROVE  /\ n = Of(n, n.kids) /\ n.kids \in Seq(Nodes) /\ Len(n.kids) \in Nat /\ Height[n] \in Nat
           /\ \A i \in 1..Len(n.kids) : n.kids[i] \in Nodes /\ Height[n.kids[i]] < Height[n]
                                        /\ Height[n.kids[i]] \in Nat
<1>1. /\ n = [type |-> n.type, key |-> n.key, props |-> n.props, kids |-> n.kids]
      /\ n.kids \in Seq(Nodes) /\ Height[n] \in Nat
      /\ \A i \in 1..Len(n.kids) : Height[n.kids[i]] < Height[n]
  BY NodesAssumption
<1>2. \A i \in 1..Len(n.kids) : n.kids[i] \in Nodes BY <1>1, AsFunction
<1>3. \A i \in 1..Len(n.kids) : Height[n.kids[i]] \in Nat BY <1>2, NodesAssumption
<1>4. Len(n.kids) \in Nat BY <1>1
<1> QED BY <1>1, <1>2, <1>3, <1>4 DEF Of

\* The batches of two nodes' children are the same in d as in e.
Agree(d, e, a, b) ==
    \A i \in 1..Len(a.kids), j \in 1..Len(b.kids) : d[<<a.kids[i], b.kids[j]>>] = e[<<a.kids[i], b.kids[j]>>]

LEMMA ReconciledAgrees ==
    ASSUME NEW a \in Nodes, NEW b \in Nodes, NEW d, NEW e, Agree(d, e, a, b)
    PROVE  Reconciled(d, a, b) = Reconciled(e, a, b)
<1> DEFINE old == a.kids
           new == b.kids
<1>1. Len(old) \in Nat /\ Len(new) \in Nat BY NodeIs
<1>2. \A i \in 1..Len(old), j \in 1..Len(new) : d[<<old[i], new[j]>>] = e[<<old[i], new[j]>>] BY DEF Agree
<1> HIDE DEF old, new
<1>3. DiffKeyed(d, old, new) = DiffKeyed(e, old, new)
  <2>1. ASSUME NEW i \in 1..Len(new), i \in Shared(new, old)
        PROVE  d[<<old[At(old, new[i].key)], new[i]>>] = e[<<old[At(old, new[i].key)], new[i]>>]
    <3>1. At(old, new[i].key) \in 1..Len(old) BY <2>1 DEF Shared, KeysOf, At
    <3> QED BY <1>2, <3>1
  <2>2. [i \in 1..Len(new) |->
           IF i \in Shared(new, old) THEN Under(i, d[<<old[At(old, new[i].key)], new[i]>>]) ELSE <<>>]
        = [i \in 1..Len(new) |->
           IF i \in Shared(new, old) THEN Under(i, e[<<old[At(old, new[i].key)], new[i]>>]) ELSE <<>>]
    BY <2>1
  <2> QED BY <2>2 DEF DiffKeyed
<1>4. DiffPositional(d, old, new) = DiffPositional(e, old, new)
  <2> DEFINE common == IF Len(old) < Len(new) THEN Len(old) ELSE Len(new)
  <2>1. \A i \in 1..common : i \in 1..Len(old) /\ i \in 1..Len(new) BY <1>1
  <2> HIDE DEF common
  <2>2. \A i \in 1..common : d[<<old[i], new[i]>>] = e[<<old[i], new[i]>>] BY <1>2, <2>1
  <2>3. [i \in 1..common |-> Under(i, d[<<old[i], new[i]>>])] = [i \in 1..common |-> Under(i, e[<<old[i], new[i]>>])]
    BY <2>2
  <2> QED BY <2>3 DEF DiffPositional, common
<1>5. DiffChildren(d, old, new) = DiffChildren(e, old, new) BY <1>3, <1>4 DEF DiffChildren
<1> QED BY <1>5 DEF Reconciled, old, new

\* d holds the batches up to a height of the second node.
Holds(d, k) == \A a, b \in Nodes : Height[b] < k => d[<<a, b>>] = Reconciled(d, a, b)

LEMMA HoldsOnce ==
    ASSUME NEW d, NEW e, NEW k \in Nat, NEW m \in Nat, Holds(d, k), Holds(e, m),
           NEW a \in Nodes, NEW b \in Nodes, Height[b] < k, Height[b] < m
    PROVE  d[<<a, b>>] = e[<<a, b>>]
<1> DEFINE apart == {h \in Nat : h < k /\ h < m /\ \E x, y \in Nodes : Height[y] = h /\ d[<<x, y>>] # e[<<x, y>>]}
<1>1. apart = {}
  <2> SUFFICES ASSUME apart # {} PROVE FALSE OBVIOUS
  <2>1. PICK h \in apart : \A j \in apart : h <= j
    <3>1. apart \in SUBSET Nat OBVIOUS
    <3> HIDE DEF apart
    <3> QED BY <3>1, LeastExists
  <2>2. h \in Nat /\ h < k /\ h < m BY <2>1
  <2>3. PICK x \in Nodes, y \in Nodes : Height[y] = h /\ d[<<x, y>>] # e[<<x, y>>] BY <2>1
  <2>4. d[<<x, y>>] = Reconciled(d, x, y) /\ e[<<x, y>>] = Reconciled(e, x, y)
    BY <2>2, <2>3 DEF Holds
  <2>5. ASSUME NEW i \in 1..Len(x.kids), NEW j \in 1..Len(y.kids)
        PROVE  d[<<x.kids[i], y.kids[j]>>] = e[<<x.kids[i], y.kids[j]>>]
    <3> DEFINE v == x.kids[i]
               w == y.kids[j]
    <3>1. v \in Nodes /\ w \in Nodes /\ Height[w] \in Nat /\ Height[w] < h BY <2>3, NodeIs
    <3> HIDE DEF v, w
    <3>2. Height[w] \notin apart
      <4> HIDE DEF apart
      <4> QED BY <2>1, <2>2, <3>1
    <3>3. Height[w] < k /\ Height[w] < m BY <2>2, <3>1
    <3>4. d[<<v, w>>] = e[<<v, w>>] BY <3>1, <3>2, <3>3
    <3> QED BY <3>4 DEF v, w
  <2>6. Reconciled(d, x, y) = Reconciled(e, x, y)
    <3>1. Agree(d, e, x, y) BY <2>5 DEF Agree
    <3> QED BY <3>1, ReconciledAgrees
  <2> QED BY <2>3, <2>4, <2>6
<1>2. Height[b] \in Nat BY NodeIs
<1> QED BY <1>1, <1>2

LEMMA HoldsSome ==
    ASSUME NEW k \in Nat
    PROVE  \E d : Holds(d, k)
<1> DEFINE none == {j \in Nat : ~ \E d : Holds(d, j)}
<1>1. none = {}
  <2> SUFFICES ASSUME none # {} PROVE FALSE OBVIOUS
  <2>1. PICK m \in none : \A j \in none : m <= j
    <3>1. none \in SUBSET Nat OBVIOUS
    <3> HIDE DEF none
    <3> QED BY <3>1, LeastExists
  <2>2. m \in Nat /\ ~ \E d : Holds(d, m) BY <2>1
  <2>3. \A n \in Nodes : Height[n] \in Nat BY NodeIs
  <2>4. m # 0
    <3>1. \A n \in Nodes : ~(Height[n] < 0) BY <2>3
    <3>2. \A d : Holds(d, 0) BY <3>1 DEF Holds
    <3> QED BY <2>2, <3>2
  <2>5. PICK d : Holds(d, m - 1)
    <3>1. m - 1 \in Nat /\ ~(m <= m - 1) BY <2>2, <2>4
    <3>2. m - 1 \notin none
      <4> HIDE DEF none
      <4> QED BY <2>1, <3>1
    <3> QED BY <3>1, <3>2
  <2> DEFINE e == [p \in Nodes \X Nodes |-> IF Height[p[2]] < m - 1 THEN d[p] ELSE Reconciled(d, p[1], p[2])]
  <2>6. \A a, b \in Nodes : e[<<a, b>>] = IF Height[b] < m - 1 THEN d[<<a, b>>] ELSE Reconciled(d, a, b) OBVIOUS
  <2> HIDE DEF e
  <2>7. ASSUME NEW a \in Nodes, NEW b \in Nodes, Height[b] < m PROVE e[<<a, b>>] = Reconciled(e, a, b)
    <3>1. e[<<a, b>>] = Reconciled(d, a, b) BY <2>5, <2>6 DEF Holds
    <3>2. ASSUME NEW i \in 1..Len(a.kids), NEW j \in 1..Len(b.kids)
          PROVE  d[<<a.kids[i], b.kids[j]>>] = e[<<a.kids[i], b.kids[j]>>]
      <4>1. /\ a.kids[i] \in Nodes /\ b.kids[j] \in Nodes
            /\ Height[b.kids[j]] \in Nat /\ Height[b.kids[j]] < Height[b]
        BY NodeIs
      <4>2. Height[b.kids[j]] < m - 1 BY <2>2, <2>3, <2>7, <4>1
      <4> QED BY <2>6, <4>1, <4>2
    <3>3. Reconciled(d, a, b) = Reconciled(e, a, b)
      <4>1. Agree(d, e, a, b) BY <3>2 DEF Agree
      <4> QED BY <4>1, ReconciledAgrees
    <3> QED BY <3>1, <3>3
  <2>8. Holds(e, m) BY <2>7 DEF Holds
  <2> QED BY <2>2, <2>8
<1> QED BY <1>1

LEMMA DiffUnfolds ==
    Diff = [p \in Nodes \X Nodes |-> Reconciled(Diff, p[1], p[2])]
<1> DEFINE upTo == [k \in Nat |-> CHOOSE d : Holds(d, k)]
           all == [p \in Nodes \X Nodes |-> upTo[Height[p[2]] + 1][p]]
<1>1. \A k \in Nat : Holds(upTo[k], k)
  <2> SUFFICES ASSUME NEW k \in Nat PROVE Holds(upTo[k], k) OBVIOUS
  <2>1. \E d : Holds(d, k) BY HoldsSome
  <2>2. Holds(CHOOSE d : Holds(d, k), k) BY <2>1
  <2> QED BY <2>2
<1> HIDE DEF upTo
<1>2. \A a, b \in Nodes : all[<<a, b>>] = upTo[Height[b] + 1][<<a, b>>] OBVIOUS
<1>3. ASSUME NEW a \in Nodes, NEW b \in Nodes PROVE all[<<a, b>>] = Reconciled(all, a, b)
  <2> HIDE DEF all
  <2> DEFINE k == Height[b] + 1
             d == upTo[k]
  <2>1. Height[b] \in Nat /\ k \in Nat /\ Height[b] < k BY NodeIs
  <2>2. d[<<a, b>>] = Reconciled(d, a, b) BY <1>1, <2>1 DEF Holds
  <2>3. ASSUME NEW i \in 1..Len(a.kids), NEW j \in 1..Len(b.kids)
        PROVE  d[<<a.kids[i], b.kids[j]>>] = all[<<a.kids[i], b.kids[j]>>]
    <3> DEFINE x == a.kids[i]
               y == b.kids[j]
               m == Height[y] + 1
    <3>1. x \in Nodes /\ y \in Nodes /\ Height[y] \in Nat /\ Height[y] < Height[b] BY NodeIs
    <3> HIDE DEF x, y
    <3>2. m \in Nat /\ Height[y] < m /\ Height[y] < k BY <2>1, <3>1
    <3>3. all[<<x, y>>] = upTo[m][<<x, y>>] BY <1>2, <3>1
    <3>4. Holds(d, k) /\ Holds(upTo[m], m) BY <1>1, <2>1, <3>2
    <3> HIDE DEF m, d, k
    <3>5. d[<<x, y>>] = upTo[m][<<x, y>>] BY <2>1, <3>1, <3>2, <3>4, HoldsOnce
    <3> QED BY <3>3, <3>5 DEF x, y
  <2> HIDE DEF d
  <2>4. Reconciled(d, a, b) = Reconciled(all, a, b)
    <3>1. Agree(d, all, a, b) BY <2>3 DEF Agree
    <3> QED BY <3>1, ReconciledAgrees
  <2> QED BY <1>2, <2>2, <2>4 DEF d, k
<1>4. all = [p \in Nodes \X Nodes |-> Reconciled(all, p[1], p[2])]
  <2>1. all = [p \in Nodes \X Nodes |-> all[p]] OBVIOUS
  <2> HIDE DEF all
  <2>2. \A p \in Nodes \X Nodes : all[p] = Reconciled(all, p[1], p[2])
    <3> SUFFICES ASSUME NEW p \in Nodes \X Nodes PROVE all[p] = Reconciled(all, p[1], p[2]) OBVIOUS
    <3>1. p[1] \in Nodes /\ p[2] \in Nodes /\ p = <<p[1], p[2]>> OBVIOUS
    <3> QED BY <1>3, <3>1
  <2> QED BY <2>1, <2>2
<1> HIDE DEF all
<1>5. \E d : d = [p \in Nodes \X Nodes |-> Reconciled(d, p[1], p[2])] BY <1>4
<1> QED BY <1>5 DEF Diff

LEMMA DiffIs ==
    ASSUME NEW a \in Nodes, NEW b \in Nodes
    PROVE  Diff[<<a, b>>] = Reconciled(Diff, a, b)
<1>1. <<a, b>> \in Nodes \X Nodes /\ <<a, b>>[1] = a /\ <<a, b>>[2] = b OBVIOUS
<1> QED BY <1>1, DiffUnfolds

-----------------------------------------------------------------------------
(* Any two trees.                                                          *)

LEMMA NodeLeads ==
    ASSUME NEW a \in Nodes, NEW b \in Nodes, a.type = b.type, a.key = b.key,
           \A i \in 1..Len(a.kids), j \in 1..Len(b.kids) : Matches(Diff, a.kids[i], b.kids[j])
    PROVE  Leads(a, Diff[<<a, b>>], b, Staying(a.kids, b.kids))
<1> DEFINE first == IF a.props # b.props THEN Here(SetProps(b.props)) ELSE <<>>
           rest == DiffChildren(Diff, a.kids, b.kids)
           mid == Of(b, a.kids)
           stay == Staying(a.kids, b.kids)
<1>1. /\ a = Of(a, a.kids) /\ a.kids \in Seq(Nodes) /\ Len(a.kids) \in Nat
      /\ b = Of(b, b.kids) /\ b.kids \in Seq(Nodes)
  BY NodeIs
<1>2. Diff[<<a, b>>] = first \o rest
  <2>1. Diff[<<a, b>>] = Reconciled(Diff, a, b) BY DiffIs
  <2> QED BY <2>1 DEF Reconciled
<1>3. Leads(a, first, mid, stay)
  <2>1. CASE a.props = b.props
    <3>1. first = <<>> /\ a = mid BY <1>1, <2>1 DEF Of
    <3> HIDE DEF first, mid, stay
    <3> QED BY <3>1, LeadsNowhere
  <2>2. CASE a.props # b.props
    <3> DEFINE edit == SetProps(b.props)
               els == [n \in 0..1 |-> IF n = 0 THEN a ELSE mid]
    <3>1. edit \in Edits /\ edit.op = "update" /\ edit.props = b.props BY DEF Edits, SetProps
    <3>2. [a EXCEPT !.props = b.props] = mid
      <4>1. a = [type |-> a.type, key |-> a.key, props |-> a.props, kids |-> a.kids] BY <1>1 DEF Of
      <4>2. [a EXCEPT !.props = b.props] = [type |-> a.type, key |-> a.key, props |-> b.props, kids |-> a.kids]
        BY <4>1
      <4> QED BY <4>2 DEF Of
    <3>3. mid.kids = a.kids BY DEF Of
    <3> HIDE DEF mid, edit, stay
    <3>4. Changed(a, edit) = mid BY <3>1, <3>2 DEF Changed
    <3>5. Fits(a, edit, stay) BY <3>1 DEF Fits
    <3>6. Len(<<edit>>) = 1 /\ <<edit>> \in Seq(Edits) /\ <<edit>>[1] = edit BY <3>1
    <3>7. els[0] = a /\ els[1] = mid OBVIOUS
    <3>8. \A n \in 0..1 : Len(els[n].kids) \in Nat BY <1>1, <3>3
    <3> HIDE DEF els
    <3>9. \A n \in 1..1 : Fits(els[n - 1], <<edit>>[n], stay) /\ Changed(els[n - 1], <<edit>>[n]) = els[n]
      BY <3>4, <3>5, <3>6, <3>7
    <3>10. Leads(els[0], AllHere(<<edit>>), els[1], stay) BY <3>6, <3>8, <3>9, HereLeads
    <3> QED BY <2>2, <3>7, <3>10 DEF Here, edit
  <2> QED BY <2>1, <2>2
<1>4. Leads(mid, rest, b, stay)
  <2>1. Leads(Of(b, a.kids), DiffChildren(Diff, a.kids, b.kids), Of(b, b.kids), Staying(a.kids, b.kids))
    BY <1>1, ChildrenLead
  <2> QED BY <1>1, <2>1
<1> HIDE DEF first, rest, mid, stay
<1>5. Leads(a, first \o rest, b, stay) BY <1>3, <1>4, LeadsOn
<1> QED BY <1>2, <1>5 DEF stay

LEMMA NodesMatch ==
    ASSUME NEW a \in Nodes, NEW b \in Nodes
    PROVE  Matches(Diff, a, b)
<1> DEFINE failing == {h \in Nat : \E x, y \in Nodes : Height[y] = h /\ ~Matches(Diff, x, y)}
<1>1. failing = {}
  <2> SUFFICES ASSUME failing # {} PROVE FALSE OBVIOUS
  <2>1. PICK h \in failing : \A j \in failing : h <= j
    <3>1. failing \in SUBSET Nat OBVIOUS
    <3> HIDE DEF failing
    <3> QED BY <3>1, LeastExists
  <2>2. h \in Nat BY <2>1
  <2>3. PICK x \in Nodes, y \in Nodes : Height[y] = h /\ ~Matches(Diff, x, y) BY <2>1
  <2>4. ASSUME NEW i \in 1..Len(x.kids), NEW j \in 1..Len(y.kids)
        PROVE  Matches(Diff, x.kids[i], y.kids[j])
    <3>1. /\ x.kids[i] \in Nodes /\ y.kids[j] \in Nodes
          /\ Height[y.kids[j]] \in Nat /\ Height[y.kids[j]] < h
      BY <2>3, NodeIs
    <3>2. Height[y.kids[j]] \notin failing
      <4> HIDE DEF failing
      <4> QED BY <2>1, <2>2, <3>1
    <3> QED BY <3>1, <3>2
  <2>5. CASE x.type = y.type /\ x.key = y.key
    <3>1. Leads(x, Diff[<<x, y>>], y, Staying(x.kids, y.kids)) BY <2>4, <2>5, NodeLeads
    <3> QED BY <2>3, <2>5, <3>1 DEF Matches
  <2>6. CASE ~(x.type = y.type /\ x.key = y.key)
    <3>1. Diff[<<x, y>>] = Reconciled(Diff, x, y) BY DiffIs
    <3>2. Diff[<<x, y>>] = Here(Replacing(y)) BY <2>6, <3>1 DEF Reconciled
    <3> QED BY <2>3, <2>6, <3>2 DEF Matches
  <2> QED BY <2>5, <2>6
<1>2. Height[b] \in Nat BY NodeIs
<1> QED BY <1>1, <1>2

\* From one tree to any other of the same root: by valid indices, and no keyed child
\* that stays is taken away or built again.
THEOREM DiffLeads ==
    ASSUME NEW a \in Nodes, NEW b \in Nodes, a.type = b.type, a.key = b.key
    PROVE  Leads(a, Diff[<<a, b>>], b, Staying(a.kids, b.kids))
<1>1. \A i \in 1..Len(a.kids), j \in 1..Len(b.kids) : a.kids[i] \in Nodes /\ b.kids[j] \in Nodes BY NodeIs
<1>2. \A i \in 1..Len(a.kids), j \in 1..Len(b.kids) : Matches(Diff, a.kids[i], b.kids[j])
  BY <1>1, NodesMatch
<1> QED BY <1>2, NodeLeads

\* Until the first rebuild the page is the tree; from then on, what is left of the
\* batch leads from the page to the tree, and spares the children that stay.
TreeInv ==
    /\ earlier \in Seq(Nodes)
    /\ \E kids \in Befores \cup Afters : scene = Root(kids)
    /\ earlier = <<>> => patches = <<>> /\ dom = scene
    /\ earlier # <<>> => Leads(dom, patches, scene, Staying(Last(earlier).kids, scene.kids))

LEMMA TreeStarts == TreeInit => TreeInv
BY DEF TreeInit, TreeInv

LEMMA TreeSteps == TreeInv /\ [TreeNext]_treeVars => TreeInv'
<1> SUFFICES ASSUME TreeInv, [TreeNext]_treeVars PROVE TreeInv' OBVIOUS
<1>1. CASE Rerender
  <2>1. patches = <<>> BY <1>1 DEF Rerender
  <2>2. dom = scene BY <2>1, LeadsAway DEF TreeInv
  <2>3. PICK kept \in Befores \cup Afters : scene = Root(kept) BY DEF TreeInv
  <2>4. PICK kids \in Afters : patches' = Diff[<<scene, Root(kids)>>] /\ scene' = Root(kids)
    BY <1>1 DEF Rerender
  <2>5. earlier' = Append(earlier, scene) /\ dom' = dom BY <1>1 DEF Rerender
  <2> DEFINE n == Root(kids)
  <2>6. scene \in Nodes /\ n \in Nodes BY <2>3, NodesAssumption
  <2>7. scene.type = n.type /\ scene.key = n.key BY <2>3 DEF Root
  <2> HIDE DEF n
  <2>8. Leads(scene, Diff[<<scene, n>>], n, Staying(scene.kids, n.kids)) BY <2>6, <2>7, DiffLeads
  <2>9. Leads(dom', patches', scene', Staying(scene.kids, scene'.kids))
    BY <2>2, <2>4, <2>5, <2>8 DEF n
  <2>10. earlier \in Seq(Nodes) BY DEF TreeInv
  <2>11. earlier' \in Seq(Nodes) /\ Len(earlier') = Len(earlier) + 1 /\ earlier'[Len(earlier) + 1] = scene
    BY <2>5, <2>6, <2>10
  <2>12. earlier' # <<>> /\ Last(earlier') = scene BY <2>10, <2>11 DEF Last
  <2>13. Leads(dom', patches', scene', Staying(Last(earlier').kids, scene'.kids)) BY <2>9, <2>12
  <2> QED BY <2>4, <2>11, <2>12, <2>13 DEF TreeInv
<1>2. CASE Apply
  <2>1. patches # <<>> BY <1>2 DEF Apply
  <2>2. earlier # <<>> BY <2>1 DEF TreeInv
  <2> DEFINE kept == Staying(Last(earlier).kids, scene.kids)
  <2>3. Leads(dom, patches, scene, kept) BY <2>2 DEF TreeInv
  <2>4. Valid(dom, Head(patches)) /\ Leads(Patched(dom, Head(patches)), Tail(patches), scene, kept)
    <3> HIDE DEF kept
    <3> QED BY <2>1, <2>3, LeadsAway
  <2>5. Resolves(dom, Head(patches).path) BY <2>4 DEF Valid
  <2>6. dom' = Patched(dom, Head(patches)) /\ patches' = Tail(patches) /\ scene' = scene /\ earlier' = earlier
    BY <1>2, <2>5 DEF Apply
  <2>7. Leads(dom', patches', scene', Staying(Last(earlier').kids, scene'.kids)) BY <2>4, <2>6
  <2> QED BY <2>2, <2>6, <2>7 DEF TreeInv
<1>3. CASE UNCHANGED treeVars BY <1>3 DEF treeVars, TreeInv
<1> QED BY <1>1, <1>2, <1>3 DEF TreeNext

LEMMA TreeFits == TreeInv => PatchesFit
<1> SUFFICES ASSUME TreeInv PROVE PatchesFit OBVIOUS
<1>1. CASE patches = <<>>
  <2>1. dom = scene BY <1>1, LeadsAway DEF TreeInv
  <2> QED BY <1>1, <2>1 DEF PatchesFit, PageIsTheTree, IndicesAreValid, KeyedElementsStay
<1>2. CASE patches # <<>>
  <2> DEFINE kept == Staying(Last(earlier).kids, scene.kids)
  <2>1. Leads(dom, patches, scene, kept) BY <1>2 DEF TreeInv
  <2>2. Valid(dom, Head(patches)) /\ Lost(dom, Head(patches)) \cap kept = {}
    <3> HIDE DEF kept
    <3> QED BY <1>2, <2>1, LeadsAway
  <2> QED BY <1>2, <2>2 DEF PatchesFit, PageIsTheTree, IndicesAreValid, KeyedElementsStay
<1> QED BY <1>1, <1>2

\* Of any trees, rebuilt any number of times: each batch is applied by indices that
\* are valid, leaves the page as the tree, and keeps the elements of the keyed
\* children that stay.
THEOREM PatchesAlwaysFit == TreeSpec => []PatchesFit
<1>1. TreeInit => TreeInv BY TreeStarts
<1>2. TreeInv /\ [TreeNext]_treeVars => TreeInv' BY TreeSteps
<1>3. TreeInv => PatchesFit BY TreeFits
<1> QED BY <1>1, <1>2, <1>3, PTL DEF TreeSpec
=============================================================================
