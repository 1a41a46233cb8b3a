------------------------ MODULE SseSessions_proofs -------------------------
(***************************************************************************)
(* Safety of Server-Sent Events sessions, for any number of pages, streams *)
(* and ticks, any buffer and any capacity: no page is sent a tick twice or *)
(* out of order, and the registry holds the open sessions.  A page that    *)
(* comes back in time keeps its session and mirrors its scene.             *)
(***************************************************************************)
EXTENDS SseSessions, FiniteSetTheorems, SequenceTheorems, WellFoundedInduction, TLAPS

-----------------------------------------------------------------------------
(* The order of ticks, from the buffer to the page.                        *)

Rising(q) == \A j, m \in 1..Len(q) : j < m => q[j].id < q[m].id
AllPast(q, n) == \A j \in 1..Len(q) : q[j].id > n
UpTo(q, n) == \A j \in 1..Len(q) : q[j].id <= n

\* The buffer is the newest ticks, in the order they were numbered.
BufferRises == \A x \in Streams :
    Rising(history[x]) /\ UpTo(history[x], nextId[x]) /\ Len(history[x]) <= ReplayBuffer

\* What a stream has sent is up to its cursor, what it has yet to send of a batch
\* is past it.
CursorSplits == \A k \in Streams :
    /\ Rising(wire[k]) /\ UpTo(wire[k], cursor[k])
    /\ Rising(batch[k]) /\ AllPast(batch[k], cursor[k])

\* A stream sends nothing before it has a body, and then it reads a session.
BodyFirst == \A k \in Streams :
    /\ phase[k] \in {"idle", "authorizing", "opened"} => wire[k] = <<>> /\ batch[k] = <<>>
    /\ phase[k] \in {"opened", "streaming"} => serves[k] \in Streams

\* A page is connected to a stream of its own, which goes on from where it is.
Connected == \A i \in Ids : conn[i] \in Streams =>
    /\ page[conn[i]] = i /\ phase[conn[i]] # "idle"
    /\ lastId[i] <= cursor[conn[i]] /\ AllPast(wire[conn[i]], lastId[i])

-----------------------------------------------------------------------------
(* The registry.                                                           *)

OpenSessions == {x \in Sessions : ~closed[x]}

\* A request that was not admitted has created nothing, and what was not created
\* is not closed.
Unadmitted == \A k \in Streams :
    /\ phase[k] \in {"idle", "authorizing"} => run[k] = "none"
    /\ run[k] = "none" => ~closed[k]

\* A session is registered under the id of its page, as long as it is open.
Registered ==
    /\ \A i \in Ids : rec[i] # None => page[rec[i]] = i /\ rec[i] \in OpenSessions
    /\ \A x \in OpenSessions : rec[page[x]] = x
    /\ live = Cardinality(OpenSessions)

Relations == BufferRises /\ CursorSplits /\ BodyFirst /\ Connected /\ Unadmitted /\ Registered
IInv == TypeOK /\ Relations

-----------------------------------------------------------------------------
(* Sequences of ticks.                                                     *)

LEMMA TickFields ==
    ASSUME NEW q \in Seq(Ticks), NEW j \in 1..Len(q)
    PROVE  q[j] \in Ticks /\ q[j].id \in Nat
<1>1. q[j] \in Ticks OBVIOUS
<1> QED BY <1>1 DEF Ticks

LEMMA LeastExists ==
    ASSUME NEW T \in SUBSET Nat, T # {}
    PROVE  \E m \in T : \A j \in T : m <= j
<1>1. PICK m \in T : \A y \in T : ~(<<y, m>> \in OpToRel(<, Nat))
  BY WFMin, NatLessThanWellFounded, Zenon
<1>2. \A y \in T : ~(y < m) BY <1>1 DEF OpToRel
<1> QED BY <1>2

\* The end of a rising sequence, from the first element past n on.
LEMMA PastIdIs ==
    ASSUME NEW q \in Seq(Ticks), Rising(q), NEW n \in Int
    PROVE  PastId(q, n) \in Seq(Ticks) /\ Rising(PastId(q, n)) /\ AllPast(PastId(q, n), n)
<1> DEFINE past == {j \in 1..Len(q) : q[j].id > n}
           first == CHOOSE j \in past : \A m \in past : j <= m
           s == SubSeq(q, first, Len(q))
<1> Len(q) \in Nat OBVIOUS
<1>1. CASE past = {}
  <2>1. PastId(q, n) = <<>> BY <1>1 DEF PastId
  <2>2. <<>> \in Seq(Ticks) /\ Len(<<>>) = 0 OBVIOUS
  <2> QED BY <2>1, <2>2 DEF Rising, AllPast
<1>2. CASE past # {}
  <2>1. PastId(q, n) = s BY <1>2 DEF PastId
  <2>2. first \in past
    <3>1. past \in SUBSET Nat OBVIOUS
    <3>2. \E j \in past : \A m \in past : j <= m BY <1>2, <3>1, LeastExists, Zenon
    <3> QED BY <3>2, Zenon
  <2> HIDE DEF first
  <2>3. first \in 1..Len(q) /\ q[first].id > n BY <2>2
  <2>4. /\ s \in Seq(Ticks) /\ Len(s) = Len(q) - first + 1
        /\ \A j \in 1..(Len(q) - first + 1) : s[j] = q[first + j - 1]
    <3>1. \A j \in first..Len(q) : q[j] \in Ticks BY <2>3, TickFields
    <3> QED BY <2>3, <3>1, SubSeqProperties
  <2> HIDE DEF s
  <2>5. Rising(s)
    <3> SUFFICES ASSUME NEW j \in 1..Len(s), NEW m \in 1..Len(s), j < m
                 PROVE  s[j].id < s[m].id
      BY DEF Rising
    <3>1. first + j - 1 \in 1..Len(q) /\ first + m - 1 \in 1..Len(q) BY <2>3, <2>4
    <3>2. q[first + j - 1].id < q[first + m - 1].id BY <2>3, <3>1 DEF Rising
    <3> QED BY <2>4, <3>2
  <2>6. AllPast(s, n)
    <3> SUFFICES ASSUME NEW j \in 1..Len(s) PROVE s[j].id > n BY DEF AllPast
    <3>1. first + j - 1 \in 1..Len(q) /\ s[j] = q[first + j - 1] BY <2>3, <2>4
    <3>2. q[first].id <= q[first + j - 1].id
      <4>1. CASE j = 1 BY <4>1, <2>3, TickFields
      <4>2. CASE j # 1 BY <4>2, <2>3, <3>1, TickFields DEF Rising
      <4> QED BY <4>1, <4>2
    <3>3. q[first].id \in Nat /\ q[first + j - 1].id \in Nat BY <2>3, <3>1, TickFields
    <3>4. s[j].id = q[first + j - 1].id BY <3>1
    <3> HIDE DEF past
    <3> QED BY <2>3, <3>2, <3>3, <3>4
  <2> QED BY <2>1, <2>4, <2>5, <2>6
<1> QED BY <1>1, <1>2

\* The first tick is sent: what is left is past it.
LEMMA SendFirst ==
    ASSUME NEW q \in Seq(Ticks), q # <<>>, Rising(q)
    PROVE  /\ Head(q) \in Ticks /\ Head(q).id \in Nat /\ Head(q) = q[1] /\ 1 \in 1..Len(q)
           /\ Tail(q) \in Seq(Ticks) /\ Rising(Tail(q)) /\ AllPast(Tail(q), Head(q).id)
<1>1. /\ Tail(q) \in Seq(Ticks) /\ Len(Tail(q)) = Len(q) - 1 /\ Len(q) \in Nat
      /\ \A j \in 1..Len(Tail(q)) : Tail(q)[j] = q[j + 1]
  BY HeadTailProperties
<1>2. 1 \in 1..Len(q) /\ Head(q) = q[1] BY <1>1
<1>3. Head(q) \in Ticks /\ Head(q).id \in Nat BY <1>2, TickFields
<1>4. Rising(Tail(q))
  <2> SUFFICES ASSUME NEW j \in 1..Len(Tail(q)), NEW m \in 1..Len(Tail(q)), j < m
               PROVE  Tail(q)[j].id < Tail(q)[m].id
    BY DEF Rising
  <2>1. j + 1 \in 1..Len(q) /\ m + 1 \in 1..Len(q) BY <1>1
  <2> QED BY <1>1, <2>1 DEF Rising
<1>5. AllPast(Tail(q), Head(q).id)
  <2> SUFFICES ASSUME NEW j \in 1..Len(Tail(q)) PROVE Tail(q)[j].id > Head(q).id
    BY DEF AllPast
  <2>1. j + 1 \in 1..Len(q) /\ 1 < j + 1 BY <1>1
  <2>2. q[1].id < q[j + 1].id BY <1>2, <2>1 DEF Rising
  <2>3. q[1].id \in Nat /\ q[j + 1].id \in Nat BY <1>2, <2>1, TickFields
  <2> QED BY <1>1, <1>2, <2>2, <2>3
<1> QED BY <1>1, <1>2, <1>3, <1>4, <1>5

\* A tick past all others is put at the end.
LEMMA AppendTick ==
    ASSUME NEW q \in Seq(Ticks), Rising(q), NEW n \in Nat, UpTo(q, n),
           NEW e \in Ticks, e.id > n
    PROVE  /\ Append(q, e) \in Seq(Ticks) /\ Len(Append(q, e)) = Len(q) + 1
           /\ Rising(Append(q, e)) /\ UpTo(Append(q, e), e.id)
           /\ \A k \in Nat : AllPast(q, k) /\ k < e.id => AllPast(Append(q, e), k)
<1>1. /\ Append(q, e) \in Seq(Ticks) /\ Len(Append(q, e)) = Len(q) + 1 /\ Len(q) \in Nat
      /\ \A j \in 1..Len(q) : Append(q, e)[j] = q[j]
      /\ Append(q, e)[Len(q) + 1] = e
  BY AppendProperties
<1> DEFINE s == Append(q, e)
<1> HIDE DEF s
<1>2. e.id \in Nat BY DEF Ticks
<1>3. \A j \in 1..Len(q) : s[j].id <= n /\ s[j].id \in Nat BY <1>1, TickFields DEF UpTo, s
<1>4. s[Len(q) + 1] = e /\ Len(s) = Len(q) + 1 BY <1>1 DEF s
<1>5. Rising(s)
  <2> SUFFICES ASSUME NEW j \in 1..Len(s), NEW m \in 1..Len(s), j < m
               PROVE  s[j].id < s[m].id
    BY DEF Rising
  <2>1. j \in 1..Len(q) BY <1>1, <1>4
  <2>2. CASE m = Len(q) + 1 BY <2>1, <2>2, <1>2, <1>3, <1>4
  <2>3. CASE m # Len(q) + 1
    <3>1. m \in 1..Len(q) BY <2>3, <1>1, <1>4
    <3> QED BY <2>1, <3>1, <1>1 DEF Rising, s
  <2> QED BY <2>2, <2>3
<1>6. UpTo(s, e.id)
  <2> SUFFICES ASSUME NEW j \in 1..Len(s) PROVE s[j].id <= e.id BY DEF UpTo
  <2>1. j \in 1..Len(q) \/ j = Len(q) + 1 BY <1>1, <1>4
  <2> QED BY <2>1, <1>2, <1>3, <1>4
<1>7. ASSUME NEW k \in Nat, AllPast(q, k), k < e.id PROVE AllPast(s, k)
  <2> SUFFICES ASSUME NEW j \in 1..Len(s) PROVE s[j].id > k BY DEF AllPast
  <2>1. j \in 1..Len(q) \/ j = Len(q) + 1 BY <1>1, <1>4
  <2>2. CASE j \in 1..Len(q) BY <2>2, <1>1, <1>7 DEF AllPast, s
  <2>3. CASE j = Len(q) + 1 BY <2>3, <1>2, <1>4, <1>7
  <2> QED BY <2>1, <2>2, <2>3
<1> QED BY <1>1, <1>5, <1>6, <1>7 DEF s

\* _enqueue: the buffer is the newest of a longer rising sequence.
LEMMA EnqueueIs ==
    ASSUME ConstantsAssumption, history \in [Streams -> Seq(Ticks)], nextId \in [Streams -> Nat],
           BufferRises, NEW x \in Streams, NEW root \in BOOLEAN, Enqueue(x, root)
    PROVE  /\ history' \in [Streams -> Seq(Ticks)] /\ nextId' \in [Streams -> Nat]
           /\ BufferRises' /\ \A y \in Streams : nextId[y] <= nextId'[y]
<1> DEFINE e == [id |-> nextId[x] + 1, root |-> root]
           grown == Append(history[x], e)
           kept == IF Len(grown) > ReplayBuffer THEN Newest(grown, ReplayBuffer) ELSE grown
<1>0. ReplayBuffer \in Nat /\ ReplayBuffer > 0 BY DEF ConstantsAssumption
<1>1. e \in Ticks /\ e.id = nextId[x] + 1 /\ nextId[x] \in Nat /\ history[x] \in Seq(Ticks)
  BY DEF Ticks
<1>2. Rising(history[x]) /\ UpTo(history[x], nextId[x]) BY DEF BufferRises
<1>3. /\ grown \in Seq(Ticks) /\ Len(grown) = Len(history[x]) + 1
      /\ Rising(grown) /\ UpTo(grown, nextId[x] + 1)
  <2>1. e.id > nextId[x] BY <1>1
  <2> HIDE DEF e
  <2>2. /\ Append(history[x], e) \in Seq(Ticks) /\ Len(Append(history[x], e)) = Len(history[x]) + 1
        /\ Rising(Append(history[x], e)) /\ UpTo(Append(history[x], e), e.id)
    BY <1>1, <1>2, <2>1, AppendTick
  <2> QED BY <1>1, <2>2
<1>4. history' = [history EXCEPT ![x] = kept] /\ nextId' = [nextId EXCEPT ![x] = @ + 1]
  BY DEF Enqueue
<1> HIDE DEF e, grown
<1>5. /\ kept \in Seq(Ticks) /\ Rising(kept) /\ UpTo(kept, nextId[x] + 1)
      /\ Len(kept) <= ReplayBuffer
  <2>0. Len(grown) \in Nat BY <1>3
  <2>1. CASE ~(Len(grown) > ReplayBuffer) BY <2>0, <2>1, <1>0, <1>3
  <2>2. CASE Len(grown) > ReplayBuffer
    <3> DEFINE d == Len(grown) - ReplayBuffer
               s == SubSeq(grown, d + 1, Len(grown))
    <3>1. kept = s BY <2>2 DEF Newest
    <3>2. d \in Nat /\ Len(grown) - (d + 1) + 1 = ReplayBuffer /\ d + 1 <= Len(grown)
      BY <2>0, <2>2, <1>0
    <3>3. /\ s \in Seq(Ticks) /\ Len(s) = ReplayBuffer
          /\ \A j \in 1..ReplayBuffer : s[j] = grown[d + j]
      <4>1. \A j \in (d + 1)..Len(grown) : grown[j] \in Ticks
        BY <3>2, <1>3, <2>0, TickFields
      <4>2. d + 1 \in Int /\ Len(grown) \in Int BY <3>2, <2>0
      <4>3. /\ s \in Seq(Ticks)
            /\ Len(s) = IF d + 1 <= Len(grown) THEN Len(grown) - (d + 1) + 1 ELSE 0
            /\ \A j \in 1..(Len(grown) - (d + 1) + 1) : s[j] = grown[(d + 1) + j - 1]
        <5> HIDE DEF d
        <5> QED BY <4>1, <4>2, SubSeqProperties
      <4> HIDE DEF s, d
      <4>4. \A j \in 1..ReplayBuffer : (d + 1) + j - 1 = d + j BY <3>2
      <4> QED BY <3>2, <4>3, <4>4
    <3> HIDE DEF s, d
    <3>4. \A j \in 1..ReplayBuffer : d + j \in 1..Len(grown) BY <3>2, <2>0, <1>0
    <3>5. Rising(s)
      <4> SUFFICES ASSUME NEW j \in 1..Len(s), NEW m \in 1..Len(s), j < m
                   PROVE  s[j].id < s[m].id
        BY DEF Rising
      <4>1. d + j \in 1..Len(grown) /\ d + m \in 1..Len(grown) /\ d + j < d + m
        BY <3>2, <3>3, <3>4
      <4>2. grown[d + j].id < grown[d + m].id BY <1>3, <4>1 DEF Rising
      <4> QED BY <3>3, <4>2
    <3>6. UpTo(s, nextId[x] + 1) BY <1>3, <3>3, <3>4 DEF UpTo
    <3> QED BY <1>0, <3>1, <3>3, <3>5, <3>6
  <2> QED BY <2>1, <2>2
<1> HIDE DEF kept
<1>6. BufferRises'
  <2> SUFFICES ASSUME NEW y \in Streams
               PROVE  /\ Rising(history'[y]) /\ UpTo(history'[y], nextId'[y])
                      /\ Len(history'[y]) <= ReplayBuffer
    BY DEF BufferRises
  <2>1. CASE y = x BY <2>1, <1>4, <1>5
  <2>2. CASE y # x BY <2>2, <1>4 DEF BufferRises
  <2> QED BY <2>1, <2>2
<1> QED BY <1>1, <1>4, <1>5, <1>6

-----------------------------------------------------------------------------
(* What each kind of step does to the relations.                           *)

\* A request goes on, never back.
Onwards == \A k \in Streams :
    phase'[k] \in {"idle", "authorizing"} => phase[k] \in {"idle", "authorizing"}

\* Sessions are there that were there, and no other.
SameSessions == \A x \in Streams : run'[x] = "none" <=> run[x] = "none"

LEMMA OpenFinite == IsFiniteSet(OpenSessions) /\ Cardinality(OpenSessions) \in Nat
<1>1. OpenSessions \in SUBSET Streams BY DEF OpenSessions, Sessions
<1>2. IsFiniteSet(Streams)
  <2>1. MaxStreams \in Int BY ConstantsAssumption DEF ConstantsAssumption
  <2> QED BY <2>1, FS_Interval DEF Streams
<1> QED BY <1>1, <1>2, FS_Subset, FS_CardinalityType

LEMMA RegistryStays ==
    ASSUME Unadmitted, Registered, UNCHANGED <<rec, live, page, closed>>, SameSessions, Onwards
    PROVE  (Unadmitted /\ Registered)'
<1>1. OpenSessions' = OpenSessions BY DEF OpenSessions, Sessions, SameSessions
<1>2. Unadmitted' BY DEF Unadmitted, SameSessions, Onwards
<1>3. Registered' BY <1>1 DEF Registered
<1> QED BY <1>2, <1>3

\* _drop_sse closes the one session it forgets.
LEMMA DropRegistry ==
    ASSUME TypeOK, Unadmitted, Registered, NEW i \in Ids, Drop(i), UNCHANGED page,
           SameSessions, Onwards
    PROVE  (Unadmitted /\ Registered)'
<1>1. CASE rec[i] = None
  <2>1. UNCHANGED <<rec, live, closed>> BY <1>1 DEF Drop, endVars
  <2> QED BY <2>1, RegistryStays
<1>2. CASE rec[i] # None
  <2> DEFINE x == rec[i]
  <2>1. x \in OpenSessions /\ page[x] = i BY <1>2 DEF Registered
  <2>2. x \in Streams /\ run[x] # "none" /\ ~closed[x] BY <2>1 DEF OpenSessions, Sessions
  <2>3. /\ rec' = [rec EXCEPT ![i] = None] /\ live' = live - 1
        /\ closed' = [closed EXCEPT ![x] = TRUE]
    BY <1>2 DEF Drop
  <2>4. rec \in [Ids -> Streams \cup {None}] /\ closed \in [Streams -> BOOLEAN] BY DEF TypeOK
  <2>5. OpenSessions' = OpenSessions \ {x}
    BY <2>2, <2>3, <2>4 DEF OpenSessions, Sessions, SameSessions
  <2>6. Unadmitted' BY <2>2, <2>3, <2>4 DEF Unadmitted, SameSessions, Onwards
  <2>7. live' = Cardinality(OpenSessions')
    <3>1. Cardinality(OpenSessions \ {x}) = Cardinality(OpenSessions) - 1
      BY <2>1, OpenFinite, FS_RemoveElement
    <3> QED BY <2>3, <2>5, <3>1 DEF Registered
  <2>8. ASSUME NEW j \in Ids, rec'[j] # None
        PROVE  page'[rec'[j]] = j /\ rec'[j] \in OpenSessions'
    <3>1. j # i /\ rec'[j] = rec[j] BY <2>3, <2>4, <2>8
    <3>2. page[rec[j]] = j /\ rec[j] \in OpenSessions BY <2>8, <3>1 DEF Registered
    <3> QED BY <2>1, <2>5, <3>1, <3>2
  <2>9. ASSUME NEW y \in OpenSessions' PROVE rec'[page'[y]] = y
    <3>1. y \in OpenSessions /\ y # x BY <2>5, <2>9
    <3>2. rec[page[y]] = y BY <3>1 DEF Registered
    <3>3. page[y] # i BY <3>1, <3>2
    <3>4. y \in Streams /\ page[y] \in Ids BY <3>1 DEF OpenSessions, Sessions, TypeOK
    <3> QED BY <2>3, <2>4, <3>2, <3>3, <3>4
  <2> QED BY <2>6, <2>7, <2>8, <2>9 DEF Registered
<1> QED BY <1>1, <1>2

LEMMA ReleaseRegistry ==
    ASSUME TypeOK, Unadmitted, Registered, NEW i \in Ids, NEW t, Release(i, t), UNCHANGED page,
           SameSessions, Onwards
    PROVE  (Unadmitted /\ Registered)'
<1>1. CASE Drop(i) BY <1>1, DropRegistry
<1>2. CASE UNCHANGED <<rec, live, endVars>>
  <2>1. UNCHANGED <<rec, live, closed>> BY <1>2 DEF endVars
  <2> QED BY <2>1, RegistryStays
<1> QED BY <1>1, <1>2 DEF Release

\* _open_sse registers the session it builds, under an id that held none.
LEMMA OpenRegistry ==
    ASSUME TypeOK, Unadmitted, Registered, NEW k \in Streams, OpenNew(k)
    PROVE  (Unadmitted /\ Registered)'
<1> DEFINE i == page[k]
<1>1. /\ phase[k] = "authorizing" /\ rec[i] = None
      /\ rec' = [rec EXCEPT ![i] = k] /\ live' = live + 1
      /\ run' = [run EXCEPT ![k] = "spawned"]
      /\ phase' = [phase EXCEPT ![k] = "opened"] /\ UNCHANGED <<page, closed>>
  BY DEF OpenNew, MayServe, endVars
<1>2. /\ i \in Ids /\ rec \in [Ids -> Streams \cup {None}]
      /\ run \in [Streams -> {"none", "spawned", "receiving", "handling", "done"}]
      /\ phase \in [Streams -> {"idle", "authorizing", "opened", "streaming", "ended"}]
  BY DEF TypeOK
<1>3. run[k] = "none" /\ ~closed[k] BY <1>1 DEF Unadmitted
<1>4. k \notin OpenSessions BY <1>3 DEF OpenSessions, Sessions
<1>5. OpenSessions' = OpenSessions \cup {k}
  BY <1>1, <1>2, <1>3 DEF OpenSessions, Sessions
<1>6. Unadmitted' BY <1>1, <1>2, <1>3 DEF Unadmitted
<1>7. live' = Cardinality(OpenSessions')
  <2>1. Cardinality(OpenSessions \cup {k}) = Cardinality(OpenSessions) + 1
    BY <1>4, OpenFinite, FS_AddElement
  <2> QED BY <1>1, <1>5, <2>1 DEF Registered
<1>8. ASSUME NEW j \in Ids, rec'[j] # None
      PROVE  page'[rec'[j]] = j /\ rec'[j] \in OpenSessions'
  <2>1. CASE j = i BY <2>1, <1>1, <1>2, <1>5
  <2>2. CASE j # i
    <3>1. rec'[j] = rec[j] BY <2>2, <1>1, <1>2
    <3>2. page[rec[j]] = j /\ rec[j] \in OpenSessions BY <1>8, <3>1 DEF Registered
    <3> QED BY <1>1, <1>5, <3>1, <3>2
  <2> QED BY <2>1, <2>2
<1>9. ASSUME NEW y \in OpenSessions' PROVE rec'[page'[y]] = y
  <2>1. CASE y = k BY <2>1, <1>1, <1>2
  <2>2. CASE y # k
    <3>1. y \in OpenSessions BY <2>2, <1>5, <1>9
    <3>2. rec[page[y]] = y /\ y \in Streams /\ page[y] \in Ids
      BY <3>1 DEF Registered, OpenSessions, Sessions, TypeOK
    <3>3. page[y] # i
      <4>1. y # None BY <3>2 DEF Streams, None
      <4> QED BY <1>1, <3>2, <4>1
    <3> QED BY <1>1, <1>2, <3>2, <3>3
  <2> QED BY <2>1, <2>2
<1> QED BY <1>6, <1>7, <1>8, <1>9 DEF Registered

-----------------------------------------------------------------------------
\* A request that got further and sends nothing.
Further == \A k \in Streams :
    \/ phase'[k] = phase[k] \/ phase'[k] = "ended"
    \/ phase[k] = "opened" /\ phase'[k] = "streaming"

\* A page keeps its connection, or has none.
Hangs == \A i \in Ids : conn'[i] = conn[i] \/ conn'[i] \notin Streams

LEMMA StreamsStay ==
    ASSUME TypeOK, CursorSplits, BodyFirst, Connected,
           UNCHANGED <<batch, cursor, serves, page, lastId>>, Further, Hangs,
           \A k \in Streams : wire'[k] = wire[k] \/ wire'[k] = <<>>
    PROVE  (CursorSplits /\ BodyFirst /\ Connected)'
<1>0. Len(<<>>) = 0 OBVIOUS
<1>1. CursorSplits' BY <1>0 DEF CursorSplits, Rising, UpTo
<1>2. BodyFirst' BY DEF BodyFirst, Further
<1>3. Connected'
  <2> SUFFICES ASSUME NEW i \in Ids, conn'[i] \in Streams
               PROVE  /\ page[conn'[i]] = i /\ phase'[conn'[i]] # "idle"
                      /\ lastId[i] <= cursor[conn'[i]] /\ AllPast(wire'[conn'[i]], lastId[i])
    BY DEF Connected
  <2>1. conn'[i] = conn[i] BY DEF Hangs
  <2>2. phase'[conn[i]] # "idle" BY <2>1 DEF Connected, Further
  <2> QED BY <1>0, <2>1, <2>2 DEF Connected, AllPast
<1> QED BY <1>1, <1>2, <1>3

LEMMA ConnectStreams ==
    ASSUME TypeOK, CursorSplits, BodyFirst, Connected, NEW k \in Streams, Connect(k)
    PROVE  (CursorSplits /\ BodyFirst /\ Connected)'
<1> DEFINE i == page[k]
<1>1. /\ phase[k] = "idle" /\ conn' = [conn EXCEPT ![i] = k]
      /\ cursor' = [cursor EXCEPT ![k] = lastId[i]]
      /\ phase' = [phase EXCEPT ![k] = "authorizing"]
      /\ UNCHANGED <<lastId, page, serves, batch, wire>>
  BY DEF Connect, netVars
<1>2. /\ i \in Ids /\ lastId[i] \in Nat /\ DOMAIN conn = Ids /\ DOMAIN cursor = Streams
      /\ DOMAIN phase = Streams
  BY DEF TypeOK
<1>3. wire[k] = <<>> /\ batch[k] = <<>> /\ Len(<<>>) = 0 BY <1>1 DEF BodyFirst
<1>4. CursorSplits' BY <1>1, <1>2, <1>3 DEF CursorSplits, Rising, UpTo, AllPast
<1>5. BodyFirst' BY <1>1, <1>2, <1>3 DEF BodyFirst
<1>6. Connected'
  <2> SUFFICES ASSUME NEW j \in Ids, conn'[j] \in Streams
               PROVE  /\ page[conn'[j]] = j /\ phase'[conn'[j]] # "idle"
                      /\ lastId[j] <= cursor'[conn'[j]] /\ AllPast(wire[conn'[j]], lastId[j])
    BY <1>1 DEF Connected
  <2>1. CASE j = i BY <2>1, <1>1, <1>2, <1>3 DEF AllPast
  <2>2. CASE j # i
    <3>1. conn'[j] = conn[j] BY <2>2, <1>1, <1>2
    <3>2. conn[j] # k BY <1>1, <2>2, <3>1 DEF Connected
    <3> QED BY <1>1, <1>2, <3>1, <3>2 DEF Connected
  <2> QED BY <2>1, <2>2
<1> QED BY <1>4, <1>5, <1>6

\* A request is admitted: it reads a session, and its cursor never goes back.
LEMMA AdmitStreams ==
    ASSUME TypeOK, CursorSplits, BodyFirst, Connected, NEW k \in Streams,
           phase[k] = "authorizing", phase' = [phase EXCEPT ![k] = "opened"],
           NEW x \in Streams, serves' = [serves EXCEPT ![k] = x],
           NEW n \in Nat, cursor[k] <= n, cursor' = [cursor EXCEPT ![k] = n],
           UNCHANGED <<conn, page, lastId, wire, batch>>
    PROVE  (CursorSplits /\ BodyFirst /\ Connected)'
<1>1. /\ cursor \in [Streams -> Nat] /\ DOMAIN phase = Streams /\ DOMAIN serves = Streams
      /\ lastId \in [Ids -> Nat]
  BY DEF TypeOK
<1>2. wire[k] = <<>> /\ batch[k] = <<>> /\ Len(<<>>) = 0 BY DEF BodyFirst
<1>3. CursorSplits' BY <1>1, <1>2 DEF CursorSplits, Rising, UpTo, AllPast
<1>4. BodyFirst' BY <1>1, <1>2 DEF BodyFirst
<1>5. Connected'
  <2> SUFFICES ASSUME NEW i \in Ids, conn[i] \in Streams
               PROVE  /\ page[conn[i]] = i /\ phase'[conn[i]] # "idle"
                      /\ lastId[i] <= cursor'[conn[i]] /\ AllPast(wire[conn[i]], lastId[i])
    BY DEF Connected
  <2>1. CASE conn[i] = k BY <2>1, <1>1 DEF Connected
  <2>2. CASE conn[i] # k BY <2>2, <1>1 DEF Connected
  <2> QED BY <2>1, <2>2
<1> QED BY <1>3, <1>4, <1>5

\* A stream sends the first of what it has past its cursor.
LEMMA SendStreams ==
    ASSUME TypeOK, CursorSplits, BodyFirst, Connected, NEW k \in Streams,
           phase[k] = "streaming",
           NEW q \in Seq(Ticks), q # <<>>, Rising(q), AllPast(q, cursor[k]),
           Send(k, Head(q)), batch' = [batch EXCEPT ![k] = Tail(q)],
           UNCHANGED <<conn, page, lastId, phase, serves>>
    PROVE  /\ (CursorSplits /\ BodyFirst /\ Connected)'
           /\ batch' \in [Streams -> Seq(Ticks)] /\ wire' \in [Streams -> Seq(Ticks)]
           /\ cursor' \in [Streams -> Nat]
<1> DEFINE e == Head(q)
<1>1. /\ e \in Ticks /\ e.id \in Nat /\ e = q[1] /\ 1 \in 1..Len(q)
      /\ Tail(q) \in Seq(Ticks) /\ Rising(Tail(q)) /\ AllPast(Tail(q), e.id)
  BY SendFirst
<1>2. e.id > cursor[k] BY <1>1 DEF AllPast
<1>3. /\ cursor \in [Streams -> Nat] /\ batch \in [Streams -> Seq(Ticks)]
      /\ wire \in [Streams -> Seq(Ticks)] /\ lastId \in [Ids -> Nat]
  BY DEF TypeOK
<1>4. /\ wire' = [wire EXCEPT ![k] = IF peer[k] = "open" THEN Append(@, e) ELSE @]
      /\ cursor' = [cursor EXCEPT ![k] = e.id]
  BY DEF Send
<1> DEFINE w == wire'[k]
<1> HIDE DEF e
<1>5. /\ w \in Seq(Ticks) /\ Rising(w) /\ UpTo(w, e.id)
      /\ \A n \in Nat : AllPast(wire[k], n) /\ n < e.id => AllPast(w, n)
  <2>0. wire[k] \in Seq(Ticks) /\ cursor[k] \in Nat BY <1>3
  <2>1. Rising(wire[k]) /\ UpTo(wire[k], cursor[k]) BY DEF CursorSplits
  <2>2. CASE peer[k] = "open"
    <3>1. w = Append(wire[k], e) BY <2>2, <1>3, <1>4
    <3> QED BY <2>0, <2>1, <3>1, <1>1, <1>2, AppendTick
  <2>3. CASE peer[k] # "open"
    <3>1. w = wire[k] BY <2>3, <1>3, <1>4
    <3>2. UpTo(wire[k], e.id)
      <4> SUFFICES ASSUME NEW j \in 1..Len(wire[k]) PROVE wire[k][j].id <= e.id BY DEF UpTo
      <4>1. wire[k][j].id <= cursor[k] /\ wire[k][j].id \in Nat BY <2>0, <2>1, TickFields DEF UpTo
      <4> QED BY <2>0, <4>1, <1>1, <1>2
    <3> QED BY <2>0, <2>1, <3>1, <3>2
  <2> QED BY <2>2, <2>3
<1>6. wire' = [wire EXCEPT ![k] = w] BY <1>3, <1>4
<1> HIDE DEF w
<1>7. /\ batch' \in [Streams -> Seq(Ticks)] /\ wire' \in [Streams -> Seq(Ticks)]
      /\ cursor' \in [Streams -> Nat]
  BY <1>1, <1>3, <1>4, <1>5, <1>6
<1>8. CursorSplits'
  <2> SUFFICES ASSUME NEW m \in Streams
               PROVE  /\ Rising(wire'[m]) /\ UpTo(wire'[m], cursor'[m])
                      /\ Rising(batch'[m]) /\ AllPast(batch'[m], cursor'[m])
    BY DEF CursorSplits
  <2>1. CASE m = k BY <2>1, <1>1, <1>3, <1>4, <1>5, <1>6
  <2>2. CASE m # k BY <2>2, <1>3, <1>4, <1>6 DEF CursorSplits
  <2> QED BY <2>1, <2>2
<1>9. BodyFirst' BY <1>3, <1>4, <1>6 DEF BodyFirst
<1>10. Connected'
  <2> SUFFICES ASSUME NEW i \in Ids, conn[i] \in Streams
               PROVE  /\ page[conn[i]] = i /\ phase[conn[i]] # "idle"
                      /\ lastId[i] <= cursor'[conn[i]] /\ AllPast(wire'[conn[i]], lastId[i])
    BY DEF Connected
  <2>0. /\ page[conn[i]] = i /\ phase[conn[i]] # "idle"
        /\ lastId[i] <= cursor[conn[i]] /\ AllPast(wire[conn[i]], lastId[i])
    BY DEF Connected
  <2>1. CASE conn[i] = k
    <3>1. lastId[i] \in Nat /\ lastId[i] < e.id BY <2>0, <2>1, <1>1, <1>2, <1>3
    <3>2. AllPast(w, lastId[i]) BY <2>0, <2>1, <3>1, <1>5
    <3>3. wire'[k] = w /\ cursor'[k] = e.id BY <1>3, <1>4, <1>6
    <3> QED BY <2>0, <2>1, <3>1, <3>2, <3>3, <1>1
  <2>2. CASE conn[i] # k BY <2>0, <2>2, <1>3, <1>4, <1>6
  <2> QED BY <2>1, <2>2
<1> QED BY <1>7, <1>8, <1>9, <1>10

\* The page applies a frame.
LEMMA ShowStreams ==
    ASSUME TypeOK, CursorSplits, BodyFirst, Connected, NEW i \in Ids, Show(i)
    PROVE  /\ (CursorSplits /\ BodyFirst /\ Connected)'
           /\ lastId' \in [Ids -> Nat] /\ wire' \in [Streams -> Seq(Ticks)]
           /\ Head(wire[conn[i]]).id \in Nat
<1> DEFINE k == conn[i]
           e == Head(wire[k])
<1>1. /\ k \in Streams /\ wire[k] # <<>> /\ lastId' = [lastId EXCEPT ![i] = e.id]
      /\ wire' = [wire EXCEPT ![k] = Tail(@)]
      /\ UNCHANGED <<conn, page, phase, serves, cursor, batch>>
  BY DEF Show, requestVars, streamVars
<1>2. /\ cursor \in [Streams -> Nat] /\ wire \in [Streams -> Seq(Ticks)]
      /\ lastId \in [Ids -> Nat]
  BY DEF TypeOK
<1>3. Rising(wire[k]) /\ UpTo(wire[k], cursor[k]) BY <1>1 DEF CursorSplits
<1>4. /\ e \in Ticks /\ e.id \in Nat /\ e = wire[k][1] /\ 1 \in 1..Len(wire[k])
      /\ Tail(wire[k]) \in Seq(Ticks) /\ Rising(Tail(wire[k])) /\ AllPast(Tail(wire[k]), e.id)
  BY <1>1, <1>2, <1>3, SendFirst
<1>5. e.id <= cursor[k] BY <1>3, <1>4 DEF UpTo
<1>6. UpTo(Tail(wire[k]), cursor[k])
  <2> SUFFICES ASSUME NEW j \in 1..Len(Tail(wire[k])) PROVE Tail(wire[k])[j].id <= cursor[k]
    BY DEF UpTo
  <2>1. j + 1 \in 1..Len(wire[k]) /\ Tail(wire[k])[j] = wire[k][j + 1]
    BY <1>1, <1>2, HeadTailProperties
  <2> QED BY <1>3, <2>1 DEF UpTo
<1>7. lastId' \in [Ids -> Nat] /\ wire' \in [Streams -> Seq(Ticks)] BY <1>1, <1>2, <1>4
<1> HIDE DEF e
<1>8. CursorSplits'
  <2> SUFFICES ASSUME NEW m \in Streams
               PROVE  /\ Rising(wire'[m]) /\ UpTo(wire'[m], cursor[m])
                      /\ Rising(batch[m]) /\ AllPast(batch[m], cursor[m])
    BY <1>1 DEF CursorSplits
  <2>1. CASE m = k BY <2>1, <1>1, <1>2, <1>4, <1>6 DEF CursorSplits
  <2>2. CASE m # k BY <2>2, <1>1, <1>2 DEF CursorSplits
  <2> QED BY <2>1, <2>2
<1>9. BodyFirst'
  <2>1. phase[k] \notin {"idle", "authorizing", "opened"} BY <1>1 DEF BodyFirst
  <2> QED BY <1>1, <1>2, <2>1 DEF BodyFirst
<1>10. Connected'
  <2> SUFFICES ASSUME NEW j \in Ids, conn[j] \in Streams
               PROVE  /\ page[conn[j]] = j /\ phase[conn[j]] # "idle"
                      /\ lastId'[j] <= cursor[conn[j]] /\ AllPast(wire'[conn[j]], lastId'[j])
    BY <1>1 DEF Connected
  <2>1. CASE j = i BY <2>1, <1>1, <1>2, <1>4, <1>5 DEF Connected
  <2>2. CASE j # i
    <3>1. conn[j] # k BY <2>2, <1>1 DEF Connected
    <3> QED BY <1>1, <1>2, <2>2, <3>1 DEF Connected
  <2> QED BY <2>1, <2>2
<1> QED BY <1>4, <1>7, <1>8, <1>9, <1>10 DEF e

-----------------------------------------------------------------------------
(* Every step keeps the invariant.                                         *)

LEMMA OpenFiniteNext == Cardinality(OpenSessions') \in Nat
<1>1. OpenSessions' \in SUBSET Streams BY DEF OpenSessions, Sessions
<1>2. IsFiniteSet(Streams)
  <2>1. MaxStreams \in Int BY ConstantsAssumption DEF ConstantsAssumption
  <2> QED BY <2>1, FS_Interval DEF Streams
<1> QED BY <1>1, <1>2, FS_Subset, FS_CardinalityType

LEMMA CountIsNatural == Registered' => live' \in Nat
  BY OpenFiniteNext DEF Registered

\* _drop_sse and _release_sse: what they write keeps its type.
LEMMA DropTypes ==
    ASSUME TypeOK, NEW i \in Ids, Drop(i)
    PROVE  /\ rec' \in [Ids -> Streams \cup {None}] /\ shut' \in [Streams -> BOOLEAN]
           /\ inbox' \in [Streams -> Seq({Click, Resync, Sentinel})]
           /\ closed' \in [Streams -> BOOLEAN]
<1> /\ rec \in [Ids -> Streams \cup {None}] /\ shut \in [Streams -> BOOLEAN]
    /\ inbox \in [Streams -> Seq({Click, Resync, Sentinel})]
    /\ closed \in [Streams -> BOOLEAN]
  BY DEF TypeOK
<1>1. CASE rec[i] = None BY <1>1 DEF Drop, endVars
<1>2. CASE rec[i] # None
  <2>1. rec[i] \in Streams BY <1>2
  <2>2. Append(inbox[rec[i]], Sentinel) \in Seq({Click, Resync, Sentinel})
    BY <2>1, AppendProperties
  <2> QED BY <1>2, <2>1, <2>2 DEF Drop
<1> QED BY <1>1, <1>2

LEMMA ReleaseTypes ==
    ASSUME TypeOK, NEW i \in Ids, NEW t, Release(i, t)
    PROVE  /\ rec' \in [Ids -> Streams \cup {None}] /\ shut' \in [Streams -> BOOLEAN]
           /\ inbox' \in [Streams -> Seq({Click, Resync, Sentinel})]
           /\ closed' \in [Streams -> BOOLEAN]
<1>1. CASE Drop(i) BY <1>1, DropTypes
<1>2. CASE UNCHANGED <<rec, live, endVars>> BY <1>2 DEF endVars, TypeOK
<1> QED BY <1>1, <1>2 DEF Release

LEMMA InitIInv == Init => IInv
<1> SUFFICES ASSUME Init PROVE IInv OBVIOUS
<1>1. TypeOK BY DEF Init, TypeOK, Blank
<1>0. Len(<<>>) = 0 OBVIOUS
<1>2. BufferRises
  <2>1. ReplayBuffer \in Nat BY ConstantsAssumption DEF ConstantsAssumption
  <2> QED BY <1>0, <2>1 DEF Init, BufferRises, Rising, UpTo
<1>3. CursorSplits BY <1>0 DEF Init, CursorSplits, Rising, UpTo, AllPast
<1>4. BodyFirst BY DEF Init, BodyFirst
<1>5. Connected BY DEF Init, Connected, Streams, None
<1>6. Unadmitted BY DEF Init, Unadmitted
<1>7. Registered
  <2>1. OpenSessions = {} BY DEF Init, OpenSessions, Sessions
  <2> QED BY <2>1, FS_EmptySet DEF Init, Registered
<1> QED BY <1>1, <1>2, <1>3, <1>4, <1>5, <1>6, <1>7 DEF IInv, Relations

\* Requests that arrive, are refused, or read no further.
LEMMA RequestIInv ==
    ASSUME IInv, NEW k \in Streams,
           Connect(k) \/ Refuse(k) \/ StartBody(k) \/ AbandonBody(k)
    PROVE  IInv'
<1> TypeOK /\ BufferRises /\ CursorSplits /\ BodyFirst /\ Connected /\ Unadmitted /\ Registered
  BY DEF IInv, Relations
<1>0. page[k] \in Ids BY DEF TypeOK
<1>1. UNCHANGED <<page, rec, live, closed, run, history, nextId>>
  BY DEF Connect, Refuse, StartBody, AbandonBody, recordVars, tickVars, endVars
<1>2. Onwards /\ SameSessions
  <2>1. DOMAIN phase = Streams BY DEF TypeOK
  <2> QED BY <1>1, <2>1 DEF Connect, Refuse, MayServe, StartBody, AbandonBody, Onwards, SameSessions
<1>3. (Unadmitted /\ Registered)' BY <1>1, <1>2, RegistryStays
<1>4. BufferRises' BY <1>1 DEF BufferRises
<1>5. (CursorSplits /\ BodyFirst /\ Connected)'
  <2>1. CASE Connect(k) BY <2>1, ConnectStreams
  <2>2. CASE Refuse(k) \/ StartBody(k) \/ AbandonBody(k)
    <3>1. UNCHANGED <<batch, cursor, serves, page, lastId, wire>>
      BY <2>2 DEF Refuse, StartBody, AbandonBody, streamVars, netVars, pageVars
    <3>2. Further
      <4>1. DOMAIN phase = Streams BY DEF TypeOK
      <4> QED BY <2>2, <4>1 DEF Refuse, MayServe, StartBody, AbandonBody, Further
    <3>3. Hangs
      <4>1. DOMAIN conn = Ids /\ Dead \notin Streams BY DEF TypeOK, Dead, Streams
      <4> QED BY <2>2, <4>1 DEF Refuse, StartBody, AbandonBody, pageVars, Hangs
    <3> QED BY <3>1, <3>2, <3>3, StreamsStay
  <2> QED BY <2>1, <2>2
<1>6. TypeOK'
  <2>1. CASE Connect(k)
    BY <1>0, <2>1 DEF TypeOK, Connect, netVars, recordVars, tickVars, endVars
  <2>2. CASE Refuse(k)
    BY <1>0, <2>2 DEF TypeOK, Refuse, MayServe, streamVars, netVars, recordVars, tickVars, endVars
  <2>3. CASE StartBody(k)
    <3>0. newest \in [Streams -> Nat] BY DEF TypeOK
    <3>1. serves[k] \in Streams BY <2>3 DEF StartBody, BodyFirst
    <3>2. newest[serves[k]] + 1 \in Nat BY <3>0, <3>1
    <3> QED BY <2>3, <3>1, <3>2 DEF TypeOK, StartBody, pageVars, netVars, recordVars, tickVars, endVars
  <2>4. CASE AbandonBody(k)
    BY <2>4 DEF TypeOK, AbandonBody, pageVars, streamVars, netVars, recordVars, tickVars, endVars
  <2> QED BY <2>1, <2>2, <2>3, <2>4
<1> QED BY <1>3, <1>4, <1>5, <1>6 DEF IInv, Relations

LEMMA OpenNewIInv == ASSUME IInv, NEW k \in Streams, OpenNew(k) PROVE IInv'
<1> TypeOK /\ BufferRises /\ CursorSplits /\ BodyFirst /\ Connected /\ Unadmitted /\ Registered
  BY DEF IInv, Relations
<1>1. (Unadmitted /\ Registered)' BY OpenRegistry
<1>2. BufferRises' BY DEF OpenNew, tickVars, BufferRises
<1>3. (CursorSplits /\ BodyFirst /\ Connected)'
  <2>1. /\ phase[k] = "authorizing" /\ phase' = [phase EXCEPT ![k] = "opened"]
        /\ serves' = [serves EXCEPT ![k] = k]
        /\ UNCHANGED <<cursor, conn, page, lastId, wire, batch>>
    BY DEF OpenNew, MayServe, pageVars, streamVars, netVars
  <2>2. cursor[k] \in Nat /\ cursor' = [cursor EXCEPT ![k] = cursor[k]] BY <2>1 DEF TypeOK
  <2>3. cursor[k] <= cursor[k] BY <2>2
  <2> QED BY <2>1, <2>2, <2>3, AdmitStreams
<1>4. live' \in Nat BY <1>1, CountIsNatural
<1>5. TypeOK'
  <2>1. page[k] \in Ids BY DEF TypeOK
  <2> QED BY <1>4, <2>1 DEF TypeOK, OpenNew, MayServe, pageVars, streamVars, netVars, tickVars, endVars
<1> QED BY <1>1, <1>2, <1>3, <1>5 DEF IInv, Relations

LEMMA TakeOverIInv == ASSUME IInv, NEW k \in Streams, TakeOver(k) PROVE IInv'
<1> TypeOK /\ BufferRises /\ CursorSplits /\ BodyFirst /\ Connected /\ Unadmitted /\ Registered
  BY DEF IInv, Relations
<1> DEFINE x == rec[page[k]]
<1>0. x \in Streams /\ nextId[x] \in Nat /\ cursor[k] \in Nat BY DEF TakeOver, TypeOK
<1>1. /\ phase[k] = "authorizing" /\ phase' = [phase EXCEPT ![k] = "opened"]
      /\ serves' = [serves EXCEPT ![k] = x]
      /\ UNCHANGED <<conn, page, lastId, wire, batch, rec, live, closed, run>>
  BY DEF TakeOver, MayServe, pageVars, netVars, endVars
<1>2. (Unadmitted /\ Registered)'
  <2>1. Onwards /\ SameSessions
    <3>1. DOMAIN phase = Streams BY DEF TypeOK
    <3> QED BY <1>1, <3>1 DEF Onwards, SameSessions
  <2> QED BY <1>1, <2>1, RegistryStays
<1>3. PICK n \in Nat : cursor[k] <= n /\ cursor' = [cursor EXCEPT ![k] = n]
  <2>1. CASE cursor[k] # 0 /\ MissedSince(x, cursor[k])
    <3>1. cursor' = [cursor EXCEPT ![k] = nextId[x]] BY <2>1 DEF TakeOver
    <3>2. cursor[k] <= nextId[x] BY <1>0, <2>1 DEF MissedSince
    <3> QED BY <1>0, <3>1, <3>2
  <2>2. CASE ~(cursor[k] # 0 /\ MissedSince(x, cursor[k]))
    <3>1. cursor' = cursor BY <2>2 DEF TakeOver
    <3>2. cursor' = [cursor EXCEPT ![k] = cursor[k]] /\ cursor[k] <= cursor[k]
      BY <1>0, <3>1 DEF TypeOK
    <3> QED BY <1>0, <3>2
  <2> QED BY <2>1, <2>2
<1>4. (CursorSplits /\ BodyFirst /\ Connected)' BY <1>0, <1>1, <1>3, AdmitStreams
<1>5. /\ history' \in [Streams -> Seq(Ticks)] /\ nextId' \in [Streams -> Nat]
      /\ BufferRises'
  <2>0. history \in [Streams -> Seq(Ticks)] /\ nextId \in [Streams -> Nat] BY DEF TypeOK
  <2>1. CASE Enqueue(x, TRUE) BY <1>0, <2>0, <2>1, EnqueueIs, ConstantsAssumption
  <2>2. CASE UNCHANGED tickVars BY <2>0, <2>2 DEF tickVars, BufferRises
  <2> QED BY <2>1, <2>2 DEF TakeOver
<1>6. TypeOK'
  <2>0. tokens \in [Streams -> Nat] /\ cursor \in [Streams -> Nat] BY DEF TypeOK
  <2>1. tokens[x] + 1 \in Nat /\ cursor' \in [Streams -> Nat]
    <3>1. x \in Streams BY <1>0
    <3> HIDE DEF x
    <3>2. tokens[x] + 1 \in Nat BY <2>0, <3>1
    <3>3. cursor' \in [Streams -> Nat] BY <2>0, <1>3
    <3> QED BY <3>2, <3>3
  <2>2. UNCHANGED <<pageVars, page, isNew, mine, batch, netVars, rec, live, newest, endVars, run>>
    BY DEF TakeOver
  <2>3. /\ tokens' = [tokens EXCEPT ![x] = @ + 1] /\ token' = [token EXCEPT ![k] = tokens[x] + 1]
    BY DEF TakeOver
  <2>4. tokens' \in [Streams -> Nat] /\ token' \in [Streams -> Nat]
    BY <1>0, <2>1, <2>3 DEF TypeOK
  <2> QED BY <1>0, <1>1, <1>5, <2>1, <2>2, <2>4 DEF TypeOK, pageVars, netVars, endVars
<1> QED BY <1>2, <1>4, <1>5, <1>6 DEF IInv, Relations

\* A stream takes what is pending, or goes on with what it took.
LEMMA YieldIInv ==
    ASSUME IInv, NEW k \in Streams, TakePending(k) \/ YieldNext(k) PROVE IInv'
<1> TypeOK /\ BufferRises /\ CursorSplits /\ BodyFirst /\ Connected /\ Unadmitted /\ Registered
  BY DEF IInv, Relations
<1> DEFINE q == IF batch[k] = <<>> THEN Pending(k) ELSE batch[k]
<1>1. /\ phase[k] = "streaming" /\ q # <<>> /\ Send(k, Head(q))
      /\ batch' = [batch EXCEPT ![k] = Tail(q)]
      /\ UNCHANGED <<pageVars, requestVars, mine, peer, recordVars, tickVars, newest, endVars, run>>
  <2>1. CASE TakePending(k) BY <2>1 DEF TakePending
  <2>2. CASE YieldNext(k)
    <3>1. batch[k] # <<>> /\ batch' = [batch EXCEPT ![k] = Tail(@)] BY <2>2 DEF YieldNext
    <3>2. batch' = [batch EXCEPT ![k] = Tail(batch[k])] BY <3>1
    <3> QED BY <2>2, <3>1, <3>2 DEF YieldNext
  <2> QED BY <2>1, <2>2
<1>2. q \in Seq(Ticks) /\ Rising(q) /\ AllPast(q, cursor[k])
  <2>1. CASE batch[k] = <<>>
    <3>1. serves[k] \in Streams BY <1>1 DEF BodyFirst
    <3>2. history[serves[k]] \in Seq(Ticks) /\ Rising(history[serves[k]]) /\ cursor[k] \in Int
      BY <3>1 DEF TypeOK, BufferRises
    <3> QED BY <2>1, <3>2, PastIdIs DEF Pending
  <2>2. CASE batch[k] # <<>> BY <2>2 DEF TypeOK, CursorSplits
  <2> QED BY <2>1, <2>2
<1> HIDE DEF q
<1>3. UNCHANGED <<conn, page, lastId, phase, serves, rec, live, closed, run, history, nextId>>
  BY <1>1 DEF pageVars, requestVars, recordVars, tickVars, endVars
<1>4. /\ (CursorSplits /\ BodyFirst /\ Connected)'
      /\ batch' \in [Streams -> Seq(Ticks)] /\ wire' \in [Streams -> Seq(Ticks)]
      /\ cursor' \in [Streams -> Nat]
  BY <1>1, <1>2, <1>3, SendStreams
<1>5. (Unadmitted /\ Registered)'
  <2>1. Onwards /\ SameSessions BY <1>3 DEF Onwards, SameSessions
  <2> QED BY <1>3, <2>1, RegistryStays
<1>6. BufferRises' BY <1>3 DEF BufferRises
<1>7. TypeOK' BY <1>1, <1>4 DEF TypeOK, pageVars, requestVars, recordVars, tickVars, endVars
<1> QED BY <1>4, <1>5, <1>6, <1>7 DEF IInv, Relations

\* A stream that ends releases its session.
LEMMA EndIInv ==
    ASSUME IInv, NEW k \in Streams, StreamEnds(k) \/ DropNoticed(k) PROVE IInv'
<1> TypeOK /\ BufferRises /\ CursorSplits /\ BodyFirst /\ Connected /\ Unadmitted /\ Registered
  BY DEF IInv, Relations
<1>0. page[k] \in Ids /\ DOMAIN phase = Streams BY DEF TypeOK
<1>1. /\ phase' = [phase EXCEPT ![k] = "ended"] /\ Release(page[k], token[k])
      /\ UNCHANGED <<pageVars, page, isNew, serves, token, streamVars, netVars, tokens,
                     tickVars, newest, run>>
  BY DEF StreamEnds, DropNoticed, EndStream
<1>2. Onwards /\ SameSessions /\ Further /\ Hangs
  BY <1>0, <1>1 DEF Onwards, SameSessions, Further, Hangs, pageVars
<1>3. (Unadmitted /\ Registered)' BY <1>0, <1>1, <1>2, ReleaseRegistry
<1>4. (CursorSplits /\ BodyFirst /\ Connected)'
  BY <1>1, <1>2, StreamsStay DEF pageVars, streamVars, netVars
<1>5. BufferRises' BY <1>1 DEF BufferRises, tickVars
<1>6. live' \in Nat BY <1>3, CountIsNatural
<1>7. /\ rec' \in [Ids -> Streams \cup {None}] /\ shut' \in [Streams -> BOOLEAN]
      /\ inbox' \in [Streams -> Seq({Click, Resync, Sentinel})]
      /\ closed' \in [Streams -> BOOLEAN]
  BY <1>0, <1>1, ReleaseTypes
<1>8. TypeOK' BY <1>1, <1>6, <1>7 DEF TypeOK, pageVars, streamVars, netVars, tickVars
<1> QED BY <1>3, <1>4, <1>5, <1>8 DEF IInv, Relations

\* The session task, and what it enqueues.
LEMMA TaskIInv ==
    ASSUME IInv, NEW x \in Streams, Mount(x) \/ Rebuild(x) \/ Receive(x) \/ Handled(x)
    PROVE  IInv'
<1> TypeOK /\ BufferRises /\ CursorSplits /\ BodyFirst /\ Connected /\ Unadmitted /\ Registered
  BY DEF IInv, Relations
<1>1. UNCHANGED <<pageVars, requestVars, streamVars, netVars, recordVars, newest, shut, closed>>
  BY DEF Mount, Rebuild, Receive, Handled, endVars
<1>2. /\ history' \in [Streams -> Seq(Ticks)] /\ nextId' \in [Streams -> Nat]
      /\ BufferRises'
  <2>0. history \in [Streams -> Seq(Ticks)] /\ nextId \in [Streams -> Nat] BY DEF TypeOK
  <2>1. CASE \E root \in BOOLEAN : Enqueue(x, root)
    BY <2>0, <2>1, EnqueueIs, ConstantsAssumption
  <2>2. CASE UNCHANGED tickVars BY <2>0, <2>2 DEF tickVars, BufferRises
  <2> QED BY <2>1, <2>2 DEF Mount, Rebuild, Receive, Handled
<1>3. /\ run' \in [Streams -> {"none", "spawned", "receiving", "handling", "done"}]
      /\ SameSessions
  <2>1. run \in [Streams -> {"none", "spawned", "receiving", "handling", "done"}] BY DEF TypeOK
  <2> QED BY <2>1 DEF Mount, Rebuild, Receive, Handled, SameSessions
<1>4. inbox' \in [Streams -> Seq({Click, Resync, Sentinel})]
  <2>0. inbox \in [Streams -> Seq({Click, Resync, Sentinel})] BY DEF TypeOK
  <2>1. CASE Receive(x)
    <3>1. inbox[x] # <<>> /\ inbox' = [inbox EXCEPT ![x] = Tail(@)] BY <2>1 DEF Receive
    <3>2. Tail(inbox[x]) \in Seq({Click, Resync, Sentinel}) BY <2>0, <3>1, HeadTailProperties
    <3> QED BY <2>0, <3>1, <3>2
  <2>2. CASE ~Receive(x) BY <2>0, <2>2 DEF Mount, Rebuild, Handled, endVars
  <2> QED BY <2>1, <2>2
<1>5. Onwards /\ Further /\ Hangs
  BY <1>1 DEF Onwards, Further, Hangs, pageVars, requestVars
<1>6. (Unadmitted /\ Registered)'
  BY <1>1, <1>3, <1>5, RegistryStays DEF recordVars, requestVars
<1>7. (CursorSplits /\ BodyFirst /\ Connected)'
  BY <1>1, <1>5, StreamsStay DEF pageVars, requestVars, streamVars, netVars
<1>8. TypeOK'
  BY <1>1, <1>2, <1>3, <1>4 DEF TypeOK, pageVars, requestVars, streamVars, netVars, recordVars
<1> QED BY <1>2, <1>6, <1>7, <1>8 DEF IInv, Relations

\* The session task that ends drops what is registered under its id.
LEMMA TaskEndsIInv ==
    ASSUME IInv, NEW x \in Streams, MountFails(x) \/ RunEnds(x) PROVE IInv'
<1> TypeOK /\ BufferRises /\ CursorSplits /\ BodyFirst /\ Connected /\ Unadmitted /\ Registered
  BY DEF IInv, Relations
<1>0. page[x] \in Ids BY DEF TypeOK
<1>1. /\ run[x] # "none" /\ run' = [run EXCEPT ![x] = "done"] /\ Drop(page[x])
      /\ UNCHANGED <<pageVars, requestVars, streamVars, netVars, tokens, tickVars, newest>>
  BY DEF MountFails, RunEnds
<1>2. Onwards /\ SameSessions /\ Further /\ Hangs
  <2>1. DOMAIN run = Streams BY DEF TypeOK
  <2> QED BY <1>1, <2>1 DEF Onwards, SameSessions, Further, Hangs, pageVars, requestVars
<1>3. (Unadmitted /\ Registered)' BY <1>0, <1>1, <1>2, DropRegistry DEF requestVars
<1>4. (CursorSplits /\ BodyFirst /\ Connected)'
  BY <1>1, <1>2, StreamsStay DEF pageVars, requestVars, streamVars, netVars
<1>5. BufferRises' BY <1>1 DEF BufferRises, tickVars
<1>6. live' \in Nat BY <1>3, CountIsNatural
<1>7. /\ rec' \in [Ids -> Streams \cup {None}] /\ shut' \in [Streams -> BOOLEAN]
      /\ inbox' \in [Streams -> Seq({Click, Resync, Sentinel})]
      /\ closed' \in [Streams -> BOOLEAN]
  BY <1>0, <1>1, DropTypes
<1>8. TypeOK'
  BY <1>1, <1>6, <1>7 DEF TypeOK, pageVars, requestVars, streamVars, netVars, tickVars
<1> QED BY <1>3, <1>4, <1>5, <1>8 DEF IInv, Relations

\* The page, its connection and its posts.
LEMMA PageIInv ==
    ASSUME IInv, NEW i \in Ids,
           Lose(i) \/ EndOfStream(i) \/ Show(i) \/ \E event \in {Click, Resync} : Post(i, event)
    PROVE  IInv'
<1> TypeOK /\ BufferRises /\ CursorSplits /\ BodyFirst /\ Connected /\ Unadmitted /\ Registered
  BY DEF IInv, Relations
<1>1. UNCHANGED <<requestVars, streamVars, recordVars, tickVars, newest, shut, closed, run>>
  BY DEF Lose, EndOfStream, Show, Post, endVars
<1>2. Onwards /\ SameSessions /\ Further BY <1>1 DEF Onwards, SameSessions, Further, requestVars
<1>3. (Unadmitted /\ Registered)' BY <1>1, <1>2, RegistryStays DEF recordVars, requestVars
<1>4. BufferRises' BY <1>1 DEF BufferRises, tickVars
<1>5. CASE Lose(i) \/ EndOfStream(i)
  <2>1. /\ conn[i] \in Streams /\ conn' = [conn EXCEPT ![i] = None]
        /\ peer' = [peer EXCEPT ![conn[i]] = "gone"]
        /\ wire' = wire \/ wire' = [wire EXCEPT ![conn[i]] = <<>>]
        /\ UNCHANGED <<lastId, tree, clicks, inbox>>
    BY <1>5 DEF Lose, EndOfStream, netVars, endVars
  <2>2. Hangs
    <3>1. DOMAIN conn = Ids /\ None \notin Streams BY DEF TypeOK, None, Streams
    <3> QED BY <2>1, <3>1 DEF Hangs
  <2>3. \A k \in Streams : wire'[k] = wire[k] \/ wire'[k] = <<>>
    <3>1. DOMAIN wire = Streams BY DEF TypeOK
    <3> QED BY <2>1, <3>1
  <2>4. (CursorSplits /\ BodyFirst /\ Connected)'
    BY <1>1, <1>2, <2>1, <2>2, <2>3, StreamsStay DEF requestVars, streamVars
  <2>5. wire' \in [Streams -> Seq(Ticks)]
    <3>1. wire \in [Streams -> Seq(Ticks)] /\ <<>> \in Seq(Ticks) BY DEF TypeOK
    <3> QED BY <2>1, <3>1
  <2>6. TypeOK'
    BY <1>1, <2>1, <2>5 DEF TypeOK, requestVars, streamVars, recordVars, tickVars
  <2> QED BY <1>3, <1>4, <2>4, <2>6 DEF IInv, Relations
<1>6. CASE Show(i)
  <2>1. /\ (CursorSplits /\ BodyFirst /\ Connected)'
        /\ lastId' \in [Ids -> Nat] /\ wire' \in [Streams -> Seq(Ticks)]
        /\ Head(wire[conn[i]]).id \in Nat
    BY <1>6, ShowStreams
  <2>2. tree' \in [Ids -> [of : Streams \cup {None}, at : Nat]]
    <3> DEFINE e == Head(wire[conn[i]])
    <3>1. conn[i] \in Streams /\ phase[conn[i]] # "idle" BY <1>6 DEF Show, Connected
    <3>2. serves[conn[i]] \in Streams \cup {None} BY <3>1 DEF TypeOK
    <3>3. [of |-> serves[conn[i]], at |-> e.id] \in [of : Streams \cup {None}, at : Nat]
      BY <2>1, <3>2
    <3>4. Torn \in [of : Streams \cup {None}, at : Nat] BY DEF Torn
    <3>5. tree' = [tree EXCEPT ![i] = IF Fits(e, @, serves[conn[i]])
                                      THEN [of |-> serves[conn[i]], at |-> e.id] ELSE Torn]
      BY <1>6 DEF Show
    <3>6. tree \in [Ids -> [of : Streams \cup {None}, at : Nat]] BY DEF TypeOK
    <3> QED BY <3>3, <3>4, <3>5, <3>6
  <2>3. UNCHANGED <<conn, clicks, peer, inbox>> BY <1>6 DEF Show, endVars
  <2>4. TypeOK'
    BY <1>1, <2>1, <2>2, <2>3 DEF TypeOK, requestVars, streamVars, recordVars, tickVars
  <2> QED BY <1>3, <1>4, <2>1, <2>4 DEF IInv, Relations
<1>7. ASSUME NEW event \in {Click, Resync}, Post(i, event) PROVE IInv'
  <2>1. /\ UNCHANGED <<conn, lastId, tree, netVars>> /\ clicks' = clicks + 1
        /\ inbox' = IF rec[i] = None THEN inbox
                    ELSE [inbox EXCEPT ![rec[i]] = Append(@, event)]
    BY <1>7 DEF Post
  <2>2. (CursorSplits /\ BodyFirst /\ Connected)'
    <3>1. Hangs BY <2>1 DEF Hangs
    <3> QED BY <1>1, <1>2, <2>1, <3>1, StreamsStay DEF requestVars, streamVars, netVars
  <2>3. inbox' \in [Streams -> Seq({Click, Resync, Sentinel})]
    <3>0. inbox \in [Streams -> Seq({Click, Resync, Sentinel})] BY DEF TypeOK
    <3>1. CASE rec[i] = None BY <2>1, <3>0, <3>1
    <3>2. CASE rec[i] # None
      <4>1. rec[i] \in Streams BY <3>2 DEF TypeOK
      <4>2. event \in {Click, Resync, Sentinel} OBVIOUS
      <4>3. Append(inbox[rec[i]], event) \in Seq({Click, Resync, Sentinel})
        BY <3>0, <4>1, <4>2, AppendProperties
      <4> QED BY <2>1, <3>0, <3>2, <4>1, <4>3
    <3> QED BY <3>1, <3>2
  <2>4. clicks' \in Nat BY <2>1 DEF TypeOK
  <2>5. TypeOK'
    BY <1>1, <2>1, <2>3, <2>4 DEF TypeOK, requestVars, streamVars, netVars, recordVars, tickVars
  <2> QED BY <1>3, <1>4, <2>2, <2>5 DEF IInv, Relations
<1> QED BY <1>5, <1>6, <1>7

LEMMA IInvStep == IInv /\ [Next]_vars => IInv'
<1> SUFFICES ASSUME IInv, [Next]_vars PROVE IInv' OBVIOUS
<1>1. ASSUME NEW k \in Streams, Connect(k) PROVE IInv' BY <1>1, RequestIInv
<1>2. ASSUME NEW k \in Streams, Stream(k) PROVE IInv'
  <2>1. CASE Refuse(k) \/ StartBody(k) \/ AbandonBody(k) BY <2>1, RequestIInv
  <2>2. CASE OpenNew(k) BY <2>2, OpenNewIInv
  <2>3. CASE TakeOver(k) BY <2>3, TakeOverIInv
  <2>4. CASE TakePending(k) \/ YieldNext(k) BY <2>4, YieldIInv
  <2>5. CASE StreamEnds(k) BY <2>5, EndIInv
  <2> QED BY <1>2, <2>1, <2>2, <2>3, <2>4, <2>5 DEF Stream
<1>3. ASSUME NEW k \in Streams, DropNoticed(k) PROVE IInv' BY <1>3, EndIInv
<1>4. ASSUME NEW x \in Streams, Run(x) \/ Rebuild(x) PROVE IInv'
  <2>1. CASE Mount(x) \/ Rebuild(x) \/ Receive(x) \/ Handled(x) BY <2>1, TaskIInv
  <2>2. CASE MountFails(x) \/ RunEnds(x) BY <2>2, TaskEndsIInv
  <2> QED BY <1>4, <2>1, <2>2 DEF Run
<1>5. ASSUME NEW i \in Ids,
             Lose(i) \/ EndOfStream(i) \/ Show(i) \/ \E event \in {Click, Resync} : Post(i, event)
      PROVE  IInv'
  BY <1>5, PageIInv
<1>6. CASE UNCHANGED vars
  <2> USE <1>6 DEF vars, pageVars, requestVars, streamVars, netVars, recordVars,
                  tickVars, endVars
  <2>1. TypeOK' BY DEF IInv, TypeOK
  <2>2. BufferRises' /\ CursorSplits' BY DEF IInv, Relations, BufferRises, CursorSplits
  <2>3. BodyFirst' /\ Connected' BY DEF IInv, Relations, BodyFirst, Connected
  <2>4. Unadmitted' /\ Registered'
    BY DEF IInv, Relations, Unadmitted, Registered, OpenSessions, Sessions
  <2> QED BY <2>1, <2>2, <2>3, <2>4 DEF IInv, Relations
<1> QED BY <1>1, <1>2, <1>3, <1>4, <1>5, <1>6 DEF Next

\* The relations of the buffer, the streams, the pages and the registry hold of
\* every reachable state.
THEOREM SseInvariant == Spec => []IInv
<1>1. Init => IInv BY InitIInv
<1>2. IInv /\ [Next]_vars => IInv' BY IInvStep
<1> QED BY <1>1, <1>2, PTL DEF Spec

LEMMA IInvHolds == IInv => StreamsHold
<1> SUFFICES ASSUME IInv PROVE StreamsHold OBVIOUS
<1> TypeOK /\ CursorSplits /\ Connected /\ Registered
  BY DEF IInv, Relations
<1>1. NoTickTwice
  <2> SUFFICES ASSUME NEW i \in Ids, conn[i] \in Streams, NEW n \in DOMAIN wire[conn[i]]
               PROVE  wire[conn[i]][n].id > (IF n = 1 THEN lastId[i] ELSE wire[conn[i]][n - 1].id)
    BY DEF NoTickTwice
  <2> DEFINE q == wire[conn[i]]
  <2>1. q \in Seq(Ticks) /\ Rising(q) /\ AllPast(q, lastId[i])
    BY DEF TypeOK, CursorSplits, Connected
  <2>2. n \in 1..Len(q) BY <2>1
  <2>3. CASE n = 1 BY <2>1, <2>2, <2>3 DEF AllPast
  <2>4. CASE n # 1
    <3> HIDE DEF q
    <3>1. n - 1 \in 1..Len(q) /\ n - 1 < n BY <2>1, <2>2, <2>4
    <3>2. q[n - 1].id < q[n].id BY <2>1, <2>2, <3>1 DEF Rising
    <3>3. q[n - 1].id \in Nat /\ q[n].id \in Nat BY <2>1, <2>2, <3>1, TickFields
    <3> QED BY <2>4, <3>2, <3>3 DEF q
  <2> QED BY <2>3, <2>4
<1>2. OpenIsRegistered
  <2>1. OpenSessions = {rec[i] : i \in Ids} \ {None}
    <3>1. ASSUME NEW x \in OpenSessions PROVE x \in {rec[i] : i \in Ids} \ {None}
      <4>1. x \in Streams BY <3>1 DEF OpenSessions, Sessions
      <4>2. rec[page[x]] = x BY <3>1 DEF Registered
      <4>3. page[x] \in Ids BY <4>1 DEF TypeOK
      <4>4. x # None BY <4>1 DEF Streams, None
      <4> QED BY <4>2, <4>3, <4>4
    <3>2. ASSUME NEW i \in Ids, rec[i] # None PROVE rec[i] \in OpenSessions
      BY <3>2 DEF Registered
    <3> QED BY <3>1, <3>2
  <2> QED BY <2>1 DEF OpenIsRegistered, OpenSessions, Registered
<1> QED BY <1>1, <1>2 DEF StreamsHold

\* SSETransport.stream and _open_sse: whatever is taken over, evicted, replayed,
\* refused or lost, a page is sent no tick twice and none out of order, and the
\* sessions that are open are those under some id, as many as are counted.
THEOREM StreamsStayOrdered == Spec => []StreamsHold
<1>1. IInv => StreamsHold BY IInvHolds
<1> QED BY <1>1, SseInvariant, PTL

-----------------------------------------------------------------------------
(* Where every page comes back before its drop is noticed, to a server     *)
(* that authenticates at once and whose views render.                      *)

ComesBackInTime == PromptReconnect /\ ~AuthSuspends /\ ~ViewMayRaise

\* No request has yet to be admitted.
NoneToCome == \A k \in Streams : phase[k] \notin {"idle", "authorizing"}

\* The last stream its page opened so far.
IsLatest(k) == \A j \in Streams : page[j] = page[k] /\ phase[j] # "idle" => j <= k

\* A stream reads a session of its page.
ReadsItsOwn == \A k \in Streams :
    /\ phase[k] \in {"idle", "authorizing"} => serves[k] = None
    /\ serves[k] # None => serves[k] \in Sessions /\ page[serves[k]] = page[k]

\* A page never has a second session ...
OneSession == \A x, y \in Sessions : page[x] = page[y] => x = y

\* ... because one that is closed is closed after the last request.
ClosedLast == \A x \in Streams : (closed[x] => NoneToCome) /\ (shut[x] => closed[x])

\* Streams come in order, and a page goes on with the last one only.
InOrder ==
    /\ \A j, k \in Streams : j < k /\ phase[k] # "idle" => phase[j] # "idle"
    /\ \A k \in Streams :
          phase[k] \in {"authorizing", "opened"} \/ conn[page[k]] = k => IsLatest(k)

\* The last stream admitted to a session has its token ...
TokensRise ==
    /\ \A k \in Streams : serves[k] # None =>
          /\ token[k] <= tokens[serves[k]]
          /\ IsLatest(k) => token[k] = tokens[serves[k]]
    /\ \A j, k \in Streams :
          j < k /\ serves[j] = serves[k] /\ serves[j] # None => token[j] < token[k]

\* ... and is the one that goes on reading it.
GenerationsFollow == \A k \in Streams :
    phase[k] = "streaming" /\ token[k] = tokens[serves[k]] => mine[k] = newest[serves[k]]

\* Both ends of a connection agree, and a page is left only by a closed session.
HoldsOn == \A k \in Streams :
    /\ phase[k] = "idle" \/ conn[page[k]] = k => peer[k] = "open"
    /\ (serves[k] # None \/ phase[k] = "authorizing") /\ peer[k] = "open"
          => conn[page[k]] = k
    /\ conn[page[k]] = k /\ phase[k] = "ended" => serves[k] # None /\ closed[serves[k]]

KeptInv ==
    /\ ReadsItsOwn /\ OneSession /\ ClosedLast /\ InOrder
    /\ TokensRise /\ GenerationsFollow /\ HoldsOn

-----------------------------------------------------------------------------
LEMMA InitKept == Init => KeptInv
<1> SUFFICES ASSUME Init PROVE KeptInv OBVIOUS
<1> USE DEF Init
<1>0. None \notin Streams BY DEF None, Streams
<1>1. ReadsItsOwn /\ OneSession /\ ClosedLast
  BY DEF ReadsItsOwn, OneSession, Sessions, ClosedLast
<1>2. InOrder BY <1>0 DEF InOrder
<1>3. TokensRise /\ GenerationsFollow BY DEF TokensRise, GenerationsFollow
<1>4. HoldsOn BY <1>0 DEF HoldsOn
<1> QED BY <1>1, <1>2, <1>3, <1>4 DEF KeptInv

\* What tasks, sends and frames change, these relations do not mention.
LEMMA KeptStays ==
    ASSUME KeptInv, SameSessions,
           UNCHANGED <<phase, serves, token, tokens, mine, newest, conn, peer, page, closed, shut>>
    PROVE  KeptInv'
<1> USE DEF KeptInv
<1>0. Sessions' = Sessions BY DEF Sessions, SameSessions
<1>1. ReadsItsOwn' /\ OneSession'
  BY <1>0 DEF ReadsItsOwn, OneSession
<1>2. ClosedLast' BY DEF ClosedLast, NoneToCome
<1>3. InOrder' /\ TokensRise' BY DEF InOrder, TokensRise, IsLatest
<1>4. GenerationsFollow' /\ HoldsOn' BY DEF GenerationsFollow, HoldsOn
<1> QED BY <1>1, <1>2, <1>3, <1>4

\* A session of a page that is registered is the one its streams read.
LEMMA RegisteredIsRead ==
    ASSUME IInv, KeptInv, NEW k \in Streams, serves[k] # None, rec[page[k]] # None
    PROVE  rec[page[k]] = serves[k] /\ ~closed[serves[k]] /\ serves[k] \in Streams
<1>1. page[k] \in Ids /\ serves[k] \in Streams BY DEF IInv, TypeOK
<1>2. rec[page[k]] \in OpenSessions /\ page[rec[page[k]]] = page[k]
  BY <1>1 DEF IInv, Relations, Registered
<1>3. serves[k] \in Sessions /\ page[serves[k]] = page[k]
  BY DEF KeptInv, ReadsItsOwn
<1>4. rec[page[k]] = serves[k]
  BY <1>2, <1>3 DEF KeptInv, OneSession, OpenSessions
<1> QED BY <1>1, <1>2, <1>4 DEF OpenSessions

\* A session task that ends finds nothing to drop.
LEMMA TaskDropsNothing ==
    ASSUME IInv, KeptInv, ~ViewMayRaise, NEW x \in Streams, MountFails(x) \/ RunEnds(x)
    PROVE  UNCHANGED <<rec, live, shut, closed, inbox>>
<1>1. closed[x] /\ run[x] # "none" /\ Drop(page[x])
  BY DEF MountFails, RunEnds, KeptInv, ClosedLast
<1>2. rec[page[x]] = None
  <2> SUFFICES ASSUME rec[page[x]] # None PROVE FALSE OBVIOUS
  <2>1. page[x] \in Ids BY DEF IInv, TypeOK
  <2>2. rec[page[x]] \in OpenSessions /\ page[rec[page[x]]] = page[x]
    BY <2>1 DEF IInv, Relations, Registered
  <2>3. rec[page[x]] = x
    BY <1>1, <2>2 DEF KeptInv, OneSession, OpenSessions, Sessions
  <2> QED BY <1>1, <2>2, <2>3 DEF OpenSessions
<1> QED BY <1>1, <1>2 DEF Drop, endVars

\* Nor does a stream that ends by itself: its session is closed, or a newer one
\* has the token.
LEMMA StreamDropsNothing ==
    ASSUME IInv, KeptInv, NEW k \in Streams, StreamEnds(k)
    PROVE  /\ UNCHANGED <<rec, live, shut, closed, inbox>>
           /\ conn[page[k]] = k => closed[serves[k]]
<1>1. phase[k] = "streaming" /\ ~Current(k) /\ Release(page[k], token[k])
  BY DEF StreamEnds, EndStream
<1>2. serves[k] \in Streams /\ serves[k] # None
  BY <1>1 DEF IInv, Relations, BodyFirst, Streams, None
<1>3. closed[serves[k]] \/ token[k] # tokens[serves[k]]
  BY <1>1, <1>2 DEF Current, KeptInv, ClosedLast, GenerationsFollow
<1>4. rec[page[k]] = None \/ tokens[rec[page[k]]] # token[k]
  BY <1>2, <1>3, RegisteredIsRead
<1>5. UNCHANGED <<rec, live, shut, closed, inbox>>
  BY <1>1, <1>4 DEF Release, Drop, endVars
<1>6. conn[page[k]] = k => token[k] = tokens[serves[k]]
  BY <1>2 DEF KeptInv, InOrder, TokensRise
<1> QED BY <1>3, <1>5, <1>6

LEMMA LatestStays ==
    ASSUME UNCHANGED page, \A j \in Streams : phase'[j] = "idle" <=> phase[j] = "idle",
           NEW k \in Streams
    PROVE  IsLatest(k)' <=> IsLatest(k)
BY DEF IsLatest

\* Streams that end and connections that break leave the order and the tokens.
LEMMA LeaveKept ==
    ASSUME KeptInv, UNCHANGED <<serves, token, tokens, mine, newest, page, run>>,
           \A j \in Streams : phase'[j] = phase[j] \/ (phase[j] # "idle" /\ phase'[j] = "ended"),
           \A i \in Ids : conn'[i] = conn[i] \/ conn'[i] \notin Streams,
           page \in [Streams -> Ids]
    PROVE  ReadsItsOwn' /\ OneSession' /\ InOrder' /\ TokensRise' /\ GenerationsFollow'
<1> USE DEF KeptInv
<1>0. Sessions' = Sessions BY DEF Sessions
<1>1. \A k \in Streams : IsLatest(k)' <=> IsLatest(k)
  <2>1. \A j \in Streams : phase'[j] = "idle" <=> phase[j] = "idle" OBVIOUS
  <2> QED BY <2>1, LatestStays
<1>2. ReadsItsOwn' /\ OneSession' BY <1>0 DEF ReadsItsOwn, OneSession
<1>3. InOrder'
  <2> SUFFICES ASSUME NEW k \in Streams
               PROVE  /\ \A j \in Streams : j < k /\ phase'[k] # "idle" => phase'[j] # "idle"
                      /\ phase'[k] \in {"authorizing", "opened"} \/ conn'[page'[k]] = k
                            => IsLatest(k)'
    BY DEF InOrder
  <2>1. conn'[page[k]] = k => conn[page[k]] = k OBVIOUS
  <2>2. phase'[k] \in {"authorizing", "opened"} => phase'[k] = phase[k] OBVIOUS
  <2>3. \A j \in Streams : phase'[j] = "idle" <=> phase[j] = "idle" OBVIOUS
  <2> QED BY <1>1, <2>1, <2>2, <2>3 DEF InOrder
<1>4. TokensRise' BY <1>1 DEF TokensRise
<1>5. GenerationsFollow' BY DEF GenerationsFollow
<1> QED BY <1>2, <1>3, <1>4, <1>5

LEMMA RefuseKept == ASSUME IInv, KeptInv, NEW k \in Streams, Refuse(k) PROVE KeptInv'
<1> USE DEF KeptInv
<1>0. /\ phase \in [Streams -> {"idle", "authorizing", "opened", "streaming", "ended"}]
      /\ page \in [Streams -> Ids] /\ DOMAIN conn = Ids /\ Dead \notin Streams
  BY DEF IInv, TypeOK, Dead, Streams
<1>1. /\ phase[k] = "authorizing" /\ phase' = [phase EXCEPT ![k] = "ended"]
      /\ conn' = [conn EXCEPT ![page[k]] = IF @ = k THEN Dead ELSE @]
      /\ UNCHANGED <<page, serves, token, tokens, mine, newest, peer, closed, shut, run>>
  BY DEF Refuse, MayServe, streamVars, netVars, recordVars, endVars
<1>2. ReadsItsOwn' /\ OneSession' /\ InOrder' /\ TokensRise' /\ GenerationsFollow'
  BY <1>0, <1>1, LeaveKept
<1>3. ClosedLast' BY <1>0, <1>1 DEF ClosedLast, NoneToCome
<1>4. serves[k] = None BY <1>1 DEF ReadsItsOwn
<1>5. HoldsOn'
  <2> SUFFICES ASSUME NEW j \in Streams
               PROVE  /\ phase'[j] = "idle" \/ conn'[page[j]] = j => peer[j] = "open"
                      /\ (serves[j] # None \/ phase'[j] = "authorizing") /\ peer[j] = "open"
                            => conn'[page[j]] = j
                      /\ conn'[page[j]] = j /\ phase'[j] = "ended"
                            => serves[j] # None /\ closed[serves[j]]
    BY <1>1 DEF HoldsOn
  <2>1. conn'[page[j]] = j => conn[page[j]] = j /\ j # k BY <1>0, <1>1
  <2>2. conn[page[j]] = j /\ j # k => conn'[page[j]] = j BY <1>0, <1>1
  <2>3. j # k => phase'[j] = phase[j] BY <1>0, <1>1
  <2>4. /\ phase'[j] = "idle" => phase[j] = "idle"
        /\ phase'[j] = "authorizing" => phase[j] = "authorizing" /\ j # k
    BY <1>0, <1>1
  <2> QED BY <1>4, <2>1, <2>2, <2>3, <2>4 DEF HoldsOn
<1> QED BY <1>2, <1>3, <1>5

LEMMA AbandonKept == ASSUME IInv, KeptInv, NEW k \in Streams, AbandonBody(k) PROVE KeptInv'
<1> USE DEF KeptInv
<1>0. /\ phase \in [Streams -> {"idle", "authorizing", "opened", "streaming", "ended"}]
      /\ page \in [Streams -> Ids]
  BY DEF IInv, TypeOK
<1>1. /\ phase[k] = "opened" /\ phase' = [phase EXCEPT ![k] = "ended"] /\ peer[k] = "gone"
      /\ UNCHANGED <<conn, page, serves, token, tokens, mine, newest, peer, closed, shut, run>>
  BY DEF AbandonBody, pageVars, streamVars, netVars, recordVars, endVars
<1>2. ReadsItsOwn' /\ OneSession' /\ InOrder' /\ TokensRise' /\ GenerationsFollow'
  BY <1>0, <1>1, LeaveKept
<1>3. ClosedLast' BY <1>0, <1>1 DEF ClosedLast, NoneToCome
<1>4. HoldsOn' BY <1>0, <1>1 DEF HoldsOn
<1> QED BY <1>2, <1>3, <1>4

LEMMA StreamEndsKept == ASSUME IInv, KeptInv, NEW k \in Streams, StreamEnds(k) PROVE KeptInv'
<1> USE DEF KeptInv
<1>0. /\ phase \in [Streams -> {"idle", "authorizing", "opened", "streaming", "ended"}]
      /\ page \in [Streams -> Ids]
  BY DEF IInv, TypeOK
<1>1. /\ phase[k] = "streaming" /\ phase' = [phase EXCEPT ![k] = "ended"]
      /\ UNCHANGED <<conn, page, serves, token, tokens, mine, newest, peer, run>>
  BY DEF StreamEnds, EndStream, pageVars, streamVars, netVars
<1>2. UNCHANGED <<closed, shut>> /\ (conn[page[k]] = k => closed[serves[k]])
  BY StreamDropsNothing
<1>3. ReadsItsOwn' /\ OneSession' /\ InOrder' /\ TokensRise' /\ GenerationsFollow'
  BY <1>0, <1>1, LeaveKept
<1>4. ClosedLast' BY <1>0, <1>1, <1>2 DEF ClosedLast, NoneToCome
<1>5. serves[k] # None BY <1>1 DEF IInv, Relations, BodyFirst, Streams, None
<1>6. HoldsOn' BY <1>0, <1>1, <1>2, <1>5 DEF HoldsOn
<1> QED BY <1>3, <1>4, <1>6

\* A page that leaves without its response being over comes back; one whose
\* response is over comes to a server that admits no other request.
LEMMA DisconnectKept ==
    ASSUME IInv, KeptInv, NEW i \in Ids, Lose(i) \/ EndOfStream(i)
    PROVE  KeptInv'
<1> USE DEF KeptInv
<1> DEFINE k == conn[i]
<1>0. /\ phase \in [Streams -> {"idle", "authorizing", "opened", "streaming", "ended"}]
      /\ page \in [Streams -> Ids] /\ DOMAIN conn = Ids /\ DOMAIN peer = Streams
      /\ None \notin Streams
  BY DEF IInv, TypeOK, None, Streams
<1>1. /\ k \in Streams /\ conn' = [conn EXCEPT ![i] = None]
      /\ peer' = [peer EXCEPT ![k] = "gone"]
      /\ UNCHANGED <<phase, page, serves, token, tokens, mine, newest, closed, shut, run>>
  BY DEF Lose, EndOfStream, requestVars, streamVars, recordVars, endVars
<1>2. page[k] = i /\ phase[k] # "idle" BY <1>1 DEF IInv, Relations, Connected
<1>3. ReadsItsOwn' /\ OneSession' /\ InOrder' /\ TokensRise' /\ GenerationsFollow'
  BY <1>0, <1>1, LeaveKept
<1>4. ClosedLast' BY <1>1 DEF ClosedLast, NoneToCome
<1>5. HoldsOn'
  <2> SUFFICES ASSUME NEW j \in Streams
               PROVE  /\ phase[j] = "idle" \/ conn'[page[j]] = j => peer'[j] = "open"
                      /\ (serves[j] # None \/ phase[j] = "authorizing") /\ peer'[j] = "open"
                            => conn'[page[j]] = j
                      /\ conn'[page[j]] = j /\ phase[j] = "ended"
                            => serves[j] # None /\ closed[serves[j]]
    BY <1>1 DEF HoldsOn
  <2>1. conn'[page[j]] = j => conn[page[j]] = j /\ j # k BY <1>0, <1>1, <1>2
  <2>2. peer'[j] = "open" => peer[j] = "open" /\ j # k BY <1>0, <1>1
  <2>3. j # k => peer'[j] = peer[j] BY <1>0, <1>1
  <2>4. conn[page[j]] = j /\ j # k => conn'[page[j]] = j BY <1>0, <1>1
  <2> QED BY <1>2, <2>1, <2>2, <2>3, <2>4 DEF HoldsOn
<1> QED BY <1>3, <1>4, <1>5

LEMMA ConnectKept ==
    ASSUME IInv, KeptInv, ~AuthSuspends, NEW k \in Streams, Connect(k) PROVE KeptInv'
<1> USE DEF KeptInv
<1> DEFINE i == page[k]
<1>0. /\ phase \in [Streams -> {"idle", "authorizing", "opened", "streaming", "ended"}]
      /\ page \in [Streams -> Ids] /\ DOMAIN conn = Ids
      /\ peer \in [Streams -> {"open", "gone"}]
      /\ None \notin Streams /\ Streams \subseteq Int
  BY DEF IInv, TypeOK, None, Streams
<1>1. /\ phase[k] = "idle" /\ phase' = [phase EXCEPT ![k] = "authorizing"]
      /\ conn[i] = None /\ conn' = [conn EXCEPT ![i] = k]
      /\ UNCHANGED <<page, serves, token, tokens, mine, newest, peer, closed, shut, run>>
  BY DEF Connect, netVars, recordVars, endVars
<1>2. \A j \in Streams : j < k => phase[j] # "idle" BY DEF Connect
<1>3. \A j \in Streams : page[j] = i => phase[j] \notin {"authorizing", "opened"}
  BY DEF Connect, Settled
<1>4. \A j \in Streams : phase[j] # "idle" => j < k /\ j # k
  <2>1. \A j \in Streams : phase[j] # "idle" => j # k /\ ~(k < j) BY <1>1 DEF InOrder
  <2> QED BY <1>0, <2>1
<1>5. serves[k] = None /\ peer[k] = "open" BY <1>1 DEF ReadsItsOwn, HoldsOn
<1>6. /\ \A j \in Streams : phase'[j] # "idle" <=> phase[j] # "idle" \/ j = k
      /\ \A j \in Streams : j # k => phase'[j] = phase[j]
      /\ phase'[k] = "authorizing"
  BY <1>0, <1>1
<1>7. \A j \in Streams : conn'[page[j]] = j => j = k \/ (page[j] # i /\ conn[page[j]] = j)
  BY <1>0, <1>1
<1>8. IsLatest(k)' BY <1>0, <1>1, <1>4, <1>6 DEF IsLatest
<1>9. ASSUME NEW j \in Streams, j # k, page[j] # i \/ phase[j] # "idle", IsLatest(j)'
      PROVE  IsLatest(j)
  BY <1>1, <1>6, <1>9 DEF IsLatest
<1>10. ASSUME NEW j \in Streams, page[j] # i, IsLatest(j) PROVE IsLatest(j)'
  BY <1>1, <1>6, <1>10 DEF IsLatest
<1>11. ReadsItsOwn' /\ OneSession'
  <2>1. Sessions' = Sessions BY <1>1 DEF Sessions
  <2> QED BY <1>1, <1>5, <1>6, <2>1 DEF ReadsItsOwn, OneSession
<1>12. ClosedLast' BY <1>1, <1>6 DEF ClosedLast, NoneToCome
<1>13. InOrder'
  <2> SUFFICES ASSUME NEW m \in Streams
               PROVE  /\ \A j \in Streams : j < m /\ phase'[m] # "idle" => phase'[j] # "idle"
                      /\ phase'[m] \in {"authorizing", "opened"} \/ conn'[page'[m]] = m
                            => IsLatest(m)'
    BY DEF InOrder
  <2>1. CASE m = k BY <2>1, <1>2, <1>6, <1>8
  <2>2. CASE m # k
    <3>1. \A j \in Streams : j < m /\ phase'[m] # "idle" => phase'[j] # "idle"
      BY <2>2, <1>6 DEF InOrder
    <3>2. phase'[m] \in {"authorizing", "opened"} \/ conn'[page'[m]] = m
            => page[m] # i /\ IsLatest(m)
      BY <2>2, <1>1, <1>3, <1>6, <1>7 DEF InOrder
    <3> QED BY <1>10, <3>1, <3>2
  <2> QED BY <2>1, <2>2
<1>14. TokensRise'
  <2>1. \A j \in Streams : serves[j] # None => j # k /\ phase[j] # "idle"
    BY <1>5 DEF ReadsItsOwn
  <2> QED BY <1>1, <1>9, <2>1 DEF TokensRise
<1>15. GenerationsFollow' BY <1>1, <1>6 DEF GenerationsFollow
<1>16. HoldsOn'
  <2> SUFFICES ASSUME NEW j \in Streams
               PROVE  /\ phase'[j] = "idle" \/ conn'[page[j]] = j => peer[j] = "open"
                      /\ (serves[j] # None \/ phase'[j] = "authorizing") /\ peer[j] = "open"
                            => conn'[page[j]] = j
                      /\ conn'[page[j]] = j /\ phase'[j] = "ended"
                            => serves[j] # None /\ closed[serves[j]]
    BY <1>1 DEF HoldsOn
  <2>1. CASE j = k BY <2>1, <1>0, <1>1, <1>5, <1>6
  <2>2. CASE j # k
    <3>1. (serves[j] # None \/ phase[j] = "authorizing") /\ peer[j] = "open" => page[j] # i
      BY <1>0, <1>1 DEF HoldsOn
    <3>2. page[j] # i => conn'[page[j]] = conn[page[j]] BY <1>0, <1>1
    <3> QED BY <2>2, <1>6, <1>7, <3>1, <3>2 DEF HoldsOn
  <2> QED BY <2>1, <2>2
<1> QED BY <1>11, <1>12, <1>13, <1>14, <1>15, <1>16

\* A request is admitted to a session of its page, and has its newest token.
LEMMA AdmitKept ==
    ASSUME IInv, KeptInv, NEW k \in Streams, NEW x \in Streams, NEW n \in Nat,
           phase[k] = "authorizing", phase' = [phase EXCEPT ![k] = "opened"],
           serves' = [serves EXCEPT ![k] = x],
           tokens' = [tokens EXCEPT ![x] = n], token' = [token EXCEPT ![k] = n],
           UNCHANGED <<conn, page, mine, newest, peer, closed, shut>>,
           x \in Sessions', page[x] = page[k], Sessions \subseteq Sessions', OneSession',
           \A j \in Streams : serves[j] = x => tokens[x] < n
    PROVE  KeptInv'
<1> USE DEF KeptInv
<1>0. /\ phase \in [Streams -> {"idle", "authorizing", "opened", "streaming", "ended"}]
      /\ page \in [Streams -> Ids] /\ serves \in [Streams -> Streams \cup {None}]
      /\ tokens \in [Streams -> Nat] /\ token \in [Streams -> Nat]
      /\ None \notin Streams /\ Streams \subseteq Int
  BY DEF IInv, TypeOK, None, Streams
<1>1. /\ phase'[k] = "opened" /\ \A j \in Streams : j # k => phase'[j] = phase[j]
      /\ serves'[k] = x /\ \A j \in Streams : j # k => serves'[j] = serves[j]
      /\ token'[k] = n /\ \A j \in Streams : j # k => token'[j] = token[j]
      /\ tokens'[x] = n /\ \A y \in Streams : y # x => tokens'[y] = tokens[y]
  BY <1>0
<1>2. \A j \in Streams : IsLatest(j)' <=> IsLatest(j)
  <2>1. \A j \in Streams : phase'[j] = "idle" <=> phase[j] = "idle" BY <1>1
  <2> QED BY <2>1, LatestStays
<1>3. IsLatest(k) BY DEF InOrder
<1>4. ASSUME NEW j \in Streams, j # k, serves[j] = x
      PROVE  j < k /\ ~IsLatest(j) /\ token[j] < n
  <2>1. page[j] = page[k] /\ phase[j] # "idle" BY <1>0, <1>4 DEF ReadsItsOwn
  <2>2. j < k BY <1>0, <1>3, <1>4, <2>1 DEF IsLatest
  <2>3. ~IsLatest(j) BY <1>0, <2>1, <2>2 DEF IsLatest
  <2>4. token[j] <= tokens[x] BY <1>0, <1>4 DEF TokensRise
  <2> QED BY <1>0, <1>4, <2>2, <2>3, <2>4
<1>5. ReadsItsOwn' BY <1>0, <1>1 DEF ReadsItsOwn
<1>6. ClosedLast' BY <1>1 DEF ClosedLast, NoneToCome
<1>7. InOrder'
  <2> SUFFICES ASSUME NEW m \in Streams
               PROVE  /\ \A j \in Streams : j < m /\ phase'[m] # "idle" => phase'[j] # "idle"
                      /\ phase'[m] \in {"authorizing", "opened"} \/ conn'[page'[m]] = m
                            => IsLatest(m)'
    BY DEF InOrder
  <2>1. \A j \in Streams : phase'[j] = "idle" <=> phase[j] = "idle" BY <1>1
  <2>2. phase'[m] \in {"authorizing", "opened"} => phase[m] \in {"authorizing", "opened"} BY <1>1
  <2> QED BY <1>2, <2>1, <2>2 DEF InOrder
<1>8. TokensRise'
  <2>1. ASSUME NEW j \in Streams, serves'[j] # None
        PROVE  /\ token'[j] <= tokens'[serves'[j]]
               /\ IsLatest(j)' => token'[j] = tokens'[serves'[j]]
    <3>1. CASE j = k BY <1>1, <3>1
    <3>2. CASE j # k /\ serves[j] = x BY <1>0, <1>1, <1>2, <1>4, <3>2
    <3>3. CASE j # k /\ serves[j] # x
      <4>1. serves[j] \in Streams /\ serves'[j] = serves[j] BY <1>0, <1>1, <2>1, <3>3
      <4> QED BY <1>1, <1>2, <3>3, <4>1, <2>1 DEF TokensRise
    <3> QED BY <3>1, <3>2, <3>3
  <2>2. ASSUME NEW j \in Streams, NEW m \in Streams, j < m,
               serves'[j] = serves'[m], serves'[j] # None
        PROVE  token'[j] < token'[m]
    <3>1. CASE m = k BY <1>0, <1>1, <1>4, <2>2, <3>1
    <3>2. CASE j = k
      <4>1. m # k /\ serves[m] = x BY <1>0, <1>1, <2>2, <3>2
      <4> QED BY <1>0, <1>4, <2>2, <3>2, <4>1
    <3>3. CASE j # k /\ m # k BY <1>1, <2>2, <3>3 DEF TokensRise
    <3> QED BY <3>1, <3>2, <3>3
  <2> QED BY <2>1, <2>2 DEF TokensRise
<1>9. GenerationsFollow'
  <2> SUFFICES ASSUME NEW j \in Streams, phase'[j] = "streaming",
                      token'[j] = tokens'[serves'[j]]
               PROVE  mine[j] = newest[serves'[j]]
    BY DEF GenerationsFollow
  <2>1. j # k /\ phase[j] = "streaming" /\ serves'[j] = serves[j] /\ token'[j] = token[j]
    BY <1>1
  <2>2. serves[j] \in Streams BY <2>1 DEF IInv, Relations, BodyFirst
  <2>3. serves[j] # x BY <1>0, <1>1, <1>4, <2>1
  <2> QED BY <1>1, <2>1, <2>2, <2>3 DEF GenerationsFollow
<1>10. HoldsOn' BY <1>0, <1>1 DEF HoldsOn
<1> QED BY <1>5, <1>6, <1>7, <1>8, <1>9, <1>10

LEMMA OpenNewKept ==
    ASSUME IInv, KeptInv, NEW k \in Streams, OpenNew(k) PROVE KeptInv'
<1>0. /\ page \in [Streams -> Ids] /\ serves \in [Streams -> Streams \cup {None}]
      /\ DOMAIN run = Streams /\ k # None
  BY DEF IInv, TypeOK, Streams, None
<1>1. /\ phase[k] = "authorizing" /\ phase' = [phase EXCEPT ![k] = "opened"]
      /\ rec[page[k]] = None /\ run' = [run EXCEPT ![k] = "spawned"]
      /\ serves' = [serves EXCEPT ![k] = k]
      /\ tokens' = [tokens EXCEPT ![k] = 1] /\ token' = [token EXCEPT ![k] = 1]
      /\ UNCHANGED <<conn, page, mine, newest, peer, closed, shut>>
  BY DEF OpenNew, MayServe, pageVars, streamVars, netVars, endVars
<1>2. run[k] = "none" BY <1>1 DEF IInv, Relations, Unadmitted
<1>3. Sessions' = Sessions \cup {k} BY <1>0, <1>1 DEF Sessions
<1>4. \A x \in Sessions : page[x] # page[k]
  <2> SUFFICES ASSUME NEW x \in Sessions, page[x] = page[k] PROVE FALSE OBVIOUS
  <2>1. x \in Streams /\ x # None BY DEF Sessions, Streams, None
  <2>2. closed[x] BY <1>1, <2>1 DEF IInv, Relations, Registered, OpenSessions
  <2> QED BY <1>1, <2>1, <2>2 DEF KeptInv, ClosedLast, NoneToCome
<1>5. OneSession' BY <1>1, <1>3, <1>4 DEF KeptInv, OneSession
<1>6. \A j \in Streams : serves[j] # k
  BY <1>0, <1>2 DEF KeptInv, ReadsItsOwn, Sessions
<1>7. page[k] = page[k] /\ 1 \in Nat /\ k \in Sessions' /\ Sessions \subseteq Sessions' BY <1>3
<1> QED BY <1>1, <1>5, <1>6, <1>7, AdmitKept

LEMMA TakeOverKept ==
    ASSUME IInv, KeptInv, NEW k \in Streams, TakeOver(k) PROVE KeptInv'
<1> DEFINE x == rec[page[k]]
<1>0. page[k] \in Ids /\ x \in Streams /\ x # None /\ tokens \in [Streams -> Nat]
  BY DEF IInv, TypeOK, TakeOver
<1>1. /\ phase[k] = "authorizing" /\ phase' = [phase EXCEPT ![k] = "opened"]
      /\ serves' = [serves EXCEPT ![k] = x]
      /\ tokens' = [tokens EXCEPT ![x] = @ + 1] /\ token' = [token EXCEPT ![k] = tokens[x] + 1]
      /\ UNCHANGED <<conn, page, mine, newest, peer, closed, shut, run>>
  BY DEF TakeOver, MayServe, pageVars, netVars, endVars
<1>2. x \in Sessions /\ page[x] = page[k]
  BY <1>0 DEF IInv, Relations, Registered, OpenSessions
<1>3. Sessions' = Sessions BY <1>1 DEF Sessions
<1>4. OneSession' BY <1>1, <1>3 DEF KeptInv, OneSession
<1>5. tokens' = [tokens EXCEPT ![x] = tokens[x] + 1] BY <1>1
<1>6. tokens[x] + 1 \in Nat /\ tokens[x] < tokens[x] + 1 BY <1>0
<1> HIDE DEF x
<1> QED BY <1>0, <1>1, <1>2, <1>3, <1>4, <1>5, <1>6, AdmitKept

\* The last stream of a page retires the others.
LEMMA StartKept ==
    ASSUME IInv, KeptInv, NEW k \in Streams, StartBody(k) PROVE KeptInv'
<1> USE DEF KeptInv
<1> DEFINE x == serves[k]
<1>0. /\ phase \in [Streams -> {"idle", "authorizing", "opened", "streaming", "ended"}]
      /\ mine \in [Streams -> Nat] /\ newest \in [Streams -> Nat]
      /\ token \in [Streams -> Nat] /\ None \notin Streams /\ Streams \subseteq Int
  BY DEF IInv, TypeOK, None, Streams
<1>1. /\ phase[k] = "opened" /\ phase' = [phase EXCEPT ![k] = "streaming"]
      /\ newest' = [newest EXCEPT ![x] = @ + 1] /\ mine' = [mine EXCEPT ![k] = newest[x] + 1]
      /\ UNCHANGED <<conn, page, serves, token, tokens, peer, closed, shut, run>>
  BY DEF StartBody, pageVars, netVars, recordVars, endVars
<1>2. x \in Streams BY <1>1 DEF IInv, Relations, BodyFirst
<1>3. \A j \in Streams : IsLatest(j)' <=> IsLatest(j)
  <2>1. \A j \in Streams : phase'[j] = "idle" <=> phase[j] = "idle" BY <1>0, <1>1
  <2>2. UNCHANGED page BY <1>1
  <2> QED BY <2>1, <2>2, LatestStays
<1>4. token[k] = tokens[x] BY <1>0, <1>1, <1>2 DEF InOrder, TokensRise
<1>5. \A j \in Streams : j # k /\ serves[j] = x => token[j] # tokens[x]
  <2> SUFFICES ASSUME NEW j \in Streams, j # k, serves[j] = x PROVE token[j] # tokens[x]
    OBVIOUS
  <2>1. j < k \/ k < j BY <1>0
  <2>2. token[j] < token[k] \/ token[k] < token[j] BY <1>0, <1>2, <2>1 DEF TokensRise
  <2> QED BY <1>0, <1>4, <2>2
<1>6. ReadsItsOwn' /\ OneSession'
  <2>1. Sessions' = Sessions BY <1>1 DEF Sessions
  <2> QED BY <1>0, <1>1, <2>1 DEF ReadsItsOwn, OneSession
<1>7. ClosedLast' BY <1>0, <1>1 DEF ClosedLast, NoneToCome
<1>8. InOrder'
  <2>1. \A j \in Streams : /\ phase'[j] = "idle" <=> phase[j] = "idle"
                           /\ phase'[j] \in {"authorizing", "opened"} => phase'[j] = phase[j]
    BY <1>0, <1>1
  <2> QED BY <1>1, <1>3, <2>1 DEF InOrder
<1>9. TokensRise' BY <1>1, <1>3 DEF TokensRise
<1>10. GenerationsFollow'
  <2> SUFFICES ASSUME NEW j \in Streams, phase'[j] = "streaming", token[j] = tokens[serves[j]]
               PROVE  mine'[j] = newest'[serves[j]]
    BY <1>1 DEF GenerationsFollow
  <2>1. CASE j = k BY <2>1, <1>0, <1>1, <1>2
  <2>2. CASE j # k
    <3>1. phase[j] = "streaming" /\ mine'[j] = mine[j] BY <2>2, <1>0, <1>1
    <3>2. serves[j] \in Streams BY <3>1 DEF IInv, Relations, BodyFirst
    <3>3. serves[j] # x BY <2>2, <1>5
    <3>4. newest'[serves[j]] = newest[serves[j]] BY <3>2, <3>3, <1>0, <1>1
    <3> QED BY <3>1, <3>4 DEF GenerationsFollow
  <2> QED BY <2>1, <2>2
<1>11. HoldsOn' BY <1>0, <1>1 DEF HoldsOn
<1> QED BY <1>6, <1>7, <1>8, <1>9, <1>10, <1>11

\* Where a drop is noticed, no request is to come and no page reads the session.
LEMMA DropKept ==
    ASSUME IInv, KeptInv, PromptReconnect, NEW k \in Streams, DropNoticed(k)
    PROVE  /\ KeptInv'
           /\ \A i \in Ids : rec[i] # None /\ rec'[i] = None => ~Attended(rec[i])
<1> USE DEF KeptInv
<1> DEFINE x == serves[k]
<1>0. /\ phase \in [Streams -> {"idle", "authorizing", "opened", "streaming", "ended"}]
      /\ page \in [Streams -> Ids] /\ token \in [Streams -> Nat]
      /\ rec \in [Ids -> Streams \cup {None}]
      /\ closed \in [Streams -> BOOLEAN] /\ shut \in [Streams -> BOOLEAN]
      /\ None \notin Streams /\ Streams \subseteq Int
  BY DEF IInv, TypeOK, None, Streams
<1>1. /\ phase[k] = "streaming" /\ phase' = [phase EXCEPT ![k] = "ended"]
      /\ peer[k] = "gone" /\ Release(page[k], token[k])
      /\ tokens[x] # token[k] \/ NoneToCome
      /\ UNCHANGED <<conn, page, serves, token, tokens, mine, newest, peer, run>>
  BY DEF DropNoticed, EndStream, pageVars, streamVars, netVars, NoneToCome
<1>2. x \in Streams /\ x # None BY <1>0, <1>1 DEF IInv, Relations, BodyFirst
<1>3. ReadsItsOwn' /\ OneSession' /\ InOrder' /\ TokensRise' /\ GenerationsFollow'
  BY <1>0, <1>1, LeaveKept
<1>4. conn[page[k]] # k BY <1>1 DEF HoldsOn
<1>5. CASE rec[page[k]] = None \/ tokens[rec[page[k]]] # token[k]
  <2>1. UNCHANGED <<rec, closed, shut>> BY <1>1, <1>5 DEF Release, Drop, endVars
  <2>2. ClosedLast' BY <1>0, <1>1, <2>1 DEF ClosedLast, NoneToCome
  <2>3. HoldsOn' BY <1>0, <1>1, <1>4, <2>1 DEF HoldsOn
  <2> QED BY <1>3, <2>1, <2>2, <2>3
<1>6. CASE rec[page[k]] # None /\ tokens[rec[page[k]]] = token[k]
  <2>1. rec[page[k]] = x BY <1>2, <1>6, RegisteredIsRead
  <2>2. /\ rec' = [rec EXCEPT ![page[k]] = None]
        /\ closed' = [closed EXCEPT ![x] = TRUE] /\ shut' = [shut EXCEPT ![x] = TRUE]
    BY <1>1, <1>6, <2>1 DEF Release, Drop
  <2>3. NoneToCome' BY <1>0, <1>1, <1>6, <2>1 DEF NoneToCome
  <2>4. ClosedLast' BY <1>0, <1>2, <2>2, <2>3 DEF ClosedLast
  <2>5. HoldsOn' BY <1>0, <1>1, <1>2, <1>4, <2>2 DEF HoldsOn
  <2>6. ~Attended(x)
    <3> SUFFICES ASSUME NEW j \in Streams, serves[j] = x, peer[j] = "open" PROVE FALSE
      BY DEF Attended
    <3>1. IsLatest(j) BY <1>2 DEF HoldsOn, InOrder
    <3>2. token[j] = token[k] BY <1>2, <1>6, <2>1, <3>1 DEF TokensRise
    <3>3. j # k BY <1>1
    <3>4. j < k \/ k < j BY <1>0, <3>3
    <3>5. token[j] < token[k] \/ token[k] < token[j] BY <1>2, <3>4 DEF TokensRise
    <3> QED BY <1>0, <3>2, <3>5
  <2>7. \A i \in Ids : rec[i] # None /\ rec'[i] = None => i = page[k]
    BY <1>0, <2>2
  <2> QED BY <1>3, <2>1, <2>4, <2>5, <2>6, <2>7
<1> QED BY <1>5, <1>6

LEMMA KeptStep ==
    ASSUME ComesBackInTime, IInv, KeptInv, [Next]_vars
    PROVE  /\ KeptInv'
           /\ \A i \in Ids : rec[i] # None /\ rec'[i] = None => ~Attended(rec[i])
<1> USE DEF ComesBackInTime
<1> DEFINE Spares == \A i \in Ids : rec[i] # None /\ rec'[i] = None => ~Attended(rec[i])
<1>0. UNCHANGED rec => Spares OBVIOUS
<1> SUFFICES KeptInv' /\ Spares OBVIOUS
<1> HIDE DEF Spares
<1>1. ASSUME NEW k \in Streams, Connect(k) PROVE KeptInv' /\ Spares
  BY <1>0, <1>1, ConnectKept DEF Connect, recordVars
<1>2. ASSUME NEW k \in Streams, Stream(k) PROVE KeptInv' /\ Spares
  <2>1. CASE Refuse(k) BY <1>0, <2>1, RefuseKept DEF Refuse, recordVars
  <2>2. CASE OpenNew(k)
    <3>1. KeptInv' BY <2>2, OpenNewKept
    <3>2. rec' = [rec EXCEPT ![page[k]] = k] /\ rec[page[k]] = None BY <2>2 DEF OpenNew
    <3>3. DOMAIN rec = Ids BY DEF IInv, TypeOK
    <3> QED BY <3>1, <3>2, <3>3 DEF Spares
  <2>3. CASE TakeOver(k) BY <1>0, <2>3, TakeOverKept DEF TakeOver
  <2>4. CASE StartBody(k) BY <1>0, <2>4, StartKept DEF StartBody, recordVars
  <2>5. CASE AbandonBody(k) BY <1>0, <2>5, AbandonKept DEF AbandonBody, recordVars
  <2>6. CASE TakePending(k) \/ YieldNext(k)
    <3>1. /\ UNCHANGED <<phase, serves, token, tokens, mine, newest, conn, peer, page>>
          /\ UNCHANGED <<closed, shut, rec, run>>
      BY <2>6 DEF TakePending, YieldNext, pageVars, requestVars, recordVars, endVars
    <3>2. SameSessions BY <3>1 DEF SameSessions
    <3> QED BY <1>0, <3>1, <3>2, KeptStays
  <2>7. CASE StreamEnds(k) BY <1>0, <2>7, StreamEndsKept, StreamDropsNothing
  <2> QED BY <1>2, <2>1, <2>2, <2>3, <2>4, <2>5, <2>6, <2>7 DEF Stream
<1>3. ASSUME NEW k \in Streams, DropNoticed(k) PROVE KeptInv' /\ Spares
  BY <1>3, DropKept DEF Spares
<1>4. ASSUME NEW x \in Streams, Run(x) \/ Rebuild(x) PROVE KeptInv' /\ Spares
  <2>1. UNCHANGED <<closed, shut, rec>>
    <3>1. CASE MountFails(x) \/ RunEnds(x) BY <3>1, TaskDropsNothing
    <3>2. CASE ~(MountFails(x) \/ RunEnds(x))
      BY <1>4, <3>2 DEF Run, Mount, Rebuild, Receive, Handled, recordVars, endVars
    <3> QED BY <3>1, <3>2
  <2>2. /\ UNCHANGED <<phase, serves, token, tokens, mine, newest, conn, peer, page>>
        /\ SameSessions
    <3>1. DOMAIN run = Streams BY DEF IInv, TypeOK
    <3> QED BY <1>4, <3>1 DEF Run, Mount, MountFails, Rebuild, Receive, Handled, RunEnds,
              SameSessions, pageVars, requestVars, streamVars, netVars, recordVars
  <2> QED BY <1>0, <2>1, <2>2, KeptStays
<1>5. ASSUME NEW i \in Ids, Lose(i) \/ EndOfStream(i) PROVE KeptInv' /\ Spares
  BY <1>0, <1>5, DisconnectKept DEF Lose, EndOfStream, recordVars
<1>6. ASSUME NEW i \in Ids, Show(i) \/ \E event \in {Click, Resync} : Post(i, event)
      PROVE  KeptInv' /\ Spares
  <2>1. /\ UNCHANGED <<phase, serves, token, tokens, mine, newest, conn, peer, page>>
        /\ UNCHANGED <<closed, shut, rec, run>>
    BY <1>6 DEF Show, Post, requestVars, streamVars, netVars, recordVars, endVars
  <2>2. SameSessions BY <2>1 DEF SameSessions
  <2> QED BY <1>0, <2>1, <2>2, KeptStays
<1>7. CASE UNCHANGED vars
  <2>1. /\ UNCHANGED <<phase, serves, token, tokens, mine, newest, conn, peer, page>>
        /\ UNCHANGED <<closed, shut, rec, run>>
    BY <1>7 DEF vars, pageVars, requestVars, streamVars, netVars, recordVars, endVars
  <2>2. SameSessions BY <2>1 DEF SameSessions
  <2> QED BY <1>0, <2>1, <2>2, KeptStays
<1>8. CASE Next
  <2>1. CASE \E k \in Streams : Connect(k) \/ Stream(k) \/ DropNoticed(k)
    BY <2>1, <1>1, <1>2, <1>3
  <2>2. CASE \E x \in Streams : Run(x) \/ Rebuild(x) BY <2>2, <1>4
  <2>3. CASE \E i \in Ids : Lose(i) \/ EndOfStream(i) \/ Show(i) BY <2>3, <1>5, <1>6
  <2>4. CASE \E i \in Ids, event \in {Click, Resync} : Post(i, event) BY <2>4, <1>6
  <2> QED BY <1>8, <2>1, <2>2, <2>3, <2>4 DEF Next
<1> QED BY <1>7, <1>8

\* Such pages have one session each, read by the last stream they opened.
THEOREM KeptInvariant == ASSUME ComesBackInTime PROVE Spec => []KeptInv
<1>1. Init => KeptInv BY InitKept
<1>2. IInv /\ KeptInv /\ [Next]_vars => KeptInv' BY KeptStep
<1> QED BY <1>1, <1>2, SseInvariant, PTL DEF Spec

\* EventSource and _release_sse: a page that comes back before its drop is
\* noticed is never dropped while it reads, whatever is evicted, lost or refused.
THEOREM ReturningPagesAreKept == ASSUME ComesBackInTime PROVE Spec => OnlyUnattendedDropped
<1>1. IInv /\ KeptInv /\ [Next]_vars =>
         [\A i \in Ids : rec[i] # None /\ rec'[i] = None /\ run[rec[i]] # "spawned"
             => ~Attended(rec[i])]_vars
  BY KeptStep
<1> QED BY <1>1, SseInvariant, KeptInvariant, PTL DEF Spec, OnlyUnattendedDropped

-----------------------------------------------------------------------------
(* The scene a page shows, where besides its first frame arrives and no    *)
(* connection is ever full.                                                *)

KeepsReading == \A k \in Streams : Len(wire[k]) < SendWindow

\* A sequence of ticks without a gap, from the tick after n on; and one that has
\* nothing but a whole scene under the number n.
Numbered(q, n) == \A j \in 1..Len(q) : q[j].id = n + j
Whole(q, n) == \A j \in 1..Len(q) : q[j].id = n => q[j].root

\* The buffer has no gap and ends with the last tick.
BufferIsWhole == \A x \in Streams :
    /\ Len(history[x]) <= nextId[x]
    /\ Numbered(history[x], nextId[x] - Len(history[x]))
    /\ run[x] \in {"none", "spawned"} => nextId[x] = 0
    /\ run[x] \in {"receiving", "handling"} => nextId[x] # 0

\* A page shows the last tick that it received of the session it has.
PageShows == \A i \in Ids :
    \/ lastId[i] = 0 /\ tree[i] = Blank
    \/ /\ lastId[i] # 0
       /\ \E x \in Sessions : /\ page[x] = i /\ lastId[i] <= nextId[x]
                              /\ tree[i] = [of |-> x, at |-> lastId[i]]

\* A page that received nothing is on its first connection.
FirstTry == NoneToCome \/ \A k \in Streams :
    lastId[page[k]] = 0 /\ phase[k] # "idle" => conn[page[k]] \in {k, Dead}

\* The last tick before those on the wire.
Before(k) == cursor[k] - Len(wire[k])

\* From the wire through the batch to the end of the buffer, no tick is missing.
NoGap(k) ==
    /\ Before(k) >= 0
    /\ Numbered(wire[k], Before(k)) /\ Numbered(batch[k], cursor[k])
    /\ cursor[k] + Len(batch[k]) <= nextId[serves[k]]
    /\ nextId[serves[k]] <= cursor[k] + Len(batch[k]) + Len(history[serves[k]])

\* The next tick is a whole scene.
StartsWhole(k) ==
    /\ Before(k) < nextId[serves[k]] \/ nextId[serves[k]] = 0
    /\ Whole(wire[k], Before(k) + 1) /\ Whole(batch[k], Before(k) + 1)
    /\ Whole(history[serves[k]], Before(k) + 1)

\* What comes to a page follows what it shows, or starts with a whole scene.
Follows(k) ==
    /\ phase[k] = "authorizing" => cursor[k] = lastId[page[k]]
    /\ serves[k] # None =>
          /\ NoGap(k)
          /\ (lastId[page[k]] # 0 /\ lastId[page[k]] = Before(k)) \/ StartsWhole(k)

PagesFollow == \A k \in Streams : conn[page[k]] = k => Follows(k)

MirrorInv == BufferIsWhole /\ PageShows /\ FirstTry /\ PagesFollow

-----------------------------------------------------------------------------
LEMMA NumberedTail ==
    ASSUME NEW q \in Seq(Ticks), q # <<>>, NEW n \in Nat, Numbered(q, n)
    PROVE  /\ Head(q).id = n + 1 /\ Head(q) = q[1] /\ 1 \in 1..Len(q)
           /\ Tail(q) \in Seq(Ticks) /\ Len(Tail(q)) = Len(q) - 1 /\ Numbered(Tail(q), n + 1)
           /\ \A m : Whole(q, m) => Whole(Tail(q), m) /\ (Head(q).id = m => Head(q).root)
<1>1. /\ Tail(q) \in Seq(Ticks) /\ Len(Tail(q)) = Len(q) - 1 /\ Len(q) \in Nat
      /\ \A j \in 1..Len(Tail(q)) : Tail(q)[j] = q[j + 1]
  BY HeadTailProperties
<1>2. 1 \in 1..Len(q) /\ Head(q) = q[1] BY <1>1
<1>3. \A j \in 1..Len(Tail(q)) : j + 1 \in 1..Len(q) BY <1>1
<1> DEFINE s == Tail(q)
<1> HIDE DEF s
<1>4. Numbered(s, n + 1) BY <1>1, <1>3 DEF Numbered, s
<1>5. ASSUME NEW m, Whole(q, m) PROVE Whole(s, m) /\ (Head(q).id = m => Head(q).root)
  BY <1>1, <1>2, <1>3, <1>5 DEF Whole, s
<1> QED BY <1>1, <1>2, <1>4, <1>5 DEF Numbered, s

LEMMA NumberedAppend ==
    ASSUME NEW q \in Seq(Ticks), NEW n \in Nat, Numbered(q, n),
           NEW e \in Ticks, e.id = n + Len(q) + 1
    PROVE  /\ Append(q, e) \in Seq(Ticks) /\ Len(Append(q, e)) = Len(q) + 1
           /\ Numbered(Append(q, e), n)
           /\ \A m : Whole(q, m) /\ (e.id = m => e.root) => Whole(Append(q, e), m)
<1>1. /\ Append(q, e) \in Seq(Ticks) /\ Len(Append(q, e)) = Len(q) + 1 /\ Len(q) \in Nat
      /\ \A j \in 1..Len(q) : Append(q, e)[j] = q[j]
      /\ Append(q, e)[Len(q) + 1] = e
  BY AppendProperties
<1> DEFINE s == Append(q, e)
<1> HIDE DEF s
<1>2. \A j \in 1..Len(s) : j \in 1..Len(q) \/ j = Len(q) + 1 BY <1>1 DEF s
<1>3. Numbered(s, n) BY <1>1, <1>2 DEF Numbered, s
<1>4. ASSUME NEW m, Whole(q, m), e.id = m => e.root PROVE Whole(s, m)
  BY <1>1, <1>2, <1>4 DEF Whole, s
<1> QED BY <1>1, <1>3, <1>4 DEF s

\* The end of a sequence without a gap.
LEMMA NumberedEnd ==
    ASSUME NEW q \in Seq(Ticks), NEW n \in Nat, Numbered(q, n), NEW d \in 0..Len(q)
    PROVE  LET s == SubSeq(q, d + 1, Len(q)) IN
           /\ s \in Seq(Ticks) /\ Len(s) = Len(q) - d /\ Numbered(s, n + d)
           /\ \A j \in 1..Len(s) : d + j \in 1..Len(q) /\ s[j] = q[d + j]
           /\ \A m : Whole(q, m) => Whole(s, m)
<1> DEFINE s == SubSeq(q, d + 1, Len(q))
<1>0. Len(q) \in Nat /\ d \in Nat /\ d <= Len(q) /\ d + 1 \in Int /\ Len(q) \in Int OBVIOUS
<1>1. /\ s \in Seq(Ticks)
      /\ Len(s) = IF d + 1 <= Len(q) THEN Len(q) - (d + 1) + 1 ELSE 0
      /\ \A j \in 1..(Len(q) - (d + 1) + 1) : s[j] = q[(d + 1) + j - 1]
  <2>1. \A j \in (d + 1)..Len(q) : q[j] \in Ticks BY <1>0, TickFields
  <2> QED BY <1>0, <2>1, SubSeqProperties
<1> HIDE DEF s
<1>2. Len(s) = Len(q) - d BY <1>0, <1>1
<1>3. \A j \in 1..Len(s) : d + j \in 1..Len(q) /\ s[j] = q[d + j]
  <2> SUFFICES ASSUME NEW j \in 1..Len(s) PROVE d + j \in 1..Len(q) /\ s[j] = q[d + j] OBVIOUS
  <2>1. j \in 1..(Len(q) - (d + 1) + 1) /\ (d + 1) + j - 1 = d + j BY <1>0, <1>2
  <2> QED BY <1>0, <1>1, <1>2, <2>1
<1>4. Numbered(s, n + d) BY <1>0, <1>2, <1>3 DEF Numbered
<1>5. ASSUME NEW m, Whole(q, m) PROVE Whole(s, m) BY <1>3, <1>5 DEF Whole
<1> QED BY <1>1, <1>2, <1>3, <1>4, <1>5 DEF s

LEMMA NumberedPast ==
    ASSUME NEW q \in Seq(Ticks), NEW n \in Nat, Numbered(q, n), NEW c \in n..(n + Len(q))
    PROVE  /\ PastId(q, c) \in Seq(Ticks) /\ Len(PastId(q, c)) = n + Len(q) - c
           /\ Numbered(PastId(q, c), c)
           /\ \A m : Whole(q, m) => Whole(PastId(q, c), m)
<1> DEFINE past == {j \in 1..Len(q) : q[j].id > c}
           first == CHOOSE j \in past : \A m \in past : j <= m
<1>0. Len(q) \in Nat /\ c \in Nat /\ n <= c /\ c <= n + Len(q) OBVIOUS
<1>1. \A j \in 1..Len(q) : j \in past <=> j > c - n BY <1>0 DEF Numbered
<1>2. CASE c = n + Len(q)
  <2>1. past = {} BY <1>0, <1>1, <1>2
  <2>2. PastId(q, c) = <<>> BY <2>1 DEF PastId
  <2>3. <<>> \in Seq(Ticks) /\ Len(<<>>) = 0 OBVIOUS
  <2>4. n + Len(q) - c = 0 BY <1>0, <1>2
  <2>5. Numbered(<<>>, c) /\ \A m : Whole(<<>>, m) BY <2>3 DEF Numbered, Whole
  <2> QED BY <2>2, <2>3, <2>4, <2>5
<1>3. CASE c # n + Len(q)
  <2>1. c - n + 1 \in past /\ \A m \in past : c - n + 1 <= m BY <1>0, <1>1, <1>3
  <2>2. first = c - n + 1
    <3>1. first \in past /\ \A m \in past : first <= m BY <2>1, Zenon
    <3>2. first <= c - n + 1 /\ c - n + 1 <= first BY <2>1, <3>1
    <3>3. first \in Int BY <3>1
    <3> HIDE DEF first, past
    <3> QED BY <1>0, <3>2, <3>3
  <2>3. PastId(q, c) = SubSeq(q, (c - n) + 1, Len(q))
    <3>1. past # {} BY <2>1
    <3> QED BY <2>2, <3>1 DEF PastId
  <2>4. c - n \in 0..Len(q) /\ n + (c - n) = c /\ Len(q) - (c - n) = n + Len(q) - c BY <1>0
  <2> DEFINE d == c - n
  <2> HIDE DEF d
  <2>5. d \in 0..Len(q) /\ n + d = c BY <2>4 DEF d
  <2>6. LET s == SubSeq(q, d + 1, Len(q)) IN
        /\ s \in Seq(Ticks) /\ Len(s) = Len(q) - d /\ Numbered(s, n + d)
        /\ \A m : Whole(q, m) => Whole(s, m)
    BY <2>5, NumberedEnd
  <2>7. PastId(q, c) = SubSeq(q, d + 1, Len(q)) BY <2>3 DEF d
  <2>8. Len(q) - d = n + Len(q) - c BY <2>4 DEF d
  <2> QED BY <2>5, <2>6, <2>7, <2>8
<1> QED BY <1>2, <1>3

\* _enqueue: the buffer has no gap, ends with the new tick, and lost its first
\* tick if it was full.
LEMMA EnqueueWhole ==
    ASSUME IInv, BufferIsWhole, NEW x \in Streams, NEW root \in BOOLEAN, Enqueue(x, root)
    PROVE  /\ nextId'[x] = nextId[x] + 1
           /\ \A y \in Streams : y # x => nextId'[y] = nextId[y] /\ history'[y] = history[y]
           /\ Len(history'[x]) <= nextId'[x] /\ 1 <= Len(history'[x])
           /\ Numbered(history'[x], nextId'[x] - Len(history'[x]))
           /\ Len(history'[x]) = IF Len(history[x]) = ReplayBuffer THEN Len(history[x])
                                                                  ELSE Len(history[x]) + 1
           /\ \A m : Whole(history[x], m) /\ (nextId'[x] = m => root) => Whole(history'[x], m)
<1> DEFINE e == [id |-> nextId[x] + 1, root |-> root]
           h == history[x]
           grown == Append(h, e)
           b == nextId[x] - Len(h)
<1>0. /\ ReplayBuffer \in Nat /\ ReplayBuffer > 0 /\ nextId[x] \in Nat /\ h \in Seq(Ticks)
      /\ DOMAIN nextId = Streams /\ DOMAIN history = Streams
      /\ Len(h) \in Nat /\ Len(h) <= ReplayBuffer
  BY ConstantsAssumption DEF ConstantsAssumption, IInv, TypeOK, Relations, BufferRises
<1>1. Len(h) <= nextId[x] /\ Numbered(h, b) BY DEF BufferIsWhole
<1>2. b \in Nat /\ e \in Ticks /\ e.id = nextId[x] + 1 /\ e.root = root BY <1>0, <1>1 DEF Ticks
<1>3. e.id = b + Len(h) + 1 BY <1>0, <1>2
<1> HIDE DEF e, b, h
<1>4. /\ grown \in Seq(Ticks) /\ Len(grown) = Len(h) + 1 /\ Numbered(grown, b)
      /\ \A m : Whole(h, m) /\ (e.id = m => e.root) => Whole(grown, m)
  BY <1>0, <1>1, <1>2, <1>3, NumberedAppend
<1>5. /\ nextId' = [nextId EXCEPT ![x] = nextId[x] + 1]
      /\ history' = [history EXCEPT ![x] = IF Len(grown) > ReplayBuffer
                                              THEN Newest(grown, ReplayBuffer) ELSE grown]
  BY DEF Enqueue, e, h
<1> HIDE DEF grown
<1>6. CASE Len(h) = ReplayBuffer
  <2>1. history'[x] = SubSeq(grown, 1 + 1, Len(grown))
    <3>1. Len(grown) > ReplayBuffer /\ Len(grown) - ReplayBuffer + 1 = 1 + 1 BY <1>0, <1>4, <1>6
    <3> QED BY <1>0, <1>5, <3>1 DEF Newest
  <2>2. 1 \in 0..Len(grown) BY <1>0, <1>4
  <2> DEFINE s == SubSeq(grown, 1 + 1, Len(grown))
  <2>3. /\ s \in Seq(Ticks) /\ Len(s) = Len(grown) - 1 /\ Numbered(s, b + 1)
        /\ \A m : Whole(grown, m) => Whole(s, m)
    BY <1>2, <1>4, <2>2, NumberedEnd
  <2> HIDE DEF s
  <2>4. history'[x] = s BY <2>1 DEF s
  <2>5. Len(s) = Len(h) /\ nextId[x] + 1 - Len(s) = b + 1 BY <1>0, <1>4, <2>3 DEF b
  <2> QED BY <1>0, <1>1, <1>2, <1>4, <1>5, <1>6, <2>3, <2>4, <2>5 DEF h
<1>7. CASE Len(h) # ReplayBuffer
  <2>1. history'[x] = grown BY <1>0, <1>4, <1>5, <1>7
  <2>2. nextId[x] + 1 - Len(grown) = b BY <1>0, <1>4 DEF b
  <2> QED BY <1>0, <1>1, <1>2, <1>4, <1>5, <1>7, <2>1, <2>2 DEF h
<1> QED BY <1>6, <1>7

LEMMA InitMirror == Init => MirrorInv
<1> SUFFICES ASSUME Init PROVE MirrorInv OBVIOUS
<1> USE DEF Init
<1>0. None \notin Streams /\ Len(<<>>) = 0 BY DEF None, Streams
<1>1. BufferIsWhole BY <1>0 DEF BufferIsWhole, Numbered
<1>2. PageShows /\ FirstTry BY DEF PageShows, FirstTry
<1>3. PagesFollow BY <1>0 DEF PagesFollow
<1> QED BY <1>1, <1>2, <1>3 DEF MirrorInv

\* A session goes on, or is over.
GoesOn == \A x \in Streams :
    \/ run'[x] = run[x] \/ (run[x] # "none" /\ run'[x] = "done")
    \/ {run[x], run'[x]} \subseteq {"receiving", "handling"}

\* What changes no tick and opens no connection.
LEMMA MirrorStays ==
    ASSUME MirrorInv, GoesOn, FirstTry',
           UNCHANGED <<lastId, tree, page, history, nextId, serves, cursor, batch>>,
           \A k \in Streams :
              /\ conn'[page[k]] = k => conn[page[k]] = k /\ wire'[k] = wire[k]
              /\ phase'[k] = "authorizing" => phase[k] = "authorizing"
    PROVE  MirrorInv'
<1> USE DEF MirrorInv
<1>1. BufferIsWhole'
  <2> SUFFICES ASSUME NEW x \in Streams
               PROVE  /\ run'[x] \in {"none", "spawned"} => nextId[x] = 0
                      /\ run'[x] \in {"receiving", "handling"} => nextId[x] # 0
    BY DEF BufferIsWhole
  <2>1. run'[x] \in {"none", "spawned"} => run'[x] = run[x] BY DEF GoesOn
  <2>2. run'[x] \in {"receiving", "handling"} => run[x] \in {"receiving", "handling"} BY DEF GoesOn
  <2> QED BY <2>1, <2>2 DEF BufferIsWhole
<1>2. PageShows'
  <2>1. Sessions \subseteq Sessions' BY DEF GoesOn, Sessions
  <2> QED BY <2>1 DEF PageShows
<1>3. PagesFollow'
  <2> SUFFICES ASSUME NEW k \in Streams, conn'[page[k]] = k PROVE Follows(k)'
    BY DEF PagesFollow
  <2>1. Follows(k) /\ wire'[k] = wire[k] BY DEF PagesFollow
  <2>2. Before(k)' = Before(k) BY <2>1 DEF Before
  <2>3. NoGap(k)' <=> NoGap(k) BY <2>1, <2>2 DEF NoGap
  <2>4. StartsWhole(k)' <=> StartsWhole(k) BY <2>1, <2>2 DEF StartsWhole
  <2> QED BY <2>1, <2>2, <2>3, <2>4 DEF Follows
<1> QED BY <1>1, <1>2, <1>3

LEMMA FirstStays ==
    ASSUME FirstTry, UNCHANGED <<lastId, page, conn>>,
           \A k \in Streams :
              /\ phase'[k] = "idle" <=> phase[k] = "idle"
              /\ phase'[k] = "authorizing" => phase[k] = "authorizing"
    PROVE  FirstTry'
BY DEF FirstTry, NoneToCome

LEMMA ConnectMirror ==
    ASSUME IInv, KeptInv, MirrorInv, NEW k \in Streams, Connect(k) PROVE MirrorInv'
<1> USE DEF MirrorInv
<1> DEFINE i == page[k]
<1>0. /\ phase \in [Streams -> {"idle", "authorizing", "opened", "streaming", "ended"}]
      /\ page \in [Streams -> Ids] /\ DOMAIN conn = Ids /\ DOMAIN cursor = Streams
      /\ None \notin Streams /\ Dead # None
  BY DEF IInv, TypeOK, None, Streams, Dead
<1>1. /\ phase[k] = "idle" /\ phase' = [phase EXCEPT ![k] = "authorizing"]
      /\ conn[i] = None /\ conn' = [conn EXCEPT ![i] = k]
      /\ cursor' = [cursor EXCEPT ![k] = lastId[i]]
      /\ UNCHANGED <<lastId, tree, page, serves, batch, wire, history, nextId, run>>
  BY DEF Connect, netVars, tickVars
<1>2. BufferIsWhole' /\ PageShows' BY <1>1 DEF BufferIsWhole, PageShows, Sessions
<1>3. FirstTry'
  <2>1. ~NoneToCome BY <1>1 DEF NoneToCome
  <2> SUFFICES ASSUME NEW j \in Streams, lastId[page[j]] = 0, phase'[j] # "idle"
               PROVE  conn'[page[j]] \in {j, Dead}
    BY <1>1 DEF FirstTry
  <2>2. CASE j = k BY <2>2, <1>0, <1>1
  <2>3. CASE j # k
    <3>1. conn[page[j]] \in {j, Dead} BY <2>1, <2>3, <1>0, <1>1 DEF FirstTry
    <3> QED BY <3>1, <1>0, <1>1
  <2> QED BY <2>2, <2>3
<1>4. PagesFollow'
  <2> SUFFICES ASSUME NEW j \in Streams, conn'[page[j]] = j PROVE Follows(j)'
    BY <1>1 DEF PagesFollow
  <2>1. CASE j = k
    <3>1. serves[k] = None BY <1>1 DEF KeptInv, ReadsItsOwn
    <3>2. cursor'[k] = lastId[i] BY <1>0, <1>1
    <3> QED BY <2>1, <3>1, <3>2, <1>1 DEF Follows
  <2>2. CASE j # k
    <3>1. conn[page[j]] = j /\ phase'[j] = phase[j] /\ cursor'[j] = cursor[j]
      BY <2>2, <1>0, <1>1
    <3>2. Follows(j) BY <3>1 DEF PagesFollow
    <3>3. Before(j)' = Before(j) BY <3>1, <1>1 DEF Before
    <3>4. NoGap(j)' <=> NoGap(j) BY <3>1, <3>3, <1>1 DEF NoGap
    <3>5. StartsWhole(j)' <=> StartsWhole(j) BY <3>3, <1>1 DEF StartsWhole
    <3> QED BY <3>1, <3>2, <3>3, <3>4, <3>5, <1>1 DEF Follows
  <2> QED BY <2>1, <2>2
<1> QED BY <1>2, <1>3, <1>4

\* A first connection opens the session: what comes to it is its first scene.
LEMMA OpenNewMirror ==
    ASSUME IInv, KeptInv, MirrorInv, NEW k \in Streams, OpenNew(k) PROVE MirrorInv'
<1> USE DEF MirrorInv
<1> DEFINE i == page[k]
<1>0. /\ phase \in [Streams -> {"idle", "authorizing", "opened", "streaming", "ended"}]
      /\ page \in [Streams -> Ids] /\ serves \in [Streams -> Streams \cup {None}]
      /\ run \in [Streams -> {"none", "spawned", "receiving", "handling", "done"}]
      /\ history \in [Streams -> Seq(Ticks)] /\ None \notin Streams
  BY DEF IInv, TypeOK, None, Streams
<1>1. /\ phase[k] = "authorizing" /\ phase' = [phase EXCEPT ![k] = "opened"]
      /\ rec[i] = None /\ run' = [run EXCEPT ![k] = "spawned"]
      /\ serves' = [serves EXCEPT ![k] = k]
      /\ UNCHANGED <<conn, lastId, tree, page, cursor, batch, wire, history, nextId>>
  BY DEF OpenNew, MayServe, pageVars, streamVars, netVars, tickVars
<1>2. run[k] = "none" /\ wire[k] = <<>> /\ batch[k] = <<>> /\ Len(<<>>) = 0
  BY <1>1 DEF IInv, Relations, Unadmitted, BodyFirst
<1>3. nextId[k] = 0 /\ Len(history[k]) = 0
  <2>1. nextId[k] = 0 /\ Len(history[k]) <= 0 BY <1>2 DEF BufferIsWhole
  <2> QED BY <1>0, <2>1
<1>4. lastId[i] = 0
  <2> SUFFICES ASSUME NEW x \in Sessions, page[x] = i PROVE FALSE
    BY <1>0 DEF PageShows
  <2>1. x \in Streams /\ x # None BY <1>0 DEF Sessions
  <2>2. closed[x] BY <1>1, <2>1 DEF IInv, Relations, Registered, OpenSessions
  <2> QED BY <1>1, <2>1, <2>2 DEF KeptInv, ClosedLast, NoneToCome
<1>5. BufferIsWhole' BY <1>0, <1>1, <1>3 DEF BufferIsWhole
<1>6. PageShows'
  <2>1. Sessions \subseteq Sessions' BY <1>0, <1>1 DEF Sessions
  <2> QED BY <1>1, <2>1 DEF PageShows
<1>7. FirstTry' BY <1>0, <1>1, FirstStays
<1>8. PagesFollow'
  <2> SUFFICES ASSUME NEW j \in Streams, conn[page[j]] = j PROVE Follows(j)'
    BY <1>1 DEF PagesFollow
  <2>0. Follows(j) BY DEF PagesFollow
  <2>1. CASE j = k
    <3>1. cursor[k] = 0 BY <2>0, <2>1, <1>1, <1>4 DEF Follows
    <3>2. Before(k)' = 0 /\ serves'[k] = k BY <3>1, <1>0, <1>1, <1>2 DEF Before
    <3>3. NoGap(k)' BY <3>1, <3>2, <1>1, <1>2, <1>3 DEF NoGap, Numbered
    <3>4. StartsWhole(k)' BY <3>2, <1>1, <1>2, <1>3 DEF StartsWhole, Whole
    <3> QED BY <2>1, <3>3, <3>4, <1>0, <1>1 DEF Follows
  <2>2. CASE j # k
    <3>1. serves'[j] = serves[j] /\ phase'[j] = phase[j] BY <2>2, <1>0, <1>1
    <3>3. Before(j)' = Before(j) BY <1>1 DEF Before
    <3>4. NoGap(j)' <=> NoGap(j) BY <3>1, <3>3, <1>1 DEF NoGap
    <3>5. StartsWhole(j)' <=> StartsWhole(j) BY <3>1, <3>3, <1>1 DEF StartsWhole
    <3> QED BY <2>0, <3>1, <3>3, <3>4, <3>5, <1>1 DEF Follows
  <2> QED BY <2>1, <2>2
<1> QED BY <1>5, <1>6, <1>7, <1>8

LEMMA RefuseMirror ==
    ASSUME IInv, MirrorInv, NEW k \in Streams, Refuse(k) PROVE MirrorInv'
<1>0. /\ phase \in [Streams -> {"idle", "authorizing", "opened", "streaming", "ended"}]
      /\ page \in [Streams -> Ids] /\ DOMAIN conn = Ids /\ Dead \notin Streams
  BY DEF IInv, TypeOK, Dead, Streams
<1>1. /\ phase[k] = "authorizing" /\ phase' = [phase EXCEPT ![k] = "ended"]
      /\ conn' = [conn EXCEPT ![page[k]] = IF @ = k THEN Dead ELSE @]
      /\ UNCHANGED <<lastId, tree, page, history, nextId, serves, cursor, batch, wire, run>>
  BY DEF Refuse, MayServe, streamVars, netVars, tickVars
<1>2. \A j \in Streams : /\ conn'[page[j]] = j => conn[page[j]] = j
                         /\ phase'[j] # "idle" => phase[j] # "idle"
                         /\ phase'[j] = "authorizing" => phase[j] = "authorizing"
                         /\ conn[page[j]] \in {j, Dead} => conn'[page[j]] \in {j, Dead}
  BY <1>0, <1>1
<1>3. NoneToCome => NoneToCome' BY <1>0, <1>1 DEF NoneToCome
<1>4. FirstTry' BY <1>1, <1>2, <1>3 DEF MirrorInv, FirstTry
<1>5. GoesOn BY <1>1 DEF GoesOn
<1> QED BY <1>1, <1>2, <1>4, <1>5, MirrorStays

\* A page comes back only after it received something, or for nothing.
LEMMA DisconnectMirror ==
    ASSUME IInv, KeptInv, MirrorInv, FirstFrameArrives, NEW i \in Ids, Lose(i) \/ EndOfStream(i)
    PROVE  MirrorInv'
<1> DEFINE k == conn[i]
<1>0. page \in [Streams -> Ids] /\ DOMAIN conn = Ids /\ DOMAIN wire = Streams /\ None \notin Streams
  BY DEF IInv, TypeOK, None, Streams
<1>1. /\ k \in Streams /\ conn' = [conn EXCEPT ![i] = None]
      /\ wire' = wire \/ wire' = [wire EXCEPT ![k] = <<>>]
      /\ UNCHANGED <<lastId, tree, page, phase, history, nextId, serves, cursor, batch, run>>
  BY DEF Lose, EndOfStream, requestVars, streamVars, tickVars
<1>2. page[k] = i BY <1>1 DEF IInv, Relations, Connected
<1>3. \A j \in Streams : conn'[page[j]] = j => conn[page[j]] = j /\ wire'[j] = wire[j]
  <2> SUFFICES ASSUME NEW j \in Streams, conn'[page[j]] = j
               PROVE  conn[page[j]] = j /\ wire'[j] = wire[j]
    OBVIOUS
  <2>1. page[j] # i /\ conn[page[j]] = j BY <1>0, <1>1
  <2>2. j # k BY <1>2, <2>1
  <2> QED BY <1>0, <1>1, <2>1, <2>2
<1>4. FirstTry'
  <2>1. CASE Lose(i)
    <3>1. lastId[i] # 0 BY <2>1 DEF Lose
    <3>2. NoneToCome => NoneToCome' BY <1>1 DEF NoneToCome
    <3>3. \A j \in Streams : lastId[page[j]] = 0 => conn'[page[j]] = conn[page[j]]
      BY <1>0, <1>1, <3>1
    <3> QED BY <1>1, <3>2, <3>3 DEF MirrorInv, FirstTry
  <2>2. CASE EndOfStream(i)
    <3>1. serves[k] \in Sessions /\ closed[serves[k]]
      BY <1>1, <1>2, <2>2 DEF EndOfStream, KeptInv, HoldsOn, ReadsItsOwn
    <3>2. NoneToCome BY <3>1 DEF Sessions, KeptInv, ClosedLast
    <3> QED BY <1>1, <3>2 DEF NoneToCome, FirstTry
  <2> QED BY <2>1, <2>2
<1>5. GoesOn BY <1>1 DEF GoesOn
<1> QED BY <1>1, <1>3, <1>4, <1>5, MirrorStays

\* A stream that starts or ends, a task that ends and an event that comes or is
\* taken change nothing a page is sent.
LEMMA QuietMirror ==
    ASSUME IInv, MirrorInv,
           \/ \E k \in Streams : StartBody(k) \/ AbandonBody(k) \/ StreamEnds(k) \/ DropNoticed(k)
           \/ \E x \in Streams : MountFails(x) \/ Handled(x) \/ RunEnds(x)
                                 \/ (Receive(x) /\ UNCHANGED tickVars)
           \/ \E i \in Ids, event \in {Click, Resync} : Post(i, event)
           \/ UNCHANGED vars
    PROVE  MirrorInv'
<1>0. /\ phase \in [Streams -> {"idle", "authorizing", "opened", "streaming", "ended"}]
      /\ run \in [Streams -> {"none", "spawned", "receiving", "handling", "done"}]
  BY DEF IInv, TypeOK
<1>1. UNCHANGED <<conn, lastId, tree, page, history, nextId, serves, cursor, batch, wire>>
  BY DEF StartBody, AbandonBody, StreamEnds, DropNoticed, EndStream, MountFails, Handled,
         RunEnds, Receive, Post, vars, pageVars, requestVars, streamVars, netVars, tickVars
<1>2. \A k \in Streams : /\ phase'[k] = "idle" <=> phase[k] = "idle"
                         /\ phase'[k] = "authorizing" => phase[k] = "authorizing"
  <2>1. CASE \E k \in Streams : StartBody(k) \/ AbandonBody(k) \/ StreamEnds(k) \/ DropNoticed(k)
    BY <1>0, <2>1 DEF StartBody, AbandonBody, StreamEnds, DropNoticed, EndStream
  <2>2. CASE ~\E k \in Streams : StartBody(k) \/ AbandonBody(k) \/ StreamEnds(k) \/ DropNoticed(k)
    <3>1. phase' = phase
      BY <2>2 DEF MountFails, Handled, RunEnds, Receive, Post, vars, requestVars
    <3> QED BY <3>1
  <2> QED BY <2>1, <2>2
<1>3. GoesOn
  <2>1. CASE \E x \in Streams : MountFails(x) \/ Handled(x) \/ RunEnds(x) \/ Receive(x)
    BY <1>0, <2>1 DEF MountFails, Handled, RunEnds, Receive, GoesOn
  <2>2. CASE ~\E x \in Streams : MountFails(x) \/ Handled(x) \/ RunEnds(x) \/ Receive(x)
    <3>1. run' = run
      BY <2>2 DEF StartBody, AbandonBody, StreamEnds, DropNoticed, EndStream, Post, vars
    <3> QED BY <3>1 DEF GoesOn
  <2> QED BY <2>1, <2>2
<1>4. FirstTry' BY <1>1, <1>2, FirstStays DEF MirrorInv
<1>5. \A k \in Streams :
              /\ conn'[page[k]] = k => conn[page[k]] = k /\ wire'[k] = wire[k]
              /\ phase'[k] = "authorizing" => phase[k] = "authorizing"
  BY <1>1, <1>2
<1>6. UNCHANGED <<lastId, tree, page, history, nextId, serves, cursor, batch>> BY <1>1
<1> QED BY <1>3, <1>4, <1>5, <1>6, MirrorStays

\* A send moves the first tick of the batch, or of what is pending, to the wire.
LEMMA YieldMirror ==
    ASSUME IInv, KeptInv, MirrorInv, NEW k \in Streams, TakePending(k) \/ YieldNext(k)
    PROVE  MirrorInv'
<1> USE DEF MirrorInv
<1> DEFINE x == serves[k]
           n == nextId[x]
           h == history[x]
           q == IF batch[k] = <<>> THEN Pending(k) ELSE batch[k]
           c == cursor[k]
<1>0. /\ cursor \in [Streams -> Nat] /\ nextId \in [Streams -> Nat]
      /\ batch \in [Streams -> Seq(Ticks)] /\ wire \in [Streams -> Seq(Ticks)]
      /\ history \in [Streams -> Seq(Ticks)] /\ None \notin Streams
  BY DEF IInv, TypeOK, None, Streams
<1>1. /\ phase[k] = "streaming" /\ q # <<>> /\ Send(k, Head(q))
      /\ batch' = [batch EXCEPT ![k] = Tail(q)]
      /\ UNCHANGED <<conn, lastId, tree, page, phase, history, nextId, serves, peer, run>>
  BY DEF TakePending, YieldNext, pageVars, requestVars, tickVars
<1> HIDE DEF q
<1>2. BufferIsWhole' /\ PageShows' /\ FirstTry'
  BY <1>1 DEF BufferIsWhole, PageShows, FirstTry, NoneToCome, Sessions
<1>3. cursor' = [cursor EXCEPT ![k] = Head(q).id]
      /\ wire' = [wire EXCEPT ![k] = IF peer[k] = "open" THEN Append(wire[k], Head(q)) ELSE wire[k]]
  BY <1>1 DEF Send
<1>4. x \in Streams BY <1>1 DEF IInv, Relations, BodyFirst
<1>5. ASSUME conn[page[k]] = k PROVE Follows(k)'
  <2>1. Follows(k) /\ x # None BY <1>4, <1>5, <1>0 DEF PagesFollow
  <2>2. peer[k] = "open" BY <1>5 DEF KeptInv, HoldsOn
  <2>3. /\ Before(k) \in Nat /\ c \in Nat /\ n \in Nat /\ h \in Seq(Ticks) /\ Len(h) <= n
        /\ wire[k] \in Seq(Ticks) /\ batch[k] \in Seq(Ticks)
        /\ Len(wire[k]) \in Nat /\ Len(batch[k]) \in Nat /\ Len(h) \in Nat
        /\ c = Before(k) + Len(wire[k])
    <3>1. /\ c \in Nat /\ n \in Nat /\ h \in Seq(Ticks)
          /\ wire[k] \in Seq(Ticks) /\ batch[k] \in Seq(Ticks)
      BY <1>0, <1>4
    <3>2. Len(wire[k]) \in Nat /\ Len(batch[k]) \in Nat /\ Len(h) \in Nat BY <3>1
    <3>3. Len(h) <= n BY <1>4 DEF BufferIsWhole
    <3>4. Before(k) >= 0 BY <2>1 DEF Follows, NoGap
    <3>5. Before(k) \in Nat /\ c = Before(k) + Len(wire[k]) BY <3>1, <3>2, <3>4 DEF Before
    <3> QED BY <3>1, <3>2, <3>3, <3>5
  <2>4. /\ Numbered(wire[k], Before(k)) /\ Numbered(batch[k], c) /\ Numbered(h, n - Len(h))
        /\ c + Len(batch[k]) <= n /\ n <= c + Len(batch[k]) + Len(h)
    BY <1>4, <2>1 DEF Follows, NoGap, BufferIsWhole
  <2> HIDE DEF c, n, h
  <2>5. /\ q \in Seq(Ticks) /\ Numbered(q, c) /\ c + Len(q) <= n /\ n <= c + Len(q) + Len(h)
        /\ \A m : Whole(h, m) /\ Whole(batch[k], m) => Whole(q, m)
    <3>1. CASE batch[k] # <<>> BY <3>1, <2>3, <2>4 DEF q
    <3>2. CASE batch[k] = <<>>
      <4>1. Len(batch[k]) = 0 BY <3>2
      <4>2. n - Len(h) \in Nat /\ c \in (n - Len(h))..((n - Len(h)) + Len(h))
        BY <4>1, <2>3, <2>4
      <4>3. /\ PastId(h, c) \in Seq(Ticks) /\ Len(PastId(h, c)) = (n - Len(h)) + Len(h) - c
            /\ Numbered(PastId(h, c), c) /\ \A m : Whole(h, m) => Whole(PastId(h, c), m)
        BY <2>3, <2>4, <4>2, NumberedPast
      <4>4. q = PastId(h, c) BY <3>2 DEF q, Pending, h, c
      <4>5. Len(q) = n - c BY <4>3, <4>4, <2>3
      <4>6. c \in Nat /\ n \in Nat /\ Len(h) \in Nat BY <2>3
      <4>7. c + Len(q) <= n /\ n <= c + Len(q) + Len(h) BY <4>5, <4>6
      <4> QED BY <4>3, <4>4, <4>7
    <3> QED BY <3>1, <3>2
  <2> DEFINE e == Head(q)
             t == Tail(q)
             w == Append(wire[k], e)
  <2>6. /\ e.id = c + 1 /\ e \in Ticks /\ t \in Seq(Ticks) /\ Len(t) = Len(q) - 1
        /\ Numbered(t, c + 1) /\ \A m : Whole(q, m) => Whole(t, m) /\ (e.id = m => e.root)
    BY <1>1, <2>3, <2>5, NumberedTail, TickFields
  <2> HIDE DEF e, t
  <2>7. /\ w \in Seq(Ticks) /\ Len(w) = Len(wire[k]) + 1 /\ Numbered(w, Before(k))
        /\ \A m : Whole(wire[k], m) /\ (e.id = m => e.root) => Whole(w, m)
    BY <2>3, <2>4, <2>6, NumberedAppend
  <2> HIDE DEF w
  <2>8. /\ cursor'[k] = c + 1 /\ wire'[k] = w /\ batch'[k] = t
        /\ serves'[k] = x /\ nextId'[x] = n /\ history'[x] = h /\ page' = page /\ lastId' = lastId
        /\ phase'[k] = "streaming"
    BY <1>0, <1>1, <1>3, <2>2, <2>6 DEF e, t, w, n, h
  <2>9. Before(k)' = Before(k) BY <2>3, <2>7, <2>8 DEF Before
  <2>10. NoGap(k)'
    <3>1. c + 1 + Len(t) = c + Len(q) BY <2>3, <2>5, <2>6
    <3>2. c + 1 + Len(t) <= n /\ n <= c + 1 + Len(t) + Len(h) BY <2>5, <3>1
    <3>3. NoGap(k)' <=> /\ Before(k) >= 0
                        /\ Numbered(w, Before(k)) /\ Numbered(t, c + 1)
                        /\ c + 1 + Len(t) <= n /\ n <= c + 1 + Len(t) + Len(h)
      <4> HIDE DEF x
      <4> QED BY <2>8, <2>9 DEF NoGap
    <3> QED BY <2>3, <2>6, <2>7, <3>2, <3>3
  <2>11. StartsWhole(k) => StartsWhole(k)'
    <3> SUFFICES ASSUME StartsWhole(k) PROVE StartsWhole(k)' OBVIOUS
    <3> DEFINE m == Before(k) + 1
    <3>1. Whole(wire[k], m) /\ Whole(batch[k], m) /\ Whole(h, m) /\ (Before(k) < n \/ n = 0)
      BY DEF StartsWhole, h, n
    <3> HIDE DEF m
    <3>2. Whole(w, m) /\ Whole(t, m) BY <2>5, <2>6, <2>7, <3>1
    <3> HIDE DEF x
    <3> QED BY <2>8, <2>9, <3>1, <3>2 DEF StartsWhole, m
  <2>12. (lastId[page[k]] # 0 /\ lastId[page[k]] = Before(k)) \/ StartsWhole(k)
    BY <2>1 DEF Follows
  <2> QED BY <2>8, <2>9, <2>10, <2>11, <2>12 DEF Follows
<1>6. PagesFollow'
  <2> SUFFICES ASSUME NEW j \in Streams, conn[page[j]] = j PROVE Follows(j)'
    BY <1>1 DEF PagesFollow
  <2>1. CASE j = k BY <1>5, <2>1
  <2>2. CASE j # k
    <3>1. cursor'[j] = cursor[j] /\ wire'[j] = wire[j] /\ batch'[j] = batch[j]
      BY <1>0, <1>1, <1>3, <2>2
    <3>2. Follows(j) BY DEF PagesFollow
    <3>3. Before(j)' = Before(j) BY <3>1 DEF Before
    <3>4. NoGap(j)' <=> NoGap(j) BY <3>1, <3>3, <1>1 DEF NoGap
    <3>5. StartsWhole(j)' <=> StartsWhole(j) BY <3>1, <3>3, <1>1 DEF StartsWhole
    <3> QED BY <3>1, <3>2, <3>3, <3>4, <3>5, <1>1 DEF Follows
  <2> QED BY <2>1, <2>2
<1> QED BY <1>2, <1>6

\* No connected page has fallen so far behind session x that the next tick evicts
\* one it has not been sent.
HasRoom(x) == \A k \in Streams :
    conn[page[k]] = k /\ serves[k] = x /\ Len(history[x]) = ReplayBuffer
        => nextId[x] + 1 <= cursor[k] + Len(batch[k]) + Len(history[x])

LEMMA KeptUp ==
    ASSUME IInv, KeptInv, MirrorInv, KeepsReading, NEW x \in Streams, ~closed[x], KeepsUp(x)
    PROVE  HasRoom(x)
<1> USE DEF KeptInv
<1> SUFFICES ASSUME NEW k \in Streams, conn[page[k]] = k, serves[k] = x,
                    Len(history[x]) = ReplayBuffer
             PROVE  nextId[x] + 1 <= cursor[k] + Len(batch[k]) + Len(history[x])
  BY DEF HasRoom
<1> DEFINE h == history[x]
           b == batch[k]
<1>0. /\ phase \in [Streams -> {"idle", "authorizing", "opened", "streaming", "ended"}]
      /\ cursor[k] \in Nat /\ nextId[x] \in Nat /\ b \in Seq(Ticks) /\ h \in Seq(Ticks)
      /\ ReplayBuffer \in Nat /\ ReplayBuffer > 0 /\ x # None
  <2>1. /\ phase \in [Streams -> {"idle", "authorizing", "opened", "streaming", "ended"}]
        /\ cursor \in [Streams -> Nat] /\ nextId \in [Streams -> Nat]
        /\ batch \in [Streams -> Seq(Ticks)] /\ history \in [Streams -> Seq(Ticks)]
    BY DEF IInv, TypeOK
  <2>2. ReplayBuffer \in Nat /\ ReplayBuffer > 0 BY ConstantsAssumption DEF ConstantsAssumption
  <2>3. x # None BY DEF None, Streams
  <2> QED BY <2>1, <2>2, <2>3
<1>1. phase[k] = "opened" \/ (phase[k] = "streaming" /\ Current(k))
  <2>1. phase[k] \notin {"idle", "authorizing", "ended"} BY <1>0 DEF ReadsItsOwn, HoldsOn
  <2>2. phase[k] \in {"opened", "streaming"} BY <1>0, <2>1
  <2>3. token[k] = tokens[x] BY <1>0 DEF InOrder, TokensRise
  <2>4. ~shut[x] BY DEF ClosedLast
  <2> QED BY <2>2, <2>3, <2>4 DEF GenerationsFollow, Current
<1>2. peer[k] = "open" /\ Len(wire[k]) < SendWindow BY DEF HoldsOn, KeepsReading
<1>3. Taken(k) >= Head(h).id BY <1>1, <1>2 DEF KeepsUp
<1>4. Len(h) \in Nat /\ Len(h) > 0 /\ Len(b) \in Nat BY <1>0
<1>5. Head(h).id = nextId[x] - Len(h) + 1
  <2>1. Head(h) = h[1] /\ 1 \in 1..Len(h) BY <1>0, <1>4
  <2> QED BY <2>1 DEF MirrorInv, BufferIsWhole, Numbered
<1>6. Taken(k) = cursor[k] + Len(b)
  <2>1. CASE b = <<>> BY <2>1, <1>0 DEF Taken
  <2>2. CASE b # <<>>
    <3>1. Len(b) \in 1..Len(b) BY <2>2, <1>0, <1>4
    <3>2. Numbered(b, cursor[k]) BY <1>0 DEF MirrorInv, PagesFollow, Follows, NoGap
    <3> QED BY <2>2, <3>1, <3>2 DEF Taken, Numbered
  <2> QED BY <2>1, <2>2
<1> HIDE DEF h, b
<1>7. nextId[x] + 1 <= cursor[k] + Len(b) + Len(h) BY <1>0, <1>3, <1>4, <1>5, <1>6
<1> QED BY <1>7 DEF h, b

LEMMA EnqueueMirror ==
    ASSUME IInv, KeptInv, MirrorInv, NEW x \in Streams, NEW root \in BOOLEAN, Enqueue(x, root),
           nextId[x] = 0 => root, HasRoom(x), SameSessions,
           \A y \in Streams : y # x => run'[y] = run[y],
           run'[x] \in {"receiving", "handling"},
           UNCHANGED <<conn, lastId, tree, page, phase, serves, cursor, batch, wire>>
    PROVE  MirrorInv'
<1> USE DEF MirrorInv
<1>0. /\ nextId \in [Streams -> Nat] /\ history \in [Streams -> Seq(Ticks)]
      /\ cursor \in [Streams -> Nat] /\ batch \in [Streams -> Seq(Ticks)]
      /\ page \in [Streams -> Ids] /\ lastId \in [Ids -> Nat]
      /\ None \notin Streams /\ serves \in [Streams -> Streams \cup {None}]
  BY DEF IInv, TypeOK, None, Streams
<1>1. /\ nextId'[x] = nextId[x] + 1
      /\ \A y \in Streams : y # x => nextId'[y] = nextId[y] /\ history'[y] = history[y]
      /\ Len(history'[x]) <= nextId'[x] /\ 1 <= Len(history'[x])
      /\ Numbered(history'[x], nextId'[x] - Len(history'[x]))
      /\ Len(history'[x]) = IF Len(history[x]) = ReplayBuffer THEN Len(history[x])
                                                              ELSE Len(history[x]) + 1
      /\ \A m : Whole(history[x], m) /\ (nextId'[x] = m => root) => Whole(history'[x], m)
  BY EnqueueWhole
<1>2. BufferIsWhole'
  <2> SUFFICES ASSUME NEW y \in Streams
               PROVE  /\ Len(history'[y]) <= nextId'[y]
                      /\ Numbered(history'[y], nextId'[y] - Len(history'[y]))
                      /\ run'[y] \in {"none", "spawned"} => nextId'[y] = 0
                      /\ run'[y] \in {"receiving", "handling"} => nextId'[y] # 0
    BY DEF BufferIsWhole
  <2>1. CASE y = x
    <3>1. nextId'[x] # 0 BY <1>0, <1>1
    <3> QED BY <2>1, <3>1, <1>1
  <2>2. CASE y # x BY <2>2, <1>1 DEF BufferIsWhole
  <2> QED BY <2>1, <2>2
<1>3. PageShows'
  <2>1. Sessions' = Sessions BY DEF SameSessions, Sessions
  <2>2. ASSUME NEW y \in Streams, NEW n \in Nat, n <= nextId[y] PROVE n <= nextId'[y]
    <3>1. nextId[y] \in Nat BY <1>0
    <3>2. CASE y = x BY <1>1, <2>2, <3>1, <3>2
    <3>3. CASE y # x BY <1>1, <2>2, <3>3
    <3> QED BY <3>2, <3>3
  <2>3. Sessions \subseteq Streams BY DEF Sessions
  <2> QED BY <2>1, <2>2, <2>3, <1>0 DEF PageShows
<1>4. FirstTry' BY FirstStays
<1>5. PagesFollow'
  <2> SUFFICES ASSUME NEW k \in Streams, conn[page[k]] = k PROVE Follows(k)'
    BY DEF PagesFollow
  <2>1. Follows(k) BY DEF PagesFollow
  <2>2. Before(k)' = Before(k) BY DEF Before
  <2>3. CASE serves[k] # x
    <3>1. serves[k] # None => history'[serves[k]] = history[serves[k]]
                              /\ nextId'[serves[k]] = nextId[serves[k]]
      BY <1>0, <1>1, <2>3
    <3>2. serves[k] # None => (NoGap(k)' <=> NoGap(k)) BY <2>2, <3>1 DEF NoGap
    <3>3. serves[k] # None => (StartsWhole(k)' <=> StartsWhole(k)) BY <2>2, <3>1 DEF StartsWhole
    <3> QED BY <2>1, <2>2, <3>2, <3>3 DEF Follows
  <2>4. CASE serves[k] = x
    <3> DEFINE n == nextId[x]
    <3>0. /\ NoGap(k) /\ ((lastId[page[k]] # 0 /\ lastId[page[k]] = Before(k)) \/ StartsWhole(k))
          /\ n \in Nat /\ cursor[k] \in Nat /\ Len(batch[k]) \in Nat /\ Len(history[x]) \in Nat
      <4>1. n \in Nat /\ cursor[k] \in Nat /\ Len(batch[k]) \in Nat /\ Len(history[x]) \in Nat
        BY <1>0
      <4>2. serves[k] # None BY <1>0, <2>4
      <4> QED BY <4>1, <4>2, <2>1 DEF Follows
    <3>1. /\ Before(k) >= 0 /\ Numbered(wire[k], Before(k)) /\ Numbered(batch[k], cursor[k])
          /\ cursor[k] + Len(batch[k]) <= n
          /\ n <= cursor[k] + Len(batch[k]) + Len(history[x])
      BY <3>0, <2>4 DEF NoGap
    <3>2. Len(history[x]) = ReplayBuffer => n + 1 <= cursor[k] + Len(batch[k]) + Len(history[x])
      BY <2>4 DEF HasRoom
    <3>3. nextId'[x] = n + 1 BY <1>1
    <3> HIDE DEF n
    <3>4. /\ cursor[k] + Len(batch[k]) <= n + 1
          /\ n + 1 <= cursor[k] + Len(batch[k]) + Len(history'[x])
      <4>1. Len(history'[x]) = IF Len(history[x]) = ReplayBuffer THEN Len(history[x])
                                                                ELSE Len(history[x]) + 1
        BY <1>1
      <4> QED BY <3>0, <3>1, <3>2, <4>1
    <3>5. NoGap(k)'
      <4>1. NoGap(k)' <=> /\ Before(k) >= 0
                          /\ Numbered(wire[k], Before(k)) /\ Numbered(batch[k], cursor[k])
                          /\ cursor[k] + Len(batch[k]) <= n + 1
                          /\ n + 1 <= cursor[k] + Len(batch[k]) + Len(history'[x])
        BY <2>2, <2>4, <3>3 DEF NoGap
      <4> QED BY <4>1, <3>1, <3>4
    <3>6. StartsWhole(k) => StartsWhole(k)'
      <4> SUFFICES ASSUME StartsWhole(k) PROVE StartsWhole(k)' OBVIOUS
      <4>1. /\ (Before(k) < n \/ n = 0) /\ Whole(wire[k], Before(k) + 1)
            /\ Whole(batch[k], Before(k) + 1) /\ Whole(history[x], Before(k) + 1)
        BY <2>4 DEF StartsWhole, n
      <4>2. Before(k) \in Int
        <5>1. Len(wire[k]) \in Nat BY DEF IInv, TypeOK
        <5> QED BY <3>0, <5>1 DEF Before
      <4>3. n = 0 => root BY DEF n
      <4>4. n \in Nat /\ Before(k) >= 0 BY <3>0, <3>1
      <4>5. Before(k) < n + 1 /\ (n + 1 = Before(k) + 1 => root)
        <5> DEFINE b == Before(k)
        <5>1. b < n \/ n = 0 BY <4>1
        <5>2. b \in Int /\ b <= n /\ b >= 0
          <6>1. b <= n
            <7>1. Len(wire[k]) \in Nat BY DEF IInv, TypeOK
            <7> QED BY <3>0, <3>1, <7>1 DEF Before
          <6> QED BY <4>2, <4>4, <6>1
        <5> HIDE DEF b
        <5>3. b < n + 1 BY <4>4, <5>1, <5>2
        <5>4. n + 1 = b + 1 => n = 0 BY <4>4, <5>1, <5>2
        <5> QED BY <4>3, <5>3, <5>4 DEF b
      <4>6. Whole(history'[x], Before(k) + 1) BY <1>1, <3>3, <4>1, <4>5
      <4> QED BY <2>2, <2>4, <3>3, <4>1, <4>5, <4>6 DEF StartsWhole
    <3> QED BY <2>1, <2>2, <3>0, <3>5, <3>6 DEF Follows
  <2> QED BY <2>3, <2>4
<1> QED BY <1>2, <1>3, <1>4, <1>5

\* A rendered scene, a rebuild and an answered resync.
LEMMA TicksMirror ==
    ASSUME IInv, KeptInv, MirrorInv, KeepsReading, NEW x \in Streams,
           Mount(x) \/ Rebuild(x) \/ (Receive(x) /\ Head(inbox[x]) = Resync)
    PROVE  /\ MirrorInv' /\ x \in Sessions /\ \E root \in BOOLEAN : Enqueue(x, root)
           /\ UNCHANGED <<lastId, page>> /\ SameSessions
<1>0. run \in [Streams -> {"none", "spawned", "receiving", "handling", "done"}]
  BY DEF IInv, TypeOK
<1>1. /\ UNCHANGED <<conn, lastId, tree, page, phase, serves, cursor, batch, wire>>
      /\ run[x] # "none" /\ run'[x] \in {"receiving", "handling"}
      /\ \A y \in Streams : y # x => run'[y] = run[y]
  BY <1>0 DEF Mount, Rebuild, Receive, pageVars, requestVars, streamVars, netVars
<1>2. SameSessions BY <1>1 DEF SameSessions
<1>3. x \in Sessions BY <1>1 DEF Sessions
<1>4. PICK root \in BOOLEAN : Enqueue(x, root) /\ (nextId[x] = 0 => root) /\ HasRoom(x)
  <2>1. CASE Mount(x)
    <3>1. nextId[x] = 0 /\ Len(history[x]) <= 0 BY <2>1 DEF Mount, MirrorInv, BufferIsWhole
    <3>2. ReplayBuffer > 0 /\ ReplayBuffer \in Nat /\ Len(history[x]) \in Nat
      BY ConstantsAssumption DEF ConstantsAssumption, IInv, TypeOK
    <3>3. HasRoom(x) BY <3>1, <3>2 DEF HasRoom
    <3> QED BY <2>1, <3>3 DEF Mount
  <2>2. CASE Rebuild(x) \/ (Receive(x) /\ Head(inbox[x]) = Resync)
    <3>1. HasRoom(x) /\ nextId[x] # 0
      <4>1. ~closed[x] /\ KeepsUp(x) /\ run[x] \in {"receiving", "handling"}
        BY <2>2 DEF Rebuild, Receive, Click, Resync
      <4> QED BY <4>1, KeptUp DEF MirrorInv, BufferIsWhole
    <3>2. Enqueue(x, FALSE) \/ Enqueue(x, TRUE) BY <2>2 DEF Rebuild, Receive, Click, Resync
    <3> QED BY <3>1, <3>2
  <2> QED BY <2>1, <2>2
<1>5. MirrorInv' BY <1>1, <1>2, <1>4, EnqueueMirror
<1> QED BY <1>1, <1>2, <1>3, <1>4, <1>5

\* A stream that takes a session over goes on from what its page shows, or, where
\* that is evicted, from the scene it enqueues.
LEMMA TakeOverMirror ==
    ASSUME IInv, KeptInv, MirrorInv, NEW k \in Streams, TakeOver(k)
    PROVE  /\ MirrorInv' /\ UNCHANGED <<lastId, page>> /\ SameSessions
           /\ UNCHANGED nextId \/ (rec[page[k]] \in Sessions /\ Enqueue(rec[page[k]], TRUE))
<1> USE DEF MirrorInv
<1> DEFINE x == rec[page[k]]
           gap == cursor[k] # 0 /\ MissedSince(x, cursor[k])
<1>0. /\ phase \in [Streams -> {"idle", "authorizing", "opened", "streaming", "ended"}]
      /\ nextId \in [Streams -> Nat] /\ history \in [Streams -> Seq(Ticks)]
      /\ cursor \in [Streams -> Nat] /\ page \in [Streams -> Ids]
      /\ lastId \in [Ids -> Nat] /\ serves \in [Streams -> Streams \cup {None}]
      /\ page[k] \in Ids /\ x \in Streams /\ x # None /\ None \notin Streams
      /\ Dead \notin Streams /\ Streams \subseteq Int
  <2>1. /\ phase \in [Streams -> {"idle", "authorizing", "opened", "streaming", "ended"}]
        /\ nextId \in [Streams -> Nat] /\ history \in [Streams -> Seq(Ticks)]
        /\ cursor \in [Streams -> Nat] /\ page \in [Streams -> Ids]
        /\ lastId \in [Ids -> Nat] /\ serves \in [Streams -> Streams \cup {None}]
        /\ rec \in [Ids -> Streams \cup {None}]
    BY DEF IInv, TypeOK
  <2>2. x # None BY DEF TakeOver
  <2>3. None \notin Streams /\ Dead \notin Streams /\ Streams \subseteq Int
    BY DEF None, Dead, Streams
  <2> QED BY <2>1, <2>2, <2>3
<1>1. /\ phase[k] = "authorizing" /\ phase' = [phase EXCEPT ![k] = "opened"]
      /\ serves' = [serves EXCEPT ![k] = x]
      /\ UNCHANGED <<conn, lastId, tree, page, batch, wire, run>>
  BY DEF TakeOver, MayServe, pageVars, netVars
<1>2. \/ gap /\ cursor' = [cursor EXCEPT ![k] = nextId[x]] /\ Enqueue(x, TRUE)
      \/ ~gap /\ UNCHANGED <<cursor, history, nextId>>
  BY DEF TakeOver, tickVars
<1>3. x \in Sessions /\ page[x] = page[k] /\ run[x] # "none"
  BY <1>0 DEF IInv, Relations, Registered, OpenSessions, Sessions
<1> HIDE DEF x
<1>4. SameSessions /\ Sessions' = Sessions BY <1>1 DEF SameSessions, Sessions
<1>5. /\ cursor'[k] = IF gap THEN nextId[x] ELSE cursor[k]
      /\ \A j \in Streams : j # k => cursor'[j] = cursor[j]
      /\ \A y \in Streams : y # x => nextId'[y] = nextId[y] /\ history'[y] = history[y]
      /\ nextId'[x] >= nextId[x]
  <2> nextId[x] \in Nat BY <1>0
  <2>1. CASE ~gap
    <3>1. UNCHANGED <<cursor, history, nextId>> BY <1>2, <2>1
    <3> HIDE DEF gap
    <3> QED BY <2>1, <3>1
  <2>2. CASE gap
    <3>1. /\ nextId'[x] = nextId[x] + 1
          /\ \A y \in Streams : y # x => nextId'[y] = nextId[y] /\ history'[y] = history[y]
      BY <2>2, <1>0, <1>2, EnqueueWhole
    <3>2. cursor'[k] = nextId[x] /\ \A j \in Streams : j # k => cursor'[j] = cursor[j]
      BY <2>2, <1>0, <1>2
    <3>3. nextId'[x] >= nextId[x] BY <3>1
    <3> HIDE DEF gap
    <3> QED BY <2>2, <3>1, <3>2, <3>3
  <2> QED BY <2>1, <2>2
<1>6. BufferIsWhole'
  <2>1. CASE ~gap BY <2>1, <1>1, <1>2 DEF BufferIsWhole
  <2>2. CASE gap
    <3>1. nextId[x] # 0 BY <2>2, <1>0 DEF MissedSince
    <3>2. /\ nextId'[x] = nextId[x] + 1 /\ Len(history'[x]) <= nextId'[x]
          /\ Numbered(history'[x], nextId'[x] - Len(history'[x]))
      BY <2>2, <1>0, <1>2, EnqueueWhole
    <3>3. run[x] \notin {"none", "spawned"} BY <3>1, <1>0 DEF BufferIsWhole
    <3>4. nextId'[x] # 0 BY <3>2, <1>0
    <3> SUFFICES ASSUME NEW y \in Streams
                 PROVE  /\ Len(history'[y]) <= nextId'[y]
                        /\ Numbered(history'[y], nextId'[y] - Len(history'[y]))
                        /\ run[y] \in {"none", "spawned"} => nextId'[y] = 0
                        /\ run[y] \in {"receiving", "handling"} => nextId'[y] # 0
      BY <1>1 DEF BufferIsWhole
    <3>5. CASE y = x BY <3>2, <3>3, <3>4, <3>5
    <3>6. CASE y # x BY <1>5, <3>6 DEF BufferIsWhole
    <3> QED BY <3>5, <3>6
  <2> QED BY <2>1, <2>2
<1>7. PageShows'
  <2>1. ASSUME NEW y \in Streams, NEW n \in Nat, n <= nextId[y] PROVE n <= nextId'[y]
    <3>1. nextId[y] \in Nat BY <1>0
    <3>2. CASE y = x
      <4>1. nextId'[x] >= nextId[x] BY <1>5
      <4>2. nextId'[x] \in Nat BY <1>0, <1>2 DEF Enqueue
      <4> QED BY <2>1, <3>1, <3>2, <4>1, <4>2
    <3>3. CASE y # x BY <1>5, <2>1, <3>3
    <3> QED BY <3>2, <3>3
  <2>2. Sessions \subseteq Streams BY DEF Sessions
  <2> QED BY <1>0, <1>1, <1>4, <2>1, <2>2 DEF PageShows
<1>8. FirstTry' BY <1>0, <1>1, FirstStays
<1>9. ASSUME conn[page[k]] = k PROVE Follows(k)'
  <2> DEFINE c == cursor[k]
             n == nextId[x]
             h == history[x]
  <2>1. wire[k] = <<>> /\ batch[k] = <<>> BY <1>1 DEF IInv, Relations, BodyFirst
  <2>2. c = lastId[page[k]] BY <1>1, <1>9 DEF PagesFollow, Follows
  <2>3. lastId[page[k]] # 0
    <3>1. run[k] = "none" BY <1>1 DEF IInv, Relations, Unadmitted
    <3>2. x # k /\ phase[x] # "idle" BY <3>1, <1>0, <1>3 DEF IInv, Relations, Unadmitted
    <3>3. ~NoneToCome BY <1>1 DEF NoneToCome
    <3> QED BY <1>0, <1>3, <1>9, <3>2, <3>3 DEF FirstTry
  <2>4. c <= n
    <3>1. PICK y \in Sessions : page[y] = page[k] /\ lastId[page[k]] <= nextId[y]
      BY <1>0, <2>3 DEF PageShows
    <3>2. y = x BY <1>3, <3>1 DEF KeptInv, OneSession
    <3> QED BY <2>2, <3>1, <3>2
  <2>5. /\ serves'[k] = x /\ phase'[k] = "opened" /\ wire'[k] = <<>> /\ batch'[k] = <<>>
        /\ Len(<<>>) = 0 /\ lastId' = lastId /\ page' = page
        /\ \A m : Numbered(<<>>, m) /\ Whole(<<>>, m)
    BY <1>0, <1>1, <2>1 DEF Numbered, Whole
  <2>6. Before(k)' = cursor'[k] /\ Before(k)' \in Nat
    <3>1. cursor'[k] \in Nat BY <1>0, <1>5
    <3> QED BY <2>5, <3>1 DEF Before
  <2>7. c \in Nat /\ n \in Nat /\ h \in Seq(Ticks) /\ Len(h) \in Nat /\ Len(h) <= n
        /\ Numbered(h, n - Len(h))
    BY <1>0 DEF BufferIsWhole
  <2>8. CASE ~gap
    <3>1. cursor'[k] = c /\ nextId'[x] = n /\ history'[x] = h BY <1>2, <2>8
    <3>2. n <= c + Len(h)
      <4>1. ~(c < n /\ (h = <<>> \/ Head(h).id > c + 1)) BY <2>2, <2>3, <2>8 DEF MissedSince
      <4>2. CASE c >= n BY <4>2, <2>7
      <4>3. CASE c < n
        <5>1. h # <<>> /\ ~(Head(h).id > c + 1) BY <4>1, <4>3
        <5>2. Head(h).id = n - Len(h) + 1
          <6>1. Head(h) = h[1] /\ 1 \in 1..Len(h) BY <2>7, <5>1
          <6> QED BY <6>1, <2>7 DEF Numbered
        <5> HIDE DEF c, n, h
        <5> QED BY <5>1, <5>2, <2>7
      <4> HIDE DEF c, n
      <4> QED BY <2>7, <4>2, <4>3
    <3>3. c + 0 <= n /\ n <= c + 0 + Len(h) BY <2>4, <2>7, <3>2
    <3>4. NoGap(k)' BY <2>5, <2>6, <3>1, <3>3 DEF NoGap
    <3> QED BY <2>2, <2>3, <2>5, <2>6, <3>1, <3>4 DEF Follows
  <2>9. CASE gap
    <3>1. cursor'[k] = n BY <1>5, <2>9
    <3>2. /\ nextId'[x] = n + 1 /\ 1 <= Len(history'[x]) /\ Len(history'[x]) <= n + 1
          /\ Whole(h, n + 1) => Whole(history'[x], n + 1)
      BY <2>9, <1>0, <1>2, EnqueueWhole
    <3>3. Whole(h, n + 1) BY <2>7 DEF Whole, Numbered
    <3>4. Len(history'[x]) \in Nat
      <4>1. BufferRises BY DEF IInv, Relations
      <4>2. Enqueue(x, TRUE) BY <2>9, <1>2
      <4>3. history' \in [Streams -> Seq(Ticks)]
        BY <1>0, <4>1, <4>2, EnqueueIs, ConstantsAssumption
      <4> QED BY <1>0, <4>3
    <3> HIDE DEF n, h
    <3>5. n + 0 <= n + 1 /\ n + 1 <= n + 0 + Len(history'[x]) /\ n < n + 1 BY <2>7, <3>2, <3>4
    <3>6. NoGap(k)' BY <2>5, <2>6, <3>1, <3>2, <3>5 DEF NoGap
    <3>7. StartsWhole(k)' BY <2>5, <2>6, <3>1, <3>2, <3>3, <3>5 DEF StartsWhole
    <3> QED BY <2>5, <3>6, <3>7 DEF Follows
  <2> QED BY <2>8, <2>9
<1>10. PagesFollow'
  <2> SUFFICES ASSUME NEW j \in Streams, conn[page[j]] = j PROVE Follows(j)'
    BY <1>1 DEF PagesFollow
  <2>1. CASE j = k BY <1>9, <2>1
  <2>2. CASE j # k
    <3>1. cursor'[j] = cursor[j] /\ phase'[j] = phase[j] /\ serves'[j] = serves[j]
      BY <1>0, <1>1, <1>5, <2>2
    <3>2. Follows(j) BY DEF PagesFollow
    <3>3. serves[j] # x
      <4> SUFFICES ASSUME serves[j] = x PROVE FALSE OBVIOUS
      <4>1. page[j] = page[k] /\ phase[j] # "idle" BY <1>0, <1>3 DEF KeptInv, ReadsItsOwn
      <4>2. IsLatest(j) /\ IsLatest(k) BY <1>1 DEF KeptInv, InOrder
      <4>3. k <= j /\ j <= k BY <1>1, <4>1, <4>2 DEF IsLatest
      <4> QED BY <1>0, <2>2, <4>3
    <3>4. serves[j] # None => history'[serves[j]] = history[serves[j]]
                              /\ nextId'[serves[j]] = nextId[serves[j]]
      BY <1>0, <1>5, <3>3
    <3>5. Before(j)' = Before(j) BY <3>1, <1>1 DEF Before
    <3>6. serves[j] # None => (NoGap(j)' <=> NoGap(j)) BY <1>1, <3>1, <3>4, <3>5 DEF NoGap
    <3>7. serves[j] # None => (StartsWhole(j)' <=> StartsWhole(j))
      BY <1>1, <3>1, <3>4, <3>5 DEF StartsWhole
    <3> QED BY <3>1, <3>2, <3>5, <3>6, <3>7, <1>1 DEF Follows
  <2> QED BY <2>1, <2>2
<1> QED BY <1>1, <1>2, <1>3, <1>4, <1>6, <1>7, <1>8, <1>10 DEF x

\* The page applies the tick after the one it shows, or a whole scene.
LEMMA ShowMirror ==
    ASSUME IInv, KeptInv, MirrorInv, NEW i \in Ids, Show(i)
    PROVE  /\ MirrorInv' /\ UNCHANGED <<nextId, page, run>>
           /\ \A p \in Ids : p # i => lastId'[p] = lastId[p]
           /\ lastId[i] < lastId'[i]
<1> USE DEF MirrorInv
<1> DEFINE k == conn[i]
           x == serves[k]
           w == wire[k]
           e == Head(w)
<1>0. /\ phase \in [Streams -> {"idle", "authorizing", "opened", "streaming", "ended"}]
      /\ lastId \in [Ids -> Nat] /\ DOMAIN tree = Ids /\ page \in [Streams -> Ids]
      /\ cursor \in [Streams -> Nat] /\ nextId \in [Streams -> Nat]
      /\ batch \in [Streams -> Seq(Ticks)] /\ wire \in [Streams -> Seq(Ticks)]
      /\ None \notin Streams
  BY DEF IInv, TypeOK, None, Streams
<1>1. /\ k \in Streams /\ w # <<>> /\ lastId' = [lastId EXCEPT ![i] = e.id]
      /\ tree' = [tree EXCEPT ![i] = IF Fits(e, tree[i], x) THEN [of |-> x, at |-> e.id] ELSE Torn]
      /\ wire' = [wire EXCEPT ![k] = Tail(w)]
      /\ UNCHANGED <<conn, page, phase, serves, cursor, batch, history, nextId, run>>
  BY DEF Show, requestVars, streamVars, tickVars
<1>2. page[k] = i /\ lastId[i] < e.id
  <2>1. page[k] = i /\ AllPast(w, lastId[i]) BY <1>1 DEF IInv, Relations, Connected
  <2>2. w \in Seq(Ticks) BY <1>0, <1>1
  <2>3. e = w[1] /\ 1 \in 1..Len(w) BY <1>1, <2>2
  <2>4. w[1].id \in Nat BY <2>2, <2>3, TickFields
  <2>5. w[1].id > lastId[i] BY <2>1, <2>3 DEF AllPast
  <2> QED BY <1>0, <2>1, <2>3, <2>4, <2>5
<1>3. x \in Sessions /\ page[x] = i /\ x \in Streams /\ x # None /\ phase[k] # "authorizing"
  <2>1. phase[k] \in {"streaming", "ended"} BY <1>0, <1>1 DEF IInv, Relations, BodyFirst
  <2>2. x # None
    <3>1. CASE phase[k] = "streaming"
      BY <1>0, <1>1, <3>1 DEF IInv, Relations, BodyFirst
    <3>2. CASE phase[k] = "ended" BY <1>1, <1>2, <3>2 DEF KeptInv, HoldsOn
    <3> QED BY <2>1, <3>1, <3>2
  <2> QED BY <1>1, <1>2, <2>1, <2>2 DEF KeptInv, ReadsItsOwn, Sessions
<1>4. Follows(k) BY <1>1, <1>2 DEF PagesFollow
<1>5. /\ NoGap(k) /\ ((lastId[i] # 0 /\ lastId[i] = Before(k)) \/ StartsWhole(k))
      /\ w \in Seq(Ticks) /\ Len(w) \in Nat /\ Before(k) \in Nat
  <2>1. NoGap(k) /\ ((lastId[i] # 0 /\ lastId[i] = Before(k)) \/ StartsWhole(k))
    BY <1>2, <1>3, <1>4 DEF Follows
  <2>2. w \in Seq(Ticks) /\ Len(w) \in Nat /\ cursor[k] \in Nat BY <1>0, <1>1
  <2>3. Before(k) \in Int BY <2>2 DEF Before
  <2>4. Before(k) >= 0 BY <2>1 DEF NoGap
  <2> QED BY <2>1, <2>2, <2>3, <2>4
<1>6. /\ e.id = Before(k) + 1 /\ Len(Tail(w)) = Len(w) - 1 /\ Numbered(Tail(w), Before(k) + 1)
      /\ StartsWhole(k) => e.root
  <2>1. Numbered(w, Before(k)) BY <1>5 DEF NoGap
  <2>2. /\ e.id = Before(k) + 1 /\ Len(Tail(w)) = Len(w) - 1 /\ Numbered(Tail(w), Before(k) + 1)
        /\ \A m : Whole(w, m) => (e.id = m => e.root)
    BY <1>1, <1>5, <2>1, NumberedTail
  <2> QED BY <2>2 DEF StartsWhole
<1>7. tree'[i] = [of |-> x, at |-> e.id]
  <2>1. CASE e.root BY <2>1, <1>0, <1>1 DEF Fits
  <2>2. CASE ~e.root
    <3>1. lastId[i] # 0 /\ lastId[i] = Before(k) BY <2>2, <1>5, <1>6
    <3>2. PICK y \in Sessions : page[y] = i /\ tree[i] = [of |-> y, at |-> lastId[i]]
      BY <3>1 DEF PageShows
    <3>3. y = x BY <1>3, <3>2 DEF KeptInv, OneSession
    <3>4. e.id - 1 = lastId[i] BY <1>5, <1>6, <3>1
    <3>5. Fits(e, tree[i], x) BY <3>2, <3>3, <3>4 DEF Fits
    <3> QED BY <3>5, <1>0, <1>1
  <2> QED BY <2>1, <2>2
<1>8. lastId'[i] = e.id /\ \A p \in Ids : p # i => lastId'[p] = lastId[p] /\ tree'[p] = tree[p]
  BY <1>0, <1>1
<1>9. e.id # 0 /\ e.id <= nextId[x]
  <2>1. cursor[k] + Len(batch[k]) <= nextId[x] BY <1>5 DEF NoGap
  <2>2. Len(w) >= 1 BY <1>1, <1>5
  <2>3. Before(k) = cursor[k] - Len(w) BY DEF Before
  <2>4. cursor[k] \in Nat /\ Len(batch[k]) \in Nat /\ nextId[x] \in Nat BY <1>0, <1>1, <1>3
  <2> HIDE DEF w, x, e, k
  <2> QED BY <1>5, <1>6, <2>1, <2>2, <2>3, <2>4
<1> HIDE DEF e, w, x, k
<1>10. BufferIsWhole' BY <1>1 DEF BufferIsWhole
<1>11. PageShows'
  <2>1. Sessions' = Sessions BY <1>1 DEF Sessions
  <2> SUFFICES ASSUME NEW p \in Ids
               PROVE  \/ lastId'[p] = 0 /\ tree'[p] = Blank
                      \/ /\ lastId'[p] # 0
                         /\ \E y \in Sessions : /\ page[y] = p /\ lastId'[p] <= nextId[y]
                                                /\ tree'[p] = [of |-> y, at |-> lastId'[p]]
    BY <1>1, <2>1 DEF PageShows
  <2>2. CASE p = i BY <2>2, <1>3, <1>7, <1>8, <1>9
  <2>3. CASE p # i BY <2>3, <1>8 DEF PageShows
  <2> QED BY <2>2, <2>3
<1>12. FirstTry'
  <2>1. NoneToCome => NoneToCome' BY <1>1 DEF NoneToCome
  <2>2. \A j \in Streams : lastId'[page[j]] = 0 => lastId[page[j]] = 0 BY <1>0, <1>8, <1>9
  <2> QED BY <1>1, <2>1, <2>2 DEF FirstTry
<1>13. PagesFollow'
  <2> SUFFICES ASSUME NEW j \in Streams, conn[page[j]] = j PROVE Follows(j)'
    BY <1>1 DEF PagesFollow
  <2>1. CASE j = k
    <3>1. wire'[j] = Tail(w) /\ wire[j] = w BY <2>1, <1>0, <1>1 DEF w
    <3>2. Before(j)' = Before(j) + 1
      <4>1. Before(j) = cursor[j] - Len(w) BY <3>1 DEF Before
      <4>2. cursor[j] \in Nat BY <1>0
      <4>3. Before(j)' = cursor[j] - Len(Tail(w)) BY <1>1, <3>1 DEF Before
      <4>4. Len(w) \in Nat /\ Len(Tail(w)) = Len(w) - 1 BY <1>5, <1>6
      <4> QED BY <4>1, <4>2, <4>3, <4>4
    <3>3. NoGap(j)'
      <4>1. NoGap(j)' <=> /\ Before(j) + 1 >= 0
                          /\ Numbered(Tail(w), Before(j) + 1) /\ Numbered(batch[j], cursor[j])
                          /\ cursor[j] + Len(batch[j]) <= nextId[serves[j]]
                          /\ nextId[serves[j]]
                                <= cursor[j] + Len(batch[j]) + Len(history[serves[j]])
        BY <1>1, <3>1, <3>2 DEF NoGap
      <4>2. /\ Numbered(batch[j], cursor[j])
            /\ cursor[j] + Len(batch[j]) <= nextId[serves[j]]
            /\ nextId[serves[j]] <= cursor[j] + Len(batch[j]) + Len(history[serves[j]])
        BY <2>1, <1>5 DEF NoGap
      <4>3. Before(j) + 1 >= 0 /\ Numbered(Tail(w), Before(j) + 1) BY <2>1, <1>5, <1>6
      <4> QED BY <4>1, <4>2, <4>3
    <3>4. lastId'[page[j]] # 0 /\ lastId'[page[j]] = Before(j)'
      BY <2>1, <1>2, <1>6, <1>8, <1>9, <3>2
    <3>5. phase'[j] # "authorizing" /\ page' = page BY <2>1, <1>1, <1>3
    <3> QED BY <3>3, <3>4, <3>5 DEF Follows
  <2>2. CASE j # k
    <3>1. wire'[j] = wire[j] BY <1>0, <1>1, <2>2
    <3>2. page[j] # i BY <2>2 DEF k
    <3>3. lastId'[page[j]] = lastId[page[j]] BY <1>0, <1>8, <3>2
    <3>4. Follows(j) BY DEF PagesFollow
    <3>5. Before(j)' = Before(j) BY <1>1, <3>1 DEF Before
    <3>6. NoGap(j)' <=> NoGap(j) BY <1>1, <3>1, <3>5 DEF NoGap
    <3>7. StartsWhole(j)' <=> StartsWhole(j) BY <1>1, <3>1, <3>5 DEF StartsWhole
    <3> QED BY <1>1, <3>3, <3>4, <3>5, <3>6, <3>7 DEF Follows
  <2> QED BY <2>1, <2>2
<1> QED BY <1>1, <1>2, <1>8, <1>10, <1>11, <1>12, <1>13

\* What a step does to the scene of a session and to what a page shows.
NewScene == \E x \in Sessions :
    /\ nextId' = [nextId EXCEPT ![x] = @ + 1]
    /\ UNCHANGED <<lastId, page>> /\ Sessions' = Sessions
NewShown == \E i \in Ids :
    /\ lastId[i] < lastId'[i] /\ \A p \in Ids : p # i => lastId'[p] = lastId[p]
    /\ UNCHANGED <<nextId, page>> /\ Sessions' = Sessions
NewSession == \E k \in Streams :
    /\ Sessions' = Sessions \cup {k} /\ nextId[k] = 0 /\ \A x \in Sessions : page[x] # page[k]
    /\ UNCHANGED <<lastId, nextId, page>>
SamePictures == UNCHANGED <<lastId, nextId, page>> /\ Sessions' = Sessions
Pictures == NewScene \/ NewShown \/ NewSession \/ SamePictures

LEMMA MirrorStep ==
    ASSUME ComesBackInTime, FirstFrameArrives, IInv, KeptInv, MirrorInv, KeepsReading, [Next]_vars
    PROVE  MirrorInv' /\ Pictures
<1>0. /\ run \in [Streams -> {"none", "spawned", "receiving", "handling", "done"}]
      /\ page \in [Streams -> Ids]
  BY DEF IInv, TypeOK
<1>1. ASSUME SameSessions, UNCHANGED <<lastId, nextId, page>> PROVE Pictures
  <2>1. Sessions' = Sessions BY <1>1 DEF SameSessions, Sessions
  <2> QED BY <1>1, <2>1 DEF Pictures, SamePictures
<1>2. ASSUME UNCHANGED <<run, lastId, nextId, page>> PROVE Pictures
  BY <1>1, <1>2 DEF SameSessions
<1>3. ASSUME NEW x \in Sessions, NEW root \in BOOLEAN, Enqueue(x, root), SameSessions,
             UNCHANGED <<lastId, page>>
      PROVE  Pictures
  <2>1. Sessions' = Sessions BY <1>3 DEF SameSessions, Sessions
  <2>2. nextId' = [nextId EXCEPT ![x] = @ + 1] BY <1>3 DEF Enqueue
  <2> QED BY <1>3, <2>1, <2>2 DEF Pictures, NewScene
<1> DEFINE Goal == MirrorInv' /\ Pictures
<1> SUFFICES Goal OBVIOUS
<1>4. ASSUME NEW k \in Streams, Connect(k) PROVE Goal
  BY <1>2, <1>4, ConnectMirror DEF Connect, tickVars
<1>5. ASSUME NEW k \in Streams, Stream(k) PROVE Goal
  <2>1. CASE Refuse(k) BY <1>2, <2>1, RefuseMirror DEF Refuse, tickVars
  <2>2. CASE OpenNew(k)
    <3>1. MirrorInv' BY <2>2, OpenNewMirror
    <3>2. /\ phase[k] = "authorizing" /\ rec[page[k]] = None /\ run' = [run EXCEPT ![k] = "spawned"]
          /\ UNCHANGED <<lastId, nextId, page>>
      BY <2>2 DEF OpenNew, MayServe, pageVars, tickVars
    <3>3. run[k] = "none" BY <3>2 DEF IInv, Relations, Unadmitted
    <3>4. nextId[k] = 0 BY <3>3 DEF MirrorInv, BufferIsWhole
    <3>5. Sessions' = Sessions \cup {k} BY <1>0, <3>2 DEF Sessions
    <3>6. \A x \in Sessions : page[x] # page[k]
      <4> SUFFICES ASSUME NEW x \in Sessions, page[x] = page[k] PROVE FALSE OBVIOUS
      <4>1. x \in Streams /\ x # None BY DEF Sessions, Streams, None
      <4>2. closed[x] BY <3>2, <4>1 DEF IInv, Relations, Registered, OpenSessions
      <4> QED BY <3>2, <4>1, <4>2 DEF KeptInv, ClosedLast, NoneToCome
    <3> QED BY <3>1, <3>2, <3>4, <3>5, <3>6 DEF Pictures, NewSession
  <2>3. CASE TakeOver(k)
    <3>1. MirrorInv' /\ UNCHANGED <<lastId, page>> /\ SameSessions BY <2>3, TakeOverMirror
    <3>2. UNCHANGED nextId \/ (rec[page[k]] \in Sessions /\ Enqueue(rec[page[k]], TRUE))
      BY <2>3, TakeOverMirror
    <3> QED BY <1>1, <1>3, <3>1, <3>2
  <2>4. CASE StartBody(k) \/ AbandonBody(k) \/ StreamEnds(k)
    <3>1. MirrorInv' BY <2>4, QuietMirror
    <3>2. UNCHANGED <<run, lastId, nextId, page>>
      BY <2>4 DEF StartBody, AbandonBody, StreamEnds, EndStream, pageVars, tickVars
    <3> QED BY <1>2, <3>1, <3>2
  <2>5. CASE TakePending(k) \/ YieldNext(k)
    <3>1. MirrorInv' BY <2>5, YieldMirror
    <3>2. UNCHANGED <<run, lastId, nextId, page>>
      BY <2>5 DEF TakePending, YieldNext, pageVars, requestVars, tickVars
    <3> QED BY <1>2, <3>1, <3>2
  <2> QED BY <1>5, <2>1, <2>2, <2>3, <2>4, <2>5 DEF Stream
<1>6. ASSUME NEW k \in Streams, DropNoticed(k) PROVE Goal
  <2>1. MirrorInv' BY <1>6, QuietMirror
  <2>2. UNCHANGED <<run, lastId, nextId, page>>
    BY <1>6 DEF DropNoticed, EndStream, pageVars, tickVars
  <2> QED BY <1>2, <2>1, <2>2
<1>7. ASSUME NEW x \in Streams, Run(x) \/ Rebuild(x) PROVE Goal
  <2>1. CASE Mount(x) \/ Rebuild(x) \/ (Receive(x) /\ Head(inbox[x]) = Resync)
    BY <1>3, <2>1, TicksMirror
  <2>2. CASE MountFails(x) \/ Handled(x) \/ RunEnds(x) \/ (Receive(x) /\ UNCHANGED tickVars)
    <3>1. MirrorInv' BY <2>2, QuietMirror
    <3>2. UNCHANGED <<lastId, nextId, page>>
      BY <2>2 DEF MountFails, Handled, RunEnds, Receive, pageVars, requestVars, tickVars
    <3>3. SameSessions
      BY <1>0, <2>2 DEF MountFails, Handled, RunEnds, Receive, SameSessions
    <3> QED BY <1>1, <3>1, <3>2, <3>3
  <2> QED BY <1>7, <2>1, <2>2 DEF Run, Receive
<1>8. ASSUME NEW i \in Ids, Lose(i) \/ EndOfStream(i) PROVE Goal
  <2>1. MirrorInv' BY <1>8, DisconnectMirror
  <2>2. UNCHANGED <<run, lastId, nextId, page>>
    BY <1>8 DEF Lose, EndOfStream, requestVars, tickVars
  <2> QED BY <1>2, <2>1, <2>2
<1>9. ASSUME NEW i \in Ids, Show(i) PROVE Goal
  <2>1. /\ MirrorInv' /\ UNCHANGED <<nextId, page, run>>
        /\ \A p \in Ids : p # i => lastId'[p] = lastId[p]
        /\ lastId[i] < lastId'[i]
    BY <1>9, ShowMirror
  <2>2. Sessions' = Sessions BY <2>1 DEF Sessions
  <2> QED BY <2>1, <2>2 DEF Pictures, NewShown
<1>10. ASSUME (\E i \in Ids, event \in {Click, Resync} : Post(i, event)) \/ UNCHANGED vars
       PROVE  Goal
  <2>1. MirrorInv' BY <1>10, QuietMirror
  <2>2. UNCHANGED <<run, lastId, nextId, page>>
    BY <1>10 DEF Post, vars, pageVars, requestVars, tickVars
  <2> QED BY <1>2, <2>1, <2>2
<1> HIDE DEF Goal
<1>11. CASE Next
  <2>1. CASE \E k \in Streams : Connect(k) \/ Stream(k) \/ DropNoticed(k)
    BY <2>1, <1>4, <1>5, <1>6
  <2>2. CASE \E x \in Streams : Run(x) \/ Rebuild(x) BY <2>2, <1>7
  <2>3. CASE \E i \in Ids : Lose(i) \/ EndOfStream(i) \/ Show(i) BY <2>3, <1>8, <1>9
  <2>4. CASE \E i \in Ids, event \in {Click, Resync} : Post(i, event) BY <2>4, <1>10
  <2> QED BY <1>11, <2>1, <2>2, <2>3, <2>4 DEF Next
<1> QED BY <1>10, <1>11

\* SSETransport's ids and replay: what comes to such a page follows what it shows,
\* or starts with a whole scene.
THEOREM MirrorInvariant ==
    ASSUME ComesBackInTime, FirstFrameArrives PROVE Spec /\ []KeepsReading => []MirrorInv
<1>1. Init => MirrorInv BY InitMirror
<1>2. IInv /\ KeptInv /\ MirrorInv /\ KeepsReading /\ [Next]_vars => MirrorInv' BY MirrorStep
<1> QED BY <1>1, <1>2, SseInvariant, KeptInvariant, PTL DEF Spec

\* diff and applyPatches: no patch is ever applied to a tree it was not computed
\* against.
THEOREM ReturningPagesFit ==
    ASSUME ComesBackInTime, FirstFrameArrives PROVE Spec /\ []KeepsReading => []PatchFits
<1>1. TypeOK /\ MirrorInv => PatchFits
  <2> SUFFICES ASSUME TypeOK, MirrorInv, NEW i \in Ids PROVE tree[i] # Torn BY DEF PatchFits
  <2>1. CASE tree[i] = Blank BY <2>1 DEF Blank, Torn
  <2>2. CASE \E x \in Sessions : tree[i] = [of |-> x, at |-> lastId[i]]
    BY <2>2 DEF Sessions, Streams, Torn, None
  <2> QED BY <2>1, <2>2 DEF MirrorInv, PageShows
<1>2. IInv => TypeOK BY DEF IInv
<1> QED BY <1>1, <1>2, SseInvariant, MirrorInvariant, PTL

-----------------------------------------------------------------------------
(* SseSessions implements MirroredScene.                                   *)

\* The scene of a page's session, and the one it shows.
Pictured(i) ==
    /\ ShownOf(i) = lastId[i] /\ lastId[i] \in Nat
    /\ SceneOf(i) \in Nat /\ lastId[i] <= SceneOf(i)
    /\ \A x \in SessionsOf(i) : SceneOf(i) = nextId[x]
    /\ SessionsOf(i) = {} => SceneOf(i) = 0

LEMMA PagesArePictured ==
    ASSUME IInv, KeptInv, MirrorInv, NEW i \in Ids PROVE Pictured(i)
<1>0. /\ lastId \in [Ids -> Nat] /\ nextId \in [Streams -> Nat] /\ None \notin Streams
      /\ SessionsOf(i) \subseteq Sessions /\ Sessions \subseteq Streams
  BY DEF IInv, TypeOK, None, Streams, SessionsOf, Sessions
<1>1. \A x, y \in SessionsOf(i) : x = y BY DEF SessionsOf, KeptInv, OneSession
<1>2. ASSUME NEW x \in SessionsOf(i) PROVE SceneOf(i) = nextId[x]
  <2>1. (CHOOSE y \in SessionsOf(i) : TRUE) \in SessionsOf(i) BY <1>2
  <2>2. (CHOOSE y \in SessionsOf(i) : TRUE) = x BY <1>1, <1>2, <2>1, Zenon
  <2> QED BY <1>2, <2>2 DEF SceneOf
<1>3. SessionsOf(i) = {} => SceneOf(i) = 0 BY DEF SceneOf
<1>4. SceneOf(i) \in Nat BY <1>0, <1>2, <1>3
<1>5. CASE lastId[i] = 0 /\ tree[i] = Blank
  <2>1. tree[i] # Torn /\ tree[i].at = 0 BY <1>5 DEF Blank, Torn
  <2> QED BY <1>0, <1>2, <1>3, <1>4, <1>5, <2>1 DEF Pictured, ShownOf
<1>6. CASE \E x \in Sessions : /\ page[x] = i /\ lastId[i] <= nextId[x]
                               /\ tree[i] = [of |-> x, at |-> lastId[i]]
  <2>1. PICK x \in Sessions : page[x] = i /\ lastId[i] <= nextId[x]
                              /\ tree[i] = [of |-> x, at |-> lastId[i]]
    BY <1>6
  <2>2. x \in SessionsOf(i) /\ x # None BY <1>0, <2>1 DEF SessionsOf
  <2>3. tree[i] # Torn /\ tree[i].at = lastId[i] BY <2>1, <2>2 DEF Torn
  <2>4. SceneOf(i) = nextId[x] BY <1>2, <2>2
  <2> QED BY <1>0, <1>2, <1>3, <1>4, <2>1, <2>3, <2>4 DEF Pictured, ShownOf
<1> QED BY <1>5, <1>6 DEF MirrorInv, PageShows

LEMMA PictureStep ==
    ASSUME TypeOK, NEW i \in Ids, Pictured(i), Pictured(i)', Pictures
    PROVE  [Mirror(i)!Next]_(Mirror(i)!vars)
<1> DEFINE S == SceneOf(i)
           L == lastId[i]
<1>0. /\ nextId \in [Streams -> Nat] /\ Sessions \subseteq Streams
      /\ page \in [Streams -> Ids] /\ SessionsOf(i) \subseteq Sessions
  BY DEF TypeOK, Sessions, SessionsOf
<1>1. S \in Nat /\ S' \in Nat /\ L \in Nat /\ L' \in Nat /\ L <= S /\ L' <= S'
  BY DEF Pictured
<1>2. ASSUME L' = L, S' = S PROVE [Mirror(i)!Next]_(Mirror(i)!vars)
  BY <1>2 DEF Mirror!vars, Pictured
<1>3. ASSUME L' = L, S' = S + 1 PROVE [Mirror(i)!Next]_(Mirror(i)!vars)
  BY <1>3 DEF Mirror!Next, Mirror!Advance, Pictured
<1>4. ASSUME L < L', S' = S PROVE [Mirror(i)!Next]_(Mirror(i)!vars)
  <2>1. L < S /\ L' \in (L + 1)..S BY <1>1, <1>4
  <2> QED BY <1>4, <2>1 DEF Mirror!Next, Mirror!Show, Pictured
<1>5. ASSUME UNCHANGED nextId, SessionsOf(i)' = SessionsOf(i) PROVE S' = S
  <2>1. CASE SessionsOf(i) = {} BY <2>1, <1>5 DEF Pictured
  <2>2. CASE SessionsOf(i) # {}
    <3>1. PICK x \in SessionsOf(i) : TRUE BY <2>2
    <3>2. S = nextId[x] /\ S' = nextId'[x] BY <1>5, <3>1 DEF Pictured
    <3> QED BY <1>5, <3>2
  <2> QED BY <2>1, <2>2
<1>6. CASE SamePictures
  <2>1. SessionsOf(i)' = SessionsOf(i) BY <1>6 DEF SamePictures, SessionsOf
  <2> QED BY <1>2, <1>5, <1>6, <2>1 DEF SamePictures
<1>7. CASE NewSession
  <2>1. PICK k \in Streams :
           /\ Sessions' = Sessions \cup {k} /\ nextId[k] = 0
           /\ \A x \in Sessions : page[x] # page[k]
           /\ UNCHANGED <<lastId, nextId, page>>
    BY <1>7 DEF NewSession
  <2>2. CASE page[k] # i
    <3>1. SessionsOf(i)' = SessionsOf(i) BY <2>1, <2>2 DEF SessionsOf
    <3> QED BY <1>2, <1>5, <2>1, <3>1
  <2>3. CASE page[k] = i
    <3>1. SessionsOf(i) = {} BY <2>1, <2>3 DEF SessionsOf
    <3>2. k \in SessionsOf(i)' BY <2>1, <2>3 DEF SessionsOf
    <3>3. S = 0 /\ S' = nextId'[k] BY <3>1, <3>2 DEF Pictured
    <3> QED BY <1>2, <2>1, <3>3
  <2> QED BY <2>2, <2>3
<1>8. CASE NewShown
  <2>1. PICK j \in Ids :
           /\ lastId[j] < lastId'[j] /\ \A p \in Ids : p # j => lastId'[p] = lastId[p]
           /\ UNCHANGED <<nextId, page>> /\ Sessions' = Sessions
    BY <1>8 DEF NewShown
  <2>2. SessionsOf(i)' = SessionsOf(i) BY <2>1 DEF SessionsOf
  <2>3. S' = S BY <1>5, <2>1, <2>2
  <2> QED BY <1>2, <1>4, <2>1, <2>3
<1>9. CASE NewScene
  <2>1. PICK x \in Sessions :
           /\ nextId' = [nextId EXCEPT ![x] = @ + 1]
           /\ UNCHANGED <<lastId, page>> /\ Sessions' = Sessions
    BY <1>9 DEF NewScene
  <2>2. SessionsOf(i)' = SessionsOf(i) BY <2>1 DEF SessionsOf
  <2>3. CASE SessionsOf(i) = {}
    <3>1. S' = S BY <2>2, <2>3 DEF Pictured
    <3> QED BY <1>2, <2>1, <3>1
  <2>4. CASE SessionsOf(i) # {}
    <3>1. PICK y \in SessionsOf(i) : TRUE BY <2>4
    <3>2. S = nextId[y] /\ S' = nextId'[y] BY <2>2, <3>1 DEF Pictured
    <3>3. y \in Streams BY <1>0, <3>1
    <3>4. CASE y = x
      <4>1. S' = S + 1 BY <1>0, <2>1, <3>2, <3>3, <3>4
      <4> QED BY <1>3, <2>1, <4>1
    <3>5. CASE y # x
      <4>1. S' = S BY <1>0, <2>1, <3>2, <3>3, <3>5
      <4> QED BY <1>2, <2>1, <4>1
    <3> QED BY <3>4, <3>5
  <2> QED BY <2>3, <2>4
<1> QED BY <1>6, <1>7, <1>8, <1>9 DEF Pictures

\* transports/sse.py and transport-sse.js: a page that always comes back before
\* its drop is noticed, after its first frame, on connections that are never
\* full, is mirrored: it shows scenes the application had, in their order, and
\* applies no patch to a tree it was not computed against.
THEOREM ReturningPagesAreMirrored ==
    ASSUME ComesBackInTime, FirstFrameArrives, NEW i \in Ids
    PROVE  Spec /\ []KeepsReading => Mirror(i)!Spec
<1>1. Init => Mirror(i)!Init
  <2> SUFFICES ASSUME Init PROVE Mirror(i)!Init OBVIOUS
  <2>1. Sessions = {} /\ tree[i] = Blank BY DEF Init, Sessions
  <2>2. SessionsOf(i) = {} BY <2>1 DEF SessionsOf
  <2>3. tree[i] # Torn /\ tree[i].at = 0 BY <2>1 DEF Blank, Torn
  <2> QED BY <2>2, <2>3 DEF Mirror!Init, SceneOf, ShownOf
<1>2. IInv /\ KeptInv /\ MirrorInv => Pictured(i) BY PagesArePictured
<1>3. IInv /\ KeptInv /\ MirrorInv /\ KeepsReading /\ [Next]_vars => Pictures BY MirrorStep
<1>4. TypeOK /\ Pictured(i) /\ Pictured(i)' /\ Pictures => [Mirror(i)!Next]_(Mirror(i)!vars)
  BY PictureStep
<1>5. IInv => TypeOK BY DEF IInv
<1> QED
  BY <1>1, <1>2, <1>3, <1>4, <1>5, SseInvariant, KeptInvariant, MirrorInvariant, PTL
     DEF Spec, Mirror!Spec
=============================================================================
