------------------------- MODULE NativeBridge_proofs -------------------------
(***************************************************************************)
(* Safety of the native bridge for any number of requests, connections and *)
(* restarts: who waits can be reached, nothing is settled twice, and until *)
(* the process ends an answer goes to the request it was made for.         *)
(***************************************************************************)
EXTENDS NativeBridge, SequenceTheorems, TLAPS

Requested == 1 .. Len(asked)
States == {"none", "waiting", "settled", "over", "dead"}
Asks == [kind : Kinds, id : Ids, bind : 1..MaxBinds]

\* What the wire and the page can name: requests that were made, by their ids.
Named == {e \in Entries : e.of \in Requested /\ e.id = IdOf(e.of)}
DownFrames == {f \in [what : {"open", "stop"}, id : Ids, of : Requests] :
                  f.of \in Requested /\ f.id = IdOf(f.of)}
UpFrames == {f \in [id : Ids, of : Requests, last : BOOLEAN] :
                  f.of \in Requested /\ f.id = IdOf(f.of)}

NamesAreTrue ==
    /\ table \subseteq Named /\ running \subseteq Named /\ stoppable \subseteq Named
    /\ down \in Seq(DownFrames) /\ up \in Seq(UpFrames)

\* The handlers that may still go on.
Live(n) == await[n] \in {"waiting", "settled"}

\* A request is awaited from the moment it was made; its id has its kind, and
\* the counters never run ahead of the requests.
Numbers ==
    /\ Len(asked) <= MaxRequests
    /\ \A k \in Kinds : counted[k] <= Len(asked)
    /\ \A n \in Requests : await[n] = "none" <=> n > Len(asked)
    /\ \A n \in Requested : IdOf(n)[1] = KindOf(n)

\* The requests of this process: all of them before the first restart, and
\* whoever is awaited after it.
Young(n) == restarts = 0 \/ Live(n)

\* Their ids were counted, and no two are the same.
IdsAreUnique ==
    /\ \A n \in Requested : Young(n) => IdOf(n)[2] <= counted[KindOf(n)]
    /\ \A n, m \in Requested : Young(n) /\ Young(m) /\ IdOf(n) = IdOf(m) => n = m

\* A stream in the table is one that waits: its last event takes it out.
StreamsWait == \A e \in table : KindOf(e.of) = "stream" => Waiting(e.of)

Relations ==
    /\ NamesAreTrue /\ Numbers /\ IdsAreUnique /\ StreamsWait
    /\ TableIsExact /\ NobodyWaitsForThePast /\ GetsItsOwnSoFar

IInv == TypeOK /\ Relations

USE BridgeAssumption DEF vars, conn, server, page

LEMMA InitIInv == Init => IInv
<1> SUFFICES ASSUME Init PROVE IInv OBVIOUS
<1>1. asked = <<>> /\ Len(asked) = 0 /\ Requested = {}
  BY DEF Init, Requested
<1>2. /\ \A S : asked \in Seq(S) /\ down \in Seq(S) /\ up \in Seq(S)
      /\ table = {} /\ running = {} /\ stoppable = {}
  BY DEF Init
<1>3. TypeOK BY <1>1, <1>2 DEF Init, TypeOK, BridgeAssumption
<1>4. /\ \A k \in Kinds : counted[k] = 0
      /\ \A n \in Requests : await[n] = "none" /\ got[n] = {}
      /\ MaxRequests \in Nat
  BY DEF Init, BridgeAssumption
<1> QED BY <1>1, <1>2, <1>3, <1>4
        DEF IInv, Relations, NamesAreTrue, Numbers, IdsAreUnique, StreamsWait, TableIsExact,
            NobodyWaitsForThePast, GetsItsOwnSoFar, GetsItsOwn, Requests, Requested

\* What the parts are, named.
LEMMA Parts ==
    ASSUME IInv
    PROVE  /\ asked \in Seq(Asks) /\ Len(asked) \in Nat /\ Requested \subseteq Requests
           /\ \A n \in Requested : asked[n] \in Asks /\ KindOf(n) \in Kinds /\ IdOf(n) \in Ids
           /\ await \in [Requests -> States] /\ got \in [Requests -> SUBSET Requests]
           /\ \A e \in table : e \in Entries /\ e.of \in Requested /\ e.id = IdOf(e.of) /\ Live(e.of)
<1>1. asked \in Seq(Asks) BY DEF IInv, TypeOK, Asks
<1>2. Len(asked) \in Nat /\ \A n \in Requested : asked[n] \in Asks
  BY <1>1, LenProperties, ElementOfSeq DEF Requested
<1>3. Requested \subseteq Requests
  BY <1>2 DEF IInv, Relations, Numbers, Requested, Requests, BridgeAssumption
<1>4. \A n \in Requested : asked[n] \in Asks /\ KindOf(n) \in Kinds /\ IdOf(n) \in Ids
  BY <1>2 DEF Asks, KindOf, IdOf
<1>5. \A e \in table : e \in Entries /\ e.of \in Requested /\ e.id = IdOf(e.of) /\ Live(e.of)
  BY DEF IInv, Relations, NamesAreTrue, TableIsExact, Named, Live
<1> QED BY <1>1, <1>2, <1>3, <1>4, <1>5 DEF IInv, TypeOK, States

\* A frame is put on the wire, or lost.
LEMMA Shipped ==
    ASSUME NEW S, down \in Seq(S), NEW f \in S, Ship(f)
    PROVE  down' \in Seq(S)
  BY AppendProperties DEF Ship

\* What a request that was made is called never changes, so what names it stays
\* true.
LEMMA NamesStay ==
    ASSUME IInv, asked' = asked,
           table' \subseteq Named, running' \subseteq Named, stoppable' \subseteq Named,
           down' \in Seq(DownFrames), up' \in Seq(UpFrames)
    PROVE  NamesAreTrue'
<1>1. /\ Named' = Named /\ DownFrames' = DownFrames /\ UpFrames' = UpFrames
  BY DEF Named, DownFrames, UpFrames, Requested, IdOf
<1> QED BY <1>1 DEF NamesAreTrue

-----------------------------------------------------------------------------
(* A handler asks.                                                         *)

LEMMA AskIInv ==
    ASSUME IInv, NEW kind \in Kinds, Ask(kind),
           NEW n, n = Len(asked) + 1, NEW i, i = counted[kind] + 1
    PROVE  IInv'
<1> DEFINE id == <<kind, i>>
           new == [id |-> id, of |-> n]
           request == [kind |-> kind, id |-> id, bind |-> binds]
<1>1. /\ counted' = [counted EXCEPT ![kind] = i] /\ counted'[kind] = i
      /\ n \in Requests /\ i \in 1 .. MaxRequests /\ i <= n
      /\ \A k \in Kinds : counted[k] \in Nat /\ counted[k] <= Len(asked)
      /\ Len(asked) \in Nat /\ n <= MaxRequests
  <2>1. /\ counted \in [Kinds -> 0 .. MaxRequests] /\ Len(asked) \in Nat
        /\ n <= MaxRequests - restarts /\ restarts \in Nat
        /\ \A k \in Kinds : counted[k] <= Len(asked)
        /\ counted' = [counted EXCEPT ![kind] = @ + 1]
    BY Parts DEF Ask, NextId, IInv, TypeOK, Relations, Numbers, BridgeAssumption
  <2> QED BY <2>1 DEF Requests, BridgeAssumption
<1>2. /\ asked' = Append(asked, request)
      /\ table' = {e \in table : e.id /= id} \cup {new}
      /\ await' = [await EXCEPT ![n] = "waiting"]
      /\ Ship([what |-> "open", id |-> id, of |-> n])
      /\ UNCHANGED <<wired, binds, restarts, session, got, up, running, stoppable>>
      /\ session = "held"
  BY <1>1 DEF Ask, Registered, NextId
<1>3. id \in Ids /\ new \in Entries /\ request \in Asks
  BY <1>1 DEF Ids, Entries, Asks, IInv, TypeOK, BridgeAssumption
<1>4. /\ asked' \in Seq(Asks) /\ Len(asked') = n
      /\ \A m \in Requested : asked'[m] = asked[m]
      /\ asked'[n] = request
  <2>1. asked \in Seq(Asks) BY Parts
  <2> QED BY <1>2, <1>3, <2>1, AppendProperties DEF Requested
<1> HIDE DEF new, request
<1>5. TypeOK'
  <2>1. counted' \in [Kinds -> 0 .. MaxRequests] BY <1>1 DEF IInv, TypeOK
  <2>2. await' \in [Requests -> States] BY <1>1, <1>2, Parts DEF States
  <2> QED BY <1>1, <1>2, <1>3, <1>4, <2>1, <2>2 DEF IInv, TypeOK, Asks, States
<1>6. /\ Requested' = 1 .. n /\ n \notin Requested
      /\ \A m \in 1 .. n : m = n \/ m \in Requested
      /\ IdOf(n)' = id /\ KindOf(n)' = kind /\ asked'[n].bind = binds
      /\ \A m \in Requested : /\ IdOf(m)' = IdOf(m) /\ KindOf(m)' = KindOf(m)
                              /\ asked'[m].bind = asked[m].bind /\ m \in 1 .. n
  BY <1>1, <1>4 DEF Requested, IdOf, KindOf, request
<1>7. /\ await'[n] = "waiting" /\ await[n] = "none"
      /\ \A m \in Requests : m # n => await'[m] = await[m]
  BY <1>1, <1>2, Parts DEF IInv, Relations, Numbers
<1>8. Numbers'
  <2>1. \A k \in Kinds : counted'[k] <= n
    BY <1>1 DEF IInv, TypeOK
  <2>2. \A m \in Requests : await'[m] = "none" <=> m > n
    BY <1>1, <1>7 DEF IInv, Relations, Numbers, Requests
  <2>3. \A m \in 1 .. n : IdOf(m)'[1] = KindOf(m)'
    <3>1. \A m \in Requested : IdOf(m)[1] = KindOf(m) BY DEF IInv, Relations, Numbers
    <3> QED BY <1>6, <3>1
  <2> QED BY <1>1, <1>4, <1>6, <2>1, <2>2, <2>3 DEF Numbers
\* The id is no other's.
<1>9. \A m \in Requested : Young(m) => IdOf(m) # id /\ IdOf(m)[2] <= counted'[KindOf(m)]
  <2> SUFFICES ASSUME NEW m \in Requested, Young(m)
               PROVE  IdOf(m) # id /\ IdOf(m)[2] <= counted'[KindOf(m)]
    OBVIOUS
  <2>1. IdOf(m)[2] <= counted[KindOf(m)] /\ IdOf(m)[1] = KindOf(m) /\ KindOf(m) \in Kinds
    BY Parts DEF IInv, Relations, IdsAreUnique, Numbers
  <2>2. IdOf(m)[2] \in Nat BY Parts DEF Ids, BridgeAssumption
  <2>3. counted[KindOf(m)] <= counted'[KindOf(m)] /\ counted'[KindOf(m)] \in Nat
    BY <1>1, <2>1 DEF IInv, TypeOK, BridgeAssumption
  <2>4. IdOf(m) = id => IdOf(m)[1] = kind /\ IdOf(m)[2] = i
    OBVIOUS
  <2> HIDE DEF id
  <2> QED BY <1>1, <2>1, <2>2, <2>3, <2>4
<1>10. \A m \in Requested : Young(m)' <=> Young(m)
  BY <1>2, <1>6, <1>7, Parts DEF Young, Live
<1>11. IdsAreUnique'
  <2>1. IdOf(n)'[2] <= counted'[KindOf(n)']
    BY <1>1, <1>6
  <2>2. \A m \in Requested : Young(m)' => IdOf(m)'[2] <= counted'[KindOf(m)']
    BY <1>6, <1>9, <1>10
  <2>3. \A m, q \in Requested : Young(m)' /\ Young(q)' /\ IdOf(m)' = IdOf(q)' => m = q
    BY <1>6, <1>10 DEF IInv, Relations, IdsAreUnique
  <2>4. \A m \in Requested : Young(m)' => IdOf(m)' # IdOf(n)'
    BY <1>6, <1>9, <1>10
  <2> QED BY <1>6, <2>1, <2>2, <2>3, <2>4 DEF IdsAreUnique
<1>12. NamesAreTrue'
  <2>1. Named \subseteq Named' BY <1>4, <1>6 DEF Named
  <2>2. DownFrames \subseteq DownFrames' /\ UpFrames \subseteq UpFrames'
    BY <1>4, <1>6 DEF DownFrames, UpFrames
  <2>3. new \in Named' BY <1>3, <1>6 DEF Named, new
  <2>4. [what |-> "open", id |-> id, of |-> n] \in DownFrames'
    BY <1>1, <1>3, <1>6 DEF DownFrames
  <2>5. down' \in Seq(DownFrames')
    BY <1>2, <2>2, <2>4, Shipped, SeqMonotonic DEF IInv, Relations, NamesAreTrue
  <2>6. up' \in Seq(UpFrames')
    BY <1>2, <2>2, SeqMonotonic DEF IInv, Relations, NamesAreTrue
  <2> QED BY <1>2, <2>1, <2>3, <2>5, <2>6 DEF IInv, Relations, NamesAreTrue
<1>13. TableIsExact'
  <2>1. \A m \in Requested : Waiting(m)' => [id |-> IdOf(m)', of |-> m] \in table'
    BY <1>2, <1>6, <1>7, <1>9, Parts DEF IInv, Relations, TableIsExact, Requested, Waiting, Young, Live
  <2>2. [id |-> IdOf(n)', of |-> n] \in table' BY <1>2, <1>6 DEF new
  <2>3. \A e \in table' : await'[e.of] \in {"waiting", "settled"}
    BY <1>2, <1>6, <1>7, Parts DEF IInv, Relations, TableIsExact, new
  <2> QED BY <1>4, <1>6, <2>1, <2>2, <2>3 DEF TableIsExact, Requested
<1>14. StreamsWait'
  BY <1>2, <1>6, <1>7, Parts DEF IInv, Relations, StreamsWait, Waiting, new
<1>15. NobodyWaitsForThePast'
  BY <1>2, <1>4, <1>6, <1>7, Parts DEF IInv, Relations, NobodyWaitsForThePast, Waiting, Requested
<1>16. GetsItsOwnSoFar'
  BY <1>2 DEF IInv, Relations, GetsItsOwnSoFar, GetsItsOwn
<1> QED BY <1>5, <1>8, <1>11, <1>12, <1>13, <1>14, <1>15, <1>16 DEF IInv, Relations

-----------------------------------------------------------------------------
(* A request is settled, or its handler goes on.                           *)

\* Numbers and ids, while nothing is asked and nobody comes back to life.
LEMMA NumbersStay ==
    ASSUME IInv, UNCHANGED <<asked, counted, restarts>>,
           \A n \in Requests : /\ await'[n] = "none" <=> await[n] = "none"
                               /\ Live(n)' => Live(n)
    PROVE  (Numbers /\ IdsAreUnique)'
<1>1. Numbers' BY DEF IInv, Relations, Numbers, Requested, IdOf, KindOf
<1>2. \A n \in Requested : Young(n)' => Young(n) BY Parts DEF Young
<1>3. IdsAreUnique'
  BY <1>2 DEF IInv, Relations, IdsAreUnique, Requested, IdOf, KindOf
<1> QED BY <1>1, <1>3

LEMMA OverIInv == ASSUME IInv, NEW n \in Requested, Live(n), Over(n) PROVE IInv'
<1>1. /\ await' = [await EXCEPT ![n] = "over"]
      /\ table' = {e \in table : e.id /= IdOf(n)}
      /\ Ship([what |-> "stop", id |-> IdOf(n), of |-> n]) \/ UNCHANGED down
      /\ UNCHANGED <<wired, binds, restarts, session, counted, asked, got, up, running, stoppable>>
  BY DEF Over, Popped
<1>2. /\ n \in Requests /\ await' \in [Requests -> States] /\ await'[n] = "over"
      /\ \A m \in Requests : m # n => await'[m] = await[m]
      /\ Waiting(n) \/ await[n] = "settled"
  BY <1>1, Parts DEF States, Live, Waiting
<1>3. TypeOK' BY <1>1, <1>2 DEF IInv, TypeOK, States
<1>4. (Numbers /\ IdsAreUnique)'
  BY <1>1, <1>2, NumbersStay DEF Live
<1>5. NamesAreTrue'
  <2>1. [what |-> "stop", id |-> IdOf(n), of |-> n] \in DownFrames
    BY <1>2, Parts DEF DownFrames
  <2>2. down' \in Seq(DownFrames)
    BY <1>1, <2>1, Shipped DEF IInv, Relations, NamesAreTrue
  <2> QED BY <1>1, <2>2, NamesStay DEF IInv, Relations, NamesAreTrue
\* Nobody else who waits has this id.
<1>6. TableIsExact'
  <2>1. \A m \in Requested : Waiting(m)' => m # n /\ Waiting(m)
    BY <1>2, Parts DEF Waiting
  <2>2. \A m \in Requested : Waiting(m) /\ m # n => IdOf(m) # IdOf(n)
    BY DEF IInv, Relations, IdsAreUnique, Young, Live, Waiting
  <2>3. \A m \in Requested : Waiting(m)' => [id |-> IdOf(m), of |-> m] \in table'
    BY <1>1, <2>1, <2>2 DEF IInv, Relations, TableIsExact, Requested
  <2>4. \A e \in table' : e.of # n /\ e.of \in Requests /\ await[e.of] \in {"waiting", "settled"}
    BY <1>1, Parts DEF Live
  <2> QED BY <1>1, <1>2, <2>3, <2>4 DEF TableIsExact, Requested, IdOf
<1>7. (StreamsWait /\ NobodyWaitsForThePast /\ GetsItsOwnSoFar)'
  <2>1. \A m \in Requests : Waiting(m)' => Waiting(m)
    BY <1>2 DEF Waiting
  <2>2. \A e \in table' : e \in table /\ e.of # n /\ e.of \in Requests
    BY <1>1, Parts
  <2>3. StreamsWait'
    BY <1>1, <1>2, <2>2 DEF IInv, Relations, StreamsWait, Waiting, KindOf
  <2>4. NobodyWaitsForThePast'
    BY <1>1, <2>1, Parts DEF IInv, Relations, NobodyWaitsForThePast, Requested
  <2>5. GetsItsOwnSoFar' BY <1>1 DEF IInv, Relations, GetsItsOwnSoFar, GetsItsOwn
  <2> QED BY <2>3, <2>4, <2>5
<1> QED BY <1>3, <1>4, <1>5, <1>6, <1>7 DEF IInv, Relations

\* An answer or an event reaches the server.
LEMMA DeliverIInv == ASSUME IInv, Deliver PROVE IInv'
<1> DEFINE f == Head(up)
<1>1. /\ up' = Tail(up) /\ up # <<>>
      /\ UNCHANGED <<wired, binds, restarts, session, counted, asked, down, running, stoppable>>
  BY DEF Deliver
<1>2. f \in UpFrames /\ up' \in Seq(UpFrames)
  BY <1>1, HeadTailProperties DEF IInv, Relations, NamesAreTrue
<1> HIDE DEF f
<1>3. CASE UNCHANGED <<got, await, table>>
  <2>1. TypeOK' BY <1>1, <1>3 DEF IInv, TypeOK
  <2>2. NamesAreTrue' BY <1>1, <1>2, <1>3, NamesStay DEF IInv, Relations, NamesAreTrue
  <2>3. (Numbers /\ IdsAreUnique)' BY <1>1, <1>3, NumbersStay DEF Live
  <2> QED BY <1>1, <1>3, <2>1, <2>2, <2>3
          DEF IInv, Relations, StreamsWait, TableIsExact, NobodyWaitsForThePast,
              GetsItsOwnSoFar, GetsItsOwn, Waiting, KindOf, IdOf
<1>4. ASSUME NEW e \in table, e.id = f.id, MayGive(e),
             got' = [got EXCEPT ![e.of] = @ \cup {f.of}],
             await' = IF f.last THEN [await EXCEPT ![e.of] = "settled"] ELSE await,
             table' = IF f.last /\ KindOf(e.of) = "stream" THEN Popped(f.id) ELSE table
      PROVE  IInv'
  <2>1. /\ e.of \in Requested /\ e.of \in Requests /\ e.id = IdOf(e.of) /\ Waiting(e.of)
        /\ KindOf(e.of) \in Kinds
    BY <1>4, Parts DEF MayGive, IInv, Relations, StreamsWait
  <2>2. /\ await' \in [Requests -> States]
        /\ \A m \in Requests : m # e.of => await'[m] = await[m]
        /\ await'[e.of] = IF f.last THEN "settled" ELSE "waiting"
    BY <1>4, <2>1, Parts DEF States, Waiting
  <2>3. table' \subseteq table BY <1>4 DEF Popped
  <2>4. TypeOK'
    <3>1. f.of \in Requests BY <1>2 DEF UpFrames
    <3>2. got' \in [Requests -> SUBSET Requests] BY <1>4, <3>1, Parts
    <3> QED BY <1>1, <2>2, <2>3, <3>2 DEF IInv, TypeOK, States
  <2>5. NamesAreTrue'
    BY <1>1, <1>2, <2>3, NamesStay DEF IInv, Relations, NamesAreTrue
  <2>6. (Numbers /\ IdsAreUnique)'
    BY <1>1, <2>1, <2>2, NumbersStay DEF Live, Waiting
  <2>7. \A m \in Requests : Waiting(m)' => Waiting(m) /\ (f.last => m # e.of)
    BY <2>1, <2>2 DEF Waiting
  <2>8. TableIsExact'
    <3>1. \A m \in Requested : Waiting(m) /\ m # e.of => IdOf(m) # f.id
      BY <1>4, <2>1 DEF IInv, Relations, IdsAreUnique, Young, Live, Waiting
    <3>2. \A m \in Requested : Waiting(m)' => [id |-> IdOf(m), of |-> m] \in table'
      BY <1>4, <2>7, <3>1, Parts DEF IInv, Relations, TableIsExact, Requested, Popped
    <3>3. \A d \in table' : await'[d.of] \in {"waiting", "settled"}
      BY <2>1, <2>2, <2>3, Parts DEF Live
    <3> QED BY <1>1, <3>2, <3>3 DEF TableIsExact, Requested, IdOf
  <2>9. StreamsWait'
    <3>1. \A d \in table' : KindOf(d.of) = "stream" => d.of # e.of \/ ~f.last
      BY <1>4, <2>1, Parts DEF Popped
    <3> QED BY <1>1, <2>1, <2>2, <2>3, <3>1, Parts DEF IInv, Relations, StreamsWait, Waiting, KindOf
  <2>10. NobodyWaitsForThePast'
    BY <1>1, <2>7, Parts DEF IInv, Relations, NobodyWaitsForThePast, Requested
\* The frame names the request its id was given to.
  <2>11. GetsItsOwnSoFar'
    <3> SUFFICES ASSUME restarts = 0 PROVE GetsItsOwn'
      BY <1>1 DEF GetsItsOwnSoFar
    <3>1. f.of \in Requested /\ IdOf(f.of) = IdOf(e.of)
      BY <1>2, <1>4, <2>1 DEF UpFrames
    <3>2. f.of = e.of
      BY <2>1, <3>1 DEF IInv, Relations, IdsAreUnique, Young
    <3> QED BY <1>4, <2>1, <3>2, Parts DEF IInv, Relations, GetsItsOwnSoFar, GetsItsOwn
  <2> QED BY <2>4, <2>5, <2>6, <2>8, <2>9, <2>10, <2>11 DEF IInv, Relations
<1> QED BY <1>3, <1>4 DEF Deliver, f

-----------------------------------------------------------------------------
(* Connections, sessions, processes, and the page.                         *)

\* The server's side is left alone.
LEMMA PageIInv ==
    ASSUME IInv, UNCHANGED <<server, restarts, binds>>, wired' \in BOOLEAN,
           running' \subseteq Named, stoppable' \subseteq Named,
           down' \in Seq(DownFrames), up' \in Seq(UpFrames)
    PROVE  IInv'
<1>1. TypeOK' BY DEF IInv, TypeOK, Named
<1>2. NamesAreTrue' BY NamesStay DEF IInv, Relations, NamesAreTrue
<1>3. (Numbers /\ IdsAreUnique)' BY NumbersStay DEF Live
<1> QED BY <1>1, <1>2, <1>3
        DEF IInv, Relations, StreamsWait, TableIsExact, NobodyWaitsForThePast,
            GetsItsOwnSoFar, GetsItsOwn, Waiting, KindOf, IdOf

LEMMA CutIInv == ASSUME IInv, Cut PROVE IInv'
<1>1. down' \in Seq(DownFrames) /\ up' \in Seq(UpFrames)
  BY EmptySeq DEF Cut
<1> QED BY <1>1, PageIInv DEF Cut, IInv, Relations, NamesAreTrue

\* A frame goes to the server, or is lost.
LEMMA Sent ==
    ASSUME IInv, NEW r \in running, NEW last \in BOOLEAN, Sends(r, last)
    PROVE  up' \in Seq(UpFrames)
<1>1. [id |-> r.id, of |-> r.of, last |-> last] \in UpFrames
  BY DEF IInv, Relations, NamesAreTrue, Named, UpFrames, Entries
<1>2. up \in Seq(UpFrames) BY DEF IInv, Relations, NamesAreTrue
<1> QED BY <1>1, <1>2, AppendProperties DEF Sends

LEMMA RunnerIInv ==
    ASSUME IInv, NEW r \in running, NEW last \in BOOLEAN, Answers(r) \/ Emits(r, last)
    PROVE  IInv'
<1>1. up' \in Seq(UpFrames) BY Sent DEF Answers, Emits
<1>2. running' \subseteq running /\ UNCHANGED <<conn, server, down, stoppable>>
  BY DEF Answers, Emits
<1> QED BY <1>1, <1>2, PageIInv DEF IInv, TypeOK, Relations, NamesAreTrue

LEMMA ReceiveIInv == ASSUME IInv, Receive PROVE IInv'
<1> DEFINE f == Head(down)
<1>1. /\ down' = Tail(down) /\ down # <<>> /\ UNCHANGED <<conn, server, up>>
      /\ IF f.what = "open" THEN Runs(f) ELSE Stops(f.id)
  BY DEF Receive
<1>2. f \in DownFrames /\ down' \in Seq(DownFrames)
  BY <1>1, HeadTailProperties DEF IInv, Relations, NamesAreTrue
<1> HIDE DEF f
<1>3. [id |-> f.id, of |-> f.of] \in Named
  BY <1>2 DEF DownFrames, Named, Entries
<1>4. running' \subseteq Named /\ stoppable' \subseteq Named
  BY <1>1, <1>3 DEF Runs, Stops, IInv, Relations, NamesAreTrue
<1> QED BY <1>1, <1>2, <1>4, PageIInv DEF IInv, TypeOK, Relations, NamesAreTrue

\* Who waited is told, or is gone with its process: nobody waits.
LEMMA NobodyWaits ==
    ASSUME IInv, UNCHANGED <<asked, got, page>>, table' = {},
           session' \in {"none", "held"}, wired' \in BOOLEAN, binds' \in 1..MaxBinds,
           await' \in [Requests -> States],
           \A n \in Requests : /\ await'[n] = "none" <=> await[n] = "none"
                               /\ await'[n] # "waiting" /\ (Live(n)' => Live(n)),
           down' \in Seq(DownFrames), up' \in Seq(UpFrames),
           \/ UNCHANGED <<restarts, counted>>
           \/ /\ restarts' \in 1..MaxRestarts /\ counted' = [k \in Kinds |-> 0]
              /\ \A n \in Requests : ~Live(n)'
    PROVE  IInv'
<1>1. NamesAreTrue' BY NamesStay DEF IInv, Relations, NamesAreTrue
<1>2. TypeOK' /\ GetsItsOwnSoFar'
  BY DEF IInv, TypeOK, Relations, GetsItsOwnSoFar, GetsItsOwn, States, BridgeAssumption
<1>3. (Numbers /\ IdsAreUnique)'
  <2>1. CASE UNCHANGED <<restarts, counted>> BY <2>1, NumbersStay
  <2>2. CASE /\ restarts' \in 1..MaxRestarts /\ counted' = [k \in Kinds |-> 0]
             /\ \A n \in Requests : ~Live(n)'
    <3>1. Numbers'
      BY <2>2, Parts DEF IInv, Relations, Numbers, Requested, IdOf, KindOf
    <3>2. \A n \in Requested : ~Young(n)' BY <2>2, Parts DEF Young, BridgeAssumption
    <3> QED BY <3>1, <3>2 DEF IdsAreUnique, Requested
  <2> QED BY <2>1, <2>2
<1>4. \A n \in Requested : ~Waiting(n)' BY Parts DEF Waiting
<1> QED BY <1>1, <1>2, <1>3, <1>4
        DEF IInv, Relations, StreamsWait, TableIsExact, NobodyWaitsForThePast, Requested

LEMMA EndsIInv == ASSUME IInv, Connect \/ Expire \/ Restart PROVE IInv'
<1>1. await \in [Requests -> States] BY Parts
<1>2. \A S : <<>> \in Seq(S) BY EmptySeq
<1>3. CASE Connect
  <2>1. /\ await' = [n \in Requests |-> IF Waiting(n) THEN "settled" ELSE await[n]]
        /\ table' = {} /\ wired' = TRUE /\ binds' = binds + 1 /\ binds < MaxBinds
        /\ session' = "held" /\ UNCHANGED <<restarts, counted, asked, got, down, up, page>>
    BY <1>3 DEF Connect, FailPending
  <2>2. binds' \in 1..MaxBinds BY <2>1 DEF IInv, TypeOK, BridgeAssumption
  <2> QED BY <1>1, <2>1, <2>2, NobodyWaits
          DEF States, Waiting, Live, IInv, Relations, NamesAreTrue
<1>4. CASE Expire
  <2>1. /\ await' = [n \in Requests |->
                       IF await[n] \in {"waiting", "settled"} THEN "over" ELSE await[n]]
        /\ table' = {} /\ session' = "none"
        /\ UNCHANGED <<conn, counted, asked, got, down, up, page>>
    BY <1>4 DEF Expire
  <2> QED BY <1>1, <2>1, NobodyWaits
          DEF States, Live, IInv, TypeOK, Relations, NamesAreTrue
<1>5. CASE Restart
  <2>1. /\ await' = [n \in Requests |->
                       IF await[n] \in {"waiting", "settled"} THEN "dead" ELSE await[n]]
        /\ table' = {} /\ session' = "none" /\ wired' = FALSE /\ down' = <<>> /\ up' = <<>>
        /\ restarts < MaxRestarts /\ restarts' = restarts + 1 /\ counted' = [k \in Kinds |-> 0]
        /\ UNCHANGED <<binds, asked, got, page>>
    BY <1>5 DEF Restart
  <2>2. restarts' \in 1..MaxRestarts BY <2>1 DEF IInv, TypeOK, BridgeAssumption
  <2>3. \A n \in Requests : ~Live(n)' /\ await'[n] # "waiting"
                            /\ (await'[n] = "none" <=> await[n] = "none")
    BY <1>1, <2>1 DEF Live, States
  <2>4. await' \in [Requests -> States] BY <1>1, <2>1 DEF States
  <2> QED BY <1>2, <2>1, <2>2, <2>3, <2>4, NobodyWaits DEF IInv, TypeOK
<1> QED BY <1>3, <1>4, <1>5

LEMMA IInvStep == ASSUME IInv, [Next]_vars PROVE IInv'
<1>1. ASSUME NEW k \in Kinds, Ask(k) PROVE IInv' BY <1>1, AskIInv
<1>2. ASSUME NEW n \in Requested, Settles(n) \/ StopsListening(n) PROVE IInv'
  BY <1>2, OverIInv DEF Settles, Wakes, TimesOut, StopsListening, Live, Waiting
<1>3. CASE Deliver BY <1>3, DeliverIInv
<1>4. CASE Receive BY <1>4, ReceiveIInv
<1>5. CASE Cut BY <1>5, CutIInv
<1>6. CASE Connect \/ Expire \/ Restart BY <1>6, EndsIInv
<1>7. ASSUME NEW r \in running, Answers(r) \/ \E last \in BOOLEAN : Emits(r, last)
      PROVE IInv'
  BY <1>7, RunnerIInv
<1>8. CASE UNCHANGED vars
  BY <1>8, PageIInv DEF IInv, TypeOK, Relations, NamesAreTrue
<1> QED BY <1>1, <1>2, <1>3, <1>4, <1>5, <1>6, <1>7, <1>8 DEF Next, Requested

-----------------------------------------------------------------------------
(* The theorems.                                                           *)

\* The invariant of the bridge holds of every reachable state.
THEOREM BridgeInvariant == Spec => []IInv
<1>1. Init => IInv BY InitIInv
<1>2. IInv /\ [Next]_vars => IInv' BY IInvStep
<1> QED BY <1>1, <1>2, PTL DEF Spec

\* ProxyBridge.resolve and deliver_event: before its process ends, a handler is
\* given only what the page made for its own request.
THEOREM AnswersFindTheirRequest == Spec => []GetsItsOwnSoFar
<1>1. IInv => GetsItsOwnSoFar BY DEF IInv, Relations
<1> QED BY <1>1, BridgeInvariant, PTL

\* ProxyBridge.call and subscribe: whoever waits is found by its id and waits on
\* this connection, and no entry outlives its wait, through every reconnection,
\* expiry and restart.
THEOREM WaitersAreFound == Spec => []WaitersAreReachable
<1>1. IInv => WaitersAreReachable BY DEF IInv, Relations, WaitersAreReachable
<1> QED BY <1>1, BridgeInvariant, PTL

\* resolve_native_result: a request that was settled is given nothing more and
\* never waits again.
THEOREM SettledForGood == Spec => SettledOnce
<1> DEFINE Keeps == \A n \in Requests :
                       await[n] \in {"settled", "over", "dead"} =>
                          got'[n] = got[n] /\ await'[n] /= "waiting"
<1>1. ASSUME IInv, [Next]_vars, NEW n \in Requests, await[n] \in {"settled", "over", "dead"}
      PROVE  got'[n] = got[n] /\ await'[n] /= "waiting"
  <2>1. await \in [Requests -> States] /\ got \in [Requests -> SUBSET Requests]
    BY <1>1, Parts
  <2>2. ASSUME NEW k \in Kinds, Ask(k) PROVE got'[n] = got[n] /\ await'[n] /= "waiting"
    <3>1. n # Len(asked) + 1
      BY <1>1, Parts DEF IInv, Relations, Numbers
    <3> QED BY <1>1, <2>1, <2>2, <3>1 DEF Ask
  <2>3. ASSUME NEW m \in Requested, Over(m) PROVE got'[n] = got[n] /\ await'[n] /= "waiting"
    BY <1>1, <2>1, <2>3 DEF Over
  <2>4. CASE Deliver
    <3>1. \A e \in table : MayGive(e) => e.of # n /\ e.of \in Requests
      BY <1>1, Parts DEF MayGive, IInv, Relations, StreamsWait, Waiting
    <3> QED BY <1>1, <2>1, <2>4, <3>1 DEF Deliver
  <2>5. CASE Connect \/ Expire \/ Restart
    BY <1>1, <2>1, <2>5 DEF Connect, FailPending, Expire, Restart, Waiting
  <2>6. CASE UNCHANGED <<got, await>> BY <1>1, <2>6
  <2> QED BY <1>1, <2>2, <2>3, <2>4, <2>5, <2>6
          DEF Next, Settles, Wakes, TimesOut, StopsListening, Receive, Cut, Answers, Emits,
              Requested
<1>2. IInv /\ [Next]_vars => [Keeps]_vars BY <1>1
<1> QED BY <1>2, BridgeInvariant, PTL DEF Spec, SettledOnce
=============================================================================
