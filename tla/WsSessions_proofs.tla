------------------------- MODULE WsSessions_proofs -------------------------
(***************************************************************************)
(* Safety of the WebSocket session registry for any number of sockets, ids *)
(* and principals, with every interleaving WsSessions allows.              *)
(***************************************************************************)
EXTENDS WsSessions, FiniteSetTheorems, TLAPS

(* How the sessions, the sockets and the registry refer to each other.     *)

\* A socket that has not been accepted has created nothing.
Unaccepted ==
    \A s \in Sockets : phase[s] \in {"idle", "accepting"} =>
        /\ serves[s] = None
        /\ status[s] = "unborn"

\* A socket serves a session born under the id it named, to its principal.
ServesBorn ==
    \A s \in Sockets : serves[s] # None =>
        /\ status[serves[s]] # "unborn"
        /\ ask[serves[s]] = ask[s]
        /\ Cred[serves[s]] = Cred[s]

\* An endpoint past the handshake and still running serves something.
RunningServes ==
    \A s \in Sockets :
        phase[s] \notin {"idle", "accepting", "done"} => serves[s] # None

\* The registry holds born sessions under the id they were opened with.
RecordsBorn ==
    \A id \in Ids : rec[id] # None =>
        /\ status[rec[id]] # "unborn"
        /\ ask[rec[id]] = id

\* A timer is only armed for a session that an id can find again.
ArmedHasId ==
    \A x \in Sockets : armed[x] # NoTimer =>
        ask[x] \in Ids /\ status[x] # "unborn"

Relations ==
    /\ Unaccepted
    /\ ServesBorn
    /\ RunningServes
    /\ RecordsBorn
    /\ ArmedHasId
    /\ ArmedTimerIsCurrent
    /\ RegisteredIsOpen

IInv == TypeOK /\ Relations

LEMMA InitIInv == ASSUME ConstantsAssumption PROVE Init => IInv
  BY DEF ConstantsAssumption, Init, IInv, Relations, TypeOK, Unaccepted,
     ServesBorn, RunningServes, RecordsBorn, ArmedHasId, ArmedTimerIsCurrent,
     RegisteredIsOpen, Phases, NoTimer

USE DEF vars, taskVars, wireVars, recordVars, sessionVars

LEMMA HeldType ==
    ASSUME TypeOK, NEW id \in Ids \cup {NoId}
    PROVE  Held(id) \in Sockets \cup {None}
  BY DEF TypeOK, Held

LEMMA RetireTypes ==
    ASSUME TypeOK, NEW x \in Sockets \cup {None}, Retire(x)
    PROVE  status' \in [Sockets -> {"unborn", "open", "closing", "closed"}]
  BY DEF TypeOK, Retire

\* What a release leaves behind is of the right type.
LEMMA ReleaseTypes ==
    ASSUME TypeOK, NEW s \in Sockets, NEW t \in Nat, Release(s, t)
    PROVE  /\ phase' \in [Sockets -> Phases]
           /\ armed' \in [Sockets -> Nat \cup {NoTimer}]
           /\ status' \in [Sockets -> {"unborn", "open", "closing", "closed"}]
           /\ live' \in Int
           /\ UNCHANGED <<rec, gen, expiring>>
<1>1. phase' \in [Sockets -> Phases] BY DEF Release, TypeOK, Phases
<1>2. armed' \in [Sockets -> Nat \cup {NoTimer}] BY DEF Release, TypeOK
<1>3. status' \in [Sockets -> {"unborn", "open", "closing", "closed"}]
  <2> serves[s] \in Sockets \cup {None} BY DEF TypeOK
  <2> QED BY RetireTypes DEF Release, TypeOK
<1>4. live' \in Int BY DEF Release, Uncount, TypeOK
<1> QED BY <1>1, <1>2, <1>3, <1>4 DEF Release

LEMMA NextEventTypes ==
    ASSUME TypeOK, NEW s \in Sockets, NEW t \in Nat, NextEvent(s, t),
           serves[s] \in Sockets
    PROVE  /\ phase' \in [Sockets -> Phases]
           /\ reads' \in [Sockets -> Sockets \cup {None}]
           /\ pump' \in [Sockets -> {"off", "on", "done"}]
           /\ armed' \in [Sockets -> Nat \cup {NoTimer}]
           /\ status' \in [Sockets -> {"unborn", "open", "closing", "closed"}]
           /\ live' \in Int
           /\ UNCHANGED <<rec, gen, expiring>>
<1>1. CASE status[serves[s]] = "open"
  <2> PICK p \in Sockets \cup {None} : p = pipe[serves[s]]
    BY DEF TypeOK
  <2>1. phase' = [phase EXCEPT ![s] = "receiving"] /\ reads' = [reads EXCEPT ![s] = p]
    BY <1>1 DEF NextEvent
  <2>2. pump' = [pump EXCEPT ![p] = IF @ = "off" /\ ~shut[p] THEN "on" ELSE @]
    BY <1>1 DEF NextEvent
  <2>3. UNCHANGED <<rec, gen, armed, expiring, status, live>>
    BY <1>1 DEF NextEvent
  <2> QED BY <2>1, <2>2, <2>3 DEF TypeOK, Phases
<1>2. CASE status[serves[s]] # "open"
  <2>1. Release(s, t) /\ UNCHANGED <<reads, pump>>
    BY <1>2 DEF NextEvent
  <2> QED BY <2>1, ReleaseTypes DEF TypeOK
<1> QED BY <1>1, <1>2

\* Taking the head of a queue, and putting an item at its end.
LEMMA PopTypes ==
    ASSUME NEW q \in [Sockets -> Seq({Event, Sentinel})],
           NEW t \in Sockets \cup {None}, q[t] # <<>>
    PROVE  [q EXCEPT ![t] = Tail(@)] \in [Sockets -> Seq({Event, Sentinel})]
<1>1. CASE t \in Sockets
  <2>1. q[t] \in Seq({Event, Sentinel}) BY <1>1
  <2>2. Tail(q[t]) \in Seq({Event, Sentinel}) BY <2>1
  <2> QED BY <1>1, <2>2
<1>2. CASE t \notin Sockets
  BY <1>2
<1> QED BY <1>1, <1>2

LEMMA PutTypes ==
    ASSUME NEW q \in [Sockets -> Seq({Event, Sentinel})],
           NEW t \in Sockets \cup {None}, NEW item \in {Event, Sentinel}
    PROVE  [q EXCEPT ![t] = Append(@, item)] \in [Sockets -> Seq({Event, Sentinel})]
<1>1. CASE t \in Sockets
  <2>1. q[t] \in Seq({Event, Sentinel}) BY <1>1
  <2>2. Append(q[t], item) \in Seq({Event, Sentinel}) BY <2>1
  <2> QED BY <1>1, <2>2
<1>2. CASE t \notin Sockets
  BY <1>2
<1> QED BY <1>1, <1>2

LEMMA PumpStopsTypes ==
    ASSUME TypeOK, NEW t \in Sockets \cup {None}, PumpStops(t)
    PROVE  /\ pump' \in [Sockets -> {"off", "on", "done"}]
           /\ shut' \in [Sockets -> BOOLEAN]
           /\ inbox' \in [Sockets -> Seq({Event, Sentinel})]
           /\ peer' \in [Sockets -> {"open", "gone"}]
           /\ UNCHANGED frames
<1>1. inbox' \in [Sockets -> Seq({Event, Sentinel})]
  BY PutTypes DEF PumpStops, TypeOK
<1> QED BY <1>1 DEF PumpStops, TypeOK

\* Each of the server's own steps is well typed.
LEMMA ServeTypes ==
    ASSUME ConstantsAssumption, TypeOK, RunningServes, NEW s \in Sockets, Serve(s)
    PROVE  TypeOK'
<1>1. CASE AcceptFails(s)
  BY <1>1 DEF AcceptFails, TypeOK, Phases
<1>2. CASE Claim(s)
  <2> PICK x \in Sockets : x = Held(ask[s])
    BY <1>2, HeldType DEF Claim, Claimable, TypeOK
  <2>1. /\ serves' = [serves EXCEPT ![s] = x]
        /\ phase' = [phase EXCEPT ![s] = "resuming"]
        /\ pipe' = [pipe EXCEPT ![x] = s] \/ pipe' = pipe
    BY <1>2 DEF Claim
  <2>2. /\ armed' = [armed EXCEPT ![x] = NoTimer]
        /\ gen' = [gen EXCEPT ![x] = @ + 1]
    BY <1>2 DEF Claim, CancelExpiry, Bump
  <2>3. UNCHANGED <<ask, token, reads, bridge, wireVars, rec, expiring, status, live>>
    BY <1>2 DEF Claim
  <2>4. gen' \in [Sockets -> Nat] BY <2>2 DEF TypeOK
  <2>5. armed' \in [Sockets -> Nat \cup {NoTimer}] BY <2>2 DEF TypeOK
  <2>6. pipe' \in [Sockets -> Sockets \cup {None}] BY <2>1 DEF TypeOK
  <2>7. phase' \in [Sockets -> Phases] BY <2>1 DEF TypeOK, Phases
  <2>8. serves' \in [Sockets -> Sockets \cup {None}] BY <2>1 DEF TypeOK
  <2> QED BY <2>3, <2>4, <2>5, <2>6, <2>7, <2>8 DEF TypeOK
<1>3. CASE Open(s)
  <2>1. /\ phase' = [phase EXCEPT ![s] = "mounting"]
        /\ status' = [status EXCEPT ![s] = "open"]
        /\ pipe' = [pipe EXCEPT ![s] = s]
        /\ serves' = [serves EXCEPT ![s] = s]
        /\ bridge' = [bridge EXCEPT ![s] = s]
        /\ token' = [token EXCEPT ![s] = 0]
        /\ live' = live + 1
        /\ UNCHANGED <<ask, reads, wireVars, gen, armed, expiring>>
    BY <1>3 DEF Open
  <2>2. rec' \in [Ids -> Sockets \cup {None}] BY <1>3 DEF Open, TypeOK
  <2>3. phase' \in [Sockets -> Phases] BY <2>1 DEF TypeOK, Phases
  <2>4. status' \in [Sockets -> {"unborn", "open", "closing", "closed"}]
    BY <2>1 DEF TypeOK
  <2>5. /\ pipe' \in [Sockets -> Sockets \cup {None}]
        /\ serves' \in [Sockets -> Sockets \cup {None}]
        /\ bridge' \in [Sockets -> Sockets \cup {None}]
    BY <2>1 DEF TypeOK
  <2>6. token' \in [Sockets -> Nat] /\ live' \in Int BY <2>1 DEF TypeOK
  <2> QED BY <2>1, <2>2, <2>3, <2>4, <2>5, <2>6 DEF TypeOK
<1>4. CASE Mounted(s)
  <2>1. serves[s] \in Sockets BY <1>4 DEF Mounted, TypeOK, RunningServes
  <2>2. token[s] \in Nat BY DEF TypeOK
  <2> QED BY <1>4, <2>1, <2>2, NextEventTypes DEF Mounted, TypeOK
<1>5. CASE MountFails(s)
  <2>1. token[s] \in Nat BY DEF TypeOK
  <2> QED BY <1>5, <2>1, ReleaseTypes DEF MountFails, TypeOK
<1>6. CASE Resumed(s)
  <2>1. serves[s] \in Sockets BY <1>6 DEF Resumed, TypeOK, RunningServes
  <2>2. WsGeneration(s) \in Nat BY HeldType DEF WsGeneration, TypeOK
  <2> QED BY <1>6, <2>1, <2>2, NextEventTypes DEF Resumed, TypeOK
<1>7. CASE ResumeFails(s)
  BY <1>7 DEF ResumeFails, TypeOK, Phases
<1>8. CASE ReceiveEvent(s)
  <2>1. inbox' \in [Sockets -> Seq({Event, Sentinel})]
    BY <1>8, PopTypes DEF ReceiveEvent, TypeOK
  <2> QED BY <1>8, <2>1 DEF ReceiveEvent, TypeOK, Phases
<1>9. CASE ReceiveSentinel(s)
  <2>1. token[s] \in Nat BY DEF TypeOK
  <2>2. inbox' \in [Sockets -> Seq({Event, Sentinel})]
    BY <1>9, PopTypes DEF ReceiveSentinel, TypeOK
  <2> QED BY <1>9, <2>1, <2>2, ReleaseTypes DEF ReceiveSentinel, TypeOK
<1>10. CASE FinishHandler(s)
  <2>1. serves[s] \in Sockets BY <1>10 DEF FinishHandler, TypeOK, RunningServes
  <2>2. token[s] \in Nat BY DEF TypeOK
  <2> QED BY <1>10, <2>1, <2>2, NextEventTypes DEF FinishHandler, TypeOK
<1> QED BY <1>1, <1>2, <1>3, <1>4, <1>5, <1>6, <1>7, <1>8, <1>9, <1>10 DEF Serve

LEMMA TypeStep ==
    ASSUME ConstantsAssumption, TypeOK, RunningServes, ArmedHasId, [Next]_vars
    PROVE  TypeOK'
<1>1. ASSUME NEW s \in Sockets, NEW id \in Ids \cup {NoId}, Upgrade(s, id)
      PROVE  TypeOK'
  BY <1>1 DEF Upgrade, TypeOK, Phases
<1>2. ASSUME NEW s \in Sockets, Serve(s) PROVE TypeOK'
  BY <1>2, ServeTypes
<1>3. ASSUME NEW s \in Sockets, Disconnect(s) PROVE TypeOK'
  BY <1>3 DEF Disconnect, TypeOK
<1>4. ASSUME NEW s \in Sockets, PumpEvent(s) PROVE TypeOK'
  <2>1. inbox' \in [Sockets -> Seq({Event, Sentinel})]
    BY <1>4, PutTypes DEF PumpEvent, TypeOK
  <2>2. frames' \in [Sockets -> 0..MaxFrames]
    BY <1>4, ConstantsAssumption DEF PumpEvent, TypeOK, ConstantsAssumption
  <2> QED BY <1>4, <2>1, <2>2 DEF PumpEvent, TypeOK
<1>5. ASSUME NEW s \in Sockets, PumpRefusesFrame(s) \/ PumpSeesDisconnect(s)
      PROVE TypeOK'
  BY <1>5, PumpStopsTypes DEF PumpRefusesFrame, PumpSeesDisconnect, TypeOK
<1>6. ASSUME NEW x \in Sockets, CloseTransport(x) PROVE TypeOK'
  <2> PICK p \in Sockets \cup {None} : p = pipe[x]
    BY DEF TypeOK
  <2>1. status' = [status EXCEPT ![x] = "closed"]
    BY <1>6 DEF CloseTransport
  <2>2. UNCHANGED <<taskVars, recordVars, pipe, live>>
    BY <1>6 DEF CloseTransport
  <2>3. CASE pump[p] = "on" /\ PumpStops(p)
    BY <2>1, <2>2, <2>3, PumpStopsTypes DEF TypeOK
  <2>4. CASE /\ shut' = [shut EXCEPT ![p] = TRUE]
             /\ peer' = [peer EXCEPT ![p] = "gone"]
             /\ UNCHANGED <<frames, inbox, pump>>
    BY <2>1, <2>2, <2>4 DEF TypeOK
  <2> QED BY <1>6, <2>3, <2>4 DEF CloseTransport
<1>7. ASSUME NEW x \in Sockets, TimerFires(x) PROVE TypeOK'
  <2>1. armed' \in [Sockets -> Nat \cup {NoTimer}]
    BY <1>7 DEF TimerFires, CancelExpiry, TypeOK
  <2>2. expiring' \subseteq Ids \X Nat
    <3>1. armed[x] \in Nat BY <1>7 DEF TimerFires, TypeOK
    <3>2. ask[x] \in Ids BY <1>7 DEF TimerFires, ArmedHasId
    <3> QED BY <1>7, <3>1, <3>2 DEF TimerFires, TypeOK
  <2> QED BY <1>7, <2>1, <2>2 DEF TimerFires, TypeOK
<1>8. ASSUME NEW e \in expiring, ExpireWs(e[1], e[2]) PROVE TypeOK'
  <2> PICK id \in Ids, t \in Nat : e = <<id, t>>
    BY DEF TypeOK
  <2> PICK x \in Sockets \cup {None} : x = rec[id]
    BY DEF TypeOK
  <2>1. ExpireWs(id, t)
    BY <1>8
  <2>2. live' \in Int BY <2>1 DEF ExpireWs, Uncount, TypeOK
  <2>3. status' \in [Sockets -> {"unborn", "open", "closing", "closed"}]
    BY <2>1, RetireTypes DEF ExpireWs, TypeOK
  <2>4. rec' \in [Ids -> Sockets \cup {None}]
    BY <2>1 DEF ExpireWs, Forget, TypeOK
  <2> QED BY <2>1, <2>2, <2>3, <2>4 DEF ExpireWs, TypeOK
<1>9. CASE UNCHANGED vars
  BY <1>9 DEF TypeOK
<1> QED BY <1>1, <1>2, <1>3, <1>4, <1>5, <1>6, <1>7, <1>8, <1>9 DEF Next

-----------------------------------------------------------------------------
(* The relations, preserved by every action.                               *)

\* The part of TypeOK the relations are about.
RelationTypes ==
    /\ phase \in [Sockets -> Phases]
    /\ ask \in [Sockets -> Ids \cup {NoId}]
    /\ serves \in [Sockets -> Sockets \cup {None}]
    /\ rec \in [Ids -> Sockets \cup {None}]
    /\ gen \in [Sockets -> Nat]
    /\ armed \in [Sockets -> Nat \cup {NoTimer}]
    /\ status \in [Sockets -> {"unborn", "open", "closing", "closed"}]

LEMMA ReleaseRelations ==
    ASSUME ConstantsAssumption, IInv, NEW s \in Sockets, NEW t \in Nat,
           Release(s, t), serves[s] \in Sockets,
           phase[s] \notin {"idle", "accepting"}, UNCHANGED <<ask, serves>>
    PROVE  Relations'
<1>0. RelationTypes
  BY DEF IInv, TypeOK, RelationTypes
<1> USE <1>0
<1>1. PICK y \in Sockets : y = serves[s]
  OBVIOUS
<1>2. PICK h \in Sockets \cup {None} : h = Held(ask[s])
  BY HeldType DEF IInv, TypeOK
<1>3. /\ phase' = [phase EXCEPT ![s] = "done"]
      /\ UNCHANGED <<ask, serves, rec, gen, expiring>>
  BY DEF Release
<1>4. /\ ask[y] = ask[s] /\ status[y] # "unborn"
      /\ phase[y] \notin {"idle", "accepting"}
  BY <1>1 DEF IInv, Relations, ServesBorn, Unaccepted, RelationTypes
<1>5. RunningServes'
  BY <1>3 DEF IInv, RelationTypes, Relations, RunningServes
<1>6. CASE /\ h = None \/ ~Resumable
           /\ Retire(y)
           /\ UNCHANGED armed
  <2>1. \A id \in Ids : Resumable => rec[id] # y
    BY <1>2, <1>4, <1>6, ConstantsAssumption
    DEF Held, IInv, Relations, RecordsBorn, ConstantsAssumption
  <2>2. status' = [status EXCEPT ![y] = IF @ = "open" THEN "closing" ELSE @]
    BY <1>6 DEF Retire
  <2>3. \A x \in Sockets : /\ (status'[x] = "unborn") <=> (status[x] = "unborn")
                           /\ x # y => status'[x] = status[x]
    BY <2>2, <1>4 DEF RelationTypes
  <2>4. Unaccepted'
    BY <1>3, <1>4, <2>3 DEF IInv, RelationTypes, Relations, Unaccepted
  <2>6. ServesBorn'
    BY <1>3, <2>3 DEF IInv, RelationTypes, Relations, ServesBorn
  <2>7. RecordsBorn'
    BY <1>3, <2>3 DEF IInv, RelationTypes, Relations, RecordsBorn
  <2>8. ArmedHasId'
    BY <1>3, <1>6, <2>3 DEF IInv, RelationTypes, Relations, ArmedHasId
  <2>5. ArmedTimerIsCurrent' /\ RegisteredIsOpen'
    BY <1>3, <1>6, <2>1, <2>3 DEF IInv, RelationTypes, Relations, ArmedTimerIsCurrent, RegisteredIsOpen
  <2> QED BY <1>5, <2>4, <2>5, <2>6, <2>7, <2>8 DEF Relations
<1>7. CASE UNCHANGED <<status, armed>>
  <2>1. Unaccepted' /\ ServesBorn' /\ RecordsBorn' /\ ArmedHasId'
    BY <1>3, <1>7
    DEF IInv, RelationTypes, Relations, Unaccepted, ServesBorn, RecordsBorn, ArmedHasId
  <2>2. ArmedTimerIsCurrent' /\ RegisteredIsOpen'
    BY <1>3, <1>7 DEF IInv, RelationTypes, Relations, ArmedTimerIsCurrent, RegisteredIsOpen
  <2> QED BY <1>5, <2>1, <2>2 DEF Relations
<1>8. CASE /\ HoldsToken(h, t)
           /\ armed' = [armed EXCEPT ![h] = t]
           /\ UNCHANGED status
  <2>1. h \in Sockets /\ gen[h] = t
    BY <1>8 DEF HoldsToken
  <2>2. ask[s] \in Ids /\ h = rec[ask[s]] /\ h # None
    <3>1. h # None BY <1>8 DEF HoldsToken
    <3>2. ask[s] \in Ids \cup {NoId} BY DEF RelationTypes
    <3>3. ask[s] # NoId BY <1>2, <3>1 DEF Held
    <3> QED BY <1>2, <3>1, <3>2, <3>3 DEF Held
  <2>3. ask[h] \in Ids /\ status[h] # "unborn"
    BY <2>2 DEF IInv, Relations, RecordsBorn
  <2>4. Unaccepted' /\ ServesBorn' /\ RecordsBorn' /\ RegisteredIsOpen'
    BY <1>3, <1>8
    DEF IInv, RelationTypes, Relations, Unaccepted, ServesBorn, RecordsBorn, RegisteredIsOpen
  <2>5. ArmedTimerIsCurrent' /\ ArmedHasId'
    BY <1>3, <1>8, <2>1, <2>3 DEF IInv, RelationTypes, Relations, ArmedTimerIsCurrent, ArmedHasId
  <2> QED BY <1>5, <2>4, <2>5 DEF Relations
<1> QED BY <1>1, <1>2, <1>6, <1>7, <1>8 DEF Release

LEMMA TypesOfRelations == IInv => RelationTypes
  BY DEF IInv, TypeOK, RelationTypes

\* A step that only moves a socket past the handshake disturbs nothing.
LEMMA PhaseOnlyRelations ==
    ASSUME IInv, NEW s \in Sockets, NEW p,
           p \in {"idle", "accepting"} => phase[s] \in {"idle", "accepting"},
           p \notin {"idle", "accepting", "done"} => serves[s] # None,
           phase' = [phase EXCEPT ![s] = p],
           UNCHANGED <<ask, serves, rec, gen, armed, status>>
    PROVE  Relations'
<1> RelationTypes BY TypesOfRelations
<1>1. Unaccepted' /\ RunningServes'
  BY DEF IInv, Relations, RelationTypes, Unaccepted, RunningServes
<1>2. ServesBorn' /\ RecordsBorn' /\ ArmedHasId'
  BY DEF IInv, Relations, RelationTypes, ServesBorn, RecordsBorn, ArmedHasId
<1>3. ArmedTimerIsCurrent' /\ RegisteredIsOpen'
  BY DEF IInv, Relations, RelationTypes, ArmedTimerIsCurrent, RegisteredIsOpen
<1> QED BY <1>1, <1>2, <1>3 DEF Relations

LEMMA NextEventRelations ==
    ASSUME ConstantsAssumption, IInv, NEW s \in Sockets, NEW t \in Nat,
           NextEvent(s, t), serves[s] \in Sockets,
           phase[s] \notin {"idle", "accepting"}, UNCHANGED <<ask, serves>>
    PROVE  Relations'
<1>1. CASE status[serves[s]] = "open"
  <2>1. /\ phase' = [phase EXCEPT ![s] = "receiving"]
        /\ UNCHANGED <<rec, gen, armed, status>>
    BY <1>1 DEF NextEvent
  <2>2. serves[s] # None
    BY ConstantsAssumption DEF ConstantsAssumption
  <2> QED BY <2>1, <2>2, PhaseOnlyRelations
<1>2. CASE status[serves[s]] # "open"
  BY <1>2, ReleaseRelations DEF NextEvent
<1> QED BY <1>1, <1>2

LEMMA ClaimRelations ==
    ASSUME ConstantsAssumption, IInv, NEW s \in Sockets, Claim(s)
    PROVE  Relations'
<1> RelationTypes BY TypesOfRelations
<1>1. PICK x \in Sockets : x = Held(ask[s]) /\ Cred[x] = Cred[s]
  BY HeldType DEF Claim, Claimable, IInv, TypeOK
<1>2. /\ phase' = [phase EXCEPT ![s] = "resuming"]
      /\ serves' = [serves EXCEPT ![s] = x]
      /\ armed' = [armed EXCEPT ![x] = NoTimer]
      /\ gen' = [gen EXCEPT ![x] = @ + 1]
      /\ UNCHANGED <<ask, rec, status>>
  BY <1>1 DEF Claim, CancelExpiry, Bump
<1>3. x # None
  BY ConstantsAssumption DEF ConstantsAssumption
<1>4. ask[s] \in Ids /\ rec[ask[s]] = x
  <2>1. ask[s] # NoId BY <1>1, <1>3 DEF Held
  <2> QED BY <1>1, <2>1 DEF Held, RelationTypes
<1>5. status[x] # "unborn" /\ ask[x] = ask[s]
  BY <1>3, <1>4 DEF IInv, Relations, RecordsBorn
<1>6. Unaccepted' /\ RunningServes'
  BY <1>2, <1>3 DEF IInv, Relations, RelationTypes, Unaccepted, RunningServes
<1>7. ServesBorn'
  BY <1>1, <1>2, <1>5 DEF IInv, Relations, RelationTypes, ServesBorn
<1>8. RecordsBorn' /\ RegisteredIsOpen'
  BY <1>2 DEF IInv, Relations, RelationTypes, RecordsBorn, RegisteredIsOpen
<1>9. ArmedTimerIsCurrent' /\ ArmedHasId'
  BY <1>2 DEF IInv, Relations, RelationTypes, ArmedTimerIsCurrent, ArmedHasId
<1> QED BY <1>6, <1>7, <1>8, <1>9 DEF Relations

LEMMA OpenRelations ==
    ASSUME ConstantsAssumption, IInv, NEW s \in Sockets, Open(s)
    PROVE  Relations'
<1> RelationTypes BY TypesOfRelations
<1>1. /\ phase' = [phase EXCEPT ![s] = "mounting"]
      /\ serves' = [serves EXCEPT ![s] = s]
      /\ status' = [status EXCEPT ![s] = "open"]
      /\ UNCHANGED <<ask, gen, armed>>
  BY DEF Open
<1>2. s # None
  BY ConstantsAssumption DEF ConstantsAssumption
<1>3. Unaccepted' /\ RunningServes'
  BY <1>1, <1>2 DEF IInv, Relations, RelationTypes, Unaccepted, RunningServes
<1>4. ServesBorn' /\ ArmedTimerIsCurrent' /\ ArmedHasId'
  BY <1>1 DEF IInv, Relations, RelationTypes, ServesBorn, ArmedTimerIsCurrent, ArmedHasId
<1>5. CASE ask[s] = NoId
  <2>1. rec' = rec BY <1>5 DEF Open
  <2>2. RecordsBorn' /\ RegisteredIsOpen'
    BY <1>1, <2>1 DEF IInv, Relations, RelationTypes, RecordsBorn, RegisteredIsOpen
  <2> QED BY <1>3, <1>4, <2>2 DEF Relations
<1>6. CASE ask[s] # NoId
  <2>1. rec' = [rec EXCEPT ![ask[s]] = s] BY <1>6 DEF Open
  <2>2. RecordsBorn' /\ RegisteredIsOpen'
    BY <1>1, <2>1 DEF IInv, Relations, RelationTypes, RecordsBorn, RegisteredIsOpen
  <2> QED BY <1>3, <1>4, <2>2 DEF Relations
<1> QED BY <1>5, <1>6

LEMMA UpgradeRelations ==
    ASSUME ConstantsAssumption, IInv, NEW s \in Sockets,
           NEW id \in Ids \cup {NoId}, Upgrade(s, id)
    PROVE  Relations'
<1> RelationTypes BY TypesOfRelations
<1>1. PICK p \in {"accepting", "done"} : phase' = [phase EXCEPT ![s] = p]
  BY DEF Upgrade
<1>2. /\ phase[s] = "idle"
      /\ ask' = [ask EXCEPT ![s] = id]
      /\ UNCHANGED <<serves, rec, gen, armed, status>>
  BY DEF Upgrade
<1>3. status[s] = "unborn" /\ serves[s] = None
  BY <1>2 DEF IInv, Relations, Unaccepted
<1>4. Unaccepted' /\ RunningServes'
  BY <1>1, <1>2, <1>3 DEF IInv, Relations, RelationTypes, Unaccepted, RunningServes
<1>5. ServesBorn'
  BY <1>2, <1>3 DEF IInv, Relations, RelationTypes, ServesBorn
<1>6. RecordsBorn' /\ ArmedHasId'
  BY <1>2, <1>3 DEF IInv, Relations, RelationTypes, RecordsBorn, ArmedHasId
<1>7. ArmedTimerIsCurrent' /\ RegisteredIsOpen'
  BY <1>2 DEF IInv, Relations, RelationTypes, ArmedTimerIsCurrent, RegisteredIsOpen
<1> QED BY <1>4, <1>5, <1>6, <1>7 DEF Relations

LEMMA ExpireRelations ==
    ASSUME ConstantsAssumption, IInv, NEW id \in Ids, NEW t \in Nat, ExpireWs(id, t)
    PROVE  Relations'
<1> RelationTypes BY TypesOfRelations
<1>1. PICK x \in Sockets \cup {None} : x = rec[id]
  BY DEF RelationTypes
<1>2. UNCHANGED <<phase, ask, serves, gen, armed>>
  BY DEF ExpireWs
<1>3. CASE HoldsToken(x, t) /\ Forget(id) /\ Retire(x)
  <2>1. x \in Sockets /\ x # None /\ ask[x] = id /\ status[x] # "unborn"
    BY <1>1, <1>3 DEF HoldsToken, IInv, Relations, RecordsBorn
  <2>2. /\ status' = [status EXCEPT ![x] = IF @ = "open" THEN "closing" ELSE @]
        /\ rec' = [rec EXCEPT ![id] = None]
    BY <1>3 DEF Retire, Forget
  <2>3. \A y \in Sockets : /\ (status'[y] = "unborn") <=> (status[y] = "unborn")
                           /\ y # x => status'[y] = status[y]
    BY <2>1, <2>2 DEF RelationTypes
  <2>4. Unaccepted' /\ RunningServes'
    BY <1>2, <2>3 DEF IInv, Relations, RelationTypes, Unaccepted, RunningServes
  <2>5. ServesBorn' /\ ArmedTimerIsCurrent' /\ ArmedHasId'
    BY <1>2, <2>3 DEF IInv, Relations, RelationTypes, ServesBorn, ArmedTimerIsCurrent, ArmedHasId
  <2>6. \A other \in Ids : rec'[other] # None => rec'[other] = rec[other] /\ rec[other] # x
    BY <2>1, <2>2 DEF IInv, Relations, RelationTypes, RecordsBorn
  <2>7. RecordsBorn'
    BY <1>2, <2>3, <2>6 DEF IInv, Relations, RelationTypes, RecordsBorn
  <2>8. RegisteredIsOpen'
    BY <2>3, <2>6 DEF IInv, Relations, RelationTypes, RegisteredIsOpen
  <2> QED BY <2>4, <2>5, <2>7, <2>8 DEF Relations
<1>4. CASE UNCHANGED <<rec, status>>
  BY <1>2, <1>4 DEF IInv, Relations, Unaccepted, ServesBorn, RunningServes,
     RecordsBorn, ArmedHasId, ArmedTimerIsCurrent, RegisteredIsOpen
<1> QED BY <1>1, <1>3, <1>4 DEF ExpireWs

LEMMA CloseRelations ==
    ASSUME IInv, NEW x \in Sockets, CloseTransport(x)
    PROVE  Relations'
<1> RelationTypes BY TypesOfRelations
<1>1. /\ status[x] = "closing"
      /\ status' = [status EXCEPT ![x] = "closed"]
      /\ UNCHANGED <<phase, ask, serves, rec, gen, armed>>
  BY DEF CloseTransport
<1>2. Unaccepted' /\ ServesBorn' /\ RunningServes'
  BY <1>1 DEF IInv, Relations, RelationTypes, Unaccepted, ServesBorn, RunningServes
<1>3. RecordsBorn' /\ RegisteredIsOpen'
  BY <1>1 DEF IInv, Relations, RelationTypes, RecordsBorn, RegisteredIsOpen
<1>4. ArmedTimerIsCurrent' /\ ArmedHasId'
  BY <1>1 DEF IInv, Relations, RelationTypes, ArmedTimerIsCurrent, ArmedHasId
<1> QED BY <1>2, <1>3, <1>4 DEF Relations

LEMMA TimerRelations ==
    ASSUME IInv, NEW x \in Sockets, TimerFires(x)
    PROVE  Relations'
<1> RelationTypes BY TypesOfRelations
<1>1. /\ armed' = [armed EXCEPT ![x] = NoTimer]
      /\ UNCHANGED <<phase, ask, serves, rec, gen, status>>
  BY DEF TimerFires, CancelExpiry
<1>2. ArmedTimerIsCurrent' /\ ArmedHasId'
  BY <1>1 DEF IInv, Relations, RelationTypes, ArmedTimerIsCurrent, ArmedHasId
<1> QED BY <1>1, <1>2 DEF IInv, Relations, Unaccepted, ServesBorn, RunningServes,
           RecordsBorn, RegisteredIsOpen

\* A step of the wire, which none of the relations mention.
LEMMA WireRelations ==
    ASSUME IInv, UNCHANGED <<phase, ask, serves, rec, gen, armed, status>>
    PROVE  Relations'
  BY DEF IInv, Relations, Unaccepted, ServesBorn, RunningServes, RecordsBorn,
     ArmedHasId, ArmedTimerIsCurrent, RegisteredIsOpen

\* A socket that is running its endpoint serves a session.
LEMMA Running ==
    ASSUME ConstantsAssumption, IInv, NEW s \in Sockets,
           phase[s] \in {"resuming", "mounting", "receiving", "handling"}
    PROVE  /\ serves[s] \in Sockets
           /\ token[s] \in Nat
           /\ WsGeneration(s) \in Nat
<1>1. serves[s] \in Sockets
  <2>1. RunningServes BY DEF IInv, Relations
  <2>2. serves[s] \in Sockets \cup {None} BY TypesOfRelations DEF RelationTypes
  <2> QED BY <2>1, <2>2 DEF RunningServes
<1>2. token[s] \in Nat
  BY DEF IInv, TypeOK
<1>3. Held(ask[s]) \in Sockets \cup {None}
  BY HeldType DEF IInv, TypeOK
<1>4. WsGeneration(s) \in Nat
  BY <1>3, TypesOfRelations DEF WsGeneration, RelationTypes
<1> QED BY <1>1, <1>2, <1>4

LEMMA ServeRelations ==
    ASSUME ConstantsAssumption, IInv, NEW s \in Sockets, Serve(s)
    PROVE  Relations'
<1>1. CASE AcceptFails(s)
  BY <1>1, PhaseOnlyRelations DEF AcceptFails
<1>2. CASE Claim(s) BY <1>2, ClaimRelations
<1>3. CASE Open(s) BY <1>3, OpenRelations
<1>4. CASE Mounted(s)
  BY <1>4, Running, NextEventRelations DEF Mounted
<1>5. CASE MountFails(s)
  BY <1>5, Running, ReleaseRelations DEF MountFails
<1>6. CASE Resumed(s)
  BY <1>6, Running, NextEventRelations DEF Resumed
<1>7. CASE ResumeFails(s)
  BY <1>7, PhaseOnlyRelations DEF ResumeFails
<1>8. CASE ReceiveEvent(s)
  <2>1. serves[s] # None
    BY <1>8, Running, ConstantsAssumption DEF ReceiveEvent, ConstantsAssumption
  <2> QED BY <1>8, <2>1, PhaseOnlyRelations DEF ReceiveEvent
<1>9. CASE ReceiveSentinel(s)
  BY <1>9, Running, ReleaseRelations DEF ReceiveSentinel
<1>10. CASE FinishHandler(s)
  BY <1>10, Running, NextEventRelations DEF FinishHandler
<1> QED BY <1>1, <1>2, <1>3, <1>4, <1>5, <1>6, <1>7, <1>8, <1>9, <1>10 DEF Serve

LEMMA IInvStep ==
    ASSUME ConstantsAssumption, IInv, [Next]_vars
    PROVE  IInv'
<1>1. TypeOK'
  BY TypeStep DEF IInv, Relations
<1>2. ASSUME NEW s \in Sockets, NEW id \in Ids \cup {NoId}, Upgrade(s, id)
      PROVE  Relations'
  BY <1>2, UpgradeRelations
<1>3. ASSUME NEW s \in Sockets, Serve(s) PROVE Relations'
  BY <1>3, ServeRelations
<1>4. ASSUME NEW s \in Sockets, Disconnect(s) \/ PumpEvent(s) \/ PumpRefusesFrame(s)
      PROVE  Relations'
  BY <1>4, WireRelations DEF Disconnect, PumpEvent, PumpRefusesFrame
<1>5. ASSUME NEW s \in Sockets, PumpSeesDisconnect(s) PROVE Relations'
  BY <1>5, WireRelations DEF PumpSeesDisconnect
<1>6. ASSUME NEW x \in Sockets, CloseTransport(x) \/ TimerFires(x) PROVE Relations'
  BY <1>6, CloseRelations, TimerRelations
<1>7. ASSUME NEW e \in expiring, ExpireWs(e[1], e[2]) PROVE Relations'
  <2> PICK id \in Ids, t \in Nat : e = <<id, t>>
    BY DEF IInv, TypeOK
  <2>1. ExpireWs(id, t)
    BY <1>7
  <2> QED BY <2>1, ExpireRelations
<1>8. ASSUME UNCHANGED vars PROVE Relations'
  <2>1. UNCHANGED <<phase, ask, serves, rec, gen, armed, status>> BY <1>8
  <2> QED BY <2>1, WireRelations
<1>9. Relations'
  BY <1>2, <1>3, <1>4, <1>5, <1>6, <1>7, <1>8 DEF Next
<1> QED BY <1>1, <1>9 DEF IInv

-----------------------------------------------------------------------------
(* The connection count.                                                   *)

LEMMA OpenSessionsFinite ==
    ASSUME ConstantsAssumption
    PROVE  IsFiniteSet(OpenSessions) /\ Cardinality(OpenSessions) \in Nat
<1>1. OpenSessions \subseteq Sockets BY DEF OpenSessions
<1>2. IsFiniteSet(Sockets) BY ConstantsAssumption DEF ConstantsAssumption
<1>3. IsFiniteSet(OpenSessions) BY <1>1, <1>2, FS_Subset
<1> QED BY <1>3, FS_CardinalityType

\* Closing a session and counting one down keeps the bound, even when that
\* session was closed before.
LEMMA RetireCount ==
    ASSUME ConstantsAssumption, IInv, LiveNeverOvercounts,
           NEW x \in Sockets, Retire(x), Uncount
    PROVE  LiveNeverOvercounts'
<1>1. status \in [Sockets -> {"unborn", "open", "closing", "closed"}] /\ live \in Int
  BY DEF IInv, TypeOK
<1>2. CASE status[x] = "open"
  <2>1. OpenSessions' = OpenSessions \ {x} /\ x \in OpenSessions
    BY <1>1, <1>2 DEF OpenSessions, Retire
  <2>2. Cardinality(OpenSessions') = Cardinality(OpenSessions) - 1
    BY <2>1, OpenSessionsFinite, FS_RemoveElement
  <2> QED BY <1>1, <2>2, OpenSessionsFinite DEF LiveNeverOvercounts, Uncount
<1>3. CASE status[x] # "open"
  <2>1. OpenSessions' = OpenSessions
    BY <1>1, <1>3 DEF OpenSessions, Retire
  <2> QED BY <1>1, <2>1, OpenSessionsFinite DEF LiveNeverOvercounts, Uncount
<1> QED BY <1>2, <1>3

LEMMA ReleaseCount ==
    ASSUME ConstantsAssumption, IInv, LiveNeverOvercounts,
           NEW s \in Sockets, NEW t, Release(s, t), serves[s] \in Sockets
    PROVE  LiveNeverOvercounts'
<1>1. CASE Retire(serves[s]) /\ Uncount
  BY <1>1, RetireCount
<1>2. CASE UNCHANGED <<live, status>>
  BY <1>2 DEF LiveNeverOvercounts, OpenSessions
<1> QED BY <1>1, <1>2 DEF Release

LEMMA CountStep ==
    ASSUME ConstantsAssumption, IInv, LiveNeverOvercounts, [Next]_vars
    PROVE  LiveNeverOvercounts'
<1> DEFINE Same == UNCHANGED <<live, status>>
<1>1. Same => LiveNeverOvercounts'
  BY DEF LiveNeverOvercounts, OpenSessions
<1>2. ASSUME NEW s \in Sockets, NEW t, NextEvent(s, t), serves[s] \in Sockets
      PROVE  LiveNeverOvercounts'
  BY <1>1, <1>2, ReleaseCount DEF NextEvent
<1>3. ASSUME NEW s \in Sockets, Open(s) PROVE LiveNeverOvercounts'
  <2>1. OpenSessions' = OpenSessions \cup {s} /\ s \notin OpenSessions
    BY <1>3 DEF Open, OpenSessions, IInv, TypeOK, Relations, Unaccepted
  <2>2. Cardinality(OpenSessions') = Cardinality(OpenSessions) + 1
    BY <2>1, OpenSessionsFinite, FS_AddElement
  <2>3. live' = live + 1 /\ live \in Int
    BY <1>3 DEF Open, IInv, TypeOK
  <2> QED BY <2>2, <2>3, OpenSessionsFinite DEF LiveNeverOvercounts
<1>4. ASSUME NEW s \in Sockets, Serve(s) PROVE LiveNeverOvercounts'
  <2>1. CASE AcceptFails(s) \/ Claim(s) \/ ResumeFails(s) \/ ReceiveEvent(s)
    BY <1>1, <2>1 DEF AcceptFails, Claim, ResumeFails, ReceiveEvent
  <2>2. CASE Open(s) BY <1>3, <2>2
  <2>3. CASE Mounted(s) BY <1>2, <2>3, Running DEF Mounted
  <2>4. CASE Resumed(s) BY <1>2, <2>4, Running DEF Resumed
  <2>5. CASE FinishHandler(s) BY <1>2, <2>5, Running DEF FinishHandler
  <2>6. CASE MountFails(s) BY <2>6, Running, ReleaseCount DEF MountFails
  <2>7. CASE ReceiveSentinel(s) BY <2>7, Running, ReleaseCount DEF ReceiveSentinel
  <2> QED BY <1>4, <2>1, <2>2, <2>3, <2>4, <2>5, <2>6, <2>7 DEF Serve
<1>5. ASSUME NEW x \in Sockets, CloseTransport(x) PROVE LiveNeverOvercounts'
  <2>1. OpenSessions' = OpenSessions /\ live' = live
    BY <1>5 DEF CloseTransport, OpenSessions, IInv, TypeOK
  <2> QED BY <2>1 DEF LiveNeverOvercounts
<1>6. ASSUME NEW e \in expiring, ExpireWs(e[1], e[2]) PROVE LiveNeverOvercounts'
  <2> PICK id \in Ids, t \in Nat : e = <<id, t>>
    BY DEF IInv, TypeOK
  <2>1. CASE HoldsToken(rec[id], t) /\ Retire(rec[id]) /\ Uncount
    <3>1. rec[id] \in Sockets BY <2>1 DEF HoldsToken, IInv, TypeOK
    <3> QED BY <2>1, <3>1, RetireCount
  <2> QED BY <1>1, <1>6, <2>1 DEF ExpireWs
<1>7. ASSUME NEW s \in Sockets, NEW id \in Ids \cup {NoId}, Upgrade(s, id)
      PROVE  LiveNeverOvercounts'
  BY <1>1, <1>7 DEF Upgrade
<1>8. ASSUME NEW s \in Sockets,
             \/ Disconnect(s) \/ PumpEvent(s) \/ PumpRefusesFrame(s)
             \/ PumpSeesDisconnect(s) \/ TimerFires(s)
      PROVE  LiveNeverOvercounts'
  BY <1>1, <1>8 DEF Disconnect, PumpEvent, PumpRefusesFrame, PumpSeesDisconnect, TimerFires
<1>9. CASE UNCHANGED vars BY <1>1, <1>9
<1> QED BY <1>4, <1>5, <1>6, <1>7, <1>8, <1>9 DEF Next

-----------------------------------------------------------------------------
(* Where a browser connects again only after the server let go of its last *)
(* socket, windows and claims follow one another.                          *)

Runs(s) == phase[s] \in {"resuming", "mounting", "receiving", "handling"}

\* A socket between its upgrade and its end.
Busy(s) == phase[s] = "accepting" \/ Runs(s)

\* No two sockets are busy under one id.
OnePerId == \A s, r \in Sockets :
    Busy(s) /\ Busy(r) /\ ask[s] = ask[r] /\ ask[s] # NoId => s = r

\* The record under the id of a socket being accepted is still its principal's.
SoleOwner == \A s \in Sockets : phase[s] = "accepting" => OwnsWs(s, ask[s])

\* A session not yet born has no generation but the first.
FreshGen == \A x \in Sockets : status[x] = "unborn" => gen[x] = 0

\* Without a resume window there are no timers.
TimersNeedWindows == ~Resumable =>
    expiring = {} /\ \A x \in Sockets : armed[x] = NoTimer

\* A timer is armed for the session its id holds.
TimersHoldRecords == \A x \in Sockets : armed[x] # NoTimer => rec[ask[x]] = x

\* One expiry task waits under an id; its token is not of the future, and if it
\* is that of the record no timer is armed beside it.
ExpiriesAreOld == \A id \in Ids, t \in Nat : <<id, t>> \in expiring =>
    /\ rec[id] # None /\ t <= gen[rec[id]]
    /\ t = gen[rec[id]] => armed[rec[id]] = NoTimer
    /\ \A u \in Nat : <<id, u>> \in expiring => u = t

\* A session born under an id that cannot be resumed, or where none can be, is
\* served by its own socket.
OwnSession == \A s \in Sockets :
    Runs(s) /\ (~Resumable \/ ask[s] = NoId) => serves[s] = s

\* A session that a socket serves is open, its id holds it, the socket has its
\* newest generation, and no window can retire it.
Attended == \A s \in Sockets : Runs(s) =>
    /\ status[serves[s]] = "open"
    /\ Resumable /\ ask[s] # NoId =>
         /\ rec[ask[s]] = serves[s]
         /\ armed[serves[s]] = NoTimer
         /\ <<ask[s], gen[serves[s]]>> \notin expiring
         /\ phase[s] # "resuming" => token[s] = gen[serves[s]]

Order ==
    /\ OnePerId /\ SoleOwner /\ FreshGen /\ TimersNeedWindows
    /\ TimersHoldRecords /\ ExpiriesAreOld /\ OwnSession /\ Attended

LEMMA InitOrder == ASSUME ConstantsAssumption PROVE Init => Order
  BY DEF ConstantsAssumption, Init, Order, OnePerId, SoleOwner, FreshGen, TimersNeedWindows,
     TimersHoldRecords, ExpiriesAreOld, OwnSession, Attended, Busy, Runs, NoTimer

\* The part of TypeOK this is about.
OrderTypes == RelationTypes /\ token \in [Sockets -> Nat] /\ expiring \subseteq (Ids \X Nat)

LEMMA TypesOfOrder == IInv => OrderTypes
  BY TypesOfRelations DEF IInv, TypeOK, OrderTypes

\* What a socket serves was born under the id the socket named, and so was what
\* a record holds.
LEMMA BornUnderId ==
    ASSUME ConstantsAssumption, IInv
    PROVE  /\ \A s \in Sockets : Runs(s) =>
                serves[s] \in Sockets /\ serves[s] # None /\ ask[serves[s]] = ask[s]
                /\ status[serves[s]] # "unborn"
           /\ \A id \in Ids : rec[id] # None =>
                rec[id] \in Sockets /\ ask[rec[id]] = id /\ status[rec[id]] # "unborn"
           /\ \A id \in Ids : id # NoId
           /\ \A x \in Sockets : x # None
<1> RelationTypes BY TypesOfRelations
<1> QED BY DEF IInv, Relations, RunningServes, ServesBorn, RecordsBorn, RelationTypes, Runs,
              ConstantsAssumption

\* A socket that moves on, or ends, and changes no session.
LEMMA PhaseOrder ==
    ASSUME IInv, Order, NEW s \in Sockets, NEW p,
           phase' = [phase EXCEPT ![s] = p],
           p = "done" \/ (Runs(s) /\ p \in {"receiving", "handling"}),
           \A r \in Sockets : r # s => token'[r] = token[r],
           p # "done" /\ Resumable /\ ask[s] # NoId => token'[s] = gen[serves[s]],
           UNCHANGED <<ask, serves, rec, gen, armed, expiring, status>>
    PROVE  Order'
<1> OrderTypes BY TypesOfOrder
<1> USE DEF OrderTypes, RelationTypes
<1>1. \A r \in Sockets : (Busy(r)' => Busy(r)) /\ (Runs(r)' => Runs(r))
  BY DEF Busy, Runs
<1>2. \A r \in Sockets : phase'[r] = "accepting" => phase[r] = "accepting"
  OBVIOUS
<1>3. OnePerId' BY <1>1 DEF Order, OnePerId
<1>4. SoleOwner' BY <1>2 DEF Order, SoleOwner, OwnsWs, Held
<1>5. (FreshGen /\ TimersNeedWindows /\ TimersHoldRecords /\ ExpiriesAreOld)'
  BY DEF Order, FreshGen, TimersNeedWindows, TimersHoldRecords, ExpiriesAreOld
<1>6. OwnSession' BY <1>1 DEF Order, OwnSession
<1>7. Attended'
  <2> SUFFICES ASSUME NEW r \in Sockets, Runs(r)'
               PROVE  /\ status[serves[r]] = "open"
                      /\ Resumable /\ ask[r] # NoId =>
                           /\ rec[ask[r]] = serves[r]
                           /\ armed[serves[r]] = NoTimer
                           /\ <<ask[r], gen[serves[r]]>> \notin expiring
                           /\ phase'[r] # "resuming" => token'[r] = gen[serves[r]]
    BY DEF Attended
  <2>1. Runs(r) BY <1>1
  <2>2. CASE r = s
    <3>1. p # "done" BY <2>2 DEF Runs
    <3> QED BY <2>1, <2>2, <3>1 DEF Order, Attended
  <2>3. CASE r # s
    <3>1. phase'[r] = phase[r] BY <2>3
    <3> QED BY <2>1, <2>3, <3>1 DEF Order, Attended
  <2> QED BY <2>2, <2>3
<1> QED BY <1>3, <1>4, <1>5, <1>6, <1>7 DEF Order

\* Two sockets that run serve different sessions, neither the other's.
LEMMA ServesApart ==
    ASSUME ConstantsAssumption, IInv, Order, NEW s \in Sockets, NEW r \in Sockets,
           Runs(s), Runs(r), r # s
    PROVE  serves[r] # serves[s]
<1>1. OwnSession /\ OnePerId BY DEF Order
<1>2. ask[serves[s]] = ask[s] /\ ask[serves[r]] = ask[r] BY BornUnderId
<1>3. ask[s] # NoId => ask[r] # ask[s]
  BY <1>1 DEF OnePerId, Busy
<1>4. CASE ~Resumable \/ ask[s] = NoId
  <2>1. serves[s] = s BY <1>1, <1>4 DEF OwnSession
  <2>2. ask[r] = NoId => serves[r] = r BY <1>1 DEF OwnSession
  <2>3. ~Resumable => serves[r] = r BY <1>1 DEF OwnSession
  <2> QED BY <1>2, <1>4, <2>1, <2>2, <2>3
<1>5. CASE ask[s] # NoId
  BY <1>2, <1>3, <1>5
<1> QED BY <1>4, <1>5

LEMMA ReleaseOrder ==
    ASSUME ConstantsAssumption, IInv, Order, NEW s \in Sockets, NEW t \in Nat,
           Runs(s), Release(s, t),
           Resumable /\ ask[s] # NoId => t = gen[serves[s]],
           \A r \in Sockets : r # s => token'[r] = token[r],
           UNCHANGED <<ask, serves>>
    PROVE  Order'
<1> OrderTypes BY TypesOfOrder
<1> USE DEF OrderTypes, RelationTypes
<1>1. PICK x \in Sockets : x = serves[s] BY BornUnderId
<1>2. PICK h \in Sockets \cup {None} : h = Held(ask[s])
  BY HeldType DEF IInv, TypeOK
<1>3. /\ phase' = [phase EXCEPT ![s] = "done"]
      /\ UNCHANGED <<ask, serves, rec, gen, expiring>>
  BY DEF Release
<1>4. Resumable /\ ask[s] # NoId => h = x /\ ask[s] \in Ids /\ rec[ask[s]] = x
  BY <1>1, <1>2 DEF Order, Attended, Held
<1>5. ask[s] = NoId => h = None BY <1>2 DEF Held
<1>6. \A r \in Sockets : /\ Busy(r)' => Busy(r) /\ r # s
                         /\ Runs(r)' => Runs(r) /\ r # s
                         /\ phase'[r] = "accepting" => phase[r] = "accepting"
                         /\ r # s => phase'[r] = phase[r]
  BY <1>3 DEF Busy, Runs
<1>7. OnePerId' BY <1>3, <1>6 DEF Order, OnePerId
<1>8. SoleOwner' BY <1>3, <1>6 DEF Order, SoleOwner, OwnsWs, Held
<1>9. OwnSession' BY <1>3, <1>6 DEF Order, OwnSession
<1>10. \A r \in Sockets : Runs(r)' => serves[r] # x /\ serves[r] \in Sockets
  BY <1>1, <1>6, ServesApart, BornUnderId
<1>11. CASE /\ h = None \/ ~Resumable
            /\ Retire(x)
            /\ UNCHANGED armed
  <2>1. /\ status' = [status EXCEPT ![x] = IF @ = "open" THEN "closing" ELSE @]
        /\ status[x] = "open"
    BY <1>1, <1>11 DEF Retire, Order, Attended
  <2>2. \A y \in Sockets : (status'[y] = "unborn" => status[y] = "unborn")
                           /\ (y # x => status'[y] = status[y])
    BY <2>1
  <2>3. (FreshGen /\ TimersNeedWindows /\ TimersHoldRecords /\ ExpiriesAreOld)'
    BY <1>3, <1>11, <2>2 DEF Order, FreshGen, TimersNeedWindows, TimersHoldRecords, ExpiriesAreOld
  <2>4. Attended'
    BY <1>3, <1>6, <1>10, <1>11, <2>2 DEF Order, Attended
  <2> QED BY <1>7, <1>8, <1>9, <2>3, <2>4 DEF Order
<1>12. CASE UNCHANGED <<status, armed>>
  BY <1>3, <1>12, PhaseOrder
<1>13. CASE /\ Resumable /\ HoldsToken(h, t)
            /\ armed' = [armed EXCEPT ![h] = t]
            /\ UNCHANGED status
  <2>1. h = x /\ ask[s] \in Ids /\ rec[ask[s]] = x /\ ask[s] # NoId
    BY <1>4, <1>5, <1>13 DEF HoldsToken
  <2>2. ask[x] = ask[s] BY <1>1, BornUnderId
  <2>3. <<ask[s], gen[x]>> \notin expiring BY <1>1, <1>13, <2>1 DEF Order, Attended
  <2>4. FreshGen' BY <1>3, <1>13 DEF Order, FreshGen
  <2>5. TimersNeedWindows' BY <1>13 DEF TimersNeedWindows
  <2>6. TimersHoldRecords' BY <1>3, <1>13, <2>1, <2>2 DEF Order, TimersHoldRecords
  <2>7. ExpiriesAreOld'
    <3> SUFFICES ASSUME NEW id \in Ids, NEW u \in Nat, <<id, u>> \in expiring
                 PROVE  /\ rec[id] # None /\ u <= gen[rec[id]]
                        /\ u = gen[rec[id]] => armed'[rec[id]] = NoTimer
                        /\ \A v \in Nat : <<id, v>> \in expiring => v = u
      BY <1>3 DEF ExpiriesAreOld
    <3>1. /\ rec[id] # None /\ u <= gen[rec[id]]
          /\ u = gen[rec[id]] => armed[rec[id]] = NoTimer
          /\ \A v \in Nat : <<id, v>> \in expiring => v = u
      BY DEF Order, ExpiriesAreOld
    <3>2. CASE rec[id] = x
      <4>1. id = ask[s] BY <2>2, <3>1, <3>2, BornUnderId
      <4> QED BY <2>3, <3>1, <3>2, <4>1
    <3>3. CASE rec[id] # x
      BY <1>13, <2>1, <3>1, <3>3
    <3> QED BY <3>2, <3>3
  <2>8. Attended'
    BY <1>3, <1>6, <1>10, <1>13, <2>1 DEF Order, Attended
  <2> QED BY <1>7, <1>8, <1>9, <2>4, <2>5, <2>6, <2>7, <2>8 DEF Order
<1> QED BY <1>1, <1>2, <1>11, <1>12, <1>13 DEF Release

LEMMA NextEventOrder ==
    ASSUME ConstantsAssumption, IInv, Order, NEW s \in Sockets, NEW t \in Nat,
           Runs(s), NextEvent(s, t),
           Resumable /\ ask[s] # NoId => t = gen[serves[s]],
           \A r \in Sockets : r # s => token'[r] = token[r],
           token'[s] = t,
           UNCHANGED <<ask, serves>>
    PROVE  Order'
<1>1. status[serves[s]] = "open" BY DEF Order, Attended
<1>2. /\ phase' = [phase EXCEPT ![s] = "receiving"]
      /\ UNCHANGED <<rec, gen, armed, expiring, status>>
  BY <1>1 DEF NextEvent
<1> QED BY <1>2, PhaseOrder

\* What _claim_ws finds is what the registry holds under a name.
LEMMA ClaimFinds ==
    ASSUME ConstantsAssumption, IInv, NEW s \in Sockets, Claim(s)
    PROVE  \E x \in Sockets :
             /\ Resumable /\ ask[s] \in Ids /\ ask[s] # NoId /\ rec[ask[s]] = x
             /\ ask[x] = ask[s] /\ status[x] = "open"
             /\ phase[s] = "accepting"
             /\ phase' = [phase EXCEPT ![s] = "resuming"]
             /\ serves' = [serves EXCEPT ![s] = x]
             /\ armed' = [armed EXCEPT ![x] = NoTimer]
             /\ gen' = [gen EXCEPT ![x] = @ + 1]
             /\ UNCHANGED <<ask, rec, status, token, expiring>>
<1> RelationTypes BY TypesOfRelations
<1>1. PICK x \in Sockets : x = Held(ask[s]) /\ Resumable
  BY HeldType DEF Claim, Claimable, IInv, TypeOK
<1>2. x # None BY BornUnderId
<1>3. ask[s] \in Ids /\ rec[ask[s]] = x /\ ask[s] # NoId
  <2>1. ask[s] # NoId BY <1>1, <1>2 DEF Held
  <2> QED BY <1>1, <2>1 DEF Held, RelationTypes
<1>4. ask[x] = ask[s] /\ status[x] = "open"
  BY <1>1, <1>2, <1>3 DEF IInv, Relations, RecordsBorn, RegisteredIsOpen
<1>5. /\ phase[s] = "accepting"
      /\ phase' = [phase EXCEPT ![s] = "resuming"]
      /\ serves' = [serves EXCEPT ![s] = x]
      /\ armed' = [armed EXCEPT ![x] = NoTimer]
      /\ gen' = [gen EXCEPT ![x] = @ + 1]
      /\ UNCHANGED <<ask, rec, status, token, expiring>>
  BY <1>1 DEF Claim, CancelExpiry, Bump
<1> QED BY <1>1, <1>3, <1>4, <1>5

LEMMA ClaimOrder ==
    ASSUME ConstantsAssumption, IInv, Order, NEW s \in Sockets, Claim(s)
    PROVE  /\ Order'
           /\ armed'[serves'[s]] = NoTimer
           /\ <<ask[s], gen'[serves'[s]]>> \notin expiring'
<1> OrderTypes BY TypesOfOrder
<1> USE DEF OrderTypes, RelationTypes
<1>1. PICK x \in Sockets :
             /\ Resumable /\ ask[s] \in Ids /\ ask[s] # NoId /\ rec[ask[s]] = x
             /\ ask[x] = ask[s] /\ status[x] = "open"
             /\ phase[s] = "accepting"
             /\ phase' = [phase EXCEPT ![s] = "resuming"]
             /\ serves' = [serves EXCEPT ![s] = x]
             /\ armed' = [armed EXCEPT ![x] = NoTimer]
             /\ gen' = [gen EXCEPT ![x] = @ + 1]
             /\ UNCHANGED <<ask, rec, status, token, expiring>>
  BY ClaimFinds
<1>2. \A r \in Sockets : /\ Busy(r)' <=> Busy(r)
                         /\ r # s => (Runs(r)' <=> Runs(r)) /\ phase'[r] = phase[r]
                         /\ phase'[r] = "accepting" => phase[r] = "accepting"
  BY <1>1 DEF Busy, Runs
<1>3. OnePerId' BY <1>1, <1>2 DEF Order, OnePerId
<1>4. SoleOwner' BY <1>1, <1>2 DEF Order, SoleOwner, OwnsWs, Held
<1>5. (FreshGen /\ TimersNeedWindows /\ TimersHoldRecords)'
  BY <1>1 DEF Order, FreshGen, TimersNeedWindows, TimersHoldRecords
<1>6. OwnSession' BY <1>1, <1>2 DEF Order, OwnSession
<1>7. <<ask[s], gen[x] + 1>> \notin expiring
  <2> SUFFICES ASSUME <<ask[s], gen[x] + 1>> \in expiring PROVE FALSE
    OBVIOUS
  <2>1. gen[x] \in Nat /\ gen[x] + 1 \in Nat OBVIOUS
  <2>2. gen[x] + 1 <= gen[rec[ask[s]]] BY <1>1, <2>1 DEF Order, ExpiriesAreOld
  <2> QED BY <1>1, <2>1, <2>2
<1>8. ExpiriesAreOld'
  <2> SUFFICES ASSUME NEW id \in Ids, NEW u \in Nat, <<id, u>> \in expiring
               PROVE  /\ rec[id] # None /\ u <= gen'[rec[id]]
                      /\ u = gen'[rec[id]] => armed'[rec[id]] = NoTimer
                      /\ \A v \in Nat : <<id, v>> \in expiring => v = u
    BY <1>1 DEF ExpiriesAreOld
  <2>1. /\ rec[id] # None /\ u <= gen[rec[id]]
        /\ u = gen[rec[id]] => armed[rec[id]] = NoTimer
        /\ \A v \in Nat : <<id, v>> \in expiring => v = u
    BY DEF Order, ExpiriesAreOld
  <2>2. rec[id] \in Sockets /\ gen[rec[id]] \in Nat BY <2>1
  <2>3. gen'[rec[id]] = IF rec[id] = x THEN gen[x] + 1 ELSE gen[rec[id]] BY <1>1, <2>2
  <2>4. armed'[rec[id]] = IF rec[id] = x THEN NoTimer ELSE armed[rec[id]] BY <1>1, <2>2
  <2> QED BY <2>1, <2>2, <2>3, <2>4
<1>9. Attended'
  <2> SUFFICES ASSUME NEW r \in Sockets, Runs(r)'
               PROVE  /\ status[serves'[r]] = "open"
                      /\ Resumable /\ ask[r] # NoId =>
                           /\ rec[ask[r]] = serves'[r]
                           /\ armed'[serves'[r]] = NoTimer
                           /\ <<ask[r], gen'[serves'[r]]>> \notin expiring
                           /\ phase'[r] # "resuming" => token[r] = gen'[serves'[r]]
    BY <1>1 DEF Attended
  <2>1. CASE r = s BY <1>1, <1>7, <2>1
  <2>2. CASE r # s
    <3>1. Runs(r) /\ serves'[r] = serves[r] /\ phase'[r] = phase[r] BY <1>1, <1>2, <2>2
    <3>2. serves[r] \in Sockets /\ ask[serves[r]] = ask[r] BY <3>1, BornUnderId
    <3>3. ask[r] # ask[s]
      BY <1>1, <2>2, <3>1 DEF Order, OnePerId, Busy
    <3>4. serves[r] # x BY <1>1, <3>2, <3>3
    <3>5. gen'[serves[r]] = gen[serves[r]] /\ armed'[serves[r]] = armed[serves[r]]
      BY <1>1, <3>2, <3>4
    <3> QED BY <1>1, <3>1, <3>5 DEF Order, Attended
  <2> QED BY <2>1, <2>2
<1>10. armed'[serves'[s]] = NoTimer /\ <<ask[s], gen'[serves'[s]]>> \notin expiring'
  BY <1>1, <1>7
<1> QED BY <1>3, <1>4, <1>5, <1>6, <1>8, <1>9, <1>10 DEF Order

LEMMA OpenOrder ==
    ASSUME ConstantsAssumption, IInv, Order, NEW s \in Sockets, Open(s)
    PROVE  /\ Order'
           /\ Resumable /\ ask[s] # NoId => rec[ask[s]] = None
<1> OrderTypes BY TypesOfOrder
<1> USE DEF OrderTypes, RelationTypes
<1>1. /\ phase[s] = "accepting" /\ ~Claimable(s)
      /\ phase' = [phase EXCEPT ![s] = "mounting"]
      /\ serves' = [serves EXCEPT ![s] = s]
      /\ status' = [status EXCEPT ![s] = "open"]
      /\ token' = [token EXCEPT ![s] = 0]
      /\ rec' = IF ask[s] = NoId THEN rec ELSE [rec EXCEPT ![ask[s]] = s]
      /\ UNCHANGED <<ask, gen, armed, expiring>>
  BY DEF Open
<1>2. status[s] = "unborn" /\ gen[s] = 0 /\ armed[s] = NoTimer /\ s # None
  BY <1>1, BornUnderId
  DEF Order, FreshGen, IInv, Relations, Unaccepted, ArmedHasId
<1>3. Resumable /\ ask[s] # NoId => rec[ask[s]] = None /\ ask[s] \in Ids
  BY <1>1 DEF Order, SoleOwner, OwnsWs, Claimable, Held
<1>4. \A r \in Sockets : /\ Busy(r)' <=> Busy(r)
                         /\ r # s => (Runs(r)' <=> Runs(r)) /\ phase'[r] = phase[r]
                         /\ phase'[r] = "accepting" => phase[r] = "accepting" /\ r # s
  BY <1>1 DEF Busy, Runs
<1>5. \A r \in Sockets : r # s /\ Busy(r) /\ ask[r] # NoId => ask[r] # ask[s]
  BY <1>1 DEF Order, OnePerId, Busy
<1>6. \A id \in Ids : id # ask[s] => rec'[id] = rec[id]
  BY <1>1
<1>7. OnePerId' BY <1>1, <1>4 DEF Order, OnePerId
<1>8. SoleOwner'
  <2> SUFFICES ASSUME NEW r \in Sockets, phase'[r] = "accepting"
               PROVE  OwnsWs(r, ask[r])'
    BY <1>1 DEF SoleOwner
  <2>1. phase[r] = "accepting" /\ r # s BY <1>4
  <2>2. OwnsWs(r, ask[r]) BY <2>1 DEF Order, SoleOwner
  <2>3. ask[r] # NoId => ask[r] \in Ids /\ rec'[ask[r]] = rec[ask[r]]
    BY <1>5, <1>6, <2>1 DEF Busy
  <2> QED BY <1>1, <2>2, <2>3 DEF OwnsWs, Held
<1>9. FreshGen' BY <1>1 DEF Order, FreshGen
<1>10. TimersNeedWindows' BY <1>1 DEF Order, TimersNeedWindows
<1>11. TimersHoldRecords'
  <2> SUFFICES ASSUME NEW y \in Sockets, armed[y] # NoTimer
               PROVE  rec'[ask[y]] = y
    BY <1>1 DEF TimersHoldRecords
  <2>1. Resumable /\ rec[ask[y]] = y /\ ask[y] \in Ids /\ y # None /\ ask[y] # NoId
    BY BornUnderId
    DEF Order, TimersNeedWindows, TimersHoldRecords, IInv, Relations, ArmedHasId
  <2>2. ask[y] # ask[s] BY <1>3, <2>1
  <2> QED BY <1>6, <2>1, <2>2
<1>12. ASSUME NEW id \in Ids, NEW u \in Nat, <<id, u>> \in expiring
       PROVE  id # ask[s]
  <2>1. Resumable BY <1>12 DEF Order, TimersNeedWindows
  <2>2. rec[id] # None BY <1>12 DEF Order, ExpiriesAreOld
  <2> QED BY <1>3, <2>1, <2>2, BornUnderId
<1>13. ExpiriesAreOld'
  <2> SUFFICES ASSUME NEW id \in Ids, NEW u \in Nat, <<id, u>> \in expiring
               PROVE  /\ rec'[id] # None /\ u <= gen[rec'[id]]
                      /\ u = gen[rec'[id]] => armed[rec'[id]] = NoTimer
                      /\ \A v \in Nat : <<id, v>> \in expiring => v = u
    BY <1>1 DEF ExpiriesAreOld
  <2>1. rec'[id] = rec[id] BY <1>6, <1>12
  <2> QED BY <2>1 DEF Order, ExpiriesAreOld
<1>14. OwnSession' BY <1>1, <1>4 DEF Order, OwnSession
<1>15. Attended'
  <2> SUFFICES ASSUME NEW r \in Sockets, Runs(r)'
               PROVE  /\ status'[serves'[r]] = "open"
                      /\ Resumable /\ ask[r] # NoId =>
                           /\ rec'[ask[r]] = serves'[r]
                           /\ armed[serves'[r]] = NoTimer
                           /\ <<ask[r], gen[serves'[r]]>> \notin expiring
                           /\ phase'[r] # "resuming" => token'[r] = gen[serves'[r]]
    BY <1>1 DEF Attended
  <2>1. CASE r = s
    <3>1. serves'[r] = s /\ status'[s] = "open" /\ token'[r] = 0 BY <1>1, <2>1
    <3>2. Resumable /\ ask[r] # NoId => rec'[ask[r]] = s /\ <<ask[r], gen[s]>> \notin expiring
      BY <1>1, <1>2, <1>3, <1>12, <2>1
    <3> QED BY <1>2, <3>1, <3>2
  <2>2. CASE r # s
    <3>1. /\ Runs(r) /\ serves'[r] = serves[r] /\ phase'[r] = phase[r]
          /\ token'[r] = token[r]
      BY <1>1, <1>4, <2>2
    <3>2. status'[serves[r]] = status[serves[r]]
      BY <1>1, <1>2, <3>1, BornUnderId
    <3>3. ask[r] # NoId => rec'[ask[r]] = rec[ask[r]]
      BY <1>5, <1>6, <2>2, <3>1 DEF Busy
    <3> QED BY <3>1, <3>2, <3>3 DEF Order, Attended
  <2> QED BY <2>1, <2>2
<1> QED BY <1>3, <1>7, <1>8, <1>9, <1>10, <1>11, <1>13, <1>14, <1>15 DEF Order

LEMMA UpgradeOrder ==
    ASSUME ConstantsAssumption, ~OverlappingSockets, IInv, Order, NEW s \in Sockets,
           NEW id \in Ids \cup {NoId}, Upgrade(s, id)
    PROVE  Order'
<1> OrderTypes BY TypesOfOrder
<1> USE DEF OrderTypes, RelationTypes
<1>1. /\ phase[s] = "idle" /\ MayConnect(s, id)
      /\ ask' = [ask EXCEPT ![s] = id]
      /\ phase' = [phase EXCEPT ![s] =
                      IF AtCapacity \/ ~OwnsWs(s, id) THEN "done" ELSE "accepting"]
      /\ UNCHANGED <<serves, token, rec, gen, armed, expiring, status>>
  BY DEF Upgrade
<1>2. \A r \in Sockets : Busy(r) /\ id # NoId => ask[r] # id /\ r # s
  BY <1>1 DEF MayConnect, Busy, Runs
<1>3. \A r \in Sockets : /\ r # s => (Busy(r)' <=> Busy(r)) /\ ask'[r] = ask[r]
                         /\ r # s => phase'[r] = phase[r]
                         /\ Runs(r)' => Runs(r) /\ r # s
  BY <1>1 DEF Busy, Runs
<1>4. status[s] = "unborn" BY <1>1 DEF IInv, Relations, Unaccepted
<1>5. OnePerId'
  <2> SUFFICES ASSUME NEW q \in Sockets, NEW r \in Sockets,
                      Busy(q)', Busy(r)', ask'[q] = ask'[r], ask'[q] # NoId
               PROVE  q = r
    BY DEF OnePerId
  <2>1. ask'[s] = id BY <1>1
  <2>2. CASE q = s \/ r = s BY <1>2, <1>3, <2>1, <2>2
  <2>3. CASE q # s /\ r # s BY <1>3, <2>3 DEF Order, OnePerId
  <2> QED BY <2>2, <2>3
<1>6. SoleOwner'
  <2> SUFFICES ASSUME NEW r \in Sockets, phase'[r] = "accepting" PROVE OwnsWs(r, ask'[r])
    BY <1>1 DEF SoleOwner, OwnsWs, Held
  <2>1. CASE r = s BY <1>1, <2>1
  <2>2. CASE r # s BY <1>3, <2>2 DEF Order, SoleOwner
  <2> QED BY <2>1, <2>2
<1>7. (FreshGen /\ TimersNeedWindows /\ ExpiriesAreOld)'
  BY <1>1 DEF Order, FreshGen, TimersNeedWindows, ExpiriesAreOld
<1>8. TimersHoldRecords'
  BY <1>1, <1>3, <1>4 DEF Order, TimersHoldRecords, IInv, Relations, ArmedHasId
<1>9. OwnSession' BY <1>1, <1>3 DEF Order, OwnSession
<1>10. Attended'
  <2> SUFFICES ASSUME NEW r \in Sockets, Runs(r)'
               PROVE  /\ status[serves[r]] = "open"
                      /\ Resumable /\ ask[r] # NoId =>
                           /\ rec[ask[r]] = serves[r]
                           /\ armed[serves[r]] = NoTimer
                           /\ <<ask[r], gen[serves[r]]>> \notin expiring
                           /\ phase[r] # "resuming" => token[r] = gen[serves[r]]
    BY <1>1, <1>3 DEF Attended
  <2> QED BY <1>3 DEF Order, Attended
<1> QED BY <1>5, <1>6, <1>7, <1>8, <1>9, <1>10 DEF Order

LEMMA ExpireOrder ==
    ASSUME ConstantsAssumption, IInv, Order, NEW id \in Ids, NEW t \in Nat, ExpireWs(id, t)
    PROVE  Order'
<1> OrderTypes BY TypesOfOrder
<1> USE DEF OrderTypes, RelationTypes
<1>1. PICK x \in Sockets \cup {None} : x = rec[id]
  OBVIOUS
<1>2. /\ <<id, t>> \in expiring /\ expiring' = expiring \ {<<id, t>>}
      /\ UNCHANGED <<phase, ask, serves, token, gen, armed>>
  BY DEF ExpireWs
<1>3. Resumable /\ TimersNeedWindows' BY <1>2 DEF Order, TimersNeedWindows
<1>4. CASE HoldsToken(x, t) /\ Forget(id) /\ Retire(x)
  <2>1. x \in Sockets /\ x # None /\ ask[x] = id /\ id # NoId /\ gen[x] = t
    BY <1>1, <1>4, BornUnderId DEF HoldsToken
  <2>2. /\ status' = [status EXCEPT ![x] = IF @ = "open" THEN "closing" ELSE @]
        /\ rec' = [rec EXCEPT ![id] = None]
    BY <1>4 DEF Retire, Forget
  <2>3. \A y \in Sockets : /\ (status'[y] = "unborn") => (status[y] = "unborn")
                           /\ y # x => status'[y] = status[y]
    BY <2>2
  <2>4. \A other \in Ids : other # id => rec'[other] = rec[other]
    BY <2>2
  <2>5. /\ armed[x] = NoTimer
        /\ \A u \in Nat : <<id, u>> \in expiring => u = t
    BY <1>1, <1>2, <2>1 DEF Order, ExpiriesAreOld
  <2>6. \A r \in Sockets : Runs(r) => ask[r] # id /\ serves[r] # x /\ serves[r] \in Sockets
    <3> SUFFICES ASSUME NEW r \in Sockets, Runs(r)
                 PROVE  ask[r] # id /\ serves[r] # x /\ serves[r] \in Sockets
      OBVIOUS
    <3>1. serves[r] \in Sockets /\ ask[serves[r]] = ask[r] BY BornUnderId
    <3>2. ask[r] = id => rec[id] = serves[r] /\ <<id, gen[serves[r]]>> \notin expiring
      BY <1>3, <2>1 DEF Order, Attended
    <3> QED BY <1>1, <1>2, <2>1, <3>1, <3>2
  <2>7. OnePerId' BY <1>2 DEF Order, OnePerId, Busy, Runs
  <2>8. SoleOwner' BY <1>2, <2>2, <2>4 DEF Order, SoleOwner, OwnsWs, Held
  <2>9. FreshGen' BY <1>2, <2>3 DEF Order, FreshGen
  <2>10. TimersHoldRecords'
    <3> SUFFICES ASSUME NEW y \in Sockets, armed[y] # NoTimer PROVE rec'[ask[y]] = y
      BY <1>2 DEF TimersHoldRecords
    <3>1. rec[ask[y]] = y /\ ask[y] \in Ids /\ y # x
      BY <2>5 DEF Order, TimersHoldRecords, IInv, Relations, ArmedHasId
    <3> QED BY <1>1, <2>4, <3>1
  <2>11. ExpiriesAreOld'
    <3> SUFFICES ASSUME NEW other \in Ids, NEW u \in Nat, <<other, u>> \in expiring'
                 PROVE  /\ rec'[other] # None /\ u <= gen[rec'[other]]
                        /\ u = gen[rec'[other]] => armed[rec'[other]] = NoTimer
                        /\ \A v \in Nat : <<other, v>> \in expiring' => v = u
      BY <1>2 DEF ExpiriesAreOld
    <3>1. <<other, u>> \in expiring /\ other # id BY <1>2, <2>5
    <3>2. \A v \in Nat : <<other, v>> \in expiring' => <<other, v>> \in expiring BY <1>2
    <3> QED BY <2>4, <3>1, <3>2 DEF Order, ExpiriesAreOld
  <2>12. OwnSession' BY <1>2 DEF Order, OwnSession, Runs
  <2>13. Attended'
    <3> SUFFICES ASSUME NEW r \in Sockets, Runs(r)
                 PROVE  /\ status'[serves[r]] = "open"
                        /\ ask[r] # NoId =>
                             /\ rec'[ask[r]] = serves[r]
                             /\ armed[serves[r]] = NoTimer
                             /\ <<ask[r], gen[serves[r]]>> \notin expiring'
                             /\ phase[r] # "resuming" => token[r] = gen[serves[r]]
      BY <1>2 DEF Attended, Runs
    <3>1. ask[r] # NoId => rec'[ask[r]] = rec[ask[r]] BY <2>4, <2>6
    <3>2. status'[serves[r]] = status[serves[r]] BY <2>3, <2>6
    <3> QED BY <1>2, <1>3, <3>1, <3>2 DEF Order, Attended
  <2> QED BY <1>3, <2>7, <2>8, <2>9, <2>10, <2>11, <2>12, <2>13 DEF Order
<1>5. CASE UNCHANGED <<rec, status>>
  <2>1. OnePerId' BY <1>2, <1>5 DEF Order, OnePerId, Busy, Runs
  <2>2. (SoleOwner /\ FreshGen /\ TimersHoldRecords)'
    BY <1>2, <1>5 DEF Order, SoleOwner, OwnsWs, Held, FreshGen, TimersHoldRecords
  <2>3. (ExpiriesAreOld /\ OwnSession /\ Attended)'
    BY <1>2, <1>5 DEF Order, ExpiriesAreOld, OwnSession, Attended, Runs
  <2> QED BY <1>3, <2>1, <2>2, <2>3 DEF Order
<1> QED BY <1>1, <1>4, <1>5 DEF ExpireWs

LEMMA TimerOrder ==
    ASSUME ConstantsAssumption, IInv, Order, NEW x \in Sockets, TimerFires(x)
    PROVE  Order'
<1> OrderTypes BY TypesOfOrder
<1> USE DEF OrderTypes, RelationTypes
<1>1. /\ armed[x] # NoTimer
      /\ \A e \in expiring : e[1] # ask[x]
      /\ expiring' = expiring \cup {<<ask[x], armed[x]>>}
      /\ armed' = [armed EXCEPT ![x] = NoTimer]
      /\ UNCHANGED <<phase, ask, serves, token, rec, gen, status>>
  BY DEF TimerFires, CancelExpiry
<1>2. Resumable BY <1>1 DEF Order, TimersNeedWindows
<1>3. ask[x] \in Ids /\ rec[ask[x]] = x /\ armed[x] = gen[x] /\ ask[x] # NoId /\ x # None
  BY <1>1, BornUnderId
  DEF Order, TimersHoldRecords, IInv, Relations, ArmedHasId, ArmedTimerIsCurrent
<1>4. \A u : <<ask[x], u>> \notin expiring
  <2> SUFFICES ASSUME NEW u, <<ask[x], u>> \in expiring PROVE FALSE
    OBVIOUS
  <2>1. <<ask[x], u>>[1] # ask[x] BY <1>1
  <2> QED BY <2>1
<1>5. (OnePerId /\ SoleOwner /\ FreshGen /\ OwnSession)'
  BY <1>1 DEF Order, OnePerId, SoleOwner, OwnsWs, Held, FreshGen, OwnSession, Busy, Runs
<1>6. TimersNeedWindows' BY <1>2 DEF TimersNeedWindows
<1>7. TimersHoldRecords' BY <1>1 DEF Order, TimersHoldRecords
<1>8. ExpiriesAreOld'
  <2> SUFFICES ASSUME NEW id \in Ids, NEW u \in Nat, <<id, u>> \in expiring'
               PROVE  /\ rec[id] # None /\ u <= gen[rec[id]]
                      /\ u = gen[rec[id]] => armed'[rec[id]] = NoTimer
                      /\ \A v \in Nat : <<id, v>> \in expiring' => v = u
    BY <1>1 DEF ExpiriesAreOld
  <2>1. CASE id = ask[x]
    <3>1. \A v \in Nat : <<id, v>> \in expiring' => v = gen[x] BY <1>1, <1>3, <1>4, <2>1
    <3>2. u = gen[x] BY <3>1
    <3> QED BY <1>1, <1>3, <2>1, <3>1, <3>2
  <2>2. CASE id # ask[x]
    <3>1. \A v \in Nat : <<id, v>> \in expiring' => <<id, v>> \in expiring BY <1>1, <2>2
    <3>2. <<id, u>> \in expiring BY <3>1
    <3>3. rec[id] # x BY <2>2, <3>2, BornUnderId DEF Order, ExpiriesAreOld
    <3>4. armed'[rec[id]] = armed[rec[id]] BY <1>1, <3>2, <3>3 DEF Order, ExpiriesAreOld
    <3> QED BY <3>1, <3>2, <3>4 DEF Order, ExpiriesAreOld
  <2> QED BY <2>1, <2>2
<1>9. Attended'
  <2> SUFFICES ASSUME NEW r \in Sockets, Runs(r)
               PROVE  /\ status[serves[r]] = "open"
                      /\ ask[r] # NoId =>
                           /\ rec[ask[r]] = serves[r]
                           /\ armed'[serves[r]] = NoTimer
                           /\ <<ask[r], gen[serves[r]]>> \notin expiring'
                           /\ phase[r] # "resuming" => token[r] = gen[serves[r]]
    BY <1>1 DEF Attended, Runs
  <2>1. ask[r] # NoId => ask[r] # ask[x]
    <3>1. ask[r] # NoId => rec[ask[r]] = serves[r] /\ armed[serves[r]] = NoTimer
      BY <1>2 DEF Order, Attended
    <3> QED BY <1>1, <1>3, <3>1
  <2>2. serves[r] # x BY <1>3, <2>1, BornUnderId
  <2>3. serves[r] \in Sockets BY BornUnderId
  <2>4. armed'[serves[r]] = armed[serves[r]] BY <1>1, <2>2, <2>3
  <2>5. ask[r] # NoId /\ <<ask[r], gen[serves[r]]>> \in expiring'
          => <<ask[r], gen[serves[r]]>> \in expiring
    BY <1>1, <2>1
  <2> QED BY <1>2, <2>4, <2>5 DEF Order, Attended
<1> QED BY <1>5, <1>6, <1>7, <1>8, <1>9 DEF Order

LEMMA CloseOrder ==
    ASSUME ConstantsAssumption, IInv, Order, NEW x \in Sockets, CloseTransport(x)
    PROVE  Order'
<1> OrderTypes BY TypesOfOrder
<1> USE DEF OrderTypes, RelationTypes
<1>1. /\ status[x] = "closing"
      /\ status' = [status EXCEPT ![x] = "closed"]
      /\ UNCHANGED <<phase, ask, serves, token, rec, gen, armed, expiring>>
  BY DEF CloseTransport
<1>2. (OnePerId /\ SoleOwner /\ FreshGen /\ OwnSession)'
  BY <1>1 DEF Order, OnePerId, SoleOwner, OwnsWs, Held, FreshGen, OwnSession, Busy, Runs
<1>3. (TimersNeedWindows /\ TimersHoldRecords /\ ExpiriesAreOld)'
  BY <1>1 DEF Order, TimersNeedWindows, TimersHoldRecords, ExpiriesAreOld
<1>4. Attended'
  BY <1>1, BornUnderId DEF Order, Attended, Runs
<1> QED BY <1>2, <1>3, <1>4 DEF Order

\* A step of the wire.
LEMMA WireOrder ==
    ASSUME Order, UNCHANGED <<phase, ask, serves, token, rec, gen, armed, expiring, status>>
    PROVE  Order'
<1>1. (OnePerId /\ SoleOwner /\ FreshGen /\ OwnSession)'
  BY DEF Order, OnePerId, SoleOwner, OwnsWs, Held, FreshGen, OwnSession, Busy, Runs
<1>2. (TimersNeedWindows /\ TimersHoldRecords /\ ExpiriesAreOld /\ Attended)'
  BY DEF Order, TimersNeedWindows, TimersHoldRecords, ExpiriesAreOld, Attended, Runs
<1> QED BY <1>1, <1>2 DEF Order

\* The generation a socket acts on is that of the session it serves.
LEMMA TokenIsNewest ==
    ASSUME ConstantsAssumption, IInv, Order, NEW s \in Sockets, Runs(s),
           Resumable, ask[s] # NoId
    PROVE  /\ WsGeneration(s) = gen[serves[s]]
           /\ phase[s] # "resuming" => token[s] = gen[serves[s]]
<1>1. rec[ask[s]] = serves[s] /\ (phase[s] # "resuming" => token[s] = gen[serves[s]])
  BY DEF Order, Attended
<1>2. serves[s] # None BY BornUnderId
<1> QED BY <1>1, <1>2 DEF WsGeneration, Held

LEMMA ServeOrder ==
    ASSUME ConstantsAssumption, IInv, Order, NEW s \in Sockets, Serve(s)
    PROVE  Order'
<1> USE DEF Runs
<1>1. CASE AcceptFails(s) BY <1>1, PhaseOrder DEF AcceptFails
<1>2. CASE Claim(s) BY <1>2, ClaimOrder
<1>3. CASE Open(s) BY <1>3, OpenOrder
<1>4. CASE Mounted(s)
  BY <1>4, Running, TokenIsNewest, NextEventOrder DEF Mounted
<1>5. CASE MountFails(s)
  BY <1>5, Running, TokenIsNewest, ReleaseOrder DEF MountFails
<1>6. CASE Resumed(s)
  <2>1. token'[s] = WsGeneration(s) /\ \A r \in Sockets : r # s => token'[r] = token[r]
    BY <1>6, TypesOfOrder DEF Resumed, OrderTypes
  <2> QED BY <1>6, <2>1, Running, TokenIsNewest, NextEventOrder DEF Resumed
<1>7. CASE ResumeFails(s) BY <1>7, PhaseOrder DEF ResumeFails
<1>8. CASE ReceiveEvent(s)
  BY <1>8, TokenIsNewest, PhaseOrder DEF ReceiveEvent
<1>9. CASE ReceiveSentinel(s)
  BY <1>9, Running, TokenIsNewest, ReleaseOrder DEF ReceiveSentinel
<1>10. CASE FinishHandler(s)
  BY <1>10, Running, TokenIsNewest, NextEventOrder DEF FinishHandler
<1> QED BY <1>1, <1>2, <1>3, <1>4, <1>5, <1>6, <1>7, <1>8, <1>9, <1>10 DEF Serve

LEMMA OrderStep ==
    ASSUME ConstantsAssumption, ~OverlappingSockets, IInv, Order, [Next]_vars
    PROVE  Order'
<1>1. ASSUME NEW s \in Sockets, NEW id \in Ids \cup {NoId}, Upgrade(s, id) PROVE Order'
  BY <1>1, UpgradeOrder
<1>2. ASSUME NEW s \in Sockets, Serve(s) PROVE Order'
  BY <1>2, ServeOrder
<1>3. ASSUME NEW s \in Sockets, Disconnect(s) \/ PumpEvent(s) \/ PumpRefusesFrame(s)
      PROVE  Order'
  BY <1>3, WireOrder DEF Disconnect, PumpEvent, PumpRefusesFrame
<1>4. ASSUME NEW s \in Sockets, PumpSeesDisconnect(s) PROVE Order'
  BY <1>4, WireOrder DEF PumpSeesDisconnect
<1>5. ASSUME NEW x \in Sockets, CloseTransport(x) \/ TimerFires(x) PROVE Order'
  BY <1>5, CloseOrder, TimerOrder
<1>6. ASSUME NEW e \in expiring, ExpireWs(e[1], e[2]) PROVE Order'
  <2> PICK id \in Ids, t \in Nat : e = <<id, t>>
    BY DEF IInv, TypeOK
  <2>1. ExpireWs(id, t)
    BY <1>6
  <2> QED BY <2>1, ExpireOrder
<1>7. ASSUME UNCHANGED vars PROVE Order'
  <2>1. UNCHANGED <<phase, ask, serves, token, rec, gen, armed, expiring, status>> BY <1>7
  <2> QED BY <2>1, WireOrder
<1> QED BY <1>1, <1>2, <1>3, <1>4, <1>5, <1>6, <1>7 DEF Next

-----------------------------------------------------------------------------
(* The connection count, there, and the promise of resuming.               *)

\* One session less, and one less on the count.
LEMMA RetireExact ==
    ASSUME ConstantsAssumption, IInv, LiveIsExact,
           NEW x \in Sockets, status[x] = "open", Retire(x), Uncount
    PROVE  LiveIsExact'
<1>1. status \in [Sockets -> {"unborn", "open", "closing", "closed"}] /\ live \in Int
  BY DEF IInv, TypeOK
<1>2. OpenSessions' = OpenSessions \ {x} /\ x \in OpenSessions
  BY <1>1 DEF OpenSessions, Retire
<1>3. Cardinality(OpenSessions') = Cardinality(OpenSessions) - 1
  BY <1>2, OpenSessionsFinite, FS_RemoveElement
<1> QED BY <1>1, <1>3 DEF LiveIsExact, Uncount

LEMMA ReleaseExact ==
    ASSUME ConstantsAssumption, IInv, Order, LiveIsExact,
           NEW s \in Sockets, NEW t, Runs(s), Release(s, t)
    PROVE  LiveIsExact'
<1>1. CASE Retire(serves[s]) /\ Uncount
  BY <1>1, RetireExact, BornUnderId DEF Order, Attended
<1>2. CASE UNCHANGED <<live, status>>
  BY <1>2 DEF LiveIsExact, OpenSessions
<1> QED BY <1>1, <1>2 DEF Release

LEMMA ExactStep ==
    ASSUME ConstantsAssumption, IInv, Order, LiveIsExact, [Next]_vars
    PROVE  LiveIsExact'
<1>1. UNCHANGED <<live, status>> => LiveIsExact'
  BY DEF LiveIsExact, OpenSessions
<1>2. ASSUME NEW s \in Sockets, NEW t, NextEvent(s, t), Runs(s)
      PROVE  LiveIsExact'
  BY <1>1, <1>2, ReleaseExact DEF NextEvent
<1>3. ASSUME NEW s \in Sockets, Open(s) PROVE LiveIsExact'
  <2>1. OpenSessions' = OpenSessions \cup {s} /\ s \notin OpenSessions
    BY <1>3 DEF Open, OpenSessions, IInv, TypeOK, Relations, Unaccepted
  <2>2. Cardinality(OpenSessions') = Cardinality(OpenSessions) + 1
    BY <2>1, OpenSessionsFinite, FS_AddElement
  <2>3. live' = live + 1 /\ live \in Int
    BY <1>3 DEF Open, IInv, TypeOK
  <2> QED BY <2>2, <2>3 DEF LiveIsExact
<1>4. ASSUME NEW s \in Sockets, Serve(s) PROVE LiveIsExact'
  <2> USE DEF Runs
  <2>1. CASE AcceptFails(s) \/ Claim(s) \/ ResumeFails(s) \/ ReceiveEvent(s)
    BY <1>1, <2>1 DEF AcceptFails, Claim, ResumeFails, ReceiveEvent
  <2>2. CASE Open(s) BY <1>3, <2>2
  <2>3. CASE Mounted(s) \/ Resumed(s) \/ FinishHandler(s)
    BY <1>2, <2>3 DEF Mounted, Resumed, FinishHandler
  <2>4. CASE MountFails(s) \/ ReceiveSentinel(s)
    BY <2>4, ReleaseExact DEF MountFails, ReceiveSentinel
  <2> QED BY <1>4, <2>1, <2>2, <2>3, <2>4 DEF Serve
<1>5. ASSUME NEW x \in Sockets, CloseTransport(x) PROVE LiveIsExact'
  <2>1. OpenSessions' = OpenSessions /\ live' = live
    BY <1>5 DEF CloseTransport, OpenSessions, IInv, TypeOK
  <2> QED BY <2>1 DEF LiveIsExact
<1>6. ASSUME NEW e \in expiring, ExpireWs(e[1], e[2]) PROVE LiveIsExact'
  <2> PICK id \in Ids, t \in Nat : e = <<id, t>>
    BY DEF IInv, TypeOK
  <2>1. CASE HoldsToken(rec[id], t) /\ Retire(rec[id]) /\ Uncount
    <3>1. Resumable BY <1>6 DEF Order, TimersNeedWindows
    <3>2. rec[id] \in Sockets /\ rec[id] # None BY <2>1, BornUnderId DEF HoldsToken
    <3>3. status[rec[id]] = "open" BY <3>1, <3>2 DEF IInv, Relations, RegisteredIsOpen
    <3> QED BY <2>1, <3>2, <3>3, RetireExact
  <2> QED BY <1>1, <1>6, <2>1 DEF ExpireWs
<1>7. ASSUME NEW s \in Sockets, NEW id \in Ids \cup {NoId}, Upgrade(s, id)
      PROVE  LiveIsExact'
  BY <1>1, <1>7 DEF Upgrade
<1>8. ASSUME NEW s \in Sockets,
             \/ Disconnect(s) \/ PumpEvent(s) \/ PumpRefusesFrame(s)
             \/ PumpSeesDisconnect(s) \/ TimerFires(s)
      PROVE  LiveIsExact'
  BY <1>1, <1>8 DEF Disconnect, PumpEvent, PumpRefusesFrame, PumpSeesDisconnect, TimerFires
<1>9. CASE UNCHANGED vars BY <1>1, <1>9
<1> QED BY <1>4, <1>5, <1>6, <1>7, <1>8, <1>9 DEF Next

\* Only _claim_ws takes a socket from its handshake to a resumed session.
LEMMA VoidStep ==
    ASSUME ConstantsAssumption, IInv, Order, [Next]_vars,
           NEW s \in Sockets, phase[s] = "accepting", phase'[s] = "resuming"
    PROVE  armed'[serves'[s]] = NoTimer /\ <<ask[s], gen'[serves'[s]]>> \notin expiring'
<1> phase \in [Sockets -> Phases] BY DEF IInv, TypeOK
<1>1. ASSUME NEW r \in Sockets, NEW id \in Ids \cup {NoId}, Upgrade(r, id) PROVE FALSE
  BY <1>1 DEF Upgrade
<1>2. ASSUME NEW r \in Sockets, NEW t, Release(r, t) PROVE FALSE
  BY <1>2 DEF Release
<1>3. ASSUME NEW r \in Sockets, NEW t, NextEvent(r, t) PROVE FALSE
  BY <1>2, <1>3 DEF NextEvent
<1>4. ASSUME NEW r \in Sockets, Serve(r) PROVE Claim(s)
  <2>1. CASE AcceptFails(r) \/ Open(r) \/ ResumeFails(r) \/ ReceiveEvent(r)
    BY <2>1 DEF AcceptFails, Open, ResumeFails, ReceiveEvent
  <2>2. CASE Mounted(r) \/ Resumed(r) \/ FinishHandler(r)
    BY <1>3, <2>2 DEF Mounted, Resumed, FinishHandler
  <2>3. CASE MountFails(r) \/ ReceiveSentinel(r)
    BY <1>2, <2>3 DEF MountFails, ReceiveSentinel
  <2>4. CASE Claim(r)
    <3>1. phase' = [phase EXCEPT ![r] = "resuming"] BY <2>4 DEF Claim
    <3> QED BY <2>4, <3>1
  <2> QED BY <1>4, <2>1, <2>2, <2>3, <2>4 DEF Serve
<1>5. UNCHANGED phase => FALSE OBVIOUS
<1>6. ASSUME NEW r \in Sockets,
             \/ Disconnect(r) \/ PumpEvent(r) \/ PumpRefusesFrame(r)
             \/ PumpSeesDisconnect(r) \/ TimerFires(r) \/ CloseTransport(r)
      PROVE  FALSE
  BY <1>5, <1>6 DEF Disconnect, PumpEvent, PumpRefusesFrame, PumpSeesDisconnect, TimerFires,
     CloseTransport
<1>7. ASSUME NEW e \in expiring, ExpireWs(e[1], e[2]) PROVE FALSE
  BY <1>5, <1>7 DEF ExpireWs
<1>8. CASE UNCHANGED vars BY <1>5, <1>8
<1>9. Claim(s) BY <1>1, <1>4, <1>6, <1>7, <1>8 DEF Next
<1> QED BY <1>9, ClaimOrder

-----------------------------------------------------------------------------
(* There, every step of the registry is a step of ResumableSession.        *)

\* A window is open on what the id holds, or its expiry task is about to run.
Window(id) == armed[rec[id]] # NoTimer \/ <<id, gen[rec[id]]>> \in expiring

\* The sessions that the refinement mapping counts as retired.
Over == {x \in Sockets : ask[x] # NoId /\ status[x] \in {"closing", "closed"}}

LEMMA ModeIs ==
    ASSUME NEW id \in Ids
    PROVE  Mode(id) = IF rec[id] = None THEN "free"
                      ELSE IF Window(id) THEN "orphaned" ELSE "attached"
  BY DEF Mode, Window

LEMMA ModeIsNext ==
    ASSUME NEW id \in Ids
    PROVE  Mode(id)' = IF rec'[id] = None THEN "free"
                       ELSE IF Window(id)' THEN "orphaned" ELSE "attached"
  BY DEF Mode, Window

\* A step that changes no record, no window and no retired session.
LEMMA Stays ==
    ASSUME rec' = rec, Over' = Over,
           \A id \in Ids : rec[id] # None => (Window(id)' <=> Window(id))
    PROVE  UNCHANGED Promise!vars
<1>1. \A id \in Ids : Mode(id)' = Mode(id)
  BY ModeIs, ModeIsNext
<1>2. [id \in Ids |-> Mode(id)]' = [id \in Ids |-> Mode(id)]
  BY <1>1
<1> QED BY <1>2 DEF Promise!vars, Over

\* The modes after a step that is about one id only.
LEMMA Moves ==
    ASSUME NEW id \in Ids, NEW m,
           Mode(id)' = m,
           \A other \in Ids : other # id => Mode(other)' = Mode(other)
    PROVE  [i \in Ids |-> Mode(i)]' = [[i \in Ids |-> Mode(i)] EXCEPT ![id] = m]
  OBVIOUS

\* _claim_ws is a return while a window is open, and changes nothing else.
LEMMA ClaimReturns ==
    ASSUME ConstantsAssumption, IInv, Order, NEW s \in Sockets, Claim(s)
    PROVE  [Promise!Next]_Promise!vars
<1> OrderTypes BY TypesOfOrder
<1> USE DEF OrderTypes, RelationTypes
<1>1. PICK x \in Sockets :
             /\ ask[s] \in Ids /\ rec[ask[s]] = x /\ ask[x] = ask[s]
             /\ armed' = [armed EXCEPT ![x] = NoTimer]
             /\ gen' = [gen EXCEPT ![x] = @ + 1]
             /\ UNCHANGED <<ask, rec, status, expiring>>
  BY ClaimFinds
<1>2. x # None BY BornUnderId
<1>3. ~Window(ask[s])'
  <2>1. <<ask[s], gen[x] + 1>> \notin expiring
    BY <1>1 DEF Order, ExpiriesAreOld
  <2> QED BY <1>1, <2>1 DEF Window
<1>4. \A id \in Ids : id # ask[s] /\ rec[id] # None => (Window(id)' <=> Window(id))
  <2> SUFFICES ASSUME NEW id \in Ids, id # ask[s], rec[id] # None
               PROVE  Window(id)' <=> Window(id)
    OBVIOUS
  <2>1. rec[id] \in Sockets /\ rec[id] # x BY <1>1, BornUnderId
  <2> QED BY <1>1, <2>1 DEF Window
<1>5. Over' = Over BY <1>1 DEF Over
<1>6. CASE Window(ask[s])
  <2>1. Mode(ask[s]) = "orphaned" /\ Mode(ask[s])' = "attached"
    BY <1>1, <1>2, <1>3, <1>6, ModeIs, ModeIsNext
  <2>2. \A id \in Ids : id # ask[s] => Mode(id)' = Mode(id)
    BY <1>1, <1>4, ModeIs, ModeIsNext
  <2>3. Promise!Return(ask[s])
    BY <1>1, <1>5, <2>1, <2>2, Moves DEF Promise!Return, Over
  <2> QED BY <1>1, <2>3 DEF Promise!Next
<1>7. CASE ~Window(ask[s])
  <2>1. \A id \in Ids : rec[id] # None => (Window(id)' <=> Window(id))
    BY <1>1, <1>3, <1>4, <1>7
  <2> QED BY <1>1, <1>5, <2>1, Stays
<1> QED BY <1>6, <1>7

\* A session built for a name begins under an id that held nothing.
LEMMA OpenBegins ==
    ASSUME ConstantsAssumption, Resumable, IInv, Order, NEW s \in Sockets, Open(s)
    PROVE  [Promise!Next]_Promise!vars
<1> OrderTypes BY TypesOfOrder
<1> USE DEF OrderTypes, RelationTypes
<1>1. /\ phase[s] = "accepting"
      /\ status' = [status EXCEPT ![s] = "open"]
      /\ rec' = IF ask[s] = NoId THEN rec ELSE [rec EXCEPT ![ask[s]] = s]
      /\ UNCHANGED <<ask, gen, armed, expiring>>
  BY DEF Open
<1>2. status[s] = "unborn" /\ armed[s] = NoTimer /\ s # None
  BY <1>1, BornUnderId DEF IInv, Relations, Unaccepted, ArmedHasId
<1>3. Over' = Over /\ s \notin Over BY <1>1, <1>2 DEF Over
<1>4. CASE ask[s] = NoId
  <2>1. rec' = rec BY <1>1, <1>4
  <2>2. \A id \in Ids : Window(id)' <=> Window(id) BY <1>1, <2>1 DEF Window
  <2> QED BY <1>3, <2>1, <2>2, Stays
<1>5. CASE ask[s] # NoId
  <2>1. ask[s] \in Ids /\ rec[ask[s]] = None BY <1>5, OpenOrder
  <2>2. rec' = [rec EXCEPT ![ask[s]] = s] BY <1>1, <1>5
  <2>3. <<ask[s], gen[s]>> \notin expiring
    BY <2>1 DEF Order, ExpiriesAreOld
  <2>4. Mode(ask[s]) = "free" /\ Mode(ask[s])' = "attached"
    <3>1. rec'[ask[s]] = s BY <2>1, <2>2
    <3>2. ~Window(ask[s])' BY <1>1, <1>2, <2>3, <3>1 DEF Window
    <3> QED BY <1>1, <1>2, <2>1, <3>1, <3>2, ModeIs, ModeIsNext
  <2>5. \A id \in Ids : id # ask[s] => Mode(id)' = Mode(id)
    <3> SUFFICES ASSUME NEW id \in Ids, id # ask[s] PROVE Mode(id)' = Mode(id)
      OBVIOUS
    <3>1. rec'[id] = rec[id] BY <2>2
    <3>2. Window(id)' <=> Window(id) BY <1>1, <3>1 DEF Window
    <3> QED BY <3>1, <3>2, ModeIs, ModeIsNext
  <2>6. \A other \in Ids : rec[other] # s
    BY <1>2, BornUnderId
  <2>7. Promise!Begin(ask[s], s)
    BY <1>1, <1>3, <2>1, <2>2, <2>4, <2>5, <2>6, Moves DEF Promise!Begin, Over
  <2> QED BY <2>1, <2>7 DEF Promise!Next
<1> QED BY <1>4, <1>5

\* _release_ws orphans a session that an id can find, or retires one that none
\* can.
LEMMA ReleaseDrops ==
    ASSUME ConstantsAssumption, Resumable, IInv, Order, NEW s \in Sockets,
           NEW t \in Nat, Runs(s), Release(s, t), UNCHANGED ask
    PROVE  [Promise!Next]_Promise!vars
<1> OrderTypes BY TypesOfOrder
<1> USE DEF OrderTypes, RelationTypes
<1>1. PICK x \in Sockets : x = serves[s] /\ ask[x] = ask[s] BY BornUnderId
<1>2. PICK h \in Sockets \cup {None} : h = Held(ask[s])
  BY HeldType DEF IInv, TypeOK
<1>3. UNCHANGED <<ask, rec, gen, expiring>> BY DEF Release
<1>4. ask[s] # NoId => /\ h = x /\ ask[s] \in Ids /\ rec[ask[s]] = x
                       /\ armed[x] = NoTimer /\ <<ask[s], gen[x]>> \notin expiring
  BY <1>1, <1>2 DEF Order, Attended, Held
<1>5. x # None BY BornUnderId
<1>6. CASE UNCHANGED armed /\ Over' = Over
  <2>1. \A id \in Ids : Window(id)' <=> Window(id) BY <1>3, <1>6 DEF Window
  <2> QED BY <1>3, <1>6, <2>1, Stays
<1>7. CASE h = None /\ Retire(x) /\ UNCHANGED armed
  <2>1. ask[x] = NoId BY <1>1, <1>4, <1>5, <1>7
  <2>2. Over' = Over BY <1>3, <1>7, <2>1 DEF Over, Retire
  <2> QED BY <1>6, <1>7, <2>2
<1>8. CASE UNCHANGED <<status, armed>>
  BY <1>3, <1>6, <1>8 DEF Over
<1>9. CASE HoldsToken(h, t) /\ armed' = [armed EXCEPT ![h] = t] /\ UNCHANGED status
  <2>1. ask[s] # NoId BY <1>2, <1>9 DEF HoldsToken, Held
  <2>2. armed' = [armed EXCEPT ![x] = t] /\ t # NoTimer
    BY <1>4, <1>9, <2>1 DEF NoTimer
  <2>3. Mode(ask[s]) = "attached" /\ Mode(ask[s])' = "orphaned"
    <3>1. ~Window(ask[s]) BY <1>4, <2>1 DEF Window
    <3>2. Window(ask[s])' BY <1>3, <1>4, <2>1, <2>2 DEF Window
    <3> QED BY <1>3, <1>4, <1>5, <2>1, <3>1, <3>2, ModeIs, ModeIsNext
  <2>4. \A id \in Ids : id # ask[s] => Mode(id)' = Mode(id)
    <3> SUFFICES ASSUME NEW id \in Ids, id # ask[s] PROVE Mode(id)' = Mode(id)
      OBVIOUS
    <3>1. rec[id] # None => rec[id] \in Sockets /\ rec[id] # x BY <1>1, BornUnderId
    <3>2. rec[id] # None => (Window(id)' <=> Window(id)) BY <1>3, <2>2, <3>1 DEF Window
    <3> QED BY <1>3, <3>2, ModeIs, ModeIsNext
  <2>5. Over' = Over BY <1>3, <1>9 DEF Over
  <2>6. Promise!Drop(ask[s])
    BY <1>3, <1>4, <2>1, <2>3, <2>4, <2>5, Moves DEF Promise!Drop, Over
  <2> QED BY <1>4, <2>1, <2>6 DEF Promise!Next
<1> QED BY <1>1, <1>2, <1>7, <1>8, <1>9 DEF Release

\* serve() goes on, or leaves through _release_ws.
LEMMA NextEventDrops ==
    ASSUME ConstantsAssumption, Resumable, IInv, Order, NEW s \in Sockets,
           NEW t \in Nat, Runs(s), NextEvent(s, t), UNCHANGED ask
    PROVE  [Promise!Next]_Promise!vars
<1>1. CASE UNCHANGED <<rec, gen, armed, expiring, status>>
  <2>1. Over' = Over BY <1>1 DEF Over
  <2>2. \A id \in Ids : Window(id)' <=> Window(id) BY <1>1 DEF Window
  <2> QED BY <1>1, <2>1, <2>2, Stays
<1> QED BY <1>1, ReleaseDrops DEF NextEvent

\* _expire_ws retires the orphan it was spawned for, or finds its token stale.
LEMMA ExpireRunsOut ==
    ASSUME ConstantsAssumption, IInv, Order, NEW id \in Ids, NEW t \in Nat,
           ExpireWs(id, t)
    PROVE  [Promise!Next]_Promise!vars
<1> OrderTypes BY TypesOfOrder
<1> USE DEF OrderTypes, RelationTypes
<1>1. /\ <<id, t>> \in expiring /\ expiring' = expiring \ {<<id, t>>}
      /\ UNCHANGED <<ask, gen, armed>>
  BY DEF ExpireWs
<1>2. PICK x \in Sockets : x = rec[id] /\ x # None /\ ask[x] = id
  BY <1>1, BornUnderId DEF Order, ExpiriesAreOld
<1>3. id # NoId BY BornUnderId
<1>4. CASE /\ HoldsToken(x, t) /\ Retire(x)
           /\ rec' = [rec EXCEPT ![id] = None]
  <2>1. gen[x] = t BY <1>4 DEF HoldsToken
  <2>2. status[x] = "open" \/ status[x] \in {"closing", "closed"}
    BY <1>2, BornUnderId
  <2>3. Over' = Over \cup {x}
    BY <1>1, <1>2, <1>3, <1>4, <2>2 DEF Over, Retire
  <2>4. Mode(id) = "orphaned" /\ Mode(id)' = "free"
    <3>1. Window(id) BY <1>1, <1>2, <2>1 DEF Window
    <3>2. rec'[id] = None BY <1>4
    <3> QED BY <1>2, <3>1, <3>2, ModeIs, ModeIsNext
  <2>5. \A other \in Ids : other # id => Mode(other)' = Mode(other)
    <3> SUFFICES ASSUME NEW other \in Ids, other # id PROVE Mode(other)' = Mode(other)
      OBVIOUS
    <3>1. rec'[other] = rec[other] BY <1>4
    <3>2. Window(other)' <=> Window(other) BY <1>1, <3>1 DEF Window
    <3> QED BY <3>1, <3>2, ModeIs, ModeIsNext
  <2>6. Promise!RunOut(id)
    BY <1>2, <1>4, <2>3, <2>4, <2>5, Moves DEF Promise!RunOut, Over
  <2> QED BY <2>6 DEF Promise!Next
<1>5. CASE ~HoldsToken(x, t) /\ UNCHANGED <<rec, status>>
  <2>1. gen[x] # t BY <1>2, <1>5 DEF HoldsToken
  <2>2. Over' = Over BY <1>1, <1>5 DEF Over
  <2>3. \A other \in Ids : Window(other)' <=> Window(other)
    <3> SUFFICES ASSUME NEW other \in Ids PROVE Window(other)' <=> Window(other)
      OBVIOUS
    <3>1. <<other, gen[rec[other]]>> # <<id, t>> BY <1>2, <2>1
    <3> QED BY <1>1, <1>5, <3>1 DEF Window
  <2> QED BY <1>5, <2>2, <2>3, Stays
<1> QED BY <1>2, <1>4, <1>5 DEF ExpireWs, Forget

\* A timer that fires leaves its window open until its task has run.
LEMMA TimerStays ==
    ASSUME ConstantsAssumption, IInv, Order, NEW x \in Sockets, TimerFires(x)
    PROVE  UNCHANGED Promise!vars
<1> OrderTypes BY TypesOfOrder
<1> USE DEF OrderTypes, RelationTypes
<1>1. /\ armed[x] # NoTimer
      /\ expiring' = expiring \cup {<<ask[x], armed[x]>>}
      /\ armed' = [armed EXCEPT ![x] = NoTimer]
      /\ UNCHANGED <<ask, rec, gen, status>>
  BY DEF TimerFires, CancelExpiry
<1>2. armed[x] = gen[x] /\ rec[ask[x]] = x
  BY <1>1 DEF IInv, Relations, ArmedTimerIsCurrent, Order, TimersHoldRecords
<1>3. \A id \in Ids : rec[id] # None => (Window(id)' <=> Window(id))
  <2> SUFFICES ASSUME NEW id \in Ids, rec[id] # None PROVE Window(id)' <=> Window(id)
    OBVIOUS
  <2>1. CASE rec[id] = x
    <3>1. id = ask[x] BY <2>1, BornUnderId
    <3> QED BY <1>1, <1>2, <2>1, <3>1 DEF Window
  <2>2. CASE rec[id] # x
    <3>1. rec[id] \in Sockets BY BornUnderId
    <3>2. ask[rec[id]] = id BY BornUnderId
    <3>3. id # ask[x] BY <1>2, <2>2
    <3> QED BY <1>1, <2>2, <3>1, <3>3 DEF Window
  <2> QED BY <2>1, <2>2
<1>4. Over' = Over BY <1>1 DEF Over
<1> QED BY <1>1, <1>3, <1>4, Stays

\* Nothing else is visible through the mapping.
LEMMA QuietStays ==
    ASSUME UNCHANGED <<rec, gen, armed, expiring>>, Over' = Over
    PROVE  UNCHANGED Promise!vars
<1>1. \A id \in Ids : Window(id)' <=> Window(id) BY DEF Window
<1> QED BY <1>1, Stays

LEMMA UpgradeStays ==
    ASSUME ConstantsAssumption, IInv, NEW s \in Sockets, NEW id \in Ids \cup {NoId},
           Upgrade(s, id)
    PROVE  UNCHANGED Promise!vars
<1> RelationTypes BY TypesOfRelations
<1> USE DEF RelationTypes
<1>1. /\ phase[s] = "idle" /\ ask' = [ask EXCEPT ![s] = id]
      /\ UNCHANGED <<rec, gen, armed, expiring, status>>
  BY DEF Upgrade
<1>2. status[s] = "unborn" BY <1>1 DEF IInv, Relations, Unaccepted
<1>3. Over' = Over BY <1>1, <1>2 DEF Over
<1> QED BY <1>1, <1>3, QuietStays

LEMMA CloseStays ==
    ASSUME IInv, NEW x \in Sockets, CloseTransport(x)
    PROVE  UNCHANGED Promise!vars
<1> RelationTypes BY TypesOfRelations
<1> USE DEF RelationTypes
<1>1. /\ status[x] = "closing" /\ status' = [status EXCEPT ![x] = "closed"]
      /\ UNCHANGED <<ask, rec, gen, armed, expiring>>
  BY DEF CloseTransport
<1>2. Over' = Over BY <1>1 DEF Over
<1> QED BY <1>1, <1>2, QuietStays

LEMMA ServePromise ==
    ASSUME ConstantsAssumption, Resumable, IInv, Order, NEW s \in Sockets, Serve(s)
    PROVE  [Promise!Next]_Promise!vars
<1> USE DEF Runs
<1>1. CASE AcceptFails(s) \/ ResumeFails(s) \/ ReceiveEvent(s)
  <2>1. UNCHANGED <<ask, rec, gen, armed, expiring, status>>
    BY <1>1 DEF AcceptFails, ResumeFails, ReceiveEvent
  <2>2. Over' = Over BY <2>1 DEF Over
  <2> QED BY <2>1, <2>2, QuietStays
<1>2. CASE Claim(s) BY <1>2, ClaimReturns
<1>3. CASE Open(s) BY <1>3, OpenBegins
<1>4. CASE Mounted(s) BY <1>4, Running, NextEventDrops DEF Mounted
<1>5. CASE MountFails(s) BY <1>5, Running, ReleaseDrops DEF MountFails
<1>6. CASE Resumed(s) BY <1>6, Running, NextEventDrops DEF Resumed
<1>7. CASE ReceiveSentinel(s) BY <1>7, Running, ReleaseDrops DEF ReceiveSentinel
<1>8. CASE FinishHandler(s) BY <1>8, Running, NextEventDrops DEF FinishHandler
<1> QED BY <1>1, <1>2, <1>3, <1>4, <1>5, <1>6, <1>7, <1>8 DEF Serve

LEMMA PromiseStep ==
    ASSUME ConstantsAssumption, Resumable, IInv, Order, [Next]_vars
    PROVE  [Promise!Next]_Promise!vars
<1>1. ASSUME NEW s \in Sockets, NEW id \in Ids \cup {NoId}, Upgrade(s, id)
      PROVE  UNCHANGED Promise!vars
  BY <1>1, UpgradeStays
<1>2. ASSUME NEW s \in Sockets, Serve(s) PROVE [Promise!Next]_Promise!vars
  BY <1>2, ServePromise
<1>3. ASSUME UNCHANGED <<ask, rec, gen, armed, expiring, status>>
      PROVE  UNCHANGED Promise!vars
  <2>1. Over' = Over BY <1>3 DEF Over
  <2> QED BY <1>3, <2>1, QuietStays
<1>4. ASSUME NEW s \in Sockets,
             \/ Disconnect(s) \/ PumpEvent(s) \/ PumpRefusesFrame(s)
             \/ PumpSeesDisconnect(s)
      PROVE  UNCHANGED Promise!vars
  BY <1>3, <1>4 DEF Disconnect, PumpEvent, PumpRefusesFrame, PumpSeesDisconnect
<1>5. ASSUME NEW x \in Sockets, CloseTransport(x) \/ TimerFires(x)
      PROVE  UNCHANGED Promise!vars
  BY <1>5, CloseStays, TimerStays
<1>6. ASSUME NEW e \in expiring, ExpireWs(e[1], e[2])
      PROVE  [Promise!Next]_Promise!vars
  <2> PICK id \in Ids, t \in Nat : e = <<id, t>>
    BY DEF IInv, TypeOK
  <2>1. ExpireWs(id, t) BY <1>6
  <2> QED BY <2>1, ExpireRunsOut
<1>7. CASE UNCHANGED vars BY <1>3, <1>7
<1> QED BY <1>1, <1>2, <1>4, <1>5, <1>6, <1>7 DEF Next

-----------------------------------------------------------------------------
(* The theorems.                                                           *)

\* The registry invariant holds of every reachable state.
THEOREM RegistryInvariant == Spec => []IInv
<1>1. Init => IInv BY InitIInv, ConstantsAssumption
<1>2. IInv /\ [Next]_vars => IInv' BY IInvStep, ConstantsAssumption
<1> QED BY <1>1, <1>2, PTL DEF Spec

\* Every variable keeps its type.
THEOREM TypeCorrect == Spec => []TypeOK
<1>1. IInv => TypeOK BY DEF IInv
<1> QED BY <1>1, RegistryInvariant, PTL

\* However handshakes of different principals interleave, app.py serves a
\* session only to the principal that opened it.
THEOREM OwnerOnly == Spec => []ServedToItsOwner
<1>1. IInv => ServedToItsOwner
  BY DEF IInv, Relations, ServesBorn, ServedToItsOwner
<1> QED BY <1>1, RegistryInvariant, PTL

\* With the window on, what _claim_ws can find under an id is an open session
\* and an armed timer always carries its newest generation.
THEOREM ResumableIsOpen == Spec => [](RegisteredIsOpen /\ ArmedTimerIsCurrent)
<1>1. IInv => RegisteredIsOpen /\ ArmedTimerIsCurrent
  BY DEF IInv, Relations
<1> QED BY <1>1, RegistryInvariant, PTL

\* _live never exceeds the open sessions: capacity is never refused because of
\* sessions that are gone, for any number of sockets and any interleaving.
THEOREM NeverOvercounts == Spec => []LiveNeverOvercounts
<1>1. Init => LiveNeverOvercounts
  <2>1. Init => live = 0 BY DEF Init
  <2>2. Cardinality(OpenSessions) \in Nat BY OpenSessionsFinite, ConstantsAssumption
  <2> QED BY <2>1, <2>2 DEF LiveNeverOvercounts
<1>2. IInv /\ LiveNeverOvercounts /\ [Next]_vars => LiveNeverOvercounts'
  BY CountStep, ConstantsAssumption
<1> QED BY <1>1, <1>2, RegistryInvariant, PTL DEF Spec

\* Where a browser comes back after the server let go of its last socket, the
\* same holds of how windows, claims and generations follow one another.
THEOREM OrderInvariant == ASSUME ~OverlappingSockets PROVE Spec => []Order
<1>1. Init => Order BY InitOrder, ConstantsAssumption
<1>2. IInv /\ Order /\ [Next]_vars => Order' BY OrderStep, ConstantsAssumption
<1> QED BY <1>1, <1>2, RegistryInvariant, PTL DEF Spec

\* There, _live is the number of open sessions: nothing is counted down twice,
\* whether sessions end by a disconnect, an expiry or a failed resync.
THEOREM CountIsExact == ASSUME ~OverlappingSockets PROVE Spec => []LiveIsExact
<1>1. Init => LiveIsExact
  <2> SUFFICES ASSUME Init PROVE LiveIsExact
    OBVIOUS
  <2>1. live = 0 /\ OpenSessions = {} BY DEF Init, OpenSessions
  <2> QED BY <2>1, FS_EmptySet DEF LiveIsExact
<1>2. IInv /\ Order /\ LiveIsExact /\ [Next]_vars => LiveIsExact'
  BY ExactStep, ConstantsAssumption
<1> QED BY <1>1, <1>2, RegistryInvariant, OrderInvariant, PTL DEF Spec

\* _claim_ws: there, a session taken over is out of reach of every window opened
\* before, whether its timer is armed or its expiry task waits to run.
THEOREM ClaimsVoidWindows == ASSUME ~OverlappingSockets PROVE Spec => ClaimVoidsWindows
<1> DEFINE Voids == \A s \in Sockets :
          phase[s] = "accepting" /\ phase'[s] = "resuming" =>
             LET x == serves'[s]
             IN armed'[x] = NoTimer /\ <<ask[s], gen'[x]>> \notin expiring'
<1>1. IInv /\ Order /\ [Next]_vars => [Voids]_vars
  BY VoidStep, ConstantsAssumption
<1> QED BY <1>1, RegistryInvariant, OrderInvariant, PTL DEF Spec, ClaimVoidsWindows

\* The registry keeps the safety part of the promise: where a browser comes
\* back after the server let go of its last socket, every step of app.py begins
\* one session under a free id, orphans it, finds that same session again,
\* retires an orphan for good, or shows nothing.
THEOREM ResumesAsPromised ==
    ASSUME Resumable, ~OverlappingSockets
    PROVE  Spec => Promise!Init /\ [][Promise!Next]_Promise!vars
<1>1. Init => Promise!Init
  BY DEF Init, Promise!Init, Mode
<1>2. IInv /\ Order /\ [Next]_vars => [Promise!Next]_Promise!vars
  BY PromiseStep, ConstantsAssumption
<1> QED BY <1>1, <1>2, RegistryInvariant, OrderInvariant, PTL DEF Spec
=============================================================================
