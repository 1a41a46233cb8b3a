------------------------------ MODULE PullSync ------------------------------
(***************************************************************************)
(* The read side of offline sync: the delta pull of client/offline/pull.js *)
(* as client/native/sync.js wires it to an endpoint and a local table.     *)
(*                                                                         *)
(* The endpoint is external and follows the convention native/sync.js      *)
(* states: rows changed since the watermark, oldest change first, one to a *)
(* page, with the cursor of the next page and the server's clock.  A clock *)
(* value stands for updated_at, for a cursor and for server_time.          *)
(*                                                                         *)
(* Each tab has its own puller; the tabs of an origin share the table and  *)
(* the watermark.                                                          *)
(***************************************************************************)
EXTENDS Naturals, Sequences, FiniteSets

CONSTANTS
    Ids,            \* primary keys
    Tabs,           \* open tabs, each with a puller
    MaxClock,       \* bound: changes made anywhere
    MaxErrors,      \* bound: requests that fail, tabs that are closed
    ErrorsAnswer,   \* which pages an error may be answered to, instead of
                    \* failing: "none", "first" or "any"
    LocalEdits,     \* BOOLEAN: does the application edit rows locally?
    PendingWired    \* BOOLEAN: is isPendingLocally given, as native/sync.js does not?

ASSUME PullAssumption ==
    /\ ErrorsAnswer \in {"none", "first", "any"}
    /\ {LocalEdits, PendingWired} \subseteq BOOLEAN

VARIABLES
    clock,      \* the latest change
    server,     \* id -> when it last changed, and whether it was deleted
    local,      \* the local table: id -> row, or Absent
    watermark,  \* the stored watermark, 0 when there is none
    puller,     \* what each tab's pull is doing
    queued,     \* ids with a local edit the offline queue has not delivered
    errors      \* failures so far

pullVars == <<clock, server, local, watermark, puller, queued, errors>>

Absent == [at |-> 0]
Never == [at |-> 0, deleted |-> FALSE]
Idle == [stage |-> "idle", since |-> 0, cursor |-> 0, id |-> "none",
         at |-> 0, deleted |-> FALSE, next |-> 0, latest |-> 0, keep |-> FALSE]
Larger(a, b) == IF a >= b THEN a ELSE b

-----------------------------------------------------------------------------
(* Changes made elsewhere and here.                                        *)

\* The bound leaves room for the deliveries that are due.
Room(n) == clock + Cardinality(queued) + n <= MaxClock

ServerWrite(id, deleted) ==
    /\ Room(1)
    /\ clock' = clock + 1
    /\ server' = [server EXCEPT ![id] = [at |-> clock', deleted |-> deleted]]
    /\ UNCHANGED <<local, watermark, puller, queued, errors>>

\* The application edits its row and queues the mutation.
LocalEdit(id) ==
    /\ LocalEdits /\ id \notin queued /\ Room(2)
    /\ clock' = clock + 1
    /\ local' = [local EXCEPT ![id] = [at |-> clock']]
    /\ queued' = queued \cup {id}
    /\ UNCHANGED <<server, watermark, puller, errors>>

\* The queue delivers the mutation.
Push(id) ==
    /\ id \in queued
    /\ clock' = clock + 1
    /\ server' = [server EXCEPT ![id] = [at |-> clock', deleted |-> FALSE]]
    /\ queued' = queued \ {id}
    /\ UNCHANGED <<local, watermark, puller, errors>>

-----------------------------------------------------------------------------
(* One pull.                                                               *)

\* A pull that runs already returns at once.
Pull(t) ==
    /\ puller[t].stage = "idle"
    /\ puller' = [puller EXCEPT ![t] = [Idle EXCEPT !.stage = "asked", !.since = watermark]]
    /\ UNCHANGED <<clock, server, local, watermark, queued, errors>>

ChangedAfter(from) == {id \in Ids : server[id].at > from}

\* A page: the oldest change after the cursor, and where the next page starts
\* when there are more.
Page(t) ==
    LET p == puller[t]
        changed == ChangedAfter(Larger(p.since, p.cursor)) IN
    /\ p.stage = "asked"
    /\ IF changed = {}
       THEN puller' = [puller EXCEPT ![t].stage = "read", ![t].next = 0, ![t].latest = clock]
       ELSE \E id \in changed :
            /\ \A other \in changed : server[id].at <= server[other].at
            /\ puller' = [puller EXCEPT ![t] =
                 [p EXCEPT !.stage = "row", !.id = id, !.at = server[id].at,
                           !.deleted = server[id].deleted, !.latest = clock,
                           !.next = IF changed = {id} THEN 0 ELSE server[id].at]]
    /\ UNCHANGED <<clock, server, local, watermark, queued, errors>>

\* The request fails: pull throws and its guard is released.
PageFails(t) ==
    /\ errors < MaxErrors /\ puller[t].stage = "asked"
    /\ errors' = errors + 1
    /\ puller' = [puller EXCEPT ![t] = Idle]
    /\ UNCHANGED <<clock, server, local, watermark, queued>>

\* The endpoint answers an error, whose body has no rows, cursor or time: the
\* page is taken for the last one.
PageIsAnError(t) ==
    /\ errors < MaxErrors /\ puller[t].stage = "asked"
    /\ ErrorsAnswer = "any" \/ (ErrorsAnswer = "first" /\ puller[t].cursor = 0)
    /\ errors' = errors + 1
    /\ puller' = [puller EXCEPT ![t].stage = "read", ![t].next = 0]
    /\ UNCHANGED <<clock, server, local, watermark, queued>>

\* mergeRemoteInto: a tombstone deletes the row at once.
ApplyTombstone(t) ==
    /\ puller[t].stage = "row" /\ puller[t].deleted
    /\ local' = [local EXCEPT ![puller[t].id] = Absent]
    /\ puller' = [puller EXCEPT ![t].stage = "read"]
    /\ UNCHANGED <<clock, server, watermark, queued, errors>>

\* Otherwise the local row is read, and compared when it is known pending ...
ReadLocal(t) ==
    LET mine == local[puller[t].id] IN
    /\ puller[t].stage = "row" /\ ~puller[t].deleted
    /\ puller' = [puller EXCEPT ![t].stage = "merging",
                                ![t].keep = /\ PendingWired /\ mine # Absent
                                            /\ puller[t].id \in queued
                                            /\ mine.at > puller[t].at]
    /\ UNCHANGED <<clock, server, local, watermark, queued, errors>>

\* ... and the remote row is put, unless the local one is kept.
PutRemote(t) ==
    LET p == puller[t] IN
    /\ p.stage = "merging"
    /\ local' = IF p.keep THEN local
                ELSE [local EXCEPT ![p.id] = [at |-> p.at]]
    /\ puller' = [puller EXCEPT ![t].stage = "read"]
    /\ UNCHANGED <<clock, server, watermark, queued, errors>>

\* Mutant of NextPage: the watermark advances page by page.
NextPageCommits(t) ==
    /\ puller[t].stage = "read" /\ puller[t].next # 0
    /\ watermark' = puller[t].latest
    /\ puller' = [puller EXCEPT ![t].stage = "asked", ![t].cursor = puller[t].next]
    /\ UNCHANGED <<clock, server, local, queued, errors>>
NextPage(t) ==
    /\ puller[t].stage = "read" /\ puller[t].next # 0
    /\ puller' = [puller EXCEPT ![t].stage = "asked", ![t].cursor = puller[t].next]
    /\ UNCHANGED <<clock, server, local, watermark, queued, errors>>

\* Mutant of Finish: the single-flight guard is not released.
FinishHeld(t) ==
    /\ puller[t].stage = "read" /\ puller[t].next = 0
    /\ watermark' = IF puller[t].latest = 0 THEN watermark ELSE puller[t].latest
    /\ UNCHANGED <<clock, server, local, puller, queued, errors>>
\* After the last page the latest server time seen becomes the watermark.
Finish(t) ==
    /\ puller[t].stage = "read" /\ puller[t].next = 0
    /\ watermark' = IF puller[t].latest = 0 THEN watermark ELSE puller[t].latest
    /\ puller' = [puller EXCEPT ![t] = Idle]
    /\ UNCHANGED <<clock, server, local, queued, errors>>

\* The tab is closed, and opened again, in the middle of a pull.
Crash(t) ==
    /\ errors < MaxErrors /\ puller[t].stage # "idle"
    /\ errors' = errors + 1
    /\ puller' = [puller EXCEPT ![t] = Idle]
    /\ UNCHANGED <<clock, server, local, watermark, queued>>

PullInit ==
    /\ clock = 0 /\ watermark = 0 /\ queued = {} /\ errors = 0
    /\ server = [id \in Ids |-> Never]
    /\ local = [id \in Ids |-> Absent]
    /\ puller = [t \in Tabs |-> Idle]

PullStep(t) == Page(t) \/ ApplyTombstone(t) \/ ReadLocal(t) \/ PutRemote(t) \/ NextPage(t) \/ Finish(t)

PullNext ==
    \/ \E id \in Ids, deleted \in BOOLEAN : ServerWrite(id, deleted)
    \/ \E id \in Ids : LocalEdit(id) \/ Push(id)
    \/ \E t \in Tabs : Pull(t) \/ PullStep(t) \/ PageFails(t) \/ PageIsAnError(t) \/ Crash(t)

PullSpec == PullInit /\ [][PullNext]_pullVars

\* Pages are answered, a pull goes on, somebody keeps asking for one, and the
\* queue delivers.
FairPulls ==
    /\ \A t \in Tabs : WF_pullVars(Pull(t)) /\ WF_pullVars(PullStep(t))
    /\ \A id \in Ids : WF_pullVars(Push(id))

-----------------------------------------------------------------------------
(* Properties.                                                             *)

Stages == {"idle", "asked", "row", "merging", "read"}
Pulls == [stage : Stages, since : Nat, cursor : Nat, id : Ids \cup {"none"}, at : Nat,
          deleted : BOOLEAN, next : Nat, latest : Nat, keep : BOOLEAN]

\* Every variable has its type.
PullTypes ==
    /\ {clock, watermark, errors} \subseteq Nat
    /\ server \in [Ids -> [at : Nat, deleted : BOOLEAN]]
    /\ local \in [Ids -> [at : Nat]]
    /\ queued \in SUBSET Ids
    /\ puller \in [Tabs -> Pulls]

\* The table shows a change: the row, or a newer edit of it, or its absence.
Shows(id) == \/ local[id].at >= server[id].at
             \/ server[id].deleted /\ local[id] = Absent

\* No change at or before the watermark is missing from the table: an
\* interrupted pull reads again and skips nothing (pull.js pull).
NothingSkipped ==
    /\ PullTypes
    /\ \A id \in Ids : server[id].at # 0 /\ server[id].at <= watermark => Shows(id)

\* A row is never replaced by an older state of it.
NeverGoesBack == [][\A id \in Ids : local'[id] # Absent => local'[id].at >= local[id].at]_pullVars

\* A pull does not overwrite a local edit that is still queued and newer.
PendingEditKept == [][\A t \in Tabs, id \in Ids :
    PutRemote(t) /\ id \in queued => local'[id] # Absent /\ local'[id].at >= local[id].at]_pullVars

\* Once changes stop, the table ends up showing every one.
CatchesUp == \A id \in Ids : <>[]Shows(id)
=============================================================================
