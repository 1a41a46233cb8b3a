-------------------------- MODULE ResumableSession --------------------------
(***************************************************************************)
(* What resuming promises a browser, without sockets, tokens or timers:    *)
(* under one id there is one session at a time; a drop leaves it orphaned, *)
(* a return finds that same session, and only an orphan is ever retired.   *)
(* A retired session does not come back.                                   *)
(***************************************************************************)
CONSTANTS Ids, Sessions, None

VARIABLES
    mode,      \* "free", "attached" or "orphaned", per id
    current,   \* the session held under each id
    retired    \* sessions whose time is over

vars == <<mode, current, retired>>

Init ==
    /\ mode = [id \in Ids |-> "free"]
    /\ current = [id \in Ids |-> None]
    /\ retired = {}

Begin(id, x) ==
    /\ mode[id] = "free"
    /\ x \notin retired
    /\ \A other \in Ids : current[other] # x
    /\ mode' = [mode EXCEPT ![id] = "attached"]
    /\ current' = [current EXCEPT ![id] = x]
    /\ UNCHANGED retired

Drop(id) ==
    /\ mode[id] = "attached"
    /\ mode' = [mode EXCEPT ![id] = "orphaned"]
    /\ UNCHANGED <<current, retired>>

Return(id) ==
    /\ mode[id] = "orphaned"
    /\ mode' = [mode EXCEPT ![id] = "attached"]
    /\ UNCHANGED <<current, retired>>

RunOut(id) ==
    /\ mode[id] = "orphaned"
    /\ mode' = [mode EXCEPT ![id] = "free"]
    /\ current' = [current EXCEPT ![id] = None]
    /\ retired' = retired \cup {current[id]}

Next ==
    \E id \in Ids :
        \/ \E x \in Sessions : Begin(id, x)
        \/ Drop(id) \/ Return(id) \/ RunOut(id)

\* An orphan does not stay one: somebody returns or the window runs out.
Spec ==
    /\ Init /\ [][Next]_vars
    /\ \A id \in Ids : WF_vars(Return(id) \/ RunOut(id))
=============================================================================
