------------------------------- MODULE MCPage -------------------------------
(***************************************************************************)
(* Four parts of the page for TLC, one at a time: the app-shell worker, a  *)
(* virtualized list, the reconciler with the renderer, the delta pull.  A  *)
(* behaviour is of one part; the others rest in an initial state.          *)
(***************************************************************************)
EXTENDS VirtualList, PullSync, ServiceWorker, Reconcile

CONSTANT Part  \* the part this behaviour may be of

VARIABLE part

-----------------------------------------------------------------------------
Leaf(type, key, props) == [type |-> type, key |-> key, props |-> props, kids |-> <<>>]
Nest(kids) == [type |-> "Row", key |-> NoKey, props |-> 0, kids |-> kids]
Lists(kids) == UNION {[1..n -> kids] : n \in 0..3}

\* Lists of up to three children.  In the first they are keyed, in the order of
\* their keys but for a repeated "a", or have no key; the second may add "d",
\* change what is under "a", and have any order and any repetition.
Keyed(i) == {Leaf("Text", <<"a", "b", "c">>[i], 0), Leaf("Text", "a", 0)}
MCBefores == {kids \in Lists(Keyed(1) \cup Keyed(2) \cup Keyed(3) \cup {Nest(<<Leaf("Text", NoKey, 0)>>)}) :
                \A i \in 1..Len(kids) : kids[i].key = NoKey \/ kids[i] \in Keyed(i)}
MCAfters == Lists({Leaf("Text", k, 0) : k \in {"a", "b", "c", "d"}}
                  \cup {Leaf("Text", "a", 1), Leaf("Row", "a", 0)}
                  \cup {Nest(<<>>), Nest(<<Leaf("Text", NoKey, 1), Leaf("Text", NoKey, 0)>>)})

\* Those trees, with all below them.
Roots == {Root(kids) : kids \in MCBefores \cup MCAfters}
Below(nodes) == UNION {{n.kids[i] : i \in 1..Len(n.kids)} : n \in nodes}
MCNodes == Roots \cup Below(Roots) \cup Below(Below(Roots))
MCHeight == [n \in MCNodes |-> IF n \in Roots THEN 2 ELSE IF n \in Below(Roots) THEN 1 ELSE 0]

Init ==
    /\ part \in Part
    /\ ShellInit /\ ListInit /\ TreeInit /\ PullInit
    /\ part = "shell" \/ releases = CHOOSE h \in ReleaseHabits : TRUE
    /\ part = "list" \/ habit = CHOOSE h \in Habits : TRUE
    /\ part = "tree" \/ scene.kids = <<>>

vars == <<part, shellVars, listVars, treeVars, pullVars>>

Next ==
    /\ UNCHANGED part
    /\ \/ part = "shell" /\ ShellNext /\ UNCHANGED <<listVars, treeVars, pullVars>>
       \/ part = "list" /\ ListNext /\ UNCHANGED <<shellVars, treeVars, pullVars>>
       \/ part = "tree" /\ TreeNext /\ UNCHANGED <<shellVars, listVars, pullVars>>
       \/ part = "pull" /\ PullNext /\ UNCHANGED <<shellVars, listVars, treeVars>>

Spec == Init /\ [][Next]_vars

\* The fairness of each part, while it is the one that runs.
FairSpec ==
    /\ Spec
    /\ WF_shellVars(part = "shell" /\ (Install \/ InstallFails))
    /\ SF_shellVars(part = "shell" /\ Install)
    /\ SF_shellVars(part = "shell" /\ SoftUpdate)
    /\ WF_shellVars(part = "shell" /\ Activate)
    /\ WF_shellVars(part = "shell" /\ TearDown)
    /\ WF_shellVars(part = "shell" /\ ~online /\ Network)
    /\ \A t \in Pages : /\ WF_shellVars(part = "shell" /\ Load(t))
                        /\ SF_shellVars(part = "shell" /\ Register(t))
    /\ WF_listVars(part = "list" /\ Slide)
    /\ WF_listVars(part = "list" /\ Refresh)
    /\ \A t \in Tabs : /\ WF_pullVars(part = "pull" /\ Pull(t))
                       /\ WF_pullVars(part = "pull" /\ PullStep(t))
    /\ \A id \in Ids : WF_pullVars(part = "pull" /\ Push(id))

-----------------------------------------------------------------------------
(* What is checked of the worker, by the names its module states it under. *)

\* The worker, through releases and retirement: it boots its pages, offers the
\* update once and reloads the page that takes it, and the last release, or the
\* retirement, arrives.
UpdateIsTaken == UpdateIsOffered /\ ClickReloads
ReleasesArrive == part = "shell" => NewestListRuns /\ RetiredLeavesNothing
=============================================================================
