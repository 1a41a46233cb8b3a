---------------------------- MODULE MCQueryCache ----------------------------
(***************************************************************************)
(* QueryCache for TLC, under two applications: one reads one key and does  *)
(* everything at once; the other reads two keys of one resource, and       *)
(* invalidates only what is at rest and undoes a change once.              *)
(***************************************************************************)
EXTENDS QueryCache

List == <<"users", "list">>
Detail == <<"users", "detail">>
Users == <<"users">>

TwoKeys == {List, Detail}
TwoPrefixes == {Users, List}

Hasty == [queries |-> {List}, busyInvalidate |-> TRUE, overlap |-> TRUE,
          undoTwice |-> TRUE, restarts |-> TRUE]
Careful == [queries |-> {List, Detail}, busyInvalidate |-> FALSE, overlap |-> FALSE,
            undoTwice |-> FALSE, restarts |-> FALSE]
TwoHabits == {Hasty, Careful}

\* The fairness of QueryCache, under the hasty application.
hasty == habit = Hasty
FairHastySpec ==
    /\ Spec
    /\ WF_vars(hasty /\ Tick) /\ WF_vars(hasty /\ PersistEnds) /\ WF_vars(hasty /\ RestoreEnds)
    /\ \A k \in Hasty.queries :
          /\ WF_vars(hasty /\ Settle(k))
          /\ WF_vars(hasty /\ PersistKey(k)) /\ WF_vars(hasty /\ RestoreKey(k))
          /\ WF_vars(hasty /\ (Answer(k) \/ LoadFails(k))) /\ SF_vars(hasty /\ Answer(k))
          /\ SF_vars(hasty /\ \E r \in Readers : Fetch(r, k, StaleMs, FALSE))
    /\ \A m \in Mutations :
          /\ WF_vars(hasty /\ (Keep(m) \/ Undo(m)))
          /\ WF_vars(hasty /\ (Accept(m) \/ RefuseWrite(m)))

\* Callers are answered, and the screen ends up current, whatever happens.
AllAreAnswered == hasty => AnsweredEventually
ScreenEndsCurrent == hasty => EventuallyCurrent
=============================================================================
