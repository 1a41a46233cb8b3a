-------------------------- MODULE OrderedDelivery ---------------------------
(***************************************************************************)
(* What the offline queue promises: writes accepted while offline reach    *)
(* the server in the order they were made, each at most once, or are given *)
(* up in that order.                                                       *)
(***************************************************************************)
EXTENDS Naturals, Sequences

VARIABLES
    accepted,   \* how many writes were made; they are 1 .. accepted
    waiting,    \* those neither delivered nor given up
    delivered   \* those the server applied, in its order

Oldest(w) == w \in waiting /\ \A v \in waiting : w <= v

Init == accepted = 0 /\ waiting = {} /\ delivered = <<>>

Accept ==
    /\ accepted' = accepted + 1
    /\ waiting' = waiting \cup {accepted'}
    /\ UNCHANGED delivered

Deliver == \E w \in waiting :
    /\ Oldest(w)
    /\ delivered' = Append(delivered, w)
    /\ waiting' = waiting \ {w}
    /\ UNCHANGED accepted

GiveUp == \E w \in waiting :
    /\ Oldest(w)
    /\ waiting' = waiting \ {w}
    /\ UNCHANGED <<accepted, delivered>>

Next == Accept \/ Deliver \/ GiveUp
vars == <<accepted, waiting, delivered>>
Spec == Init /\ [][Next]_vars
=============================================================================
