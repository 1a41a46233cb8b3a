---------------------------- MODULE MCWsSessions ----------------------------
(* Small instances of WsSessions for TLC.                                  *)
EXTENDS WsSessions, TLC

CONSTANTS s1, s2, s3, alice, bob, id1

\* Two sockets of one principal and one of another.
CredTwoPrincipals == s1 :> alice @@ s2 :> alice @@ s3 :> bob

\* Every socket belongs to the same principal.
CredOnePrincipal == [s \in {s1, s2, s3} |-> alice]
=============================================================================
