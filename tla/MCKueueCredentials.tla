------------------------- MODULE MCKueueCredentials -------------------------
(***************************************************************************)
(* Instances of KueueCredentials for TLC: clusters do not affect each      *)
(* other, except that they wait for the same workers, so that one cluster  *)
(* shows every interleaving of the two controllers.                        *)
(***************************************************************************)
EXTENDS KueueCredentials

CONSTANTS c1, u1, u2

=============================================================================
