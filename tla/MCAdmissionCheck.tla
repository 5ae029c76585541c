-------------------------- MODULE MCAdmissionCheck --------------------------
(***************************************************************************)
(* Instances of AdmissionCheck for TLC: two checks, two or three placements*)
(***************************************************************************)
EXTENDS AdmissionCheck

CONSTANTS a1, a2, p1, p2, p3, c1, c2

\* Every placement belongs to one check; a1 can be pointed from p1 to p3.
NamesApart  == {<<a1, p1>>, <<a1, p3>>, <<a2, p2>>}

=============================================================================
