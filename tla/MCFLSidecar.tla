---------------------------- MODULE MCFLSidecar ----------------------------
(***************************************************************************)
(* A training that writes twice, with its metrics changing in value and in *)
(* name; one of the names is refused by the library.                       *)
(***************************************************************************)
EXTENDS FLSidecar

CONSTANTS Loss, Accuracy, Odd

\* The second and the third say the same of other values; their time of its own
\* makes as many metrics as the first has, of which Accuracy is gone.
ContentsDef ==
  { [metrics |-> [n \in {Loss, Odd, Accuracy} |-> 1], labels |-> 1],
    [metrics |-> [n \in {Loss, Odd, Stamp} |-> 1], labels |-> 1],
    [metrics |-> [n \in {Loss, Odd, Stamp} |-> 2], labels |-> 1] }

RefusedDef == {Odd}

=============================================================================
