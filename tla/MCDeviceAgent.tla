--------------------------- MODULE MCDeviceAgent ---------------------------
(***************************************************************************)
(* The instance of DeviceAgent for TLC: one device of four specs, one      *)
(* driver with two configs that parse and one that does not.               *)
(***************************************************************************)
EXTENDS DeviceAgent

CONSTANTS d1, n1, n2, s1, s2, s3, g1, g2, g3

OneDevice == {d1}

\* A spec, another one of the same name, another name, and another type.
FourSpecs ==
  {[name |-> n1, ours |-> TRUE, rest |-> 1],
   [name |-> n1, ours |-> TRUE, rest |-> 2],
   [name |-> n2, ours |-> TRUE, rest |-> 1],
   [name |-> n1, ours |-> FALSE, rest |-> 1]}

ThreeDriverConfigs == {s1, s2, s3}
OneUnparsable == {s3}
ThreeSubs == {g1, g2, g3}

=============================================================================
