------------------------ MODULE MCDynamicScoringHub ------------------------
(***************************************************************************)
(* Instances of DynamicScoringHub for TLC.                                 *)
(***************************************************************************)
EXTENDS DynamicScoringHub

CONSTANTS h1, h2, c1, c2

AField(name, range) ==
  [scoreName |-> name, sourceType |-> "None", sourceHost |-> Unset,
   scoringHost |-> Unset, sourceQuery |-> Unset, sourceRange |-> range,
   interval |-> range]

\* A body without the fields.
Empty == AField(Unset, 0)

\* What the APIs serve.
Served == {AField("n1", 2)}

\* Down, an error beside a good /healthz, and a config with either /healthz.
FourAnswers ==
  {[status |-> a[1], config |-> AField("n1", 2), healthz |-> a[2]] :
     a \in {<<"down", FALSE>>, <<"error", TRUE>>, <<"ok", TRUE>>, <<"ok", FALSE>>}}

\* A spec in either mode with the API on either host; it has all it needs.
TwoSpecs == {[mode |-> "Full", configHost |-> h1, spec |-> AField("n1", 1)],
             [mode |-> "None", configHost |-> h2, spec |-> AField("n1", 1)]}

NoMasks == [c \in Clusters |-> {}]
TwoMasks == {NoMasks, [c \in Clusters |-> IF c = c1 THEN {"n1"} ELSE {}]}
OneMask == {NoMasks}

=============================================================================
