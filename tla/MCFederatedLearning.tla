------------------------ MODULE MCFederatedLearning ------------------------
EXTENDS FederatedLearning

\* Model values
CONSTANTS c1, c2, a1

=============================================================================
