----------------------- MODULE MCDynamicScoringAgent -----------------------
(***************************************************************************)
(* Instances of DynamicScoringAgent for TLC.                               *)
(***************************************************************************)
EXTENDS DynamicScoringAgent, TLC

CONSTANTS n1, n2, c1, c2, c3, s1, s2, k1

Sum(n, c, a) == [scoreName |-> n, config |-> c, auth |-> a]

\* Distinct names have distinct resource names.
OwnResource == [n \in ScoreNames |-> n]

\* One name: present, present with another config, withdrawn.
OneName == {<<Sum(n1, c1, FALSE)>>, <<Sum(n1, c2, FALSE)>>, <<>>}

\* One name that needs a token, or withdrawn.
OneToken == {<<Sum(n1, c1, TRUE)>>, <<>>}

\* A name that comes and goes, given twice, the second time with a token; and one
\* that stays.
Duplicates ==
  {<<Sum(n1, c1, FALSE), Sum(n1, c2, TRUE), Sum(n2, c3, FALSE)>>,
   <<Sum(n2, c3, FALSE)>>}

\* The API of the name that stays answers with any of two label sets.
NoSeries  == [c \in Configs |-> {}]
SomeSeries == [c \in Configs |-> IF c = c3 THEN {s1, s2} ELSE {}]

\* s1 has the values "a" and "|b", s2 "a|" and "b": both are joined to "a|||b",
\* which splits into s1.
OneKey  == [s \in AllSeries |-> k1]
SplitS1 == [k \in Keys |-> s1]

\* Goroutine slots are interchangeable: sound for the runs without liveness.
WorkerSymmetry == Permutations(Workers)

=============================================================================
