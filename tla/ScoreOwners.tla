----------------------------- MODULE ScoreOwners -----------------------------
(***************************************************************************)
(* What the agent of the dynamic scoring framework promises of the         *)
(* goroutines it starts and stops, without saying how it keeps track of    *)
(* them: a score name has one owner at most, only an owner takes answers   *)
(* of a scoring API, and an owner that lost its name may still be busy     *)
(* with the answer it took.                                                *)
(***************************************************************************)
CONSTANTS ScoreNames, Workers

VARIABLES
  owners,   \* the goroutines that own a name
  busy      \* the goroutines that have an answer at hand

Owns(w) == \E n \in ScoreNames : w \in owners[n]

Init == owners = [n \in ScoreNames |-> {}] /\ busy = {}

\* A goroutine that owns nothing and has nothing at hand becomes the owner of a
\* name that has none.
Acquire(n, w) ==
  /\ owners[n] = {} /\ ~Owns(w) /\ w \notin busy
  /\ owners' = [owners EXCEPT ![n] = {w}]
  /\ UNCHANGED busy

\* The names of one sync are withdrawn together.
Release(names) ==
  /\ owners' = [n \in ScoreNames |-> IF n \in names THEN {} ELSE owners[n]]
  /\ UNCHANGED busy

TakeAnswer(w) == Owns(w) /\ busy' = busy \cup {w} /\ UNCHANGED owners

Done(w) == busy' = busy \ {w} /\ UNCHANGED owners

\* The process starts again.
Restart == owners' = [n \in ScoreNames |-> {}] /\ busy' = {}

Next ==
  \/ Restart
  \/ \E w \in Workers :
       TakeAnswer(w) \/ Done(w) \/ \E n \in ScoreNames : Acquire(n, w)
  \/ \E names \in SUBSET ScoreNames : Release(names)

Spec == Init /\ [][Next]_<<owners, busy>>

=============================================================================
