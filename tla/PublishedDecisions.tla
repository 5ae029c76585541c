------------------------- MODULE PublishedDecisions -------------------------
(***************************************************************************)
(* What the admission check controller promises to those who read a        *)
(* MultiKueueConfig or the status of an AdmissionCheck, without its caches, *)
(* queue, conflicts and finalizers: decisions are published one at a time, *)
(* each of them as it was learned, so that an older one never follows a    *)
(* newer one, and a check turns Active only in the turn that has published *)
(* some clusters for the placement that it names.                          *)
(***************************************************************************)
CONSTANTS Checks, Placements, Clusters, NoCheck, NoPlacement, NoConfig

VARIABLES
  names,    \* the placement that each check names, or NoCheck
  active,   \* the checks that are Active
  source,   \* the clusters that each placement selects, or NoPlacement
  known,    \* what is known of them
  hand,     \* the decision of this turn, and whether it is published; or none
  shown     \* the clusters of each MultiKueueConfig, or NoConfig

Init ==
  /\ names = [a \in Checks |-> NoCheck] /\ active = {}
  /\ source = [p \in Placements |-> NoPlacement]
  /\ known = source
  /\ hand = {}
  /\ shown = [p \in Placements |-> NoConfig]

-----------------------------------------------------------------------------
\* A check is created for a placement or pointed at it.
Point(a, p) ==
  /\ names' = [names EXCEPT ![a] = p]
  /\ UNCHANGED <<active, source, known, hand, shown>>

Remove(a) ==
  /\ names' = [names EXCEPT ![a] = NoCheck] /\ active' = active \ {a}
  /\ UNCHANGED <<source, known, hand, shown>>

Decide(p) ==
  /\ \E d \in (SUBSET Clusters) \cup {NoPlacement} :
       source' = [source EXCEPT ![p] = d]
  /\ UNCHANGED <<names, active, known, hand, shown>>

Learn(p) ==
  /\ known' = [known EXCEPT ![p] = source[p]]
  /\ UNCHANGED <<names, active, source, hand, shown>>

-----------------------------------------------------------------------------
(***************************************************************************)
(* A turn.                                                                 *)
(***************************************************************************)
Take(p) ==
  /\ hand = {} /\ known[p] # NoPlacement
  /\ hand' = {[placement |-> p, clusters |-> known[p], published |-> FALSE]}
  /\ UNCHANGED <<names, active, source, known, shown>>

Publish ==
  /\ \E h \in hand :
       /\ ~h.published
       /\ shown' = [shown EXCEPT ![h.placement] =
                      IF h.clusters = {} THEN NoConfig ELSE h.clusters]
       /\ hand' = {[placement |-> h.placement, clusters |-> h.clusters,
                    published |-> TRUE]}
  /\ UNCHANGED <<names, active, source, known>>

Activate(a) ==
  /\ \E h \in hand :
       h.published /\ h.clusters # {} /\ names[a] = h.placement
  /\ active' = active \cup {a} /\ hand' = {}
  /\ UNCHANGED <<names, source, known, shown>>

\* A turn ends without an Active check.
Drop ==
  /\ hand' = {} /\ \E a \in Checks : active' \in {active, active \ {a}}
  /\ UNCHANGED <<names, source, known, shown>>

\* The owner of a config is deleted.
Withdraw(p) ==
  /\ hand = {} /\ shown' = [shown EXCEPT ![p] = NoConfig]
  /\ UNCHANGED <<names, active, source, known, hand>>

Next ==
  \/ \E a \in Checks :
       Remove(a) \/ Activate(a) \/ \E p \in Placements : Point(a, p)
  \/ \E p \in Placements : Decide(p) \/ Learn(p) \/ Take(p) \/ Withdraw(p)
  \/ Publish \/ Drop

Spec == Init /\ [][Next]_<<names, active, source, known, hand, shown>>

=============================================================================
