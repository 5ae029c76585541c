--------------------------- MODULE ScorerSummary ---------------------------
(***************************************************************************)
(* How the dynamic scoring controller turns a DynamicScorer into the       *)
(* summary that it distributes to a cluster: buildClusterToSummaries and   *)
(* the getValid* functions of dynamicscoringconfig_controller.go.          *)
(*                                                                         *)
(* A scorer has the fields of its spec, the fields that its scoring API    *)
(* served at the last sync (or NoConfig), and a health status.  Hosts,     *)
(* names and queries are atoms, Unset stands for the empty string, paths   *)
(* are left out, and sourceRange stands for the range and the step, which  *)
(* the code treats alike.                                                  *)
(***************************************************************************)
EXTENDS Integers

CONSTANTS Unset, NoConfig

HasSynced(s) == s.synced # NoConfig

\* A text field: what the API served, else what the spec says.
Field(s, f) ==
  IF HasSynced(s) /\ s.synced[f] # Unset THEN s.synced[f] ELSE s.spec[f]

\* Mutant of Positive: an unset number passes.
NotNegative(n) == n >= 0

Positive(n) == n > 0

\* A number: the same, where only positive numbers count; 0 when there is none.
Number(s, f) ==
  IF HasSynced(s) /\ Positive(s.synced[f]) THEN s.synced[f]
  ELSE IF Positive(s.spec[f]) THEN s.spec[f] ELSE 0

HasNumber(s, f) ==
  (HasSynced(s) /\ Positive(s.synced[f])) \/ Positive(s.spec[f])

ScoreName(s) == Field(s, "scoreName")

SourceQuery(s) == Field(s, "sourceQuery")

SourceHost(s) ==
  IF Field(s, "sourceHost") # Unset THEN Field(s, "sourceHost")
                                    ELSE s.configHost

\* When the API serves a scoring host, the code takes its source host.
ScoringHost(s) ==
  IF HasSynced(s) /\ s.synced.scoringHost # Unset THEN s.synced.sourceHost
  ELSE IF s.spec.scoringHost # Unset THEN s.spec.scoringHost
  ELSE s.configHost

\* An authentication that is there names a secret and a key of it.
AuthValid(auth) == auth # "broken"

\* The source fields only have to be valid when there is a source.
SourceValid(s) ==
  \/ Field(s, "sourceType") = "None"
  \/ /\ Field(s, "sourceType") # Unset
     /\ SourceHost(s) # Unset
     /\ AuthValid(s.sourceAuth)
     /\ SourceQuery(s) # Unset
     /\ HasNumber(s, "sourceRange")

ScoringValid(s) ==
  /\ ScoringHost(s) # Unset
  /\ AuthValid(s.scoringAuth)
  /\ HasNumber(s, "interval")

\* The scorer has a summary for a cluster where the names in masked are masked.
Summarised(s, masked) ==
  /\ ScoreName(s) # Unset
  /\ ScoreName(s) \notin masked
  /\ s.health = "Active"
  /\ s.mode = "Full" => HasSynced(s)
  /\ SourceValid(s)
  /\ ScoringValid(s)

SummaryOf(s) ==
  [scoreName   |-> ScoreName(s),
   sourceType  |-> Field(s, "sourceType"),
   sourceHost  |-> SourceHost(s),
   sourceQuery |-> SourceQuery(s),
   sourceRange |-> Number(s, "sourceRange"),
   scoringHost |-> ScoringHost(s),
   interval    |-> Number(s, "interval")]

=============================================================================
