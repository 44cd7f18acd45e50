------------------------------ MODULE MCHubRuns ------------------------------
(***************************************************************************)
(* HubAnalysis for its liveness properties, one question at a time: in the *)
(* part "user" web threads start and cancel on-demand runs while automatic *)
(* analysis is off, in the part "drains" automatic analysis is switched    *)
(* and restarted and nobody starts a run.  Each part has bounds of its own *)
(* within those of the configuration.                                      *)
(***************************************************************************)
EXTENDS MCHubAnalysis

VARIABLE part

MCInit ==
  /\ Init
  /\ \/ part = "user" /\ ~auto
     \/ part = "drains"

\* What is left out is never the only outcome of a fair action.
MCNext ==
  /\ Next /\ part' = part
  /\ \/ /\ part = "user" /\ ~auto' /\ nextId' <= 3 /\ fails' + upsets' <= 1
        /\ \A h \in Requests : req'[h] \notin Saving
     \/ /\ part = "drains" /\ now' = 0
        /\ \A h \in Requests : req'[h] \in {"free"} \cup Saving
        /\ met' => nextId' + fails' <= 2

MCSpec == MCInit /\ [][MCNext]_<<vars, part>> /\ Fairness
=============================================================================
