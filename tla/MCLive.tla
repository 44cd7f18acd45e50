------------------------------- MODULE MCLive -------------------------------
(***************************************************************************)
(* Live following on small instances: the event stream of a browser, and   *)
(* the tailer of one log file.  The two share no state, so a behaviour is  *)
(* one of either component, with the other at its initial state: part says *)
(* which.                                                                  *)
(***************************************************************************)
EXTENDS LiveView, FileTail, TLC

CONSTANTS p1, p2, c1, c2

MCPublishers == {p1, p2}
MCClients == {c1, c2}

VARIABLE part

MCInit == part \in {"view", "tail"} /\ Init /\ TailInit

\* Bounds: three rotations, reloads and faults in all, and one while a stopped
\* tailer still has lines in hand.
Upsets == rotations + upsets + tailFaults
TailBound ==
  /\ Upsets <= 3
  /\ (\E g \in DOMAIN late : late[g] # <<>>) => Upsets <= 1

MCNext ==
  \/ part = "view" /\ Next /\ UNCHANGED <<tailVars, part>>
  \/ part = "tail" /\ TailNext /\ UNCHANGED <<vars, part>> /\ TailBound'

\* The fair actions of a component are never enabled while it is at rest.
MCSpec ==
  MCInit /\ [][MCNext]_<<vars, tailVars, part>> /\ Fairness /\ TailFairness

\* Both components keep their types.
MCTypeOK == ViewTypeOK /\ TailTypeOK
=============================================================================
