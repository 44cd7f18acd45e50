------------------------------ MODULE MCIngest ------------------------------
(***************************************************************************)
(* HubIngest in three parts, one per behaviour: three lines and a poller,  *)
(* a line and two pollers that may overlap, and a line and a poller with   *)
(* retention and a moving clock.  The parts bound only what nothing in the *)
(* program is obliged to do.                                               *)
(***************************************************************************)
EXTENDS MCHubIngest

VARIABLE part

OneLine == fate[l2] = "none" /\ fate[l3] = "none"

MCPart ==
  CASE part = "lines" -> poller # m2 /\ hours = 0 /\ now = 0 /\ upsets <= 1
    [] part = "overlap" -> OneLine /\ hours = 0 /\ now = 0
    [] part = "retention" -> OneLine /\ poller # m2 /\ hours = 1

MCInit == part \in {"lines", "overlap", "retention"} /\ Init /\ MCPart
MCNext == Next /\ UNCHANGED part /\ MCPart'
MCSpec == MCInit /\ [][MCNext]_<<part, vars>> /\ Fairness
=============================================================================
