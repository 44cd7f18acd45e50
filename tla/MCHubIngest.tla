---------------------------- MODULE MCHubIngest ----------------------------
(* HubIngest with a few lines, one Mist event and two pollers. *)
EXTENDS HubIngest, TLC

CONSTANTS l1, l2, l3, mistText, k1, m1, m2

MCTypes == {"mist", "generic"}
MCLines == {l1, l2, l3}
MCMessages == MCLines \cup {mistText}
MCKeys == {k1}
MCPollers == {m1, m2}
MCCaps == {1}
MCReserves == {[t \in Reserved |-> 0]}
=============================================================================
