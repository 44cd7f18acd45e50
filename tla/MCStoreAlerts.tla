---------------------------- MODULE MCStoreAlerts ----------------------------
(***************************************************************************)
(* The event table and the alert engines on small instances.  The two share *)
(* no state, so a behaviour is one of either component, with the other at   *)
(* its initial state: part says which.                                      *)
(***************************************************************************)
EXTENDS EventStore, AlertEngine, TLC

CONSTANTS k1, k2, text, r1, hub, file, t1, t2, e1, e2

\* Four rows, caps of none, two and three.
MCTypes == {"mist", "palo_alto", "generic"}
MCKeys == {k1, k2}
MCMessages == {text}
MCCaps == {0, 2, 3}
Res(m, p) == [t \in Reserved |-> IF t = "mist" THEN m ELSE p]
MCReserves == {Res(0, 0), Res(1, 1), Res(2, 0), Res(3, 1)}

\* One rule, two evaluating threads and two editors.
MCDefs == {[enabled |-> TRUE, onPath |-> FALSE, cooldown |-> 1, hooks |-> {"webhook", "email"}]}
MCRules == {r1}
MCHub == {hub}
MCFile == {file}
MCEvals == {t1, t2}
MCEds == {e1, e2}

MCSymmetry ==
  Permutations(MCKeys) \cup Permutations(MCEvals) \cup Permutations(MCEds)

VARIABLE part

StoreAtRest ==
  /\ live = {} /\ row = [e \in Ids |-> NoRow] /\ nextId = Legacy + 1 /\ seen = {}
  /\ maxEvents = 0 /\ reserve = Res(0, 0) /\ now = 0
AlertsAtRest ==
  /\ AlertInit /\ engine = "hub" /\ table = [r \in Rules |-> NoRule] /\ cap = 0

MCInit ==
  \/ part = "store" /\ StoreInit /\ AlertsAtRest
  \/ part = "alerts" /\ StoreAtRest /\ AlertInit

MCNext ==
  \/ part = "store" /\ StoreNext /\ UNCHANGED <<alertVars, part>>
  \/ part = "alerts" /\ AlertNext /\ UNCHANGED <<storeVars, part>>

MCSpec == MCInit /\ [][MCNext]_<<storeVars, alertVars, part>>

\* Both components keep their types.
MCTypeOK == StoreTypeOK /\ AlertTypeOK
=============================================================================
