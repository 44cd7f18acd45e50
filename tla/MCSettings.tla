------------------------------ MODULE MCSettings ------------------------------
(* Settings with three keys, two threads that save and one that asks. *)
EXTENDS Settings, TLC

CONSTANTS t1, t2, r1

\* Two settings that the poller needs and one that the environment decides; a
\* form that fills in all, and one that clears them and leaves the secret empty.
MCRegistry == <<"MIST_ENABLED", "MIST_API_KEY", "DATA_DIR">>
MCSecrets == {"MIST_API_KEY"}
MCEnvFirst == {"DATA_DIR"}
MCPoller == {"MIST_ENABLED", "MIST_API_KEY"}
MCOldKeys == {"MIST_ENABLED"}
MCUpdates == {[k \in Keys |-> v] : v \in Values}
MCEnvs == {[k \in Keys |-> v] : v \in Values}
MCThreads == {t1, t2}
MCReaders == {r1}
=============================================================================
