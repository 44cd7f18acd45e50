--------------------------- MODULE MCHubAnalysis ---------------------------
(* HubAnalysis on a table of at most two rows and a handful of threads. *)
EXTENDS HubAnalysis, TLC

CONSTANTS d1, d2, j1, h1, h2, allowed, denied

MCTypes == {"generic"}
MCMessages == {allowed, denied}
MCBlocked == {denied}
MCCaps == {2}
MCReserves == {[t \in Reserved |-> 0]}
MCDrains == {d1, d2}
MCOneDrain == {d1}
MCJobs == {j1}
MCRequests == {h1, h2}
MCSymmetry == Permutations(MCDrains) \cup Permutations(MCRequests)

\* Bounds: while a job exists, the last row comes with one upset of the
\* automatic analysis only; on-demand runs have a single row and no job, and one
\* web thread; two saves at once have at most one row and no job.
NoRun == now = 0 /\ status = "idle" /\ \A h \in Requests : req[h] \in {"free"} \cup Saving
NoJob == \A j \in Jobs : job[j].status = "none"
Busy == {h \in Requests : req[h] # "free"}
MCBound == /\ NoJob \/ upsets + nextId <= 5
           /\ NoRun \/ (NoJob /\ upsets <= 1 /\ nextId <= 2 /\ Cardinality(Busy) <= 1)
           /\ met => NoRun /\ NoJob /\ nextId <= 2
=============================================================================
