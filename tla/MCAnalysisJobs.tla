--------------------------- MODULE MCAnalysisJobs ---------------------------
(* AnalysisJobs with a few jobs and schedules. *)
EXTENDS AnalysisJobs, TLC

CONSTANTS j1, j2, j3, s1, s2

MCTwoJobs == {j1, j2}
MCJobs == {j1, j2, j3}
MCSched == {s1}
MCScheds == {s1, s2}

\* Bound: the model is switched off in a process that has had no fault and
\* before the restart; of both one finds it on or off.
MCSwitch == model = "on" /\ model' = "off" => faults + restarts = 0
=============================================================================
