---------------------------- MODULE HubAnalysis ----------------------------
(***************************************************************************)
(* LLM analysis of hub events: the scheduled drain                         *)
(* (analysis/scheduled_drain.py), the on-demand run over a time window     *)
(* (loggy_ported/analysis_service.py) and the on-demand jobs over chosen   *)
(* events (analysis/worker.py), all writing verdicts into the event table  *)
(* of EventStore while ingest inserts, prunes and expires its rows.        *)
(*                                                                         *)
(* The drain and the on-demand run share the loop drain_unanalyzed: check  *)
(* for a stop, fetch a batch, save the blocked lines of the batch as       *)
(* skipped, send the rest to the LLM, save the answer.  The table lock is  *)
(* not held over the LLM call.  Rows of table analyses beyond the newest   *)
(* MAX_ANALYSES are deleted; no step here reads one, so analyses is the    *)
(* complete log.                                                           *)
(***************************************************************************)
EXTENDS EventStore, Sequences

CONSTANTS
  Drains,       \* ScheduledAnalysisDrain threads, one per enabling
  Jobs,         \* jobs of AnalysisWorker.run_on_demand
  Requests,     \* web threads that serve start, cancel and settings saves
  NoDrain,      \* _scheduled_drain is None
  Blocked,      \* messages that is_already_blocked recognises
  BatchSize,    \* ANALYSIS_BATCH_SIZE
  MaxBatches,   \* ON_DEMAND_MAX_BATCHES, 0 for none
  WallLimit,    \* whether ON_DEMAND_MAX_WALL_SEC is set
  MaxFails,     \* bound: LLM calls that fail
  MaxUpsets     \* bound: settings saves and restarts

OnDemand == "on-demand"
Threads == Drains \cup {OnDemand}

ASSUME AnalysisAssumption ==
  /\ OnDemand \notin Drains /\ NoDrain \notin Threads
  /\ Blocked \subseteq Messages
  /\ BatchSize \in Nat \ {0}
  /\ MaxBatches \in Nat /\ MaxFails \in Nat /\ MaxUpsets \in Nat
  /\ WallLimit \in BOOLEAN

VARIABLES
  verdict,   \* events.analysis_id of each row, 0 while analyzed_at IS NULL
  analyses,  \* rows ever inserted into table analyses
  job,       \* table analysis_jobs
  workers,   \* jobs whose thread is alive
  pc,        \* where each drain_unanalyzed thread is
  batch,     \* the lines it has fetched, by event id
  stop,      \* its stop event; _cancel_event for the on-demand run
  drain,     \* _scheduled_drain
  auto,      \* LLM_ENABLED and ANALYSIS_AUTO
  met,       \* history: since the last restart two settings saves were under way at once
  status,    \* _status.state
  window,    \* since_ts and until_ts of the on-demand run
  started,   \* batches the on-demand run has started
  req,       \* where each web thread is in serving its request
  asked,     \* history: a cancel was accepted during the present run
  fails, upsets  \* counters for the bounds

threadVars == <<pc, batch, stop, drain, auto, met>>
runVars == <<status, window, started, req, asked>>
jobVars == <<job, workers>>
saved == <<verdict, analyses>>
vars == <<storeVars, saved, jobVars, threadVars, runVars, fails, upsets>>

-----------------------------------------------------------------------------
Restricted(b, S) == [e \in DOMAIN b \cap S |-> b[e]]
SkippedOf(b) == {e \in DOMAIN b : b[e] \in Blocked}
Lines(S) == [e \in S |-> row[e].msg]
NoLines == [e \in {} |-> NoKey]
FirstOf(S, n) == {e \in S : Cardinality({x \in S : x < e}) < n}

\* What thread t may fetch: everything, or the window of the on-demand run.
Unanalyzed(t) ==
  {e \in live : /\ verdict[e] = 0
                /\ t = OnDemand => row[e].at \in window.since..window.until}

\* Faulty forms of InsertAnalysis: a failed analysis gives a verdict too; only
\* events that have none yet take one.
InsertMarksErrors(lines, kind) ==
  /\ analyses' = Append(analyses, [lines |-> lines, kind |-> kind])
  /\ verdict' = [e \in Ids |-> IF e \in live \cap DOMAIN lines
                              THEN Len(analyses) + 1 ELSE verdict[e]]
InsertMarksFirst(lines, kind) ==
  /\ analyses' = Append(analyses, [lines |-> lines, kind |-> kind])
  /\ verdict' = IF kind = "error" THEN verdict
                ELSE [e \in Ids |-> IF e \in live \cap DOMAIN lines /\ verdict[e] = 0
                                    THEN Len(analyses) + 1 ELSE verdict[e]]

\* One transaction: the analysis row and, unless it failed, the verdict on
\* those of its events that are still in the table.
InsertAnalysis(lines, kind) ==
  /\ analyses' = Append(analyses, [lines |-> lines, kind |-> kind])
  /\ verdict' = IF kind = "error" THEN verdict
                ELSE [e \in Ids |-> IF e \in live \cap DOMAIN lines
                                    THEN Len(analyses) + 1 ELSE verdict[e]]

\* Faulty: a cancelled run ends without publishing its state.
FinishSilently(t, final) ==
  /\ pc' = [pc EXCEPT ![t] = IF t = OnDemand THEN "off" ELSE "wait"]
  /\ status' = IF t = OnDemand /\ final # "cancelled" THEN final ELSE status
  /\ UNCHANGED <<window, req, asked>>

\* Faulty: an LLM error ends the thread of the scheduled drain as well.
FinishOnError(t, final) ==
  /\ pc' = [pc EXCEPT ![t] = IF t = OnDemand \/ final = "error" THEN "off" ELSE "wait"]
  /\ status' = IF t = OnDemand THEN final ELSE status
  /\ UNCHANGED <<window, req, asked>>

\* Thread t leaves drain_unanalyzed: the on-demand thread publishes its final
\* state and ends, a drain waits for its next interval.
Finish(t, final) ==
  /\ pc' = [pc EXCEPT ![t] = IF t = OnDemand THEN "off" ELSE "wait"]
  /\ status' = IF t = OnDemand THEN final ELSE status
  /\ UNCHANGED <<window, req, asked>>

Goto(t, l) == pc' = [pc EXCEPT ![t] = l]

-----------------------------------------------------------------------------
\* drain_unanalyzed, top of the loop: stop, wall limit, batch cap.
Check(t) ==
  /\ pc[t] = "check"
  /\ \/ stop[t] /\ Finish(t, "cancelled")
     \/ ~stop[t] /\ t = OnDemand /\ WallLimit /\ Finish(t, "done")
     \/ /\ ~stop[t] /\ t = OnDemand
        /\ MaxBatches > 0 /\ started >= MaxBatches
        /\ Finish(t, "done")
     \/ /\ ~stop[t]
        /\ t = OnDemand /\ MaxBatches > 0 => started < MaxBatches
        /\ Goto(t, "fetch")
        /\ UNCHANGED <<status, window, req, asked>>
  /\ UNCHANGED <<storeVars, saved, jobVars, batch, stop, drain, auto, met, started,
                 fails, upsets>>

Fetch(t) ==
  /\ pc[t] = "fetch"
  /\ IF Unanalyzed(t) = {}
     THEN Finish(t, "done") /\ UNCHANGED <<batch, started>>
     ELSE /\ batch' = [batch EXCEPT ![t] = Lines(FirstOf(Unanalyzed(t), BatchSize))]
          /\ started' = IF t = OnDemand THEN started + 1 ELSE started
          /\ Goto(t, "skip")
          /\ UNCHANGED <<status, window, req, asked>>
  /\ UNCHANGED <<storeVars, saved, jobVars, stop, drain, auto, met, fails, upsets>>

\* process_one_batch, first half: blocked lines are saved without the LLM.
Skip(t) ==
  LET skipped == SkippedOf(batch[t]) IN
  /\ pc[t] = "skip"
  /\ IF skipped = {} THEN UNCHANGED saved
     ELSE InsertAnalysis(Restricted(batch[t], skipped), "skip")
  /\ batch' = [batch EXCEPT ![t] = Restricted(@, Ids \ skipped)]
  /\ Goto(t, IF DOMAIN batch[t] = skipped THEN "check" ELSE "llm")
  /\ UNCHANGED <<storeVars, jobVars, stop, drain, auto, met, runVars, fails, upsets>>

LlmOk(t) ==
  /\ pc[t] = "llm"
  /\ InsertAnalysis(batch[t], "ok")
  /\ batch' = [batch EXCEPT ![t] = NoLines]
  /\ Goto(t, "gap")
  /\ UNCHANGED <<storeVars, jobVars, stop, drain, auto, met, runVars, fails, upsets>>

\* An LLM error is recorded and ends the drain; its events stay unanalyzed.
LlmFail(t) ==
  /\ pc[t] = "llm"
  /\ fails < MaxFails
  /\ InsertAnalysis(batch[t], "error")
  /\ batch' = [batch EXCEPT ![t] = NoLines]
  /\ Finish(t, "error")
  /\ fails' = fails + 1
  /\ UNCHANGED <<storeVars, jobVars, stop, drain, auto, met, started, upsets>>

\* The pause between batches ends early when a stop is requested.
Gap(t) ==
  /\ pc[t] = "gap"
  /\ IF stop[t] THEN Finish(t, "cancelled")
     ELSE Goto(t, "check") /\ UNCHANGED <<status, window, req, asked>>
  /\ UNCHANGED <<storeVars, saved, jobVars, batch, stop, drain, auto, met, started,
                 fails, upsets>>

\* ScheduledAnalysisDrain.run between two drains.
Wake(d) ==
  /\ pc[d] = "wait"
  /\ stop[d] \/ auto
  /\ Goto(d, IF stop[d] THEN "off" ELSE "check")
  /\ UNCHANGED <<storeVars, saved, jobVars, batch, stop, drain, auto, met, runVars,
                 fails, upsets>>

-----------------------------------------------------------------------------
\* start_on_demand_analysis clears the cancel event before it takes the lock.
StartClear(h) ==
  /\ req[h] = "free"
  /\ req' = [req EXCEPT ![h] = "starting"]
  /\ stop' = [stop EXCEPT ![OnDemand] = FALSE]
  /\ UNCHANGED <<storeVars, saved, jobVars, pc, batch, drain, auto, met, status,
                 window, started, asked, fails, upsets>>

StartRefused(h) ==
  /\ req[h] = "starting" /\ status = "running"
  /\ req' = [req EXCEPT ![h] = "free"]
  /\ UNCHANGED <<storeVars, saved, jobVars, threadVars, status, window, started,
                 asked, fails, upsets>>

StartAccepted(h, since, until) ==
  /\ req[h] = "starting" /\ status # "running"
  /\ req' = [req EXCEPT ![h] = "free"]
  /\ status' = "running"
  /\ window' = [since |-> since, until |-> until]
  /\ started' = 0
  /\ asked' = FALSE
  /\ Goto(OnDemand, "count")
  /\ UNCHANGED <<storeVars, saved, jobVars, batch, stop, drain, auto, met, fails, upsets>>

\* Faulty: with nothing pending the thread returns and leaves the state running.
CountForgets ==
  /\ pc[OnDemand] = "count"
  /\ Goto(OnDemand, IF Unanalyzed(OnDemand) = {} THEN "off" ELSE "check")
  /\ UNCHANGED <<storeVars, saved, jobVars, batch, stop, drain, auto, met, runVars,
                 fails, upsets>>

\* _on_demand_thread before the loop: nothing pending ends the run at once.
Count ==
  /\ pc[OnDemand] = "count"
  /\ IF Unanalyzed(OnDemand) = {} THEN Finish(OnDemand, "done")
     ELSE Goto(OnDemand, "check") /\ UNCHANGED <<status, window, req, asked>>
  /\ UNCHANGED <<storeVars, saved, jobVars, batch, stop, drain, auto, met, started,
                 fails, upsets>>

\* cancel_on_demand_analysis tests the state under the lock and sets the event
\* after releasing it; a cancel while nothing runs is refused.
CancelCheck(h) ==
  /\ req[h] = "free" /\ status = "running"
  /\ req' = [req EXCEPT ![h] = "cancelling"]
  /\ UNCHANGED <<storeVars, saved, jobVars, threadVars, status, window, started,
                 asked, fails, upsets>>

CancelSet(h) ==
  /\ req[h] = "cancelling"
  /\ req' = [req EXCEPT ![h] = "free"]
  /\ stop' = [stop EXCEPT ![OnDemand] = TRUE]
  /\ asked' = (status = "running")
  /\ UNCHANGED <<storeVars, saved, jobVars, pc, batch, drain, auto, met, status,
                 window, started, fails, upsets>>

-----------------------------------------------------------------------------
\* AnalysisWorker.run_on_demand: the rows that are still there, or a failed job.
RunOnDemand(j, S) ==
  LET lines == Lines(S \cap live) IN
  /\ job[j].status = "none"
  /\ job' = [job EXCEPT ![j] =
               [status |-> IF S \cap live = {} THEN "failed" ELSE "running",
                lines |-> lines, aid |-> 0]]
  /\ workers' = IF S \cap live = {} THEN workers ELSE workers \cup {j}
  /\ UNCHANGED <<storeVars, saved, threadVars, runVars, fails, upsets>>

\* The answer is saved in one transaction and the job completed in the next.
WorkerSave(j) ==
  /\ j \in workers /\ job[j].aid = 0
  /\ InsertAnalysis(job[j].lines, "ok")
  /\ job' = [job EXCEPT ![j].aid = Len(analyses) + 1]
  /\ UNCHANGED <<storeVars, workers, threadVars, runVars, fails, upsets>>

\* Faulty: the job is completed before its analysis is saved.
WorkerDoneEarly(j) ==
  /\ j \in workers
  /\ job' = [job EXCEPT ![j].status = "done"]
  /\ workers' = workers \ {j}
  /\ UNCHANGED <<storeVars, saved, threadVars, runVars, fails, upsets>>

WorkerDone(j) ==
  /\ j \in workers /\ job[j].aid # 0
  /\ job' = [job EXCEPT ![j].status = "done"]
  /\ workers' = workers \ {j}
  /\ UNCHANGED <<storeVars, saved, threadVars, runVars, fails, upsets>>

\* Faulty: the worker writes a status no reader of the table knows.
WorkerFailUnknown(j) ==
  /\ j \in workers /\ job[j].aid = 0
  /\ fails < MaxFails
  /\ job' = [job EXCEPT ![j].status = "error"]
  /\ workers' = workers \ {j}
  /\ fails' = fails + 1
  /\ UNCHANGED <<storeVars, saved, threadVars, runVars, upsets>>

WorkerFail(j) ==
  /\ j \in workers /\ job[j].aid = 0
  /\ fails < MaxFails
  /\ job' = [job EXCEPT ![j].status = "failed"]
  /\ workers' = workers \ {j}
  /\ fails' = fails + 1
  /\ UNCHANGED <<storeVars, saved, threadVars, runVars, upsets>>

-----------------------------------------------------------------------------
\* PUT /api/settings or its reload on web thread h: once the settings are in
\* effect, reconfigure_hub_llm_workers starts a drain, or tells the present one
\* to stop and forgets it without waiting for it.  It holds no lock: another
\* save may come between any two of its reads and writes of _scheduled_drain.
Saving == {"read", "on", "off", "again", "create", "start", "stop", "forget"}
SaveGoto(h, l) == req' = [req EXCEPT ![h] = l]

SaveSettings(h, a) ==
  /\ req[h] = "free"
  /\ upsets < MaxUpsets
  /\ upsets' = upsets + 1
  /\ auto' = a
  /\ met' = (met \/ \E g \in Requests : req[g] \in Saving)
  /\ SaveGoto(h, "read")
  /\ UNCHANGED <<storeVars, saved, jobVars, pc, batch, stop, drain, status, window,
                 started, asked, fails>>

\* The settings are read once to decide and once more by _start_scheduled_drain.
SaveRead(h) ==
  /\ \/ req[h] = "read" /\ SaveGoto(h, IF auto THEN "on" ELSE "off")
     \/ req[h] = "again" /\ SaveGoto(h, IF auto THEN "create" ELSE "free")
  /\ UNCHANGED <<storeVars, saved, jobVars, threadVars, status, window, started,
                 asked, fails, upsets>>

SaveCheck(h) ==
  /\ \/ req[h] = "on" /\ SaveGoto(h, IF drain = NoDrain THEN "again" ELSE "free")
     \/ req[h] = "off" /\ SaveGoto(h, IF drain # NoDrain THEN "stop" ELSE "free")
  /\ UNCHANGED <<storeVars, saved, jobVars, threadVars, status, window, started,
                 asked, fails, upsets>>

SaveCreate(h) ==
  /\ req[h] = "create"
  /\ SaveGoto(h, "start")
  /\ \E d \in Drains \ {drain} :
        /\ pc[d] \in {"off", "made"}
        /\ drain' = d
        /\ Goto(d, "made")
        /\ stop' = [stop EXCEPT ![d] = FALSE]
  /\ UNCHANGED <<storeVars, saved, jobVars, batch, auto, met, status, window, started,
                 asked, fails, upsets>>

\* Started is the thread _scheduled_drain names by now; if that is none, or one
\* that was started before, the exception ends the save.
SaveStart(h) ==
  /\ req[h] = "start"
  /\ SaveGoto(h, "free")
  /\ IF drain # NoDrain /\ pc[drain] = "made" THEN Goto(drain, "wait") ELSE UNCHANGED pc
  /\ UNCHANGED <<storeVars, saved, jobVars, batch, stop, drain, auto, met, status, window,
                 started, asked, fails, upsets>>

\* Faulty: the present drain is forgotten and never told to stop.
SaveStopLeaks(h) ==
  /\ req[h] = "stop"
  /\ SaveGoto(h, IF drain = NoDrain THEN "free" ELSE "forget")
  /\ UNCHANGED <<storeVars, saved, jobVars, threadVars, status, window, started,
                 asked, fails, upsets>>

SaveStop(h) ==
  /\ req[h] = "stop"
  /\ IF drain = NoDrain THEN SaveGoto(h, "free") /\ UNCHANGED stop
     ELSE SaveGoto(h, "forget") /\ stop' = [stop EXCEPT ![drain] = TRUE]
  /\ UNCHANGED <<storeVars, saved, jobVars, pc, batch, drain, auto, met, status, window,
                 started, asked, fails, upsets>>

SaveForget(h) ==
  /\ req[h] = "forget"
  /\ SaveGoto(h, "free")
  /\ drain' = NoDrain
  /\ UNCHANGED <<storeVars, saved, jobVars, pc, batch, stop, auto, met, status, window,
                 started, asked, fails, upsets>>

Save(h) ==
  SaveRead(h) \/ SaveCheck(h) \/ SaveCreate(h) \/ SaveStart(h) \/ SaveStop(h) \/ SaveForget(h)

\* A crash loses every thread; init_hub_services starts over from the tables.
Restart(m) ==
  /\ upsets < MaxUpsets
  /\ upsets' = upsets + 1
  /\ Reopen(m)
  /\ workers' = {}
  /\ drain' \in IF auto THEN Drains ELSE {NoDrain}
  /\ pc' = [t \in Threads |-> IF t = drain' THEN "wait" ELSE "off"]
  /\ batch' = [t \in Threads |-> NoLines]
  /\ stop' = [t \in Threads |-> FALSE]
  /\ status' = "idle"
  /\ req' = [h \in Requests |-> "free"]
  /\ asked' = FALSE
  /\ met' = FALSE
  /\ UNCHANGED <<saved, job, auto, window, started, fails>>

\* Ingest and retention; a new row is unanalyzed.
Ingest ==
  /\ InsertAny
  /\ verdict' = [verdict EXCEPT ![nextId] = 0]
  /\ UNCHANGED <<analyses, jobVars, threadVars, runVars, fails, upsets>>

Expire ==
  /\ \/ \E cutoff \in 1..now : DeleteOlderThan(cutoff)
     \/ Tick
  /\ UNCHANGED <<saved, jobVars, threadVars, runVars, fails, upsets>>

-----------------------------------------------------------------------------
Init ==
  /\ StoreInit
  /\ verdict = [e \in Ids |-> 0]
  /\ analyses = <<>>
  /\ job = [j \in Jobs |-> [status |-> "none", lines |-> NoLines, aid |-> 0]]
  /\ workers = {}
  /\ auto \in BOOLEAN
  /\ drain \in IF auto THEN Drains ELSE {NoDrain}
  /\ pc = [t \in Threads |-> IF t = drain THEN "wait" ELSE "off"]
  /\ batch = [t \in Threads |-> NoLines]
  /\ stop = [t \in Threads |-> FALSE]
  /\ status = "idle"
  /\ window = [since |-> 0, until |-> 0]
  /\ started = 0
  /\ req = [h \in Requests |-> "free"]
  /\ asked = FALSE
  /\ met = FALSE
  /\ fails = 0
  /\ upsets = 0

Step(t) == Check(t) \/ Fetch(t) \/ Skip(t) \/ LlmOk(t) \/ LlmFail(t) \/ Gap(t)

Next ==
  \/ Ingest
  \/ Expire
  \/ \E t \in Threads : Step(t)
  \/ \E d \in Drains : Wake(d)
  \/ Count
  \/ \E h \in Requests :
        \/ StartClear(h) \/ StartRefused(h) \/ CancelCheck(h) \/ CancelSet(h)
        \/ \E a \in BOOLEAN : SaveSettings(h, a)
        \/ Save(h)
        \/ \E until \in 0..now : \E since \in 0..until : StartAccepted(h, since, until)
  \/ \E j \in Jobs :
        \/ \E S \in SUBSET Ids : RunOnDemand(j, S)
        \/ WorkerSave(j) \/ WorkerDone(j) \/ WorkerFail(j)
  \/ \E m \in MaxEventsChoices : Restart(m)

Spec == Init /\ [][Next]_vars

\* Threads run, those that serve a save too; an LLM call ends, by its timeout
\* at the latest.
Fairness ==
  /\ \A t \in Threads : WF_vars(Step(t))
  /\ \A d \in Drains : WF_vars(Wake(d))
  /\ \A h \in Requests : WF_vars(Save(h))
  /\ WF_vars(Count)

FairSpec == Spec /\ Fairness
-----------------------------------------------------------------------------
LineMaps == UNION {[S -> Messages] : S \in SUBSET Ids}

TypeOK ==
  /\ StoreTypeOK
  /\ verdict \in [Ids -> 0..Len(analyses)]
  /\ \A a \in DOMAIN analyses :
        analyses[a] \in [lines : LineMaps, kind : {"ok", "skip", "error"}]
  /\ \A j \in Jobs : /\ job[j].status \in {"none", "running", "done", "failed"}
                     /\ job[j].lines \in LineMaps
                     /\ job[j].aid \in 0..Len(analyses)
  /\ workers \subseteq {j \in Jobs : job[j].status = "running"}
  /\ pc \in [Threads -> {"off", "count", "check", "fetch", "skip", "llm", "gap", "wait", "made"}]
  /\ batch \in [Threads -> LineMaps]
  /\ stop \in [Threads -> BOOLEAN]
  /\ drain \in Drains \cup {NoDrain}
  /\ auto \in BOOLEAN /\ met \in BOOLEAN
  /\ status \in {"idle", "running", "done", "error", "cancelled"}
  /\ window.since \in 0..MaxNow /\ window.until \in 0..MaxNow
  /\ req \in [Requests -> {"free", "starting", "cancelling"} \cup Saving]
  /\ asked \in BOOLEAN

\* The verdict on an event comes from an analysis that read that very event:
\* batches are answered long after they were fetched, their rows may be gone
\* by then, and a new row must never inherit a verdict on another message.
\* A failed analysis gives no verdict, and only a blocked line is skipped.
VerdictSound ==
  \A e \in live : verdict[e] # 0 =>
    LET a == analyses[verdict[e]] IN
    /\ e \in DOMAIN a.lines /\ a.lines[e] = row[e].msg
    /\ a.kind # "error"
    /\ a.kind = "skip" => row[e].msg \in Blocked

\* However many drains, runs and jobs analyse one event at once, it carries
\* the verdict of the newest successful analysis that covered it.
VerdictNewest ==
  \A e \in live : \A a \in DOMAIN analyses :
    e \in DOMAIN analyses[a].lines /\ analyses[a].kind # "error" => verdict[e] >= a

\* The state shown to the user says running exactly while the on-demand thread
\* exists; a run that left it at running would refuse every later start.
RunningIsAlive == (status = "running") <=> (pc[OnDemand] # "off")

\* Unless two settings saves overlapped since the last restart, at most one
\* drain is not told to stop, and it is the one the hub knows: any other thread
\* is on its way out after its current batch.  Between saves that one runs
\* exactly while automatic analysis is on.
OneDrain ==
  ~met =>
    /\ \A d \in Drains : pc[d] # "off" /\ ~stop[d] => d = drain
    /\ (\A h \in Requests : req[h] \notin Saving) =>
         IF auto THEN drain # NoDrain /\ pc[drain] \notin {"off", "made"} /\ ~stop[drain]
         ELSE drain = NoDrain

\* A job is completed only with a saved analysis of its own events, and every
\* one of those still in the table shows that verdict or a newer one.
JobSound ==
  \A j \in Jobs : job[j].status = "done" =>
    /\ job[j].aid # 0
    /\ analyses[job[j].aid] = [lines |-> job[j].lines, kind |-> "ok"]
    /\ \A e \in live \cap DOMAIN job[j].lines : verdict[e] >= job[j].aid

\* "Request stop after the current batch finishes." (analysis_service.py:357):
\* once a cancel is accepted the run starts no further batch.
CancelHonoured ==
  [][asked /\ pc[OnDemand] = "check" => pc'[OnDemand] # "fetch"]_vars

\* Every on-demand run ends.
RunEnds == (status = "running") ~> (status # "running")

\* While automatic analysis stays on, no two saves overlapped and LLM failures
\* are finitely many, every event is analysed or leaves the table: no event is
\* starved by newer ones, by a failed batch ahead of it, or by drains that were
\* stopped or replaced.
EventsHandled ==
  (<>[](auto /\ ~met)) => \A e \in Ids :
    (e \in live /\ verdict[e] = 0) ~> (e \notin live \/ verdict[e] # 0)
=============================================================================
