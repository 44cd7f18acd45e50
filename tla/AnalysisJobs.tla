---------------------------- MODULE AnalysisJobs ----------------------------
(***************************************************************************)
(* LLM analysis of log files: the jobs table and its history               *)
(* (syslogb/app/store.py), the worker thread that runs queued jobs         *)
(* (analyze_worker.py), the scheduler thread that starts and polls the     *)
(* jobs of schedules (analysis_scheduler.py), and the web threads that     *)
(* create and cancel jobs and edit schedules (web/routes.py).              *)
(*                                                                         *)
(* Each method of the store is one transaction and one action here; what   *)
(* a thread read before is kept in its program counter and locals.  An     *)
(* analysis is a number of progress reports, each of which looks for a     *)
(* cancel first; what it computes is reduced to whether its findings call  *)
(* for an alert.                                                           *)
(***************************************************************************)
EXTENDS Integers, FiniteSets, Sequences

CONSTANTS
  Jobs,         \* job ids
  Scheds,       \* schedule ids, each for a path of its own
  NoJob, NoSched,
  Keep,         \* analysis_history_keep()
  Reports,      \* progress reports of one analysis
  MaxRestarts,  \* bound: restarts of the process
  MaxFaults     \* bound: store calls that raise outside the handlers

ASSUME JobsAssumption ==
  /\ NoJob \notin Jobs /\ NoSched \notin Scheds
  /\ Keep \in 1..50
  /\ Reports \in Nat /\ MaxRestarts \in Nat /\ MaxFaults \in Nat

VARIABLES
  job,       \* table jobs: status, and whether the result calls for an alert
  history,   \* the finished jobs of the table, oldest first
  sched,     \* table analysis_schedules
  creating,  \* jobs that a web thread has created and not yet enqueued
  queue,     \* AnalyzeWorker._q
  wpc, cur, left,       \* the worker: where it is, its job, reports to come
  spc, polls, todo, at, \* the scheduler: where it is, what it has yet to poll
                        \* and to start, and the schedule it is starting
  found,     \* the job it has read and is about to settle
  pending,   \* AnalysisScheduler._pending
  alerts,    \* history: alerts sent for each job
  mine,      \* history: jobs created by the present process
  model,     \* LLM_ENABLED: on, off, or off ever since the process started
  restarts, faults  \* counters for the bounds

worker == <<wpc, cur, left>>
scheduler == <<spc, polls, todo, at, found, pending>>
tables == <<job, history, sched>>
bounds == <<restarts, faults>>
vars == <<tables, creating, queue, worker, scheduler, alerts, mine, model, bounds>>

Nothing == [id |-> NoJob, status |-> "none", grave |-> FALSE]
Forget == at' = NoSched /\ found' = Nothing

Active(j) == job[j].status \in {"pending", "running"}
SetStatus(j, st) == job' = [job EXCEPT ![j].status = st]
Due(s) == sched[s].state = "on" /\ sched[s].due

\* UPDATE analysis_schedules ... WHERE id = s: nothing once s is deleted.
Exists(s) == sched[s].state \in {"on", "off"}
SetLast(s, last) ==
  sched' = IF Exists(s) THEN [sched EXCEPT ![s].last = last] ELSE sched
SetRun(s, last, j) ==
  sched' = IF Exists(s)
           THEN [sched EXCEPT ![s] = [@ EXCEPT !.last = last, !.job = j, !.due = FALSE]]
           ELSE sched

-----------------------------------------------------------------------------
(* The web threads. *)

\* A save of the settings.
SwitchModel ==
  /\ model' = IF model = "on" THEN "off" ELSE "on"
  /\ UNCHANGED <<tables, creating, queue, worker, scheduler, alerts, mine, bounds>>

\* A request is refused while the model is off; one that has passed that check
\* goes on when the model is switched off.
Accepted == model # "never"

CreateJob(j) ==
  /\ Accepted /\ job[j].status = "none"
  /\ SetStatus(j, "pending")
  /\ creating' = creating \cup {j}
  /\ mine' = mine \cup {j}
  /\ UNCHANGED <<history, sched, queue, worker, scheduler, alerts, model, bounds>>

Enqueue(j) ==
  /\ j \in creating
  /\ creating' = creating \ {j}
  /\ queue' = Append(queue, j)
  /\ UNCHANGED <<tables, worker, scheduler, alerts, mine, model, bounds>>

\* Accepted while the job is pending or running, refused otherwise.
CancelJob(j) ==
  /\ Accepted /\ Active(j)
  /\ SetStatus(j, "cancelled")
  /\ UNCHANGED <<history, sched, creating, queue, worker, scheduler, alerts, mine,
                 model, bounds>>

\* Saving a schedule sets its next run in the future and keeps its last_* columns.
UpsertSchedule(s, state) ==
  /\ Accepted /\ sched[s].state # "gone"
  /\ sched' = [sched EXCEPT ![s] = [@ EXCEPT !.state = state, !.due = FALSE]]
  /\ UNCHANGED <<job, history, creating, queue, worker, scheduler, alerts, mine,
                 model, bounds>>

DeleteSchedule(s) ==
  /\ Accepted /\ Exists(s)
  /\ sched' = [sched EXCEPT ![s].state = "gone"]
  /\ UNCHANGED <<job, history, creating, queue, worker, scheduler, alerts, mine,
                 model, bounds>>

\* The clock passes next_run_at.  For a disabled schedule it would not show:
\* enabling it again sets its next run anew.
BecomeDue(s) ==
  /\ sched[s].state = "on" /\ ~sched[s].due
  /\ sched' = [sched EXCEPT ![s].due = TRUE]
  /\ UNCHANGED <<job, history, creating, queue, worker, scheduler, alerts, mine,
                 model, bounds>>

-----------------------------------------------------------------------------
(* AnalyzeWorker._run *)

\* Faulty: a cancelled job ends the loop instead of being passed over.
TakeBreaks ==
  /\ wpc = "idle" /\ queue # <<>>
  /\ queue' = Tail(queue)
  /\ IF job[Head(queue)].status = "cancelled"
     THEN wpc' = "dead" /\ UNCHANGED cur
     ELSE wpc' = "claimed" /\ cur' = Head(queue)
  /\ UNCHANGED <<tables, creating, left, scheduler, alerts, mine, model, bounds>>

\* A job cancelled while it was queued is dropped.
Take ==
  /\ wpc = "idle" /\ queue # <<>>
  /\ queue' = Tail(queue)
  /\ IF job[Head(queue)].status = "cancelled"
     THEN UNCHANGED <<wpc, cur>>
     ELSE wpc' = "claimed" /\ cur' = Head(queue)
  /\ UNCHANGED <<tables, creating, left, scheduler, alerts, mine, model, bounds>>

\* Whatever the status has become since Take looked at it.
MarkRunning ==
  /\ wpc = "claimed"
  /\ SetStatus(cur, "running")
  /\ wpc' = "work"
  /\ left' = Reports
  /\ UNCHANGED <<history, sched, creating, queue, cur, scheduler, alerts, mine, model, bounds>>

\* A cancel seen at a report, or at the end of the analysis, leaves the job as
\* the cancel left it.
Release == wpc' = "idle" /\ cur' = NoJob /\ left' = 0

\* Faulty: the count of reports runs below zero.
ReportTooFar ==
  /\ wpc = "work"
  /\ IF job[cur].status = "cancelled" THEN Release
     ELSE /\ wpc' = IF left = 0 THEN "save" ELSE "work"
          /\ left' = left - 1
          /\ UNCHANGED cur
  /\ UNCHANGED <<tables, creating, queue, scheduler, alerts, mine, model, bounds>>

Report ==
  /\ wpc = "work"
  /\ IF job[cur].status = "cancelled" THEN Release
     ELSE /\ wpc' = IF left = 0 THEN "save" ELSE "work"
          /\ left' = IF left = 0 THEN 0 ELSE left - 1
          /\ UNCHANGED cur
  /\ UNCHANGED <<tables, creating, queue, scheduler, alerts, mine, model, bounds>>

\* Faulty: pruning leaves one analysis fewer than it should.
SaveOffByOne(grave) ==
  LET all == Append(history, cur)
      old == IF Len(all) >= Keep THEN Len(all) - Keep + 1 ELSE 0
  IN  /\ wpc = "save"
      /\ history' = SubSeq(all, old + 1, Len(all))
      /\ job' = [j \in Jobs |->
                   CASE \E i \in 1..old : all[i] = j -> [job[j] EXCEPT !.status = "gone"]
                     [] j = cur -> [status |-> "done", grave |-> grave]
                     [] OTHER -> job[j]]
      /\ Release
      /\ UNCHANGED <<sched, creating, queue, scheduler, alerts, mine, model, bounds>>

\* update_job "done" and, in the same critical section, the pruning of the
\* history to the newest Keep finished analyses.
Save(grave) ==
  LET all == Append(history, cur)
      old == IF Len(all) > Keep THEN Len(all) - Keep ELSE 0
  IN  /\ wpc = "save"
      /\ history' = SubSeq(all, old + 1, Len(all))
      /\ job' = [j \in Jobs |->
                   CASE j = cur -> [status |-> "done", grave |-> grave]
                     [] \E i \in 1..old : all[i] = j -> [job[j] EXCEPT !.status = "gone"]
                     [] OTHER -> job[j]]
      /\ Release
      /\ UNCHANGED <<sched, creating, queue, scheduler, alerts, mine, model, bounds>>

\* Faulty: the exception is logged and the job left running.
FailSilently ==
  /\ wpc \in {"work", "save"}
  /\ Release
  /\ UNCHANGED <<tables, creating, queue, scheduler, alerts, mine, model, bounds>>

\* Any other exception of the analysis or of the saving.
Fail ==
  /\ wpc \in {"work", "save"}
  /\ SetStatus(cur, "failed")
  /\ Release
  /\ UNCHANGED <<history, sched, creating, queue, scheduler, alerts, mine, model, bounds>>

\* A store call outside the try, or in its handler, raises: the thread ends.
WorkerDies ==
  /\ wpc \in {"claimed", "work", "save"} /\ faults < MaxFaults
  /\ faults' = faults + 1
  /\ wpc' = "dead"
  /\ UNCHANGED <<tables, creating, queue, cur, left, scheduler, alerts, mine, model, restarts>>

-----------------------------------------------------------------------------
(* AnalysisScheduler._tick *)

\* A tick does nothing while the model is off.
Wake ==
  /\ spc = "sleep" /\ model = "on"
  /\ spc' = "poll"
  /\ polls' = {j \in Jobs : pending[j] # NoSched}
  /\ UNCHANGED <<tables, creating, queue, worker, todo, at, found, pending, alerts,
                 mine, model, bounds>>

\* Faulty: a settled job is read again at the next tick; a running one never is.
PollJobKeeps(j) ==
  /\ spc = "poll" /\ j \in polls
  /\ polls' = polls \ {j}
  /\ UNCHANGED pending
  /\ IF Active(j) \/ job[j].status = "gone" \/ ~Exists(pending[j])
     THEN UNCHANGED <<spc, at, found>>
     ELSE /\ spc' = "finish"
          /\ at' = pending[j]
          /\ found' = [id |-> j, status |-> job[j].status, grave |-> job[j].grave]
  /\ UNCHANGED <<tables, creating, queue, worker, todo, alerts, mine, model, bounds>>
PollJobForgets(j) ==
  /\ spc = "poll" /\ j \in polls
  /\ polls' = polls \ {j}
  /\ pending' = [pending EXCEPT ![j] = NoSched]
  /\ IF Active(j) \/ job[j].status = "gone" \/ ~Exists(pending[j])
     THEN UNCHANGED <<spc, at, found>>
     ELSE /\ spc' = "finish"
          /\ at' = pending[j]
          /\ found' = [id |-> j, status |-> job[j].status, grave |-> job[j].grave]
  /\ UNCHANGED <<tables, creating, queue, worker, todo, alerts, mine, model, bounds>>

\* A job that is neither pending nor running is read once and forgotten; it is
\* settled with what was read if its schedule is still there.
PollJob(j) ==
  /\ spc = "poll" /\ j \in polls
  /\ polls' = polls \ {j}
  /\ pending' = IF Active(j) THEN pending ELSE [pending EXCEPT ![j] = NoSched]
  /\ IF Active(j) \/ job[j].status = "gone" \/ ~Exists(pending[j])
     THEN UNCHANGED <<spc, at, found>>
     ELSE /\ spc' = "finish"
          /\ at' = pending[j]
          /\ found' = [id |-> j, status |-> job[j].status, grave |-> job[j].grave]
  /\ UNCHANGED <<tables, creating, queue, worker, todo, alerts, mine, model, bounds>>

\* _finish_schedule: findings and failures are alerted; a status it does not
\* know leaves the schedule as it is.
FinishSchedule ==
  /\ spc = "finish"
  /\ IF found.status \in {"done", "error", "cancelled"}
     THEN SetLast(at, found.status) ELSE UNCHANGED sched
  /\ alerts' = IF found.status = "error" \/ (found.status = "done" /\ found.grave)
               THEN [alerts EXCEPT ![found.id] = @ + 1] ELSE alerts
  /\ spc' = "poll"
  /\ Forget
  /\ UNCHANGED <<job, history, creating, queue, worker, polls, todo, pending, mine,
                 model, bounds>>

\* Schedules are started only when no scheduled job is pending, from a list
\* read once.
ListDue ==
  /\ spc = "poll" /\ polls = {}
  /\ IF \E j \in Jobs : pending[j] # NoSched
     THEN spc' = "sleep" /\ UNCHANGED todo
     ELSE spc' = "start" /\ todo' = {s \in Scheds : Due(s)}
  /\ UNCHANGED <<tables, creating, queue, worker, polls, at, found, pending, alerts,
                 mine, model, bounds>>

\* The log file is missing, or a journal has no window.
SkipSchedule(s) ==
  /\ spc = "start" /\ s \in todo
  /\ todo' = todo \ {s}
  /\ SetRun(s, "skipped", sched[s].job)
  /\ UNCHANGED <<job, history, creating, queue, worker, spc, polls, at, found,
                 pending, alerts, mine, model, bounds>>

StartSchedule(s, j) ==
  /\ spc = "start" /\ s \in todo
  /\ job[j].status = "none"
  /\ todo' = todo \ {s}
  /\ SetStatus(j, "pending")
  /\ mine' = mine \cup {j}
  /\ spc' = "created" /\ at' = s /\ found' = [Nothing EXCEPT !.id = j]
  /\ UNCHANGED <<history, sched, creating, queue, worker, polls, pending, alerts,
                 model, bounds>>

\* The rest of _start_schedule: one transaction, then this process's memory.
EnqueueScheduled ==
  /\ spc = "created"
  /\ SetRun(at, "running", found.id)
  /\ pending' = [pending EXCEPT ![found.id] = at]
  /\ queue' = Append(queue, found.id)
  /\ spc' = "start"
  /\ Forget
  /\ UNCHANGED <<job, history, creating, worker, polls, todo, alerts, mine, model, bounds>>

EndTick ==
  /\ spc = "start" /\ todo = {}
  /\ spc' = "sleep"
  /\ UNCHANGED <<tables, creating, queue, worker, polls, todo, at, found, pending,
                 alerts, mine, model, bounds>>

\* A store call of the tick raises: the tick is abandoned.
TickFails ==
  /\ spc # "sleep" /\ faults < MaxFaults
  /\ faults' = faults + 1
  /\ spc' = "sleep"
  /\ polls' = {} /\ todo' = {} /\ Forget
  /\ UNCHANGED <<tables, creating, queue, worker, pending, alerts, mine, model, restarts>>

-----------------------------------------------------------------------------
\* The process stops, in order or not, and starts again: the tables are all
\* that is left, and nobody looks there for jobs that were not finished; a save
\* of the settings that it did not get round to applying may be among them.
Restart ==
  /\ restarts < MaxRestarts
  /\ restarts' = restarts + 1
  /\ creating' = {} /\ queue' = <<>>
  /\ wpc' = "idle" /\ cur' = NoJob /\ left' = 0
  /\ spc' = "sleep" /\ polls' = {} /\ todo' = {} /\ Forget
  /\ pending' = [j \in Jobs |-> NoSched]
  /\ mine' = {}
  /\ model' \in {"on", "never"}
  /\ UNCHANGED <<tables, alerts, faults>>

Init ==
  /\ job = [j \in Jobs |-> [status |-> "none", grave |-> FALSE]]
  /\ history = <<>>
  /\ sched = [s \in Scheds |-> [state |-> "none", due |-> FALSE, last |-> "", job |-> NoJob]]
  /\ creating = {} /\ queue = <<>>
  /\ wpc = "idle" /\ cur = NoJob /\ left = 0
  /\ spc = "sleep" /\ polls = {} /\ todo = {} /\ at = NoSched /\ found = Nothing
  /\ pending = [j \in Jobs |-> NoSched]
  /\ alerts = [j \in Jobs |-> 0]
  /\ mine = {} /\ model \in {"on", "never"}
  /\ restarts = 0 /\ faults = 0

Work == Take \/ MarkRunning \/ Report \/ Fail \/ \E grave \in BOOLEAN : Save(grave)

Tick ==
  \/ Wake \/ FinishSchedule \/ ListDue \/ EnqueueScheduled \/ EndTick
  \/ \E j \in Jobs : PollJob(j)
  \/ \E s \in Scheds : SkipSchedule(s) \/ \E j \in Jobs : StartSchedule(s, j)

Next ==
  \/ \E j \in Jobs : CreateJob(j) \/ Enqueue(j) \/ CancelJob(j)
  \/ \E s \in Scheds : \/ \E state \in {"on", "off"} : UpsertSchedule(s, state)
                       \/ DeleteSchedule(s) \/ BecomeDue(s)
  \/ SwitchModel
  \/ Work \/ WorkerDies
  \/ Tick \/ TickFails
  \/ Restart

Spec == Init /\ [][Next]_vars

\* Threads run, and an analysis ends: LLM calls have a timeout.
Fairness == WF_vars(Work) /\ WF_vars(Tick) /\ \A j \in Jobs : WF_vars(Enqueue(j))

FairSpec == Spec /\ Fairness

-----------------------------------------------------------------------------
Statuses == {"none", "pending", "running", "done", "failed", "cancelled", "gone"}

JobsTypeOK ==
  /\ job \in [Jobs -> [status : Statuses, grave : BOOLEAN]]
  /\ history \in Seq(Jobs)
  /\ sched \in [Scheds -> [state : {"none", "on", "off", "gone"}, due : BOOLEAN,
                           last : {"", "running", "skipped", "done", "error", "cancelled"},
                           job : Jobs \cup {NoJob}]]
  /\ creating \subseteq Jobs /\ queue \in Seq(Jobs)
  /\ wpc \in {"idle", "claimed", "work", "save", "dead"}
  /\ cur \in Jobs \cup {NoJob} /\ left \in 0..Reports
  /\ spc \in {"sleep", "poll", "finish", "start", "created"}
  /\ polls \subseteq Jobs /\ todo \subseteq Scheds /\ at \in Scheds \cup {NoSched}
  /\ found \in [id : Jobs \cup {NoJob}, status : Statuses, grave : BOOLEAN]
  /\ pending \in [Jobs -> Scheds \cup {NoSched}]
  /\ alerts \in [Jobs -> Nat] /\ mine \subseteq Jobs /\ model \in {"on", "off", "never"}
  /\ restarts \in 0..MaxRestarts /\ faults \in 0..MaxFaults

\* Somebody has job j, and will run it.
HasHolder(j) ==
  \/ j \in creating \/ j = cur \/ \E i \in DOMAIN queue : queue[i] = j
  \/ spc = "created" /\ found.id = j

\* No unfinished job of this process is lost or run twice, whatever cancels hit
\* it: it is with exactly one of the web thread that created it, the queue
\* (once) and the worker, unless the tick that created it was abandoned; and
\* only the worker's job says running.
Held ==
  /\ \A j \in mine : Active(j) /\ faults = 0 => HasHolder(j)
  /\ \A i, k \in DOMAIN queue : queue[i] = queue[k] => i = k
  /\ \A i \in DOMAIN queue : queue[i] # cur /\ queue[i] \notin creating
  /\ \A j \in mine : job[j].status = "running" => j = cur

\* Pruning drops finished analyses only, the oldest first, and never more than
\* brings the history down to Keep: the one just saved is always kept.
HistoryKept ==
  [][\A j \in Jobs : job'[j].status = "gone" /\ job[j].status # "gone" =>
       /\ Len(history') = Keep
       /\ \E i \in DOMAIN history :
            history[i] = j /\ \A k \in 1..i : job'[history[k]].status = "gone"]_vars

\* Findings are alerted at most once for a job and only when its analysis has
\* finished and called for it, although the job is polled, cancelled, restarted
\* and pruned concurrently.
AlertSound == \A j \in Jobs : alerts[j] <= 1 /\ (alerts[j] = 1 => job[j].grave)

\* Every job of a living process is eventually settled: none waits for ever
\* behind another, and none is left running by a cancel.  Excepted are the jobs
\* behind a worker whose thread has ended, and the one job of a tick that was
\* abandoned before it had enqueued it.
JobsSettle ==
  \A j \in Jobs : (j \in mine /\ Active(j))
    ~> (~Active(j) \/ j \notin mine \/ (faults > 0 /\ (wpc = "dead" \/ ~HasHolder(j))))

\* j is the run that schedule s shows as running.
LastRun(s, j) == sched[s].job = j /\ sched[s].last = "running"

\* Findings of a scheduled analysis reach its channels, also when the model is
\* switched off for a while after the analysis: they are lost only with the
\* scheduler's memory, with the tick that had them in hand, with the schedule, to
\* the pruning of the history, or to a cancel that the scheduler saw before the
\* worker overwrote it.
AlertsArrive ==
  <>[](model = "on") =>
    \A j \in Jobs, s \in Scheds :
      (LastRun(s, j) /\ job[j].status = "done" /\ job[j].grave)
        ~> (alerts[j] = 1 \/ job[j].status = "gone" \/ ~Exists(s)
            \/ sched[s].last = "cancelled" \/ j \notin mine
            \/ (faults > 0 /\ pending[j] = NoSched /\ found.id # j))

\* "Scheduled LLM analysis failed for" (analysis_scheduler.py:259): an analysis
\* that fails is reported to the channels of its schedule.
FailuresArrive ==
  <>[](model = "on") =>
    \A j \in Jobs, s \in Scheds :
      (LastRun(s, j) /\ job[j].status = "failed")
        ~> (alerts[j] = 1 \/ ~Exists(s) \/ j \notin mine \/ faults > 0)
=============================================================================
