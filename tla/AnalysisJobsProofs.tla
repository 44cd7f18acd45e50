------------------------- MODULE AnalysisJobsProofs -------------------------
(***************************************************************************)
(* Theorems about AnalysisJobs: whatever the web threads, the worker and   *)
(* the scheduler do to each other, a job is held by one of them, alerts at *)
(* most once, and leaves the history only as the oldest of it.             *)
(***************************************************************************)
EXTENDS AnalysisJobs, SequenceTheorems, TLAPS

-----------------------------------------------------------------------------
(* Types. *)

JobRecord == [status : Statuses, grave : BOOLEAN]
SchedRecord ==
  [state : {"none", "on", "off", "gone"}, due : BOOLEAN,
   last : {"", "running", "skipped", "done", "error", "cancelled"},
   job : Jobs \cup {NoJob}]
FoundRecord == [id : Jobs \cup {NoJob}, status : Statuses, grave : BOOLEAN]

\* A thread that works on a job or a schedule has one.
Busy ==
  /\ wpc \in {"claimed", "work", "save"} => cur \in Jobs
  /\ wpc = "idle" => cur = NoJob
  /\ spc \in {"finish", "created"} => found.id \in Jobs /\ at \in Scheds
  /\ \A j \in polls : pending[j] # NoSched

TypeInv == JobsTypeOK /\ Busy

LEMMA StatusType ==
  ASSUME job \in [Jobs -> JobRecord], NEW j \in Jobs, NEW st \in Statuses, SetStatus(j, st)
  PROVE  /\ job' \in [Jobs -> JobRecord]
         /\ job'[j].status = st /\ job'[j].grave = job[j].grave
         /\ \A k \in Jobs \ {j} : job'[k] = job[k]
BY DEF SetStatus, JobRecord

LEMMA SetRunType ==
  ASSUME sched \in [Scheds -> SchedRecord], NEW s \in Scheds,
         NEW last \in {"running", "skipped"}, NEW j \in Jobs \cup {NoJob}, SetRun(s, last, j)
  PROVE  sched' \in [Scheds -> SchedRecord]
<1>1. [sched[s] EXCEPT !.last = last, !.job = j, !.due = FALSE] \in SchedRecord
  BY DEF SchedRecord
<1>2. QED
  BY <1>1 DEF SetRun

LEMMA SetLastType ==
  ASSUME sched \in [Scheds -> SchedRecord], NEW s \in Scheds,
         NEW last \in {"done", "error", "cancelled"}, SetLast(s, last)
  PROVE  sched' \in [Scheds -> SchedRecord]
<1>1. [sched[s] EXCEPT !.last = last] \in SchedRecord
  BY DEF SchedRecord
<1>2. QED
  BY <1>1 DEF SetLast

\* What a save does to the tables.
LEMMA SaveEffect ==
  ASSUME TypeInv, NEW grave \in BOOLEAN, Save(grave)
  PROVE  /\ cur \in Jobs /\ wpc = "save" /\ Release
         /\ history' \in Seq(Jobs) /\ Len(history') <= Keep
         /\ job' \in [Jobs -> JobRecord] /\ job'[cur] = [status |-> "done", grave |-> grave]
         /\ \A j \in Jobs \ {cur} :
              \/ job'[j] = job[j]
              \/ /\ job'[j] = [job[j] EXCEPT !.status = "gone"]
                 /\ Len(history') = Keep
                 /\ \E i \in DOMAIN history :
                      /\ history[i] = j
                      /\ \A k \in 1..i :
                           history[k] # cur => job'[history[k]].status = "gone"
         /\ \A i \in DOMAIN history' :
              history'[i] = cur \/ \E k \in DOMAIN history : history'[i] = history[k]
<1> DEFINE all == Append(history, cur)
           old == IF Len(all) > Keep THEN Len(all) - Keep ELSE 0
<1>1. /\ wpc = "save" /\ Release /\ cur \in Jobs
      /\ history' = SubSeq(all, old + 1, Len(all))
      /\ job' = [j \in Jobs |->
                   CASE j = cur -> [status |-> "done", grave |-> grave]
                     [] j # cur /\ (\E i \in 1..old : all[i] = j) -> [job[j] EXCEPT !.status = "gone"]
                     [] OTHER -> job[j]]
  BY DEF Save, TypeInv, Busy
<1>2. history \in Seq(Jobs) /\ job \in [Jobs -> JobRecord] /\ Keep \in Nat \ {0}
  <2>1. history \in Seq(Jobs) /\ job \in [Jobs -> JobRecord]
    BY DEF TypeInv, JobsTypeOK, JobRecord
  <2>2. Keep \in Nat \ {0}
    BY JobsAssumption DEF JobsAssumption
  <2>3. QED
    BY <2>1, <2>2
<1>3. /\ all \in Seq(Jobs) /\ Len(all) = Len(history) + 1 /\ Len(history) \in Nat
      /\ all[Len(history) + 1] = cur /\ \A i \in 1..Len(history) : all[i] = history[i]
  BY <1>1, <1>2
<1>4. old \in 0..Len(history)
  BY <1>2, <1>3
<1>5. /\ history' \in Seq(Jobs) /\ Len(history') = Len(all) - old
      /\ \A i \in 1..Len(history') : history'[i] = all[old + i]
  <2> DEFINE m == old + 1
             n == Len(all)
  <2>1. m \in 1..n /\ m \in Int /\ n \in Int /\ n - m + 1 = Len(all) - old
    BY <1>3, <1>4
  <2>2. \A i \in m..n : all[i] \in Jobs
    BY <1>3, <2>1
  <2>3. history' = SubSeq(all, m, n)
    BY <1>1
  <2> HIDE DEF m, n, all
  <2>4. /\ SubSeq(all, m, n) \in Seq(Jobs)
        /\ Len(SubSeq(all, m, n)) = n - m + 1
        /\ \A i \in 1..(n - m + 1) : SubSeq(all, m, n)[i] = all[m + i - 1]
    BY <2>1, <2>2, SubSeqProperties
  <2>5. \A i \in 1..(n - m + 1) : m + i - 1 = old + i
    BY <1>4, <2>1 DEF m
  <2>6. QED
    BY <2>1, <2>3, <2>4, <2>5
<1>6. Len(history') <= Keep /\ (old # 0 => Len(history') = Keep)
  BY <1>2, <1>3, <1>5
<1>7. ASSUME NEW j \in Jobs
      PROVE  /\ job'[j] \in JobRecord
             /\ j = cur => job'[j] = [status |-> "done", grave |-> grave]
             /\ j # cur => job'[j] = IF \E i \in 1..old : all[i] = j
                                     THEN [job[j] EXCEPT !.status = "gone"] ELSE job[j]
  BY <1>1, <1>2 DEF JobRecord, Statuses
<1>8. job' \in [Jobs -> JobRecord]
  BY <1>1, <1>7
<1> HIDE DEF all, old
<1>9. ASSUME NEW j \in Jobs \ {cur}, job'[j] # job[j]
      PROVE  /\ job'[j] = [job[j] EXCEPT !.status = "gone"]
             /\ Len(history') = Keep
             /\ \E i \in DOMAIN history :
                  /\ history[i] = j
                  /\ \A k \in 1..i : history[k] # cur => job'[history[k]].status = "gone"
  <2>1. PICK i \in 1..old : all[i] = j
    BY <1>7, <1>9
  <2>2. i \in 1..Len(history) /\ history[i] = j /\ old # 0
    BY <1>3, <1>4, <2>1
  <2>3. ASSUME NEW k \in 1..i, history[k] # cur PROVE job'[history[k]].status = "gone"
    <3>1. k \in 1..old /\ k \in 1..Len(history) /\ all[k] = history[k] /\ history[k] \in Jobs
      BY <1>2, <1>3, <1>4, <2>1, <2>2
    <3>2. job'[history[k]] = [job[history[k]] EXCEPT !.status = "gone"]
      BY <1>7, <2>3, <3>1
    <3>3. QED
      BY <1>2, <3>1, <3>2 DEF JobRecord
  <2>4. QED
    BY <1>2, <1>6, <1>7, <2>1, <2>2, <2>3
<1>10. ASSUME NEW i \in DOMAIN history'
       PROVE  history'[i] = cur \/ \E k \in DOMAIN history : history'[i] = history[k]
  <2>1. /\ i \in 1..Len(history') /\ history'[i] = all[old + i]
        /\ old + i \in 1..(Len(history) + 1)
    BY <1>3, <1>4, <1>5
  <2>2. CASE old + i = Len(history) + 1
    BY <1>3, <2>1, <2>2
  <2>3. CASE old + i # Len(history) + 1
    BY <1>2, <1>3, <2>1, <2>3
  <2>4. QED
    BY <2>2, <2>3
<1>11. QED
  BY <1>1, <1>5, <1>6, <1>7, <1>8, <1>9, <1>10

LEMMA TypeStep ==
  ASSUME TypeInv, [Next]_vars
  PROVE  TypeInv'
<1> USE JobsAssumption DEF JobsAssumption
<1> DEFINE W == /\ wpc \in {"idle", "claimed", "work", "save", "dead"}
                /\ cur \in Jobs \cup {NoJob} /\ left \in 0..Reports
                /\ wpc \in {"claimed", "work", "save"} => cur \in Jobs
                /\ wpc = "idle" => cur = NoJob
           S == /\ spc \in {"sleep", "poll", "finish", "start", "created"}
                /\ polls \subseteq Jobs /\ todo \subseteq Scheds /\ at \in Scheds \cup {NoSched}
                /\ found \in FoundRecord
                /\ pending \in [Jobs -> Scheds \cup {NoSched}]
                /\ spc \in {"finish", "created"} => found.id \in Jobs /\ at \in Scheds
                /\ \A j \in polls : pending[j] # NoSched
           T == /\ job \in [Jobs -> JobRecord] /\ history \in Seq(Jobs)
                /\ sched \in [Scheds -> SchedRecord]
           Q == creating \subseteq Jobs /\ queue \in Seq(Jobs) /\ mine \subseteq Jobs
           B == restarts \in 0..MaxRestarts /\ faults \in 0..MaxFaults
           A == alerts \in [Jobs -> Nat] /\ model \in {"on", "off", "never"}
<1>0. TypeInv <=> W /\ S /\ T /\ Q /\ B /\ A
  BY DEF TypeInv, JobsTypeOK, Busy, JobRecord, SchedRecord, FoundRecord
<1>1. (TypeInv <=> W /\ S /\ T /\ Q /\ B /\ A)'
  BY DEF TypeInv, JobsTypeOK, Busy, JobRecord, SchedRecord, FoundRecord
<1>2. W /\ S /\ T /\ Q /\ B /\ A
  BY <1>0
<1>w. UNCHANGED worker => W'
  BY <1>2 DEF worker
<1>s. UNCHANGED scheduler => S'
  BY <1>2 DEF scheduler
<1>t. UNCHANGED tables => T'
  BY <1>2 DEF tables
<1>b. UNCHANGED bounds => B'
  BY <1>2 DEF bounds
<1>q. UNCHANGED <<creating, queue, mine>> => Q'
  BY <1>2
<1>a. UNCHANGED <<alerts, model>> => A'
  BY <1>2
<1>n. Nothing \in FoundRecord
  BY DEF Nothing, FoundRecord, Statuses
<1>j. ASSUME NEW j \in Jobs, NEW st \in Statuses, SetStatus(j, st), UNCHANGED <<history, sched>>
      PROVE  T'
  BY <1>2, <1>j, StatusType
<1>st. {"pending", "running", "cancelled", "failed", "done", "gone"} \subseteq Statuses
  BY DEF Statuses
<1> HIDE DEF W, S, T, Q, B, A
<1>3. ASSUME NEW j \in Jobs, CreateJob(j) PROVE TypeInv'
  <2>1. W' /\ S' /\ B' /\ A'
    BY <1>3, <1>w, <1>s, <1>b, <1>a DEF CreateJob
  <2>2. T'
    BY <1>3, <1>j, <1>st DEF CreateJob
  <2>3. Q'
    BY <1>2, <1>3 DEF CreateJob, Q
  <2>4. QED
    BY <1>1, <2>1, <2>2, <2>3
<1>4. ASSUME NEW j \in Jobs, Enqueue(j) PROVE TypeInv'
  <2>1. W' /\ S' /\ B' /\ A' /\ T'
    BY <1>4, <1>w, <1>s, <1>b, <1>a, <1>t DEF Enqueue
  <2>2. Q'
    BY <1>2, <1>4 DEF Enqueue, Q
  <2>3. QED
    BY <1>1, <2>1, <2>2
<1>5. ASSUME NEW j \in Jobs, CancelJob(j) PROVE TypeInv'
  <2>1. W' /\ S' /\ B' /\ A' /\ Q'
    BY <1>5, <1>w, <1>s, <1>b, <1>a, <1>q DEF CancelJob
  <2>2. T'
    BY <1>5, <1>j, <1>st DEF CancelJob
  <2>3. QED
    BY <1>1, <2>1, <2>2
<1>6. ASSUME NEW s \in Scheds, NEW state \in {"on", "off"}, UpsertSchedule(s, state)
      PROVE  TypeInv'
  <2>1. W' /\ S' /\ B' /\ A' /\ Q'
    BY <1>6, <1>w, <1>s, <1>b, <1>a, <1>q DEF UpsertSchedule
  <2>2. [sched[s] EXCEPT !.state = state, !.due = FALSE] \in SchedRecord
    BY <1>2 DEF T, SchedRecord
  <2>3. T'
    BY <1>2, <1>6, <2>2 DEF UpsertSchedule, T
  <2>4. QED
    BY <1>1, <2>1, <2>3
<1>7. ASSUME NEW s \in Scheds, DeleteSchedule(s) \/ BecomeDue(s) PROVE TypeInv'
  <2>1. W' /\ S' /\ B' /\ A' /\ Q'
    BY <1>7, <1>w, <1>s, <1>b, <1>a, <1>q DEF DeleteSchedule, BecomeDue
  <2>2. /\ [sched[s] EXCEPT !.state = "gone"] \in SchedRecord
        /\ [sched[s] EXCEPT !.due = TRUE] \in SchedRecord
    BY <1>2 DEF T, SchedRecord
  <2>3. T'
    BY <1>2, <1>7, <2>2 DEF DeleteSchedule, BecomeDue, T
  <2>4. QED
    BY <1>1, <2>1, <2>3
<1>8. CASE Take
  <2>1. S' /\ B' /\ A' /\ T'
    BY <1>8, <1>s, <1>b, <1>a, <1>t DEF Take
  <2>2. queue # <<>> /\ queue' = Tail(queue) /\ UNCHANGED <<creating, mine, left>>
    BY <1>8 DEF Take
  <2>3. queue' \in Seq(Jobs) /\ Head(queue) \in Jobs
    BY <1>2, <2>2 DEF Q
  <2>4. Q'
    BY <1>2, <2>2, <2>3 DEF Q
  <2>5. W'
    BY <1>2, <1>8, <2>2, <2>3 DEF Take, W
  <2>6. QED
    BY <1>1, <2>1, <2>4, <2>5
<1>9. CASE MarkRunning
  <2>1. S' /\ B' /\ A' /\ Q'
    BY <1>9, <1>s, <1>b, <1>a, <1>q DEF MarkRunning
  <2>2. cur \in Jobs
    BY <1>2, <1>9 DEF MarkRunning, W
  <2>3. T'
    BY <1>9, <1>j, <1>st, <2>2 DEF MarkRunning
  <2>4. W'
    BY <1>2, <1>9 DEF MarkRunning, W
  <2>5. QED
    BY <1>1, <2>1, <2>3, <2>4
<1>10. CASE Report
  <2>1. S' /\ B' /\ A' /\ Q' /\ T'
    BY <1>10, <1>s, <1>b, <1>a, <1>q, <1>t DEF Report
  <2>2. W'
    BY <1>2, <1>10 DEF Report, Release, W
  <2>3. QED
    BY <1>1, <2>1, <2>2
<1>11. ASSUME NEW grave \in BOOLEAN, Save(grave) PROVE TypeInv'
  <2>1. S' /\ B' /\ A' /\ Q'
    BY <1>11, <1>s, <1>b, <1>a, <1>q DEF Save
  <2>2. UNCHANGED sched
    BY <1>11 DEF Save
  <2>3. Release /\ history' \in Seq(Jobs) /\ job' \in [Jobs -> JobRecord]
    BY <1>11, SaveEffect
  <2>4. W'
    BY <1>2, <2>3 DEF Release, W
  <2>5. T'
    BY <1>2, <2>2, <2>3 DEF T
  <2>6. QED
    BY <1>1, <2>1, <2>4, <2>5
<1>12. CASE Fail
  <2>1. S' /\ B' /\ A' /\ Q'
    BY <1>12, <1>s, <1>b, <1>a, <1>q DEF Fail
  <2>2. cur \in Jobs
    BY <1>2, <1>12 DEF Fail, W
  <2>3. T'
    BY <1>12, <1>j, <1>st, <2>2 DEF Fail
  <2>4. W'
    BY <1>2, <1>12 DEF Fail, Release, W
  <2>5. QED
    BY <1>1, <2>1, <2>3, <2>4
<1>13. CASE WorkerDies
  <2>1. S' /\ A' /\ Q' /\ T'
    BY <1>13, <1>s, <1>a, <1>q, <1>t DEF WorkerDies
  <2>2. W' /\ B'
    BY <1>2, <1>13 DEF WorkerDies, W, B
  <2>3. QED
    BY <1>1, <2>1, <2>2
<1>14. CASE Wake \/ ListDue \/ EndTick
  <2>1. W' /\ A' /\ Q' /\ T' /\ B'
    BY <1>14, <1>w, <1>b, <1>a, <1>q, <1>t DEF Wake, ListDue, EndTick
  <2>2. S'
    BY <1>2, <1>14 DEF Wake, ListDue, EndTick, S
  <2>3. QED
    BY <1>1, <2>1, <2>2
<1>15. ASSUME NEW j \in Jobs, PollJob(j) PROVE TypeInv'
  <2>1. W' /\ A' /\ Q' /\ T' /\ B'
    BY <1>15, <1>w, <1>b, <1>a, <1>q, <1>t DEF PollJob
  <2>2. /\ spc = "poll" /\ j \in polls /\ polls' = polls \ {j} /\ UNCHANGED todo
        /\ pending' = pending \/ pending' = [pending EXCEPT ![j] = NoSched]
    BY <1>15 DEF PollJob
  <2>3. pending' \in [Jobs -> Scheds \cup {NoSched}] /\ \A k \in polls' : pending'[k] # NoSched
    BY <1>2, <2>2 DEF S
  <2>4. ASSUME UNCHANGED <<spc, at, found>> PROVE S'
    BY <1>2, <2>2, <2>3, <2>4 DEF S
  <2>5. ASSUME spc' = "finish", at' = pending[j],
               found' = [id |-> j, status |-> job[j].status, grave |-> job[j].grave]
        PROVE  S'
    <3>1. job[j].status \in Statuses /\ job[j].grave \in BOOLEAN
      BY <1>2 DEF T, JobRecord
    <3>2. found' \in FoundRecord /\ found'.id = j
      BY <2>5, <3>1 DEF FoundRecord
    <3>3. at' \in Scheds
      BY <1>2, <2>2, <2>5 DEF S
    <3>4. QED
      BY <1>2, <2>2, <2>3, <2>5, <3>2, <3>3 DEF S
  <2>6. S'
    BY <1>15, <2>4, <2>5 DEF PollJob
  <2>7. QED
    BY <1>1, <2>1, <2>6
<1>16. CASE FinishSchedule
  <2>1. W' /\ Q' /\ B'
    BY <1>16, <1>w, <1>b, <1>q DEF FinishSchedule
  <2>2. spc = "finish" /\ found.id \in Jobs /\ at \in Scheds
    BY <1>2, <1>16 DEF FinishSchedule, S
  <2>3. sched' \in [Scheds -> SchedRecord]
    BY <1>2, <1>16, <2>2, SetLastType DEF FinishSchedule, T
  <2>4. T'
    BY <1>2, <1>16, <2>3 DEF FinishSchedule, T
  <2>5. A'
    BY <1>2, <1>16, <2>2 DEF FinishSchedule, A
  <2>6. S'
    BY <1>2, <1>16, <1>n DEF FinishSchedule, Forget, S
  <2>7. QED
    BY <1>1, <2>1, <2>4, <2>5, <2>6
<1>17. ASSUME NEW s \in Scheds, SkipSchedule(s) PROVE TypeInv'
  <2>1. W' /\ A' /\ Q' /\ B'
    BY <1>17, <1>w, <1>b, <1>a, <1>q DEF SkipSchedule
  <2>2. S'
    BY <1>2, <1>17 DEF SkipSchedule, S
  <2>3. sched[s].job \in Jobs \cup {NoJob}
    BY <1>2 DEF T, SchedRecord
  <2>4. T'
    BY <1>2, <1>17, <2>3, SetRunType DEF SkipSchedule, T
  <2>5. QED
    BY <1>1, <2>1, <2>2, <2>4
<1>18. ASSUME NEW s \in Scheds, NEW j \in Jobs, StartSchedule(s, j) PROVE TypeInv'
  <2>1. W' /\ A' /\ B'
    BY <1>18, <1>w, <1>b, <1>a DEF StartSchedule
  <2>2. Q'
    BY <1>2, <1>18 DEF StartSchedule, Q
  <2>3. T'
    BY <1>18, <1>j, <1>st DEF StartSchedule
  <2>4. found' \in FoundRecord /\ found'.id = j
    BY <1>18 DEF StartSchedule, Nothing, FoundRecord, Statuses
  <2>5. S'
    BY <1>2, <1>18, <2>4 DEF StartSchedule, S
  <2>6. QED
    BY <1>1, <2>1, <2>2, <2>3, <2>5
<1>19. CASE EnqueueScheduled
  <2>1. W' /\ A' /\ B'
    BY <1>19, <1>w, <1>b, <1>a DEF EnqueueScheduled
  <2>2. spc = "created" /\ found.id \in Jobs /\ at \in Scheds
    BY <1>2, <1>19 DEF EnqueueScheduled, S
  <2>3. Q'
    BY <1>2, <1>19, <2>2 DEF EnqueueScheduled, Q
  <2>4. T'
    BY <1>2, <1>19, <2>2, SetRunType DEF EnqueueScheduled, T
  <2>5. S'
    BY <1>2, <1>19, <1>n, <2>2 DEF EnqueueScheduled, Forget, S
  <2>6. QED
    BY <1>1, <2>1, <2>3, <2>4, <2>5
<1>20. CASE TickFails
  <2>1. W' /\ A' /\ Q' /\ T'
    BY <1>20, <1>w, <1>t, <1>a, <1>q DEF TickFails
  <2>2. S' /\ B'
    BY <1>2, <1>20, <1>n DEF TickFails, Forget, S, B
  <2>3. QED
    BY <1>1, <2>1, <2>2
<1>21. CASE Restart
  <2>1. A' /\ T'
    BY <1>2, <1>21, <1>t DEF Restart, A
  <2>2. W' /\ Q'
    BY <1>2, <1>21 DEF Restart, W, Q
  <2>3. S' /\ B'
    BY <1>2, <1>21, <1>n DEF Restart, Forget, S, B
  <2>4. QED
    BY <1>1, <2>1, <2>2, <2>3
<1>22. CASE UNCHANGED vars
  BY <1>1, <1>22, <1>w, <1>s, <1>t, <1>b, <1>q, <1>a DEF vars
<1>24. CASE SwitchModel
  <2>1. A'
    BY <1>2, <1>24 DEF SwitchModel, A
  <2>2. QED
    BY <1>1, <1>24, <2>1, <1>w, <1>s, <1>t, <1>b, <1>q DEF SwitchModel
<1>23. QED
  BY <1>3, <1>4, <1>5, <1>6, <1>7, <1>8, <1>9, <1>10, <1>11, <1>12, <1>13, <1>14, <1>15,
     <1>16, <1>17, <1>18, <1>19, <1>20, <1>21, <1>22, <1>24 DEF Next, Work, Tick

LEMMA TypesHold == Spec => []TypeInv
<1>1. Init => TypeInv
  <2> SUFFICES ASSUME Init PROVE TypeInv
    OBVIOUS
  <2>1. job \in [Jobs -> [status : Statuses, grave : BOOLEAN]]
    BY DEF Init, Statuses
  <2>2. sched \in [Scheds -> [state : {"none", "on", "off", "gone"}, due : BOOLEAN,
                             last : {"", "running", "skipped", "done", "error", "cancelled"},
                             job : Jobs \cup {NoJob}]]
    BY DEF Init
  <2>3. found \in [id : Jobs \cup {NoJob}, status : Statuses, grave : BOOLEAN]
    BY DEF Init, Nothing, Statuses
  <2>4. alerts \in [Jobs -> Nat] /\ pending \in [Jobs -> Scheds \cup {NoSched}]
    BY DEF Init
  <2>5. history \in Seq(Jobs) /\ queue \in Seq(Jobs)
    <3>1. history = <<>> /\ queue = <<>>
      BY DEF Init
    <3>2. QED
      BY <3>1
  <2>6. left \in 0..Reports /\ restarts \in 0..MaxRestarts /\ faults \in 0..MaxFaults
    <3>1. left = 0 /\ restarts = 0 /\ faults = 0
      BY DEF Init
    <3>2. QED
      BY <3>1, JobsAssumption DEF JobsAssumption
  <2>7. /\ wpc = "idle" /\ cur = NoJob /\ spc = "sleep" /\ polls = {} /\ todo = {}
        /\ at = NoSched /\ creating = {} /\ mine = {} /\ model \in {"on", "never"}
    BY DEF Init
  <2>8. QED
    BY <2>1, <2>2, <2>3, <2>4, <2>5, <2>6, <2>7 DEF TypeInv, JobsTypeOK, Busy
<1>2. QED
  BY <1>1, TypeStep, PTL DEF Spec

\* The tables, the worker, the scheduler and the queue keep their types.
THEOREM JobsTypeCorrect == Spec => []JobsTypeOK
BY TypesHold, PTL DEF TypeInv

-----------------------------------------------------------------------------
(* The history of finished jobs. *)

HistoryInv == \A i \in DOMAIN history : job[history[i]].status \in {"done", "gone"}

-----------------------------------------------------------------------------
(* Who holds a job. *)

Queued(j) == \E i \in 1..Len(queue) : queue[i] = j
Started(j) == spc = "created" /\ found.id = j
Handled(j) == j \in creating \/ j = cur \/ Queued(j) \/ Started(j)

\* The four holders share no job and hold no job that is settled for good; an
\* unfinished job of this process has a holder.
HolderInv ==
  /\ \A i, k \in 1..Len(queue) : queue[i] = queue[k] => i = k
  /\ \A j \in Jobs : Queued(j) => j # cur /\ j \notin creating /\ ~Started(j)
  /\ \A j \in Jobs : j \in creating => j # cur /\ ~Started(j)
  /\ \A j \in Jobs : j = cur => ~Started(j)
  /\ \A j \in Jobs : Handled(j) => job[j].status \in {"pending", "running", "cancelled"}
  /\ \A j \in mine : Active(j) /\ faults = 0 => Handled(j)
  /\ \A j \in mine : job[j].status = "running" => j = cur

\* Steps after which the same jobs are held, and none of them is active anew.
LEMMA HolderKept ==
  ASSUME TypeInv, TypeInv', HolderInv, UNCHANGED <<creating, queue, cur, mine>>,
         faults' = 0 => faults = 0,
         \A j \in Jobs : Started(j)' <=> Started(j),
         \A j \in Jobs : \/ job'[j].status = job[j].status
                         \/ job'[j].status = "cancelled"
                         \/ job'[j].status = "running" /\ j = cur
                         \/ job'[j].status \notin {"pending", "running"} /\ ~Handled(j)
  PROVE  HolderInv'
<1>1. \A j \in Jobs : (Queued(j)' <=> Queued(j)) /\ (Handled(j)' <=> Handled(j))
  BY DEF Queued, Handled
<1>2. mine \subseteq Jobs
  BY DEF TypeInv, JobsTypeOK
<1>3. \A j \in mine : Active(j)' => Active(j) \/ j = cur
  BY <1>2 DEF Active
<1>4. \A j \in Jobs : j = cur => Handled(j)
  BY DEF Handled
<1>5. \A j \in Jobs : Handled(j) => job'[j].status \in {"pending", "running", "cancelled"}
  BY DEF HolderInv
<1>6. \A j \in mine : job'[j].status = "running" => j = cur
  BY <1>2 DEF HolderInv
<1>7. QED
  BY <1>1, <1>2, <1>3, <1>4, <1>5, <1>6 DEF HolderInv

\* The worker lets go of its job, settled or cancelled.
LEMMA HolderReleased ==
  ASSUME TypeInv, TypeInv', HolderInv, UNCHANGED <<creating, queue, mine, faults>>,
         cur \in Jobs, cur' = NoJob, \A j \in Jobs : Started(j)' <=> Started(j),
         job'[cur].status \notin {"pending", "running"},
         \A j \in Jobs \ {cur} : \/ job'[j] = job[j]
                                 \/ job'[j].status = "gone" /\ ~Handled(j)
  PROVE  HolderInv'
<1>0. NoJob \notin Jobs /\ mine \subseteq Jobs
  BY JobsAssumption DEF JobsAssumption, TypeInv, JobsTypeOK
<1>1. \A j \in Jobs : /\ Queued(j)' <=> Queued(j)
                      /\ Handled(j)' <=> Handled(j) /\ j # cur
  BY <1>0 DEF Queued, Handled, HolderInv
<1>2. \A j \in mine : Active(j)' => Active(j) /\ j # cur
  BY <1>0 DEF Active
<1>3. \A j \in Jobs : Handled(j) /\ j # cur => job'[j].status \in {"pending", "running", "cancelled"}
  BY DEF HolderInv
<1>4. \A j \in mine : job'[j].status # "running"
  BY <1>0 DEF HolderInv
<1>5. QED
  BY <1>0, <1>1, <1>2, <1>3, <1>4 DEF HolderInv

\* A job that was not there is created, by a web thread or by the scheduler.
LEMMA HolderCreated ==
  ASSUME TypeInv, TypeInv', HolderInv, NEW j \in Jobs, job[j].status = "none",
         SetStatus(j, "pending"), mine' = mine \cup {j}, UNCHANGED <<queue, cur, faults>>,
         \/ creating' = creating \cup {j} /\ \A k \in Jobs : Started(k)' <=> Started(k)
         \/ creating' = creating /\ \A k \in Jobs : ~Started(k) /\ (Started(k)' <=> k = j)
  PROVE  HolderInv'
<1>0. mine \subseteq Jobs /\ "pending" \in Statuses /\ job \in [Jobs -> JobRecord]
  BY DEF TypeInv, JobsTypeOK, Statuses, JobRecord
<1>1. job'[j].status = "pending" /\ \A k \in Jobs \ {j} : job'[k] = job[k]
  BY <1>0, StatusType
<1>2. ~Handled(j)
  BY DEF HolderInv
<1>3. \A k \in Jobs : /\ Queued(k)' <=> Queued(k)
                      /\ Handled(k)' <=> Handled(k) \/ k = j
  BY DEF Queued, Handled
<1>4. \A k \in mine : k # j => (Active(k)' <=> Active(k))
  BY <1>0, <1>1 DEF Active
<1>5. \A k \in Jobs : Handled(k)' => job'[k].status \in {"pending", "running", "cancelled"}
  BY <1>1, <1>3 DEF HolderInv
<1>6. \A k \in mine' : Active(k)' /\ faults' = 0 => Handled(k)'
  BY <1>0, <1>3, <1>4 DEF HolderInv
<1>7. \A k \in mine' : job'[k].status = "running" => k = cur'
  BY <1>0, <1>1 DEF HolderInv
<1>8. \A k \in Jobs : Queued(k)' => k # cur' /\ k \notin creating' /\ ~Started(k)'
  BY <1>2, <1>3 DEF HolderInv, Handled
<1>9. \A k \in Jobs : k \in creating' => k # cur' /\ ~Started(k)'
  BY <1>2, <1>3 DEF HolderInv, Handled
<1>10. \A k \in Jobs : k = cur' => ~Started(k)'
  BY <1>2 DEF HolderInv, Handled
<1>11. QED
  BY <1>5, <1>6, <1>7, <1>8, <1>9, <1>10 DEF HolderInv

\* A created job goes into the queue.
LEMMA HolderQueued ==
  ASSUME TypeInv, TypeInv', HolderInv, NEW j \in Jobs, j \in creating \/ Started(j),
         queue' = Append(queue, j), UNCHANGED <<job, cur, mine, faults>>,
         creating' = creating \ {j}, \A k \in Jobs : Started(k)' <=> Started(k) /\ k # j
  PROVE  HolderInv'
<1>0. /\ mine \subseteq Jobs /\ queue \in Seq(Jobs)
      /\ Len(queue') = Len(queue) + 1 /\ Len(queue) \in Nat /\ queue'[Len(queue) + 1] = j
      /\ \A i \in 1..Len(queue) : queue'[i] = queue[i]
  <2>1. mine \subseteq Jobs /\ queue \in Seq(Jobs)
    BY DEF TypeInv, JobsTypeOK
  <2>2. QED
    BY <2>1
<1>1. ~Queued(j) /\ j # cur /\ Handled(j)
  BY DEF HolderInv, Handled
<1>2. \A k \in Jobs : Queued(k)' <=> Queued(k) \/ k = j
  BY <1>0 DEF Queued
<1>3. \A k \in Jobs : Handled(k)' <=> Handled(k)
  BY <1>1, <1>2 DEF Handled
<1>4. \A i, k \in 1..Len(queue') : queue'[i] = queue'[k] => i = k
  BY <1>0, <1>1 DEF HolderInv, Queued
<1>5. \A k \in mine : Active(k)' <=> Active(k)
  BY DEF Active
<1>6. \A k \in Jobs : Queued(k)' => k # cur' /\ k \notin creating' /\ ~Started(k)'
  BY <1>1, <1>2 DEF HolderInv
<1>7. \A k \in Jobs : k \in creating' => k # cur' /\ ~Started(k)'
  BY DEF HolderInv
<1>8. \A k \in Jobs : k = cur' => ~Started(k)'
  BY DEF HolderInv
<1>9. QED
  BY <1>0, <1>3, <1>4, <1>5, <1>6, <1>7, <1>8 DEF HolderInv

LEMMA HolderTaken ==
  ASSUME TypeInv, TypeInv', HolderInv, Take
  PROVE  HolderInv'
<1> DEFINE h == Head(queue)
<1>0. /\ mine \subseteq Jobs /\ queue \in Seq(Jobs) /\ queue # <<>> /\ queue' = Tail(queue)
      /\ UNCHANGED <<job, creating, spc, found, mine, faults>> /\ NoJob \notin Jobs
  BY JobsAssumption DEF JobsAssumption, TypeInv, JobsTypeOK, Take, tables, scheduler, bounds
<1>1. /\ Len(queue') = Len(queue) - 1 /\ Len(queue) \in Nat \ {0} /\ h = queue[1] /\ h \in Jobs
      /\ \A i \in 1..Len(queue') : queue'[i] = queue[i + 1]
  BY <1>0
<1>2. \A i, k \in 1..Len(queue') : queue'[i] = queue'[k] => i = k
  <2> SUFFICES ASSUME NEW i \in 1..Len(queue'), NEW k \in 1..Len(queue'), queue'[i] = queue'[k]
               PROVE  i = k
    OBVIOUS
  <2>1. i + 1 \in 1..Len(queue) /\ k + 1 \in 1..Len(queue) /\ queue[i + 1] = queue[k + 1]
    BY <1>1
  <2>2. i + 1 = k + 1
    BY <2>1 DEF HolderInv
  <2>3. QED
    BY <2>2
<1>3. \A j \in Jobs : Queued(j)' <=> Queued(j) /\ j # h
  <2> SUFFICES ASSUME NEW j \in Jobs PROVE Queued(j)' <=> Queued(j) /\ j # h
    OBVIOUS
  <2>1. ASSUME Queued(j)' PROVE Queued(j) /\ j # h
    <3>1. PICK i \in 1..Len(queue') : queue'[i] = j
      BY <2>1 DEF Queued
    <3>2. i + 1 \in 1..Len(queue) /\ queue[i + 1] = j /\ 1 \in 1..Len(queue) /\ i + 1 # 1
      BY <1>1, <3>1
    <3>3. QED
      BY <1>1, <3>2 DEF Queued, HolderInv
  <2>2. ASSUME Queued(j), j # h PROVE Queued(j)'
    <3>1. PICK i \in 1..Len(queue) : queue[i] = j
      BY <2>2 DEF Queued
    <3>2. i - 1 \in 1..Len(queue') /\ (i - 1) + 1 = i
      BY <1>1, <2>2, <3>1
    <3>3. queue'[i - 1] = j
      BY <1>1, <3>1, <3>2
    <3>4. QED
      BY <3>2, <3>3 DEF Queued
  <2>3. QED
    BY <2>1, <2>2
<1>4. Queued(h)
  BY <1>1 DEF Queued
<1>5. \A j \in Jobs : (Started(j)' <=> Started(j)) /\ (Active(j)' <=> Active(j))
  BY <1>0 DEF Started, Active
<1> HIDE DEF h
<1>6. CASE job[h].status = "cancelled" /\ cur' = cur
  <2>1. \A j \in Jobs : Handled(j)' => Handled(j)
    BY <1>0, <1>3, <1>5, <1>6 DEF Handled
  <2>2. \A j \in Jobs : Handled(j) /\ j # h => Handled(j)'
    BY <1>0, <1>3, <1>5, <1>6 DEF Handled
  <2>3. \A j \in mine : Active(j)' /\ faults' = 0 => Handled(j)'
    BY <1>0, <1>5, <1>6, <2>2 DEF HolderInv, Active
  <2>4. QED
    BY <1>0, <1>2, <1>3, <1>5, <1>6, <2>1, <2>3 DEF HolderInv
<1>7. CASE cur = NoJob /\ cur' = h
  <2>1. \A j \in Jobs : Handled(j)' <=> Handled(j)
    BY <1>0, <1>1, <1>3, <1>4, <1>5, <1>7 DEF Handled
  <2>2. \A j \in mine : job'[j].status = "running" => j = cur'
    BY <1>0, <1>7 DEF HolderInv
  <2>3. \A j \in Jobs : Queued(j)' => j # cur' /\ j \notin creating' /\ ~Started(j)'
    BY <1>0, <1>3, <1>5, <1>7 DEF HolderInv
  <2>4. \A j \in Jobs : j \in creating' => j # cur' /\ ~Started(j)'
    BY <1>0, <1>4, <1>5, <1>7 DEF HolderInv
  <2>5. \A j \in Jobs : j = cur' => ~Started(j)'
    BY <1>4, <1>5, <1>7 DEF HolderInv
  <2>6. QED
    BY <1>0, <1>2, <1>5, <2>1, <2>2, <2>3, <2>4, <2>5 DEF HolderInv
<1>8. wpc = "idle" => cur = NoJob
  BY DEF TypeInv, Busy
<1>9. QED
  BY <1>6, <1>7, <1>8 DEF Take, h

LEMMA HolderStep ==
  ASSUME TypeInv, TypeInv', HolderInv, HistoryInv, [Next]_vars
  PROVE  HolderInv'
<1> USE JobsAssumption DEF JobsAssumption
<1>0. job \in [Jobs -> JobRecord] /\ (cur \in Jobs => Handled(cur))
  BY DEF TypeInv, JobsTypeOK, JobRecord, Handled
<1>f. faults \in Nat
  <2>1. faults \in 0..MaxFaults
    BY DEF TypeInv, JobsTypeOK
  <2>2. QED
    BY <2>1
<1>1. ASSUME UNCHANGED <<job, creating, queue, cur, mine>>, faults' = 0 => faults = 0,
             \A j \in Jobs : Started(j)' <=> Started(j)
      PROVE  HolderInv'
  BY <1>1, HolderKept
<1>2. ASSUME UNCHANGED <<spc, found>> PROVE \A j \in Jobs : Started(j)' <=> Started(j)
  BY <1>2 DEF Started
<1>3. ASSUME NEW j \in Jobs, CreateJob(j) PROVE HolderInv'
  BY <1>2, <1>3, HolderCreated DEF CreateJob, worker, scheduler, bounds
<1>4. ASSUME NEW j \in Jobs, Enqueue(j) PROVE HolderInv'
  <2>1. /\ j \in creating /\ queue' = Append(queue, j) /\ creating' = creating \ {j}
        /\ UNCHANGED <<job, cur, mine, faults, spc, found>>
    BY <1>4 DEF Enqueue, tables, worker, scheduler, bounds
  <2>2. \A k \in Jobs : Started(k)' <=> Started(k) /\ k # j
    BY <2>1 DEF Started, HolderInv
  <2>3. QED
    BY <2>1, <2>2, HolderQueued
<1>5. ASSUME NEW j \in Jobs, CancelJob(j) PROVE HolderInv'
  <2>1. /\ SetStatus(j, "cancelled") /\ "cancelled" \in Statuses
        /\ UNCHANGED <<creating, queue, cur, mine, faults, spc, found>>
    BY <1>5 DEF CancelJob, worker, scheduler, bounds, Statuses
  <2>2. job'[j].status = "cancelled" /\ \A k \in Jobs \ {j} : job'[k] = job[k]
    BY <1>0, <2>1, StatusType
  <2>3. QED
    BY <1>2, <2>1, <2>2, HolderKept
<1>6. ASSUME NEW s \in Scheds,
             \/ \E state \in {"on", "off"} : UpsertSchedule(s, state)
             \/ DeleteSchedule(s) \/ BecomeDue(s) \/ SkipSchedule(s)
      PROVE  HolderInv'
  <2>1. UNCHANGED <<job, creating, queue, cur, mine, faults, found>>
    BY <1>6 DEF UpsertSchedule, DeleteSchedule, BecomeDue, SkipSchedule, worker, scheduler,
                bounds
  <2>2. UNCHANGED spc
    BY <1>6 DEF UpsertSchedule, DeleteSchedule, BecomeDue, SkipSchedule, scheduler
  <2>3. QED
    BY <1>1, <1>2, <2>1, <2>2
<1>7. CASE MarkRunning
  <2>1. /\ SetStatus(cur, "running") /\ "running" \in Statuses /\ cur \in Jobs
        /\ UNCHANGED <<creating, queue, cur, mine, faults, spc, found>>
    BY <1>7 DEF MarkRunning, scheduler, bounds, Statuses, TypeInv, Busy
  <2>2. job'[cur].status = "running" /\ \A k \in Jobs \ {cur} : job'[k] = job[k]
    BY <1>0, <2>1, StatusType
  <2>3. QED
    BY <1>2, <2>1, <2>2, HolderKept
<1>8. CASE Report
  <2>1. /\ UNCHANGED <<job, creating, queue, mine, faults, spc, found>> /\ cur \in Jobs
    BY <1>8 DEF Report, tables, scheduler, bounds, TypeInv, Busy
  <2>2. CASE job[cur].status = "cancelled" /\ cur' = NoJob
    BY <1>2, <2>1, <2>2, HolderReleased
  <2>3. CASE cur' = cur
    BY <1>1, <1>2, <2>1, <2>3
  <2>4. QED
    BY <1>8, <2>2, <2>3 DEF Report, Release
<1>9. ASSUME NEW grave \in BOOLEAN, Save(grave) PROVE HolderInv'
  <2>0. UNCHANGED <<creating, queue, mine, faults, spc, found>>
    BY <1>9 DEF Save, scheduler, bounds
  <2>1. cur \in Jobs /\ cur' = NoJob /\ job'[cur].status = "done"
    <3>1. cur \in Jobs /\ Release /\ job'[cur] = [status |-> "done", grave |-> grave]
      BY <1>9, SaveEffect
    <3>2. QED
      BY <3>1 DEF Release
  <2>2. ASSUME NEW j \in Jobs \ {cur}, job'[j] # job[j]
        PROVE  job'[j].status = "gone" /\ ~Handled(j)
    <3>1. /\ job'[j] = [job[j] EXCEPT !.status = "gone"]
          /\ \E i \in DOMAIN history : history[i] = j
      BY <1>9, <2>2, SaveEffect
    <3>2. job[j].status \in {"done", "gone"}
      BY <3>1 DEF HistoryInv
    <3>3. QED
      BY <1>0, <3>1, <3>2 DEF JobRecord, HolderInv
  <2>3. QED
    BY <1>2, <2>0, <2>1, <2>2, HolderReleased
<1>10. CASE Fail
  <2>1. /\ SetStatus(cur, "failed") /\ "failed" \in Statuses /\ cur \in Jobs /\ cur' = NoJob
        /\ UNCHANGED <<creating, queue, mine, faults, spc, found>>
    BY <1>10 DEF Fail, Release, scheduler, bounds, Statuses, TypeInv, Busy
  <2>2. job'[cur].status = "failed" /\ \A k \in Jobs \ {cur} : job'[k] = job[k]
    BY <1>0, <2>1, StatusType
  <2>3. QED
    BY <1>2, <2>1, <2>2, HolderReleased
<1>11. CASE WorkerDies
  <2>1. UNCHANGED <<job, creating, queue, cur, mine, spc, found>> /\ faults' = faults + 1
    BY <1>11 DEF WorkerDies, tables, scheduler
  <2>2. faults' # 0
    BY <1>f, <2>1
  <2>3. QED
    BY <1>1, <1>2, <2>1, <2>2
<1>12. CASE Wake \/ ListDue \/ EndTick
  <2>1. UNCHANGED <<job, creating, queue, cur, mine, faults>>
    BY <1>12 DEF Wake, ListDue, EndTick, tables, worker, bounds
  <2>2. spc # "created" /\ spc' # "created"
    BY <1>12 DEF Wake, ListDue, EndTick
  <2>3. QED
    BY <1>1, <2>1, <2>2 DEF Started
<1>13. ASSUME NEW j \in Jobs, PollJob(j) PROVE HolderInv'
  <2>1. UNCHANGED <<job, creating, queue, cur, mine, faults>>
    BY <1>13 DEF PollJob, tables, worker, bounds
  <2>2. spc # "created" /\ spc' # "created"
    BY <1>13 DEF PollJob
  <2>3. QED
    BY <1>1, <2>1, <2>2 DEF Started
<1>14. CASE FinishSchedule
  <2>1. UNCHANGED <<job, creating, queue, cur, mine, faults>>
    BY <1>14 DEF FinishSchedule, worker, bounds
  <2>2. spc # "created" /\ spc' # "created"
    BY <1>14 DEF FinishSchedule
  <2>3. QED
    BY <1>1, <2>1, <2>2 DEF Started
<1>15. ASSUME NEW s \in Scheds, NEW j \in Jobs, StartSchedule(s, j) PROVE HolderInv'
  <2>1. /\ job[j].status = "none" /\ SetStatus(j, "pending") /\ mine' = mine \cup {j}
        /\ UNCHANGED <<creating, queue, cur, faults>>
        /\ spc = "start" /\ spc' = "created" /\ found' = [Nothing EXCEPT !.id = j]
    BY <1>15 DEF StartSchedule, worker, bounds
  <2>2. \A k \in Jobs : ~Started(k) /\ (Started(k)' <=> k = j)
    BY <2>1 DEF Started, Nothing
  <2>3. QED
    BY <2>1, <2>2, HolderCreated
<1>16. CASE EnqueueScheduled
  <2>1. /\ queue' = Append(queue, found.id) /\ UNCHANGED <<job, cur, mine, faults, creating>>
        /\ spc = "created" /\ spc' = "start" /\ found.id \in Jobs
    BY <1>16 DEF EnqueueScheduled, worker, bounds, TypeInv, Busy
  <2>2. Started(found.id) /\ creating' = creating \ {found.id}
    BY <2>1 DEF Started, HolderInv
  <2>3. \A k \in Jobs : Started(k)' <=> Started(k) /\ k # found.id
    BY <2>1 DEF Started
  <2>4. QED
    BY <2>1, <2>2, <2>3, HolderQueued
<1>17. CASE TickFails
  <2>1. /\ UNCHANGED <<job, creating, queue, cur, mine>> /\ spc' = "sleep"
        /\ faults' = faults + 1
    BY <1>17 DEF TickFails, tables, worker
  <2>2. \A j \in Jobs : ~Started(j)' /\ (Queued(j)' <=> Queued(j))
    BY <2>1 DEF Started, Queued
  <2>3. \A j \in Jobs : Handled(j)' => Handled(j)
    BY <2>1, <2>2 DEF Handled
  <2>4. faults' # 0
    BY <1>f, <2>1
  <2>5. \A j \in mine' : job'[j].status = "running" => j = cur'
    BY <2>1 DEF HolderInv
  <2>6. QED
    BY <2>1, <2>2, <2>3, <2>4, <2>5 DEF HolderInv
<1>18. CASE Restart
  <2>1. /\ creating' = {} /\ queue' = <<>> /\ cur' = NoJob /\ spc' = "sleep" /\ mine' = {}
    BY <1>18 DEF Restart
  <2>2. \A j \in Jobs : ~Handled(j)' /\ ~Queued(j)'
    BY <2>1 DEF Handled, Queued, Started
  <2>3. QED
    BY <2>1, <2>2 DEF HolderInv
<1>19. CASE SwitchModel \/ UNCHANGED vars
  BY <1>1, <1>2, <1>19 DEF SwitchModel, vars, tables, worker, scheduler, bounds
<1>20. QED
  BY <1>3, <1>4, <1>5, <1>6, <1>7, <1>8, <1>9, <1>10, <1>11, <1>12, <1>13, <1>14, <1>15,
     <1>16, <1>17, <1>18, <1>19, HolderTaken DEF Next, Work, Tick

LEMMA HistoryStep ==
  ASSUME TypeInv, HolderInv, HistoryInv, [Next]_vars
  PROVE  HistoryInv'
<1>0. /\ job \in [Jobs -> JobRecord] /\ history \in Seq(Jobs)
      /\ \A i \in DOMAIN history : history[i] \in Jobs
  <2>1. job \in [Jobs -> JobRecord] /\ history \in Seq(Jobs)
    BY DEF TypeInv, JobsTypeOK, JobRecord
  <2>2. QED
    BY <2>1
<1>1. ASSUME UNCHANGED <<job, history>> PROVE HistoryInv'
  BY <1>1 DEF HistoryInv
<1>2. ASSUME NEW j \in Jobs, NEW st \in Statuses, SetStatus(j, st), UNCHANGED history,
             job[j].status \notin {"done", "gone"}
      PROVE  HistoryInv'
  <2>1. \A k \in Jobs \ {j} : job'[k] = job[k]
    BY <1>0, <1>2, StatusType
  <2>2. \A i \in DOMAIN history : history[i] # j
    BY <1>2 DEF HistoryInv
  <2>3. QED
    BY <1>0, <1>2, <2>1, <2>2 DEF HistoryInv
<1>3. wpc \in {"claimed", "work", "save"} => cur \in Jobs /\ job[cur].status \notin {"done", "gone"}
  <2>1. cur \in Jobs => Handled(cur)
    BY DEF Handled
  <2>2. QED
    BY <2>1 DEF TypeInv, Busy, HolderInv
<1>4. {"pending", "running", "cancelled", "failed"} \subseteq Statuses
  BY DEF Statuses
<1>5. ASSUME NEW j \in Jobs, CreateJob(j) \/ CancelJob(j) PROVE HistoryInv'
  BY <1>2, <1>4, <1>5 DEF CreateJob, CancelJob, Active
<1>6. ASSUME NEW j \in Jobs, Enqueue(j) \/ PollJob(j) PROVE HistoryInv'
  BY <1>1, <1>6 DEF Enqueue, PollJob, tables
<1>7. ASSUME NEW s \in Scheds,
             \/ \E state \in {"on", "off"} : UpsertSchedule(s, state)
             \/ DeleteSchedule(s) \/ BecomeDue(s) \/ SkipSchedule(s)
      PROVE  HistoryInv'
  <2>1. UNCHANGED <<job, history>>
    BY <1>7 DEF UpsertSchedule, DeleteSchedule, BecomeDue, SkipSchedule
  <2>2. QED
    BY <1>1, <2>1
<1>8. CASE Take \/ Report \/ WorkerDies \/ Wake \/ ListDue \/ EndTick \/ TickFails \/ Restart
  BY <1>1, <1>8 DEF Take, Report, WorkerDies, Wake, ListDue, EndTick, TickFails, Restart, tables
<1>9. CASE MarkRunning \/ Fail
  BY <1>2, <1>3, <1>4, <1>9 DEF MarkRunning, Fail
<1>10. ASSUME NEW grave \in BOOLEAN, Save(grave) PROVE HistoryInv'
  <2>1. /\ cur \in Jobs /\ job'[cur].status = "done"
        /\ \A i \in DOMAIN history' :
             history'[i] = cur \/ \E k \in DOMAIN history : history'[i] = history[k]
        /\ \A j \in Jobs \ {cur} : job'[j] = job[j] \/ job'[j] = [job[j] EXCEPT !.status = "gone"]
    <3>1. job'[cur] = [status |-> "done", grave |-> grave]
      BY <1>10, SaveEffect
    <3>2. QED
      BY <1>10, <3>1, SaveEffect
  <2>2. ASSUME NEW i \in DOMAIN history', history'[i] # cur
        PROVE  job'[history'[i]].status \in {"done", "gone"}
    <3>1. PICK k \in DOMAIN history : history'[i] = history[k]
      BY <2>1, <2>2
    <3>2. history[k] \in Jobs \ {cur} /\ job[history[k]].status \in {"done", "gone"}
      BY <1>0, <2>2, <3>1 DEF HistoryInv
    <3>3. job[history[k]] \in JobRecord
      BY <1>0, <3>2
    <3>4. [job[history[k]] EXCEPT !.status = "gone"].status = "gone"
      BY <3>3 DEF JobRecord
    <3>5. job'[history[k]].status \in {"done", "gone"}
      BY <2>1, <3>2, <3>4
    <3>6. QED
      BY <3>1, <3>5
  <2>3. QED
    BY <2>1, <2>2 DEF HistoryInv
<1>11. CASE FinishSchedule \/ EnqueueScheduled
  BY <1>1, <1>11 DEF FinishSchedule, EnqueueScheduled
<1>12. ASSUME NEW s \in Scheds, NEW j \in Jobs, StartSchedule(s, j) PROVE HistoryInv'
  BY <1>2, <1>4, <1>12 DEF StartSchedule
<1>13. CASE SwitchModel \/ UNCHANGED vars
  BY <1>1, <1>13 DEF SwitchModel, vars, tables
<1>14. QED
  BY <1>5, <1>6, <1>7, <1>8, <1>9, <1>10, <1>11, <1>12, <1>13 DEF Next, Work, Tick

LEMMA HoldersHold == Spec => [](TypeInv /\ HolderInv /\ HistoryInv)
<1>1. Init => HolderInv /\ HistoryInv
  <2> SUFFICES ASSUME Init PROVE HolderInv /\ HistoryInv
    OBVIOUS
  <2>1. /\ queue = <<>> /\ history = <<>> /\ creating = {} /\ mine = {} /\ cur = NoJob
        /\ spc = "sleep" /\ NoJob \notin Jobs
    BY JobsAssumption DEF Init, JobsAssumption
  <2>2. Len(queue) = 0 /\ DOMAIN history = {}
    BY <2>1
  <2>3. \A j \in Jobs : ~Queued(j) /\ ~Started(j) /\ ~Handled(j)
    BY <2>1, <2>2 DEF Queued, Started, Handled
  <2>4. QED
    BY <2>1, <2>2, <2>3 DEF HolderInv, HistoryInv
<1>2. TypeInv /\ TypeInv' /\ HolderInv /\ HistoryInv /\ [Next]_vars => HolderInv' /\ HistoryInv'
  BY HolderStep, HistoryStep
<1>3. QED
  BY <1>1, <1>2, TypesHold, PTL DEF Spec

\* Every unfinished job of the process is with exactly one of the web thread
\* that created it, the queue (once), the worker and the scheduler that is
\* about to enqueue it; only the worker's job runs.
THEOREM HeldHolds == Spec => []Held
<1>1. TypeInv /\ HolderInv => Held
  <2> SUFFICES ASSUME TypeInv, HolderInv PROVE Held
    OBVIOUS
  <2>1. queue \in Seq(Jobs) /\ mine \subseteq Jobs
    BY DEF TypeInv, JobsTypeOK
  <2>2. DOMAIN queue = 1..Len(queue) /\ \A i \in DOMAIN queue : queue[i] \in Jobs
    BY <2>1
  <2>3. \A i \in DOMAIN queue : Queued(queue[i])
    BY <2>2 DEF Queued
  <2>4. ASSUME NEW j \in mine, Active(j), faults = 0
        PROVE  \/ j \in creating \/ j = cur \/ \E i \in DOMAIN queue : queue[i] = j
               \/ spc = "created" /\ found.id = j
    BY <2>2, <2>4 DEF HolderInv, Handled, Queued, Started
  <2>5. QED
    BY <2>2, <2>3, <2>4 DEF HolderInv, Held, HasHolder
<1>2. QED
  BY <1>1, HoldersHold, PTL

\* A pruned job is the oldest of a history that had outgrown Keep, whatever is
\* cancelled, failed or scheduled around the saving.
THEOREM HistoryHolds == Spec => HistoryKept
<1> DEFINE P == \A j \in Jobs : job'[j].status = "gone" /\ job[j].status # "gone" =>
                  /\ Len(history') = Keep
                  /\ \E i \in DOMAIN history :
                       history[i] = j /\ \A k \in 1..i : job'[history[k]].status = "gone"
<1>1. ASSUME TypeInv, HolderInv, HistoryInv, [Next]_vars PROVE P
  <2>0. job \in [Jobs -> JobRecord] /\ "gone" \notin {"pending", "running", "cancelled", "failed"}
    BY <1>1 DEF TypeInv, JobsTypeOK, JobRecord
  <2>1. ASSUME UNCHANGED job PROVE P
    BY <2>1
  <2>2. ASSUME NEW j \in Jobs, NEW st \in {"pending", "running", "cancelled", "failed"},
               SetStatus(j, st)
        PROVE  P
    <3>1. st \in Statuses
      BY DEF Statuses
    <3>2. job'[j].status = st /\ \A k \in Jobs \ {j} : job'[k] = job[k]
      BY <2>0, <2>2, <3>1, StatusType
    <3>3. QED
      BY <2>0, <3>2
  <2>3. ASSUME NEW grave \in BOOLEAN, Save(grave) PROVE P
    <3>1. cur \in Jobs /\ job[cur].status \notin {"done", "gone"}
      <4>1. cur \in Jobs
        BY <1>1, <2>3, SaveEffect
      <4>2. QED
        BY <1>1, <4>1 DEF HolderInv, Handled
    <3>2. \A i \in DOMAIN history : history[i] # cur
      BY <1>1, <3>1 DEF HistoryInv
    <3>3. job'[cur].status = "done"
      <4>1. job'[cur] = [status |-> "done", grave |-> grave]
        BY <1>1, <2>3, SaveEffect
      <4>2. QED
        BY <4>1
    <3> SUFFICES ASSUME NEW j \in Jobs, job'[j].status = "gone", job[j].status # "gone"
                 PROVE  /\ Len(history') = Keep
                        /\ \E i \in DOMAIN history :
                             /\ history[i] = j
                             /\ \A k \in 1..i : job'[history[k]].status = "gone"
      OBVIOUS
    <3>4. j # cur /\ job'[j] # job[j]
      BY <3>3
    <3>5. /\ Len(history') = Keep
          /\ \E i \in DOMAIN history :
               /\ history[i] = j
               /\ \A k \in 1..i : history[k] # cur => job'[history[k]].status = "gone"
      BY <1>1, <2>3, <3>4, SaveEffect
    <3>6. PICK i \in DOMAIN history :
               /\ history[i] = j
               /\ \A k \in 1..i : history[k] # cur => job'[history[k]].status = "gone"
      BY <3>5
    <3>7. DOMAIN history = 1..Len(history) /\ Len(history) \in Nat
      <4>1. history \in Seq(Jobs)
        BY <1>1 DEF TypeInv, JobsTypeOK
      <4>2. QED
        BY <4>1
    <3>8. \A k \in 1..i : k \in DOMAIN history
      BY <3>7
    <3>9. QED
      BY <3>2, <3>5, <3>6, <3>8
  <2> HIDE DEF P
  <2>4. ASSUME NEW j \in Jobs, CreateJob(j) \/ CancelJob(j) PROVE P
    BY <2>2, <2>4 DEF CreateJob, CancelJob
  <2>5. ASSUME NEW s \in Scheds, NEW j \in Jobs, StartSchedule(s, j) PROVE P
    BY <2>2, <2>5 DEF StartSchedule
  <2>6. CASE MarkRunning \/ Fail
    <3>1. cur \in Jobs
      BY <1>1, <2>6 DEF MarkRunning, Fail, TypeInv, Busy
    <3>2. QED
      BY <2>2, <2>6, <3>1 DEF MarkRunning, Fail
  <2>7. ASSUME NEW j \in Jobs, Enqueue(j) \/ PollJob(j) PROVE P
    BY <2>1, <2>7 DEF Enqueue, PollJob, tables
  <2>8. ASSUME NEW s \in Scheds,
               \/ \E state \in {"on", "off"} : UpsertSchedule(s, state)
               \/ DeleteSchedule(s) \/ BecomeDue(s) \/ SkipSchedule(s)
        PROVE  P
    <3>1. UNCHANGED job
      BY <2>8 DEF UpsertSchedule, DeleteSchedule, BecomeDue, SkipSchedule
    <3>2. QED
      BY <2>1, <3>1
  <2>9. CASE Take \/ Report \/ WorkerDies \/ Wake \/ ListDue \/ EndTick \/ TickFails \/ Restart
    BY <2>1, <2>9 DEF Take, Report, WorkerDies, Wake, ListDue, EndTick, TickFails, Restart, tables
  <2>10. CASE FinishSchedule \/ EnqueueScheduled \/ SwitchModel \/ UNCHANGED vars
    BY <2>1, <2>10 DEF FinishSchedule, EnqueueScheduled, SwitchModel, vars, tables
  <2>11. QED
    BY <1>1, <2>3, <2>4, <2>5, <2>6, <2>7, <2>8, <2>9, <2>10 DEF Next, Work, Tick
<1>2. TypeInv /\ HolderInv /\ HistoryInv /\ [Next]_vars => [P]_vars
  BY <1>1
<1>3. QED
  BY <1>2, HoldersHold, PTL DEF Spec, HistoryKept

-----------------------------------------------------------------------------
(* Alerts. *)

\* A job that was alerted is finished for good and out of the scheduler's sight;
\* what the scheduler is about to settle is still so when it settles it.
AlertInv ==
  \A j \in Jobs :
    /\ alerts[j] \in {0, 1}
    /\ alerts[j] = 1 => /\ job[j].grave /\ job[j].status \in {"done", "gone"}
                        /\ pending[j] = NoSched
                        /\ ~(spc \in {"finish", "created"} /\ found.id = j)
    /\ pending[j] # NoSched => job[j].status # "none"
    /\ spc = "finish" /\ found.id = j =>
         /\ pending[j] = NoSched /\ found.status # "error"
         /\ found.status = "done" /\ found.grave =>
              job[j].grave /\ job[j].status \in {"done", "gone"}

\* Steps that alert nobody and show the scheduler nothing new.
LEMMA AlertKept ==
  ASSUME AlertInv, UNCHANGED alerts,
         \A j \in Jobs : \/ job'[j] = job[j]
                         \/ job[j].status \notin {"done", "gone"} /\ job'[j].status # "none"
                         \/ job'[j].grave = job[j].grave /\ job'[j].status = "gone",
         \A j \in Jobs : pending'[j] = pending[j] \/ pending'[j] = NoSched,
         spc' \in {"sleep", "poll", "start"} \/ UNCHANGED <<spc, found>>
  PROVE  AlertInv'
<1> SUFFICES ASSUME NEW j \in Jobs
             PROVE  /\ alerts'[j] \in {0, 1}
                    /\ alerts'[j] = 1 =>
                         /\ job'[j].grave /\ job'[j].status \in {"done", "gone"}
                         /\ pending'[j] = NoSched
                         /\ ~(spc' \in {"finish", "created"} /\ found'.id = j)
                    /\ pending'[j] # NoSched => job'[j].status # "none"
                    /\ spc' = "finish" /\ found'.id = j =>
                         /\ pending'[j] = NoSched /\ found'.status # "error"
                         /\ found'.status = "done" /\ found'.grave =>
                              job'[j].grave /\ job'[j].status \in {"done", "gone"}
  BY DEF AlertInv
<1>1. alerts'[j] \in {0, 1}
  BY DEF AlertInv
<1>2. alerts'[j] = 1 =>
        /\ job'[j].grave /\ job'[j].status \in {"done", "gone"}
        /\ pending'[j] = NoSched
        /\ ~(spc' \in {"finish", "created"} /\ found'.id = j)
  BY DEF AlertInv
<1>3. pending'[j] # NoSched => job'[j].status # "none"
  BY DEF AlertInv
<1>4. spc' = "finish" /\ found'.id = j =>
        /\ pending'[j] = NoSched /\ found'.status # "error"
        /\ found'.status = "done" /\ found'.grave =>
             job'[j].grave /\ job'[j].status \in {"done", "gone"}
  BY DEF AlertInv
<1>5. QED
  BY <1>1, <1>2, <1>3, <1>4

LEMMA AlertStep ==
  ASSUME TypeInv, HolderInv, AlertInv, [Next]_vars
  PROVE  AlertInv'
<1>0. /\ job \in [Jobs -> JobRecord] /\ pending \in [Jobs -> Scheds \cup {NoSched}]
      /\ alerts \in [Jobs -> Nat]
  BY DEF TypeInv, JobsTypeOK, JobRecord
<1>1. ASSUME UNCHANGED <<job, alerts>>,
             \/ UNCHANGED pending
             \/ pending' = [j \in Jobs |-> NoSched]
             \/ \E j \in Jobs : pending' = [pending EXCEPT ![j] = NoSched],
             spc' \in {"sleep", "poll", "start"} \/ UNCHANGED <<spc, found>>
      PROVE  AlertInv'
  <2>1. \A j \in Jobs : pending'[j] = pending[j] \/ pending'[j] = NoSched
    BY <1>0, <1>1
  <2>2. QED
    BY <1>1, <2>1, AlertKept
<1>2. ASSUME NEW j \in Jobs, NEW st \in {"pending", "running", "cancelled", "failed"},
             SetStatus(j, st), job[j].status \notin {"done", "gone"},
             UNCHANGED <<alerts, pending, spc, found>>
      PROVE  AlertInv'
  <2>1. st \in Statuses /\ st # "none"
    BY DEF Statuses
  <2>2. job'[j].status = st /\ \A k \in Jobs \ {j} : job'[k] = job[k]
    BY <1>0, <1>2, <2>1, StatusType
  <2>3. QED
    BY <1>2, <2>1, <2>2, AlertKept
<1>3. \A j \in Jobs : Handled(j) => job[j].status \notin {"done", "gone", "none"}
  BY DEF HolderInv
<1>4. wpc \in {"claimed", "work", "save"} => cur \in Jobs /\ job[cur].status \notin {"done", "gone"}
  BY <1>3 DEF TypeInv, Busy, Handled
<1>5. ASSUME NEW j \in Jobs, CreateJob(j) \/ CancelJob(j) PROVE AlertInv'
  <2>1. job[j].status \notin {"done", "gone"} /\ UNCHANGED <<alerts, pending, spc, found>>
    BY <1>5 DEF CreateJob, CancelJob, Active, scheduler
  <2>2. QED
    BY <1>2, <1>5, <2>1 DEF CreateJob, CancelJob
<1>6. CASE MarkRunning \/ Fail
  <2>1. cur \in Jobs /\ job[cur].status \notin {"done", "gone"}
    BY <1>4, <1>6 DEF MarkRunning, Fail
  <2>2. UNCHANGED <<alerts, pending, spc, found>>
    BY <1>6 DEF MarkRunning, Fail, scheduler
  <2>3. QED
    BY <1>2, <1>6, <2>1, <2>2 DEF MarkRunning, Fail
<1>7. ASSUME NEW grave \in BOOLEAN, Save(grave) PROVE AlertInv'
  <2>1. /\ cur \in Jobs /\ job'[cur] = [status |-> "done", grave |-> grave]
        /\ \A j \in Jobs \ {cur} : job'[j] = job[j] \/ job'[j] = [job[j] EXCEPT !.status = "gone"]
    BY <1>7, SaveEffect
  <2>2. job[cur].status \notin {"done", "gone"} /\ job'[cur].status # "none"
    <3>1. wpc = "save" /\ cur \in Jobs
      BY <1>7, <2>1 DEF Save
    <3>2. job'[cur].status = "done"
      BY <2>1
    <3>3. QED
      BY <1>4, <3>1, <3>2
  <2>3. \A j \in Jobs \ {cur} :
          job'[j] = job[j] \/ (job'[j].grave = job[j].grave /\ job'[j].status = "gone")
    <3>1. ASSUME NEW j \in Jobs
          PROVE  LET r == [job[j] EXCEPT !.status = "gone"]
                 IN  r.grave = job[j].grave /\ r.status = "gone"
      <4>1. job[j] \in JobRecord
        BY <1>0
      <4>2. QED
        BY <4>1 DEF JobRecord
    <3>2. QED
      BY <2>1, <3>1
  <2>4. UNCHANGED <<alerts, pending, spc, found>>
    BY <1>7 DEF Save, scheduler
  <2>5. QED
    BY <2>2, <2>3, <2>4, AlertKept
<1>8. ASSUME NEW j \in Jobs, PollJob(j) PROVE AlertInv'
  <2>1. /\ spc = "poll" /\ UNCHANGED <<job, alerts>> /\ pending[j] # NoSched
    BY <1>8 DEF PollJob, tables, TypeInv, Busy
  <2>2. CASE UNCHANGED <<spc, at, found>>
    BY <1>1, <1>8, <2>1, <2>2 DEF PollJob
  <2>3. CASE /\ ~Active(j) /\ job[j].status # "gone" /\ spc' = "finish"
             /\ found' = [id |-> j, status |-> job[j].status, grave |-> job[j].grave]
    <3>1. pending' = [pending EXCEPT ![j] = NoSched]
      BY <1>8, <2>3 DEF PollJob
    <3>2. pending'[j] = NoSched /\ \A k \in Jobs \ {j} : pending'[k] = pending[k]
      BY <1>0, <3>1
    <3>3. alerts[j] = 0
      BY <2>1 DEF AlertInv
    <3>4. found'.status # "error" /\ found'.id = j
      BY <1>0, <2>3 DEF JobRecord, Statuses
    <3>5. ASSUME NEW k \in Jobs \ {j}
          PROVE  /\ alerts'[k] \in {0, 1}
                 /\ alerts'[k] = 1 => /\ job'[k].grave /\ job'[k].status \in {"done", "gone"}
                                      /\ pending'[k] = NoSched
                 /\ pending'[k] # NoSched => job'[k].status # "none"
      BY <2>1, <3>2 DEF AlertInv
    <3>6. found'.status = job'[j].status /\ found'.grave = job'[j].grave
      BY <2>1, <2>3
    <3>7. QED
      BY <2>1, <2>3, <3>2, <3>3, <3>4, <3>5, <3>6 DEF AlertInv
  <2>4. QED
    BY <1>8, <2>2, <2>3 DEF PollJob
<1>9. CASE FinishSchedule
  <2>1. /\ spc = "finish" /\ found.id \in Jobs /\ spc' = "poll" /\ UNCHANGED <<job, pending>>
        /\ \/ UNCHANGED alerts
           \/ /\ found.status = "error" \/ (found.status = "done" /\ found.grave)
              /\ alerts' = [alerts EXCEPT ![found.id] = alerts[found.id] + 1]
    <3>1. spc = "finish" /\ spc' = "poll" /\ UNCHANGED <<job, pending>>
      BY <1>9 DEF FinishSchedule
    <3>2. found.id \in Jobs
      BY <3>1 DEF TypeInv, Busy
    <3>3. CASE found.status = "error" \/ (found.status = "done" /\ found.grave)
      BY <1>9, <3>1, <3>2, <3>3 DEF FinishSchedule
    <3>4. ASSUME ~(found.status = "error" \/ (found.status = "done" /\ found.grave))
          PROVE  UNCHANGED alerts
      BY <1>9, <3>4, Zenon DEF FinishSchedule
    <3>5. QED
      BY <3>1, <3>2, <3>3, <3>4
  <2>2. CASE UNCHANGED alerts
    BY <1>1, <2>1, <2>2
  <2>3. CASE alerts' = [alerts EXCEPT ![found.id] = alerts[found.id] + 1]
             /\ (found.status = "error" \/ (found.status = "done" /\ found.grave))
    <3>1. alerts[found.id] = 0
      BY <2>1 DEF AlertInv
    <3>2. alerts'[found.id] = 1 /\ \A k \in Jobs \ {found.id} : alerts'[k] = alerts[k]
      BY <1>0, <2>1, <2>3, <3>1
    <3>3. /\ job[found.id].grave /\ job[found.id].status \in {"done", "gone"}
          /\ pending[found.id] = NoSched
      BY <2>1, <2>3 DEF AlertInv
    <3>4. QED
      BY <2>1, <3>2, <3>3 DEF AlertInv
  <2>4. QED
    BY <2>1, <2>2, <2>3
<1>10. ASSUME NEW s \in Scheds, NEW j \in Jobs, StartSchedule(s, j) PROVE AlertInv'
  <2>1. /\ job[j].status = "none" /\ SetStatus(j, "pending") /\ spc' = "created"
        /\ found'.id = j /\ UNCHANGED <<alerts, pending>>
    BY <1>10 DEF StartSchedule, Nothing
  <2>2. job'[j].status = "pending" /\ \A k \in Jobs \ {j} : job'[k] = job[k]
    <3>1. "pending" \in Statuses
      BY DEF Statuses
    <3>2. QED
      BY <1>0, <2>1, <3>1, StatusType
  <2>3. alerts[j] = 0 /\ pending[j] = NoSched
    BY <2>1 DEF AlertInv
  <2>4. QED
    BY <2>1, <2>2, <2>3 DEF AlertInv
<1>11. CASE EnqueueScheduled
  <2>1. /\ spc = "created" /\ found.id \in Jobs /\ spc' = "start" /\ UNCHANGED <<job, alerts>>
        /\ pending' = [pending EXCEPT ![found.id] = at]
    BY <1>11 DEF EnqueueScheduled, TypeInv, Busy
  <2>2. \A k \in Jobs \ {found.id} : pending'[k] = pending[k]
    BY <1>0, <2>1
  <2>3. alerts[found.id] = 0 /\ job[found.id].status # "none"
    BY <1>3, <2>1 DEF AlertInv, Handled, Started
  <2>4. QED
    BY <2>1, <2>2, <2>3 DEF AlertInv
<1>12. ASSUME NEW j \in Jobs, Enqueue(j) PROVE AlertInv'
  BY <1>1, <1>12 DEF Enqueue, tables, scheduler
<1>13. ASSUME NEW s \in Scheds,
              \/ \E state \in {"on", "off"} : UpsertSchedule(s, state)
              \/ DeleteSchedule(s) \/ BecomeDue(s) \/ SkipSchedule(s)
       PROVE  AlertInv'
  <2>1. UNCHANGED <<job, alerts, pending, spc, found>>
    BY <1>13 DEF UpsertSchedule, DeleteSchedule, BecomeDue, SkipSchedule, scheduler
  <2>2. QED
    BY <1>1, <2>1
<1>14. CASE Take \/ Report \/ WorkerDies
  BY <1>1, <1>14 DEF Take, Report, WorkerDies, tables, scheduler
<1>15. CASE Wake \/ ListDue \/ EndTick \/ TickFails \/ Restart
  BY <1>1, <1>15 DEF Wake, ListDue, EndTick, TickFails, Restart, tables
<1>16. CASE SwitchModel \/ UNCHANGED vars
  BY <1>1, <1>16 DEF SwitchModel, vars, tables, scheduler
<1>17. QED
  BY <1>5, <1>6, <1>7, <1>8, <1>9, <1>10, <1>11, <1>12, <1>13, <1>14, <1>15, <1>16
     DEF Next, Work, Tick

\* Findings are alerted at most once and only for an analysis that called for
\* it, through every interleaving of polls, cancels, pruning and restarts.
THEOREM AlertHolds == Spec => []AlertSound
<1>1. Init => AlertInv
  <2> SUFFICES ASSUME Init, NEW j \in Jobs
               PROVE  alerts[j] = 0 /\ pending[j] = NoSched /\ spc = "sleep"
    BY DEF AlertInv
  <2>1. QED
    BY DEF Init
<1>2. TypeInv /\ HolderInv /\ AlertInv /\ [Next]_vars => AlertInv'
  BY AlertStep
<1>3. AlertInv => AlertSound
  BY DEF AlertInv, AlertSound
<1>4. QED
  BY <1>1, <1>2, <1>3, HoldersHold, PTL DEF Spec

=============================================================================
