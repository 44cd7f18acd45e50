-------------------------- MODULE HubAnalysisProofs --------------------------
(***************************************************************************)
(* Theorems about HubAnalysis: the event table under the analysis threads  *)
(* is still the bounded log of EventStore, the control of the threads is   *)
(* sound, and so are the verdicts and jobs.                                *)
(***************************************************************************)
EXTENDS HubAnalysis, StoreAlertsProofs

-----------------------------------------------------------------------------
(* The analysis threads and EventStore. *)

\* Of the event table, a step of the hub is a step of the store, or none.
LEMMA StoreStep == Next => [StoreNext]_storeVars
<1> SUFFICES ASSUME Next PROVE [StoreNext]_storeVars
  OBVIOUS
<1>1. CASE Ingest
  BY <1>1 DEF Ingest, StoreNext
<1>2. CASE Expire
  BY <1>2 DEF Expire, StoreNext
<1>3. ASSUME NEW t \in Threads, Step(t) PROVE UNCHANGED storeVars
  BY <1>3 DEF Step, Check, Fetch, Skip, LlmOk, LlmFail, Gap
<1>4. ASSUME NEW d \in Drains, Wake(d) PROVE UNCHANGED storeVars
  BY <1>4 DEF Wake
<1>5. CASE Count
  BY <1>5 DEF Count
<1>6. ASSUME NEW h \in Requests,
             \/ StartClear(h) \/ StartRefused(h) \/ CancelCheck(h) \/ CancelSet(h)
             \/ \E until \in 0..now : \E since \in 0..until : StartAccepted(h, since, until)
      PROVE  UNCHANGED storeVars
  BY <1>6 DEF StartClear, StartRefused, CancelCheck, CancelSet, StartAccepted
<1>7. ASSUME NEW j \in Jobs,
             \/ \E S \in SUBSET Ids : RunOnDemand(j, S)
             \/ WorkerSave(j) \/ WorkerDone(j) \/ WorkerFail(j)
      PROVE  UNCHANGED storeVars
  BY <1>7 DEF RunOnDemand, WorkerSave, WorkerDone, WorkerFail
<1>8. ASSUME NEW h \in Requests, Save(h) \/ \E a \in BOOLEAN : SaveSettings(h, a)
      PROVE  UNCHANGED storeVars
  BY <1>8 DEF SaveSettings, Save, SaveRead, SaveCheck, SaveCreate, SaveStart, SaveStop, SaveForget
<1>9. ASSUME NEW m \in MaxEventsChoices, Restart(m) PROVE StoreNext
  BY <1>9 DEF Restart, StoreNext
<1>10. QED
  BY <1>1, <1>2, <1>3, <1>4, <1>5, <1>6, <1>7, <1>8, <1>9 DEF Next

\* Whatever the analysis threads do, the event table behaves as EventStore says.
LEMMA StoreKept == Spec => StoreSpec
<1>1. Init => StoreInit
  BY DEF Init
<1>2. [Next]_vars => [StoreNext]_storeVars
  BY StoreStep DEF vars
<1>3. QED
  BY <1>1, <1>2, PTL DEF Spec, StoreSpec

\* With analysis threads, jobs, settings saves and restarts at work the event
\* table (store.py) still implements the bounded log.
THEOREM AnalysedLogHolds == Spec => LogRefined
BY StoreKept, LogHolds, PTL

-----------------------------------------------------------------------------
(* The control of the threads. *)

PcValues == {"off", "count", "check", "fetch", "skip", "llm", "gap", "wait", "made"}
Finals == {"done", "error", "cancelled"}

ReqValues == {"free", "starting", "cancelling"} \cup Saving

\* Types of what the control reads.
ControlTypes ==
  /\ pc \in [Threads -> PcValues]
  /\ stop \in [Threads -> BOOLEAN]
  /\ drain \in Drains \cup {NoDrain}
  /\ auto \in BOOLEAN /\ met \in BOOLEAN
  /\ status \in {"idle", "running"} \cup Finals
  /\ req \in [Requests -> ReqValues]
  /\ asked \in BOOLEAN

\* The known drain runs and is not told to stop.
DrainRuns == drain # NoDrain /\ pc[drain] \notin {"off", "made"} /\ ~stop[drain]

\* What a save knows of the drain at each of its steps, if no other overlaps it.
SavePhase(h) ==
  /\ req[h] \in {"read", "on", "off"} => drain = NoDrain \/ DrainRuns
  /\ req[h] \in {"on", "again", "create", "start"} => auto
  /\ req[h] \in {"off", "stop", "forget"} => ~auto
  /\ req[h] \in {"again", "create"} => drain = NoDrain
  /\ req[h] = "start" => drain # NoDrain /\ pc[drain] = "made" /\ ~stop[drain]
  /\ req[h] = "stop" => DrainRuns
  /\ req[h] = "forget" => drain # NoDrain /\ stop[drain]

\* While no two saves overlapped.
SaveInv ==
  ~met =>
    /\ \A g, h \in Requests : req[g] \in Saving /\ req[h] \in Saving => g = h
    /\ \A h \in Requests : SavePhase(h)

ControlInv == ControlTypes /\ OneDrain /\ SaveInv /\ RunningIsAlive

\* A thread that runs moves on and keeps running.
LEMMA MoveControl ==
  ASSUME ControlTypes, OneDrain, SaveInv, NEW t \in Threads, NEW l \in PcValues \ {"off", "made"},
         pc[t] \notin {"off", "made"}, pc' = [pc EXCEPT ![t] = l],
         UNCHANGED <<stop, drain, auto, met, req>>
  PROVE  OneDrain' /\ SaveInv'
<1> USE AnalysisAssumption DEF AnalysisAssumption
<1>1. \A d \in Drains : d \in Threads /\ (d = drain => drain # NoDrain)
  BY DEF Threads
<1>2. \A d \in Threads : /\ pc'[d] \notin {"off", "made"} <=> pc[d] \notin {"off", "made"}
                         /\ pc'[d] = "made" <=> pc[d] = "made"
                         /\ pc'[d] = "off" <=> pc[d] = "off"
  BY DEF ControlTypes
<1>3. drain # NoDrain => drain \in Threads
  BY DEF ControlTypes, Threads
<1>4. OneDrain'
  BY <1>1, <1>2, <1>3 DEF OneDrain
<1>5. \A h \in Requests : SavePhase(h) => SavePhase(h)'
  BY <1>2, <1>3 DEF SavePhase, DrainRuns
<1>6. SaveInv'
  BY <1>5 DEF SaveInv
<1>7. QED
  BY <1>4, <1>6

\* Thread t moves on within the loop.
LEMMA GotoControl ==
  ASSUME ControlInv, NEW t \in Threads, NEW l \in PcValues \ {"off", "made"},
         pc[t] \notin {"off", "made"},
         Goto(t, l), UNCHANGED <<stop, drain, auto, met, status, req, asked>>
  PROVE  ControlInv'
<1>1. ControlTypes'
  BY DEF ControlInv, ControlTypes, Goto
<1>2. OneDrain' /\ SaveInv'
  BY MoveControl DEF ControlInv, Goto
<1>3. RunningIsAlive'
  BY DEF ControlInv, ControlTypes, RunningIsAlive, Goto, Threads
<1>4. QED
  BY <1>1, <1>2, <1>3 DEF ControlInv

\* The on-demand thread is no drain.
LEMMA RunControl ==
  ASSUME ControlTypes, OneDrain, SaveInv, NEW l \in PcValues,
         pc' = [pc EXCEPT ![OnDemand] = l], UNCHANGED <<stop, drain, auto, met>>,
         \A h \in Requests : req'[h] = req[h] \/ {req[h], req'[h]} \cap Saving = {}
  PROVE  OneDrain' /\ SaveInv'
<1> USE AnalysisAssumption DEF AnalysisAssumption
<1>1. \A d \in Drains : pc'[d] = pc[d]
  BY DEF ControlTypes, Threads
<1>2. drain # NoDrain => drain \in Drains
  BY DEF ControlTypes
<1>3. \A h \in Requests : req'[h] \in Saving <=> req[h] \in Saving
  OBVIOUS
<1>4. OneDrain'
  BY <1>1, <1>2, <1>3 DEF OneDrain
<1>5. \A h \in Requests : SavePhase(h) => SavePhase(h)'
  BY <1>1, <1>2 DEF SavePhase, DrainRuns, Saving
<1>6. SaveInv'
  BY <1>3, <1>5 DEF SaveInv
<1>7. QED
  BY <1>4, <1>6

\* Thread t leaves the loop.
LEMMA FinishControl ==
  ASSUME ControlInv, NEW t \in Threads, NEW final \in Finals, pc[t] \notin {"off", "made"},
         Finish(t, final), UNCHANGED <<stop, drain, auto, met>>
  PROVE  ControlInv'
<1> USE AnalysisAssumption DEF AnalysisAssumption
<1>1. ControlTypes'
  BY DEF ControlInv, ControlTypes, Finish, PcValues, Finals
<1>2. OneDrain' /\ SaveInv'
  <2>1. CASE t = OnDemand
    BY <2>1, RunControl DEF ControlInv, Finish, PcValues
  <2>2. CASE t # OnDemand
    BY <2>2, MoveControl DEF ControlInv, Finish, PcValues
  <2>3. QED
    BY <2>1, <2>2
<1>3. RunningIsAlive'
  BY DEF ControlInv, ControlTypes, RunningIsAlive, Finish, Threads, Finals
<1>4. QED
  BY <1>1, <1>2, <1>3 DEF ControlInv

\* A settings save moves on.
LEMMA SaveControl ==
  ASSUME ControlInv, NEW h \in Requests, Save(h)
  PROVE  ControlInv'
<1> USE AnalysisAssumption DEF AnalysisAssumption
<1>0. /\ ControlTypes /\ OneDrain /\ SaveInv /\ RunningIsAlive
      /\ \A d \in Drains : d \in Threads /\ d # NoDrain /\ d # OnDemand
      /\ drain # NoDrain => drain \in Drains
  BY DEF ControlInv, ControlTypes, Threads
<1>1. ASSUME NEW l \in ReqValues, NEW x \in Drains \cup {NoDrain}, NEW p \in [Threads -> PcValues],
             NEW s \in [Threads -> BOOLEAN],
             req[h] \in Saving, req' = [req EXCEPT ![h] = l], drain' = x, pc' = p, stop' = s,
             p[OnDemand] = pc[OnDemand], UNCHANGED <<auto, met, status, asked>>,
             ~met => /\ \A d \in Drains : p[d] # "off" /\ ~s[d] => d = x
                     /\ l \notin Saving => IF auto THEN DrainRuns' ELSE x = NoDrain
                     /\ SavePhase(h)'
      PROVE  ControlInv'
  <2>1. ControlTypes'
    BY <1>0, <1>1 DEF ControlTypes
  <2>2. /\ req'[h] = l
        /\ \A g \in Requests \ {h} : req'[g] = req[g]
    BY <1>0, <1>1 DEF ControlTypes, Saving
  <2>3. ~met => \A g \in Requests \ {h} : req[g] \notin Saving
    BY <1>0, <1>1 DEF SaveInv
  <2>4. req'[h] = l
    BY <1>0, <1>1 DEF ControlTypes
  <2>5. OneDrain'
    BY <1>1, <2>2, <2>3, <2>4 DEF OneDrain, DrainRuns
  <2>6. ASSUME ~met, NEW g \in Requests \ {h} PROVE SavePhase(g)'
    BY <2>2, <2>3, <2>6 DEF SavePhase, Saving
  <2>7. SaveInv'
    BY <1>1, <2>2, <2>3, <2>6 DEF SaveInv
  <2>8. RunningIsAlive'
    BY <1>0, <1>1 DEF RunningIsAlive
  <2>9. QED
    BY <2>1, <2>5, <2>7, <2>8 DEF ControlInv
<1>2. /\ pc \in [Threads -> PcValues] /\ stop \in [Threads -> BOOLEAN]
      /\ drain \in Drains \cup {NoDrain} /\ req \in [Requests -> ReqValues]
  BY <1>0 DEF ControlTypes
<1>3. ~met => SavePhase(h) /\ \A d \in Drains : pc[d] # "off" /\ ~stop[d] => d = drain
  BY <1>0 DEF SaveInv, OneDrain
<1>4. CASE SaveRead(h) \/ SaveCheck(h)
  <2>1. /\ UNCHANGED <<pc, stop, drain, auto, met, status, asked>>
        /\ \/ req[h] = "read" /\ req' = [req EXCEPT ![h] = IF auto THEN "on" ELSE "off"]
           \/ req[h] = "again" /\ req' = [req EXCEPT ![h] = IF auto THEN "create" ELSE "free"]
           \/ req[h] = "on" /\ req' = [req EXCEPT ![h] = IF drain = NoDrain THEN "again" ELSE "free"]
           \/ req[h] = "off" /\ req' = [req EXCEPT ![h] = IF drain # NoDrain THEN "stop" ELSE "free"]
    BY <1>4 DEF SaveRead, SaveCheck, SaveGoto, threadVars
  <2> DEFINE l == req'[h]
  <2>2. l \in ReqValues /\ req[h] \in Saving /\ req' = [req EXCEPT ![h] = l]
    BY <1>2, <2>1 DEF ReqValues, Saving
  <2>3. ~met => /\ l \notin Saving => IF auto THEN DrainRuns' ELSE drain = NoDrain
                /\ SavePhase(h)'
    BY <1>2, <1>3, <2>1 DEF SavePhase, DrainRuns, Saving
  <2> HIDE DEF l
  <2>4. QED
    BY <1>1, <1>2, <1>3, <2>1, <2>2, <2>3
<1>5. CASE SaveCreate(h)
  <2>1. /\ req[h] = "create" /\ req' = [req EXCEPT ![h] = "start"]
        /\ UNCHANGED <<auto, met, status, asked>>
    BY <1>5 DEF SaveCreate, SaveGoto
  <2>2. PICK d \in Drains \ {drain} :
          /\ drain' = d /\ pc' = [pc EXCEPT ![d] = "made"] /\ stop' = [stop EXCEPT ![d] = FALSE]
    BY <1>5 DEF SaveCreate, Goto
  <2>3. d \in Threads /\ d # OnDemand /\ d # NoDrain
    BY <1>0
  <2>4. /\ pc' \in [Threads -> PcValues] /\ stop' \in [Threads -> BOOLEAN]
        /\ pc'[d] = "made" /\ ~stop'[d] /\ pc'[OnDemand] = pc[OnDemand]
        /\ \A x \in Drains \ {d} : pc'[x] = pc[x] /\ stop'[x] = stop[x]
    BY <1>0, <1>2, <2>2, <2>3 DEF PcValues, Threads
  <2>5. ~met => /\ \A x \in Drains : pc'[x] # "off" /\ ~stop'[x] => x = d
                /\ SavePhase(h)'
    <3> SUFFICES ASSUME ~met PROVE /\ \A x \in Drains : pc'[x] # "off" /\ ~stop'[x] => x = d
                                   /\ SavePhase(h)'
      OBVIOUS
    <3>1. auto /\ drain = NoDrain
      BY <1>3, <2>1 DEF SavePhase
    <3>2. \A x \in Drains : pc'[x] # "off" /\ ~stop'[x] => x = d
      BY <1>0, <1>3, <2>4, <3>1
    <3>3. req'[h] = "start"
      BY <1>2, <2>1
    <3>4. SavePhase(h)'
      BY <2>1, <2>2, <2>3, <2>4, <3>1, <3>3 DEF SavePhase
    <3>5. QED
      BY <3>2, <3>4
  <2>6. "start" \in ReqValues /\ "start" \in Saving /\ req[h] \in Saving
    BY <2>1 DEF ReqValues, Saving
  <2>7. /\ drain' \in Drains \cup {NoDrain}
        /\ ~met => /\ \A x \in Drains : pc'[x] # "off" /\ ~stop'[x] => x = drain'
                   /\ "start" \notin Saving => IF auto THEN DrainRuns' ELSE drain' = NoDrain
                   /\ SavePhase(h)'
    BY <2>2, <2>5, <2>6
  <2>8. QED
    BY <1>1, <2>1, <2>4, <2>6, <2>7
<1>6. CASE SaveStart(h)
  <2>1. /\ req[h] = "start" /\ req' = [req EXCEPT ![h] = "free"]
        /\ UNCHANGED <<stop, drain, auto, met, status, asked>>
        /\ pc' = IF drain # NoDrain /\ pc[drain] = "made" THEN [pc EXCEPT ![drain] = "wait"] ELSE pc
    BY <1>6 DEF SaveStart, SaveGoto, Goto
  <2>2. pc' \in [Threads -> PcValues] /\ pc'[OnDemand] = pc[OnDemand]
        /\ \A x \in Drains : pc'[x] # "off" => pc[x] # "off"
    BY <1>0, <1>2, <2>1 DEF PcValues, Threads
  <2>3. ~met => DrainRuns' /\ auto
    BY <1>0, <1>2, <1>3, <2>1 DEF SavePhase, DrainRuns
  <2>4. req'[h] = "free"
    BY <1>2, <2>1
  <2>5. SavePhase(h)'
    BY <2>4 DEF SavePhase
  <2>6. "free" \in ReqValues /\ req[h] \in Saving
    BY <2>1 DEF ReqValues, Saving
  <2>7. ~met => /\ \A x \in Drains : pc'[x] # "off" /\ ~stop[x] => x = drain
                /\ "free" \notin Saving => IF auto THEN DrainRuns' ELSE drain = NoDrain
                /\ SavePhase(h)'
    BY <1>3, <2>2, <2>3, <2>5
  <2>8. /\ drain' = drain /\ stop' = stop /\ UNCHANGED <<auto, met, status, asked>>
        /\ req' = [req EXCEPT ![h] = "free"]
    BY <2>1
  <2>9. QED
    BY <1>1, <1>2, <2>2, <2>6, <2>7, <2>8
<1>7. CASE SaveStop(h)
  <2>1. req[h] = "stop" /\ UNCHANGED <<pc, drain, auto, met, status, asked>>
    BY <1>7 DEF SaveStop
  <2>2. CASE drain = NoDrain
    <3>1. req' = [req EXCEPT ![h] = "free"] /\ UNCHANGED stop
      BY <1>7, <2>2 DEF SaveStop, SaveGoto
    <3>2. req'[h] = "free"
      BY <1>2, <3>1
    <3>3. met
      BY <1>3, <2>1, <2>2 DEF SavePhase, DrainRuns
    <3>4. "free" \in ReqValues /\ req[h] \in Saving
      BY <2>1 DEF ReqValues, Saving
    <3>5. QED
      BY <1>1, <1>2, <2>1, <3>1, <3>3, <3>4
  <2>3. CASE drain # NoDrain
    <3>1. req' = [req EXCEPT ![h] = "forget"] /\ stop' = [stop EXCEPT ![drain] = TRUE]
      BY <1>7, <2>3 DEF SaveStop, SaveGoto
    <3>2. req'[h] = "forget"
      BY <1>2, <3>1
    <3>3. stop' \in [Threads -> BOOLEAN] /\ stop'[drain]
          /\ \A x \in Threads : ~stop'[x] => ~stop[x]
      BY <1>0, <1>2, <2>3, <3>1
    <3>4. ~met => /\ \A d \in Drains : pc[d] # "off" /\ ~stop'[d] => d = drain
                  /\ SavePhase(h)'
      BY <1>0, <1>3, <2>1, <2>3, <3>2, <3>3 DEF SavePhase
    <3>5. "forget" \in ReqValues /\ "forget" \in Saving /\ req[h] \in Saving
      BY <2>1 DEF ReqValues, Saving
    <3>6. QED
      BY <1>1, <1>2, <2>1, <3>1, <3>3, <3>4, <3>5
  <2>4. QED
    BY <2>2, <2>3
<1>8. CASE SaveForget(h)
  <2>1. /\ req[h] = "forget" /\ req' = [req EXCEPT ![h] = "free"] /\ drain' = NoDrain
        /\ UNCHANGED <<pc, stop, auto, met, status, asked>>
    BY <1>8 DEF SaveForget, SaveGoto
  <2>2. req'[h] = "free"
    BY <1>2, <2>1
  <2>3. SavePhase(h)'
    BY <2>2 DEF SavePhase
  <2>4. ~met => ~auto /\ \A d \in Drains : ~(pc[d] # "off" /\ ~stop[d])
    BY <1>3, <2>1 DEF SavePhase
  <2>5. "free" \in ReqValues /\ req[h] \in Saving
    BY <2>1 DEF ReqValues, Saving
  <2>6. QED
    BY <1>1, <1>2, <2>1, <2>3, <2>4, <2>5
<1>9. QED
  BY <1>4, <1>5, <1>6, <1>7, <1>8 DEF Save

LEMMA ControlStep ==
  ASSUME ControlInv, [Next]_vars
  PROVE  ControlInv'
<1> USE AnalysisAssumption DEF AnalysisAssumption
<1> DEFINE Same == UNCHANGED <<pc, stop, drain, auto, met, status, req, asked>>
<1>0. ASSUME Same PROVE ControlInv'
  BY <1>0 DEF ControlInv, ControlTypes, OneDrain, SaveInv, SavePhase, DrainRuns, RunningIsAlive
<1>1. CASE Ingest \/ Expire
  BY <1>0, <1>1 DEF Ingest, Expire, threadVars, runVars
<1>2. ASSUME NEW t \in Threads, Step(t) PROVE ControlInv'
  <2>1. CASE Check(t)
    BY <2>1, GotoControl, FinishControl DEF Check, PcValues, Finals
  <2>2. CASE Fetch(t)
    BY <2>2, GotoControl, FinishControl DEF Fetch, PcValues, Finals
  <2>3. CASE Skip(t)
    BY <2>3, GotoControl DEF Skip, PcValues, runVars
  <2>4. CASE LlmOk(t)
    BY <2>4, GotoControl DEF LlmOk, PcValues, runVars
  <2>5. CASE LlmFail(t)
    BY <2>5, FinishControl DEF LlmFail, Finals
  <2>6. CASE Gap(t)
    BY <2>6, GotoControl, FinishControl DEF Gap, PcValues, Finals
  <2>7. QED
    BY <1>2, <2>1, <2>2, <2>3, <2>4, <2>5, <2>6 DEF Step
<1>3. ASSUME NEW d \in Drains, Wake(d) PROVE ControlInv'
  <2>1. pc[d] = "wait" /\ d \in Threads /\ d # OnDemand /\ d # NoDrain
    BY <1>3 DEF Wake, Threads
  <2>2. CASE stop[d]
    <3>1. pc' = [pc EXCEPT ![d] = "off"] /\ UNCHANGED <<stop, drain, auto, met, status, req, asked>>
      BY <1>3, <2>2 DEF Wake, Goto, runVars
    <3>2. ControlTypes' /\ RunningIsAlive'
      BY <2>1, <3>1 DEF ControlInv, ControlTypes, RunningIsAlive, Threads, PcValues
    <3>3. \A x \in Threads : x # d => pc'[x] = pc[x]
      BY <3>1 DEF ControlInv, ControlTypes
    <3>4. drain # NoDrain => drain \in Threads
      BY DEF ControlInv, ControlTypes, Threads
    <3>5. pc'[d] = "off"
      BY <2>1, <3>1 DEF ControlInv, ControlTypes
    <3>6. OneDrain'
      BY <2>2, <3>1, <3>3, <3>4, <3>5 DEF ControlInv, OneDrain, Threads
    <3>7. \A h \in Requests : SavePhase(h) => SavePhase(h)'
      BY <2>1, <2>2, <3>1, <3>3, <3>4 DEF SavePhase, DrainRuns
    <3>8. SaveInv'
      BY <3>1, <3>7 DEF ControlInv, SaveInv
    <3>9. QED
      BY <3>2, <3>6, <3>8 DEF ControlInv
  <2>3. CASE ~stop[d]
    BY <1>3, <2>1, <2>3, GotoControl DEF Wake, PcValues, runVars
  <2>4. QED
    BY <2>2, <2>3
<1>4. CASE Count
  BY <1>4, GotoControl, FinishControl DEF Count, PcValues, Finals, Threads
<1>5. ASSUME NEW h \in Requests, StartClear(h) \/ StartRefused(h) \/ CancelCheck(h) \/ CancelSet(h)
      PROVE  ControlInv'
  <2>1. /\ UNCHANGED <<pc, drain, auto, met, status>>
        /\ \/ UNCHANGED stop
           \/ \E b \in BOOLEAN : stop' = [stop EXCEPT ![OnDemand] = b]
    BY <1>5 DEF StartClear, StartRefused, CancelCheck, CancelSet, threadVars
  <2>2. /\ req[h] \notin Saving
        /\ \E x \in {"free", "starting", "cancelling"} : req' = [req EXCEPT ![h] = x]
        /\ asked' \in BOOLEAN
    BY <1>5 DEF StartClear, StartRefused, CancelCheck, CancelSet, ControlInv, ControlTypes, Saving
  <2>3. ControlTypes'
    BY <2>1, <2>2 DEF ControlInv, ControlTypes, ReqValues
  <2>4. \A d \in Drains : stop'[d] = stop[d]
    BY <2>1 DEF ControlInv, ControlTypes, Threads
  <2>5. \A g \in Requests : req'[g] = req[g] \/ {req[g], req'[g]} \cap Saving = {}
    BY <2>2 DEF ControlInv, ControlTypes, Saving
  <2>6. \A g \in Requests : req'[g] \in Saving <=> req[g] \in Saving
    BY <2>5
  <2>7. drain # NoDrain => drain \in Drains
    BY DEF ControlInv, ControlTypes
  <2>8. OneDrain'
    BY <2>1, <2>4, <2>6, <2>7 DEF ControlInv, OneDrain
  <2>9. \A g \in Requests : SavePhase(g) => SavePhase(g)'
    BY <2>1, <2>4, <2>5, <2>7 DEF SavePhase, DrainRuns, Saving
  <2>10. SaveInv' /\ RunningIsAlive'
    BY <2>1, <2>6, <2>9 DEF ControlInv, SaveInv, RunningIsAlive
  <2>11. QED
    BY <2>3, <2>8, <2>10 DEF ControlInv
<1>6. ASSUME NEW h \in Requests, NEW until, NEW since, StartAccepted(h, since, until)
      PROVE  ControlInv'
  <2>1. /\ pc' = [pc EXCEPT ![OnDemand] = "count"] /\ status' = "running"
        /\ req[h] = "starting" /\ req' = [req EXCEPT ![h] = "free"] /\ asked' = FALSE
        /\ UNCHANGED <<stop, drain, auto, met>>
    BY <1>6 DEF StartAccepted, Goto
  <2>2. ControlTypes' /\ RunningIsAlive'
    BY <2>1 DEF ControlInv, ControlTypes, RunningIsAlive, Threads, PcValues, ReqValues
  <2>3. \A g \in Requests : req'[g] = req[g] \/ {req[g], req'[g]} \cap Saving = {}
    BY <2>1 DEF ControlInv, ControlTypes, Saving
  <2>4. OneDrain' /\ SaveInv'
    BY <2>1, <2>3, RunControl DEF ControlInv, PcValues
  <2>5. QED
    BY <2>2, <2>4 DEF ControlInv
<1>7. ASSUME NEW j \in Jobs,
             \/ \E S \in SUBSET Ids : RunOnDemand(j, S)
             \/ WorkerSave(j) \/ WorkerDone(j) \/ WorkerFail(j)
      PROVE  ControlInv'
  BY <1>0, <1>7 DEF RunOnDemand, WorkerSave, WorkerDone, WorkerFail, threadVars, runVars
<1>8. ASSUME NEW h \in Requests, NEW a \in BOOLEAN, SaveSettings(h, a) PROVE ControlInv'
  <2>1. /\ req[h] = "free" /\ req' = [req EXCEPT ![h] = "read"] /\ auto' = a
        /\ met' = (met \/ \E g \in Requests : req[g] \in Saving)
        /\ UNCHANGED <<pc, stop, drain, status, asked>>
    BY <1>8 DEF SaveSettings, SaveGoto
  <2>2. req \in [Requests -> ReqValues] /\ met \in BOOLEAN
    BY DEF ControlInv, ControlTypes
  <2>3. met' \in BOOLEAN
    BY <2>1, <2>2
  <2>4. ControlTypes' /\ RunningIsAlive'
    BY <2>1, <2>3 DEF ControlInv, ControlTypes, RunningIsAlive, ReqValues, Saving
  <2>5. SUFFICES ASSUME ~met' PROVE OneDrain' /\ SaveInv'
    BY <2>4, <2>5 DEF ControlInv, OneDrain, SaveInv
  <2>6. ~met /\ \A g \in Requests : req[g] \notin Saving
    BY <2>1, <2>5
  <2>7. /\ \A d \in Drains : pc[d] # "off" /\ ~stop[d] => d = drain
        /\ drain = NoDrain \/ DrainRuns
    BY <2>6 DEF ControlInv, OneDrain, DrainRuns
  <2>8. req'[h] = "read" /\ \A g \in Requests \ {h} : req'[g] \notin Saving
    BY <2>1, <2>2, <2>6
  <2>9. OneDrain'
    BY <2>1, <2>7, <2>8 DEF OneDrain, Saving
  <2>10. \A g \in Requests : SavePhase(g)'
    BY <2>1, <2>7, <2>8 DEF SavePhase, DrainRuns, Saving
  <2>11. SaveInv'
    BY <2>8, <2>10 DEF SaveInv
  <2>12. QED
    BY <2>9, <2>11
<1>9. ASSUME NEW m \in MaxEventsChoices, Restart(m) PROVE ControlInv'
  <2>1. /\ drain' \in IF auto THEN Drains ELSE {NoDrain}
        /\ UNCHANGED auto
        /\ pc' = [t \in Threads |-> IF t = drain' THEN "wait" ELSE "off"]
        /\ stop' = [t \in Threads |-> FALSE] /\ status' = "idle"
        /\ req' = [h \in Requests |-> "free"] /\ asked' = FALSE /\ met' = FALSE
    BY <1>9 DEF Restart
  <2>2. QED
    BY <2>1 DEF ControlInv, ControlTypes, OneDrain, SaveInv, SavePhase, DrainRuns, RunningIsAlive,
       Threads, PcValues, ReqValues, Saving
<1>10. CASE UNCHANGED vars
  BY <1>0, <1>10 DEF vars, threadVars, runVars
<1>11. QED
  BY <1>1, <1>2, <1>3, <1>4, <1>5, <1>6, <1>7, <1>8, <1>9, <1>10, SaveControl DEF Next

LEMMA ControlHolds == Spec => []ControlInv
<1>1. Init => ControlInv
  <2> SUFFICES ASSUME Init PROVE ControlInv
    OBVIOUS
  <2> USE AnalysisAssumption DEF AnalysisAssumption
  <2>1. /\ drain \in IF auto THEN Drains ELSE {NoDrain}
        /\ pc = [t \in Threads |-> IF t = drain THEN "wait" ELSE "off"]
    BY DEF Init
  <2>2. QED
    BY <2>1 DEF Init, ControlInv, ControlTypes, OneDrain, SaveInv, SavePhase, DrainRuns,
       RunningIsAlive, Threads, PcValues, ReqValues, Saving
<1>2. QED
  BY <1>1, ControlStep, PTL DEF Spec

\* For any number of settings saves and restarts: unless two saves overlapped
\* since the last restart, the one drain that is not told to stop is the one
\* main.py knows, and between saves it runs exactly while the setting is on.
THEOREM OneDrainHolds == Spec => []OneDrain
BY ControlHolds, PTL DEF ControlInv

\* The state shown to the user says running exactly while the on-demand thread
\* exists, for any number of web threads and batches.
THEOREM RunningHolds == Spec => []RunningIsAlive
BY ControlHolds, PTL DEF ControlInv

-----------------------------------------------------------------------------
(* Verdicts, analyses and jobs. *)

Kinds == {"ok", "skip", "error"}
Analysis == [lines : LineMaps, kind : Kinds]
JobRecord == [status : {"none", "running", "done", "failed"}, lines : LineMaps, aid : Nat]

\* Lines that were read from rows of the table, whether or not these still exist.
WereRead(ls) ==
  /\ ls \in LineMaps
  /\ \A e \in DOMAIN ls : e < nextId /\ ls[e] = row[e].msg

LEMMA LineMapIntro ==
  ASSUME NEW S \in SUBSET Ids, NEW f \in [S -> Messages]
  PROVE  f \in LineMaps
BY DEF LineMaps

LEMMA LineMapDomain ==
  ASSUME NEW f \in LineMaps
  PROVE  DOMAIN f \in SUBSET Ids /\ \A e \in DOMAIN f : f[e] \in Messages
BY DEF LineMaps

\* A row that was read never changes: an insert writes a new one.
LEMMA ReadStays ==
  ASSUME StoreTypeOK, [StoreNext]_storeVars, NEW ls, WereRead(ls)
  PROVE  ls \in LineMaps /\ \A e \in DOMAIN ls : e < nextId' /\ ls[e] = row'[e].msg
<1>1. DOMAIN ls \in SUBSET Ids
  BY LineMapDomain DEF WereRead
<1>2. ASSUME NEW r \in Row, Insert(r)
      PROVE  \A e \in DOMAIN ls : e < nextId' /\ ls[e] = row'[e].msg
  <2>1. nextId \in Nat /\ nextId' = nextId + 1 /\ row' = [row EXCEPT ![nextId] = r]
    BY <1>2 DEF Insert, Ids
  <2> SUFFICES ASSUME NEW e \in DOMAIN ls PROVE e < nextId' /\ ls[e] = row'[e].msg
    OBVIOUS
  <2>2. e \in Ids /\ e \in Nat /\ e < nextId
    BY <1>1 DEF WereRead, Ids
  <2>3. row'[e] = row[e]
    BY <2>1, <2>2 DEF StoreTypeOK
  <2>4. QED
    BY <2>1, <2>2, <2>3 DEF WereRead
<1>3. CASE UNCHANGED <<row, nextId>>
  BY <1>3 DEF WereRead
<1>4. QED
  BY <1>2, <1>3 DEF WereRead, StoreNext, InsertAny, MarkIngestSeen, DeleteOlderThan,
                    Reopen, ChangeReserve, Tick, storeVars

\* Lines(S) reads rows of the table.
LEMMA LinesRead ==
  ASSUME StoreTypeOK, NEW S \in SUBSET live
  PROVE  WereRead(Lines(S))
<1>1. \A e \in S : e \in Ids /\ e < nextId /\ row[e].msg \in Messages
  BY DEF StoreTypeOK, Row
<1>2. Lines(S) \in [S -> Messages]
  BY <1>1 DEF Lines
<1>3. Lines(S) \in LineMaps
  BY <1>1, <1>2, LineMapIntro
<1>4. QED
  BY <1>1, <1>3 DEF WereRead, Lines

\* A part of what was read was read.
LEMMA RestrictedRead ==
  ASSUME NEW b, WereRead(b), NEW S
  PROVE  WereRead(Restricted(b, S))
<1>1. DOMAIN b \in SUBSET Ids /\ \A e \in DOMAIN b : b[e] \in Messages
  BY LineMapDomain DEF WereRead
<1>2. Restricted(b, S) \in [DOMAIN b \cap S -> Messages]
  BY <1>1 DEF Restricted
<1>3. Restricted(b, S) \in LineMaps
  BY <1>1, <1>2, LineMapIntro
<1>4. QED
  BY <1>3 DEF WereRead, Restricted

\* The analyses and the verdicts taken from them.
SavedInv ==
  /\ analyses \in Seq(Analysis)
  /\ verdict \in [Ids -> 0..Len(analyses)]
  /\ \A a \in DOMAIN analyses :
        /\ WereRead(analyses[a].lines)
        /\ analyses[a].kind = "skip" =>
             \A e \in DOMAIN analyses[a].lines : analyses[a].lines[e] \in Blocked
  /\ VerdictSound /\ VerdictNewest

\* What the threads hold, and the jobs.
WorkInv ==
  /\ batch \in [Threads -> LineMaps] /\ \A t \in Threads : WereRead(batch[t])
  /\ job \in [Jobs -> JobRecord]
  /\ workers \subseteq {j \in Jobs : job[j].status = "running"}
  /\ \A j \in Jobs :
        /\ WereRead(job[j].lines)
        /\ job[j].status = "done" => job[j].aid # 0
        /\ job[j].aid # 0 =>
             /\ job[j].aid \in DOMAIN analyses
             /\ analyses[job[j].aid] = [lines |-> job[j].lines, kind |-> "ok"]

\* Saving what was read keeps the verdicts sound and adds to the log.
LEMMA SaveEffect ==
  ASSUME StoreTypeOK, SavedInv, UNCHANGED storeVars, NEW ls, WereRead(ls), NEW kind \in Kinds,
         kind = "skip" => \A e \in DOMAIN ls : ls[e] \in Blocked,
         InsertAnalysis(ls, kind)
  PROVE  /\ SavedInv'
         /\ Len(analyses') = Len(analyses) + 1
         /\ analyses'[Len(analyses) + 1] = [lines |-> ls, kind |-> kind]
         /\ \A a \in DOMAIN analyses : a \in DOMAIN analyses' /\ analyses'[a] = analyses[a]
<1> DEFINE new == [lines |-> ls, kind |-> kind]
           n == Len(analyses) + 1
<1>1. new \in Analysis /\ new.lines = ls /\ new.kind = kind
  BY DEF WereRead, Analysis
<1>2. analyses \in Seq(Analysis) /\ analyses' = Append(analyses, new)
  BY DEF SavedInv, InsertAnalysis
<1> HIDE DEF new
<1>3. /\ analyses' \in Seq(Analysis) /\ Len(analyses') = n /\ n \in Nat /\ n > 0
      /\ analyses'[n] = new /\ DOMAIN analyses' = 1..n /\ DOMAIN analyses = 1..(n - 1)
      /\ \A a \in 1..(n - 1) : analyses'[a] = analyses[a]
  BY <1>1, <1>2
<1>4. live' = live /\ row' = row /\ nextId' = nextId /\ live \subseteq Ids
  BY DEF storeVars, StoreTypeOK
<1>5. verdict' = IF kind = "error" THEN verdict
                 ELSE [e \in Ids |-> IF e \in live \cap DOMAIN ls THEN n ELSE verdict[e]]
  BY DEF InsertAnalysis
<1>6. verdict \in [Ids -> 0..(n - 1)]
  BY <1>3 DEF SavedInv
<1>7. verdict' \in [Ids -> 0..Len(analyses')]
  <2>1. CASE kind = "error"
    <3>1. verdict' = verdict
      BY <1>5, <2>1
    <3>2. QED
      BY <1>3, <1>6, <3>1
  <2>2. CASE kind # "error"
    <3>1. verdict' = [e \in Ids |-> IF e \in live \cap DOMAIN ls THEN n ELSE verdict[e]]
      BY <1>5, <2>2
    <3>2. QED
      BY <1>3, <1>6, <3>1
  <2>3. QED
    BY <2>1, <2>2
<1>8. ASSUME NEW a \in DOMAIN analyses'
      PROVE  /\ analyses'[a].lines \in LineMaps
             /\ \A e \in DOMAIN analyses'[a].lines :
                  e < nextId' /\ analyses'[a].lines[e] = row'[e].msg
             /\ analyses'[a].kind = "skip" =>
                  \A e \in DOMAIN analyses'[a].lines : analyses'[a].lines[e] \in Blocked
  <2>1. CASE a = n
    BY <1>1, <1>3, <1>4, <2>1 DEF WereRead
  <2>2. CASE a \in 1..(n - 1)
    BY <1>3, <1>4, <2>2 DEF SavedInv, WereRead
  <2>3. QED
    BY <1>3, <2>1, <2>2
<1>9. ASSUME NEW e \in live, verdict'[e] # 0
      PROVE  /\ e \in DOMAIN analyses'[verdict'[e]].lines
             /\ analyses'[verdict'[e]].lines[e] = row[e].msg
             /\ analyses'[verdict'[e]].kind # "error"
             /\ analyses'[verdict'[e]].kind = "skip" => row[e].msg \in Blocked
  <2>1. CASE kind # "error" /\ e \in DOMAIN ls
    <3>1. verdict'[e] = n /\ ls[e] = row[e].msg
      BY <1>4, <1>5, <2>1 DEF WereRead
    <3>2. QED
      BY <1>1, <1>3, <2>1, <3>1
  <2>2. CASE kind = "error" \/ e \notin DOMAIN ls
    <3>1. verdict'[e] = verdict[e] /\ verdict[e] \in 1..(n - 1)
      BY <1>3, <1>4, <1>5, <1>6, <1>9, <2>2
    <3>2. QED
      BY <1>3, <3>1 DEF SavedInv, VerdictSound
  <2>3. QED
    BY <2>1, <2>2
<1>10. ASSUME NEW e \in live, NEW a \in 1..n,
              e \in DOMAIN analyses'[a].lines, analyses'[a].kind # "error"
       PROVE  verdict'[e] >= a
  <2>1. CASE kind # "error" /\ e \in DOMAIN ls
    BY <1>3, <1>4, <1>5, <2>1
  <2>2. CASE kind = "error" \/ e \notin DOMAIN ls
    <3>1. verdict'[e] = verdict[e]
      BY <1>4, <1>5, <2>2
    <3>2. a # n
      BY <1>1, <1>3, <1>10, <2>2
    <3>3. QED
      BY <1>3, <1>10, <3>1, <3>2 DEF SavedInv, VerdictNewest
  <2>3. QED
    BY <2>1, <2>2
<1>11. VerdictSound' /\ VerdictNewest'
  BY <1>3, <1>4, <1>9, <1>10 DEF VerdictSound, VerdictNewest
<1>12. QED
  BY <1>3, <1>7, <1>8, <1>11 DEF SavedInv, WereRead, new

\* A step of the table alone: ingest, retention, restart.
LEMMA TableSaved ==
  ASSUME StoreTypeOK, [StoreNext]_storeVars, SavedInv,
         live' \subseteq live \cup {nextId}, UNCHANGED analyses,
         \/ UNCHANGED verdict /\ live' \subseteq live
         \/ verdict' = [verdict EXCEPT ![nextId] = 0]
  PROVE  SavedInv'
<1>0. live' \subseteq Ids
  <2>1. ASSUME NEW r \in Row, Insert(r) PROVE live' \subseteq Ids
    BY <2>1 DEF Insert, StoreTypeOK
  <2>2. CASE live' \subseteq live
    BY <2>2 DEF StoreTypeOK
  <2>3. QED
    BY <2>1, <2>2 DEF StoreNext, InsertAny, MarkIngestSeen, DeleteOlderThan, Reopen,
                      ChangeReserve, Tick, Migrated, storeVars
<1>1. \A a \in DOMAIN analyses :
        /\ analyses[a].lines \in LineMaps
        /\ \A e \in DOMAIN analyses[a].lines :
             e < nextId' /\ analyses[a].lines[e] = row'[e].msg
  BY ReadStays DEF SavedInv
<1>2. nextId \in Nat /\ live \subseteq Ids /\ \A e \in live : e < nextId
  BY StoreAssumption DEF StoreAssumption, StoreTypeOK
<1>3. verdict' \in [Ids -> 0..Len(analyses)] /\ Len(analyses) \in Nat
  BY DEF SavedInv
<1>4. \A e \in live' : verdict'[e] # 0 => e \in live /\ verdict'[e] = verdict[e]
  <2>1. CASE UNCHANGED verdict /\ live' \subseteq live
    BY <2>1
  <2>2. CASE verdict' = [verdict EXCEPT ![nextId] = 0]
    <3> SUFFICES ASSUME NEW e \in live', verdict'[e] # 0
                 PROVE  e \in live /\ verdict'[e] = verdict[e]
      OBVIOUS
    <3>1. e \in Ids
      BY <1>0
    <3>2. CASE e = nextId
      BY <2>2, <3>1, <3>2 DEF SavedInv
    <3>3. CASE e # nextId
      BY <1>2, <2>2, <3>3 DEF SavedInv
    <3>4. QED
      BY <3>2, <3>3
  <2>3. QED
    BY <2>1, <2>2
<1>5. \A e \in live' : e # nextId => e \in live /\ verdict'[e] = verdict[e]
  BY <1>2 DEF SavedInv
<1>6. \A e \in live : verdict[e] # 0 => verdict[e] \in DOMAIN analyses
  BY <1>2 DEF SavedInv
<1>7. VerdictSound'
  <2> SUFFICES ASSUME NEW e \in live', verdict'[e] # 0
               PROVE  LET a == analyses'[verdict'[e]] IN
                      /\ e \in DOMAIN a.lines /\ a.lines[e] = row'[e].msg
                      /\ a.kind # "error"
                      /\ a.kind = "skip" => row'[e].msg \in Blocked
    BY DEF VerdictSound
  <2>1. e \in live /\ verdict'[e] = verdict[e] /\ verdict[e] \in DOMAIN analyses
    BY <1>4, <1>6
  <2>2. e \in DOMAIN analyses[verdict[e]].lines
    BY <2>1 DEF SavedInv, VerdictSound
  <2>3. analyses[verdict[e]].lines[e] = row'[e].msg
    BY <1>1, <2>1, <2>2
  <2>4. QED
    BY <2>1, <2>2, <2>3 DEF SavedInv, VerdictSound
<1>8. VerdictNewest'
  <2> SUFFICES ASSUME NEW e \in live', NEW a \in DOMAIN analyses,
                      e \in DOMAIN analyses[a].lines, analyses[a].kind # "error"
               PROVE  verdict'[e] >= a
    BY DEF VerdictNewest
  <2>1. e # nextId
    BY <1>2 DEF SavedInv, WereRead
  <2>2. QED
    BY <1>5, <2>1 DEF SavedInv, VerdictNewest
<1>9. QED
  BY <1>1, <1>3, <1>7, <1>8 DEF SavedInv, WereRead

\* What is held and the jobs are not touched by a step of the table alone.
LEMMA TableWork ==
  ASSUME StoreTypeOK, [StoreNext]_storeVars, WorkInv, UNCHANGED <<analyses, job>>,
         batch' \in [Threads -> LineMaps], \A t \in Threads : batch'[t] \in {batch[t], NoLines},
         workers' \subseteq workers
  PROVE  WorkInv'
<1>1. \A j \in Jobs : /\ job[j].lines \in LineMaps
                      /\ \A e \in DOMAIN job[j].lines :
                           e < nextId' /\ job[j].lines[e] = row'[e].msg
  BY ReadStays DEF WorkInv
<1>2. \A t \in Threads : \A e \in DOMAIN batch[t] : e < nextId' /\ batch[t][e] = row'[e].msg
  BY ReadStays DEF WorkInv
<1>3. DOMAIN NoLines = {}
  BY DEF NoLines
<1>4. \A t \in Threads : \A e \in DOMAIN batch'[t] : e < nextId' /\ batch'[t][e] = row'[e].msg
  BY <1>2, <1>3
<1>5. \A t \in Threads : batch'[t] \in LineMaps
  OBVIOUS
<1>6. QED
  BY <1>1, <1>4, <1>5 DEF WorkInv, WereRead

\* Appending to the log of analyses leaves the jobs as they are, and a batch may
\* become another that was read.
LEMMA SavedWork ==
  ASSUME WorkInv, UNCHANGED <<storeVars, job, workers>>,
         \A a \in DOMAIN analyses : a \in DOMAIN analyses' /\ analyses'[a] = analyses[a],
         NEW t \in Threads, NEW b, WereRead(b),
         batch' = [batch EXCEPT ![t] = b] \/ batch' = batch
  PROVE  WorkInv'
<1>1. row' = row /\ nextId' = nextId
  BY DEF storeVars
<1>2. batch' \in [Threads -> LineMaps]
  BY DEF WorkInv, WereRead
<1>3. \A u \in Threads : \A e \in DOMAIN batch'[u] : e < nextId' /\ batch'[u][e] = row'[e].msg
  BY <1>1 DEF WorkInv, WereRead
<1>4. \A u \in Threads : batch'[u] \in LineMaps
  BY <1>2
<1>5. QED
  BY <1>1, <1>2, <1>3, <1>4 DEF WorkInv, WereRead

LEMMA EmptyRead == WereRead(NoLines)
<1>1. DOMAIN NoLines = {} /\ NoLines \in [{} -> Messages]
  BY DEF NoLines
<1>2. NoLines \in LineMaps
  BY <1>1, LineMapIntro
<1>3. QED
  BY <1>1, <1>2 DEF WereRead

DataInv == SavedInv /\ WorkInv

LEMMA SameData ==
  ASSUME DataInv, UNCHANGED <<storeVars, saved, jobVars, batch>>
  PROVE  DataInv'
BY DEF DataInv, SavedInv, WorkInv, VerdictSound, VerdictNewest, WereRead, storeVars, saved, jobVars

\* A thread of the loop.
LEMMA LoopData ==
  ASSUME StoreTypeOK, DataInv, NEW t \in Threads, Step(t)
  PROVE  DataInv'
<1>0. SavedInv /\ WorkInv /\ WereRead(batch[t]) /\ WereRead(NoLines)
  BY EmptyRead DEF DataInv, WorkInv
<1>1. CASE Check(t) \/ Gap(t)
  BY <1>1, SameData DEF Check, Gap
<1>2. CASE Fetch(t)
  <2>1. CASE Unanalyzed(t) = {}
    BY <1>2, <2>1, SameData DEF Fetch
  <2>2. CASE Unanalyzed(t) # {}
    <3> DEFINE b == Lines(FirstOf(Unanalyzed(t), BatchSize))
    <3>1. WereRead(b)
      <4>1. FirstOf(Unanalyzed(t), BatchSize) \in SUBSET live
        BY DEF FirstOf, Unanalyzed
      <4>2. QED
        BY <4>1, LinesRead
    <3>2. batch' = [batch EXCEPT ![t] = b] /\ UNCHANGED <<storeVars, saved, jobVars>>
      BY <1>2, <2>2 DEF Fetch
    <3> HIDE DEF b
    <3>3. WorkInv'
      BY <1>0, <3>1, <3>2, SavedWork DEF saved, jobVars
    <3>4. SavedInv'
      BY <1>0, <3>2 DEF SavedInv, VerdictSound, VerdictNewest, WereRead, storeVars, saved
    <3>5. QED
      BY <3>3, <3>4 DEF DataInv
  <2>3. QED
    BY <2>1, <2>2
<1>3. CASE Skip(t)
  <2> DEFINE skipped == SkippedOf(batch[t])
             ls == Restricted(batch[t], skipped)
             rest == Restricted(batch[t], Ids \ skipped)
  <2>1. WereRead(ls) /\ WereRead(rest)
    BY <1>0, RestrictedRead
  <2>2. \A e \in DOMAIN ls : ls[e] \in Blocked
    BY DEF Restricted, SkippedOf
  <2>3. /\ batch' = [batch EXCEPT ![t] = rest] /\ UNCHANGED <<storeVars, job, workers>>
        /\ UNCHANGED saved \/ InsertAnalysis(ls, "skip")
    <3>1. batch' = [batch EXCEPT ![t] = Restricted(@, Ids \ skipped)]
      BY <1>3 DEF Skip
    <3>2. batch' = [batch EXCEPT ![t] = rest]
      BY <3>1, Zenon
    <3>3. UNCHANGED <<storeVars, job, workers>> /\ (UNCHANGED saved \/ InsertAnalysis(ls, "skip"))
      BY <1>3 DEF Skip, jobVars
    <3>4. QED
      BY <3>2, <3>3
  <2> HIDE DEF ls, rest
  <2>4. CASE UNCHANGED saved
    <3>1. WorkInv'
      BY <1>0, <2>1, <2>3, <2>4, SavedWork DEF saved
    <3>2. SavedInv'
      BY <1>0, <2>3, <2>4 DEF SavedInv, VerdictSound, VerdictNewest, WereRead, storeVars, saved
    <3>3. QED
      BY <3>1, <3>2 DEF DataInv
  <2>5. CASE InsertAnalysis(ls, "skip")
    <3>1. /\ SavedInv'
          /\ \A a \in DOMAIN analyses : a \in DOMAIN analyses' /\ analyses'[a] = analyses[a]
      BY <1>0, <2>1, <2>2, <2>3, <2>5, SaveEffect DEF Kinds
    <3>2. QED
      BY <1>0, <2>1, <2>3, <3>1, SavedWork DEF DataInv
  <2>6. QED
    BY <2>3, <2>4, <2>5
<1>4. ASSUME NEW kind \in {"ok", "error"}, InsertAnalysis(batch[t], kind),
             batch' = [batch EXCEPT ![t] = NoLines], UNCHANGED <<storeVars, job, workers>>
      PROVE  DataInv'
  <2>1. /\ SavedInv'
        /\ \A a \in DOMAIN analyses : a \in DOMAIN analyses' /\ analyses'[a] = analyses[a]
    BY <1>0, <1>4, SaveEffect DEF Kinds
  <2>2. QED
    BY <1>0, <1>4, <2>1, SavedWork DEF DataInv
<1>5. CASE LlmOk(t)
  BY <1>4, <1>5 DEF LlmOk, jobVars
<1>6. CASE LlmFail(t)
  BY <1>4, <1>6 DEF LlmFail, jobVars
<1>7. QED
  BY <1>1, <1>2, <1>3, <1>5, <1>6 DEF Step

\* The thread of an on-demand job.
LEMMA JobData ==
  ASSUME StoreTypeOK, DataInv, NEW j \in Jobs,
         \/ \E S \in SUBSET Ids : RunOnDemand(j, S)
         \/ WorkerSave(j) \/ WorkerDone(j) \/ WorkerFail(j)
  PROVE  DataInv'
<1>0. SavedInv /\ WorkInv /\ job[j] \in JobRecord
  BY DEF DataInv, WorkInv
<1>1. ASSUME NEW S \in SUBSET Ids, RunOnDemand(j, S) PROVE DataInv'
  <2> DEFINE ls == Lines(S \cap live)
             new == [status |-> IF S \cap live = {} THEN "failed" ELSE "running",
                     lines |-> ls, aid |-> 0]
  <2>1. WereRead(ls)
    BY LinesRead
  <2>2. /\ job[j].status = "none" /\ job' = [job EXCEPT ![j] = new]
        /\ workers' = IF S \cap live = {} THEN workers ELSE workers \cup {j}
        /\ UNCHANGED <<storeVars, saved, batch>>
    BY <1>1 DEF RunOnDemand, threadVars
  <2>3. new \in JobRecord
    BY <2>1 DEF JobRecord, WereRead
  <2>4. new.lines = ls /\ new.aid = 0 /\ new.status # "done" /\ new.status # "none"
        /\ (S \cap live # {} => new.status = "running")
    OBVIOUS
  <2> HIDE DEF new, ls
  <2>5. job' \in [Jobs -> JobRecord] /\ job'[j] = new
        /\ \A i \in Jobs \ {j} : job'[i] = job[i]
    BY <1>0, <2>2, <2>3 DEF WorkInv
  <2>6. workers' \subseteq {i \in Jobs : job'[i].status = "running"}
    BY <1>0, <2>2, <2>4, <2>5 DEF WorkInv
  <2>7. \A i \in Jobs :
          /\ WereRead(job'[i].lines)
          /\ job'[i].status = "done" => job'[i].aid # 0
          /\ job'[i].aid # 0 =>
               /\ job'[i].aid \in DOMAIN analyses
               /\ analyses[job'[i].aid] = [lines |-> job'[i].lines, kind |-> "ok"]
    BY <1>0, <2>1, <2>4, <2>5 DEF WorkInv
  <2>8. WorkInv'
    BY <1>0, <2>2, <2>5, <2>6, <2>7 DEF WorkInv, WereRead, storeVars, saved
  <2>9. SavedInv'
    BY <1>0, <2>2 DEF SavedInv, VerdictSound, VerdictNewest, WereRead, storeVars, saved
  <2>10. QED
    BY <2>8, <2>9 DEF DataInv
<1>2. CASE WorkerSave(j)
  <2> DEFINE n == Len(analyses) + 1
  <2>1. /\ j \in workers /\ InsertAnalysis(job[j].lines, "ok")
        /\ job' = [job EXCEPT ![j].aid = n]
        /\ UNCHANGED <<storeVars, workers, batch>>
    BY <1>2 DEF WorkerSave, threadVars
  <2>2. WereRead(job[j].lines)
    BY <1>0 DEF WorkInv
  <2>3. /\ SavedInv' /\ Len(analyses') = n
        /\ analyses'[n] = [lines |-> job[j].lines, kind |-> "ok"]
        /\ \A a \in DOMAIN analyses : a \in DOMAIN analyses' /\ analyses'[a] = analyses[a]
    BY <1>0, <2>1, <2>2, SaveEffect DEF Kinds
  <2>4. n \in Nat /\ n # 0 /\ n \in DOMAIN analyses'
    BY <1>0, <2>3 DEF SavedInv
  <2>5. /\ job' \in [Jobs -> JobRecord]
        /\ job'[j].aid = n /\ job'[j].lines = job[j].lines /\ job'[j].status = job[j].status
        /\ \A i \in Jobs \ {j} : job'[i] = job[i]
    BY <1>0, <2>1, <2>4 DEF WorkInv, JobRecord
  <2>6. \A i \in Jobs :
          /\ WereRead(job'[i].lines)
          /\ job'[i].status = "done" => job'[i].aid # 0
          /\ job'[i].aid # 0 =>
               /\ job'[i].aid \in DOMAIN analyses'
               /\ analyses'[job'[i].aid] = [lines |-> job'[i].lines, kind |-> "ok"]
    <3> SUFFICES ASSUME NEW i \in Jobs
                 PROVE  /\ WereRead(job'[i].lines)
                        /\ job'[i].status = "done" => job'[i].aid # 0
                        /\ job'[i].aid # 0 =>
                             /\ job'[i].aid \in DOMAIN analyses'
                             /\ analyses'[job'[i].aid] = [lines |-> job'[i].lines, kind |-> "ok"]
      OBVIOUS
    <3>1. CASE i = j
      BY <2>2, <2>3, <2>4, <2>5, <3>1
    <3>2. CASE i # j
      BY <1>0, <2>3, <2>5, <3>2 DEF WorkInv
    <3>3. QED
      BY <3>1, <3>2
  <2>7. workers' \subseteq {i \in Jobs : job'[i].status = "running"}
    BY <1>0, <2>1, <2>5 DEF WorkInv
  <2>8. WorkInv'
    BY <1>0, <2>1, <2>5, <2>6, <2>7 DEF WorkInv, WereRead, storeVars
  <2>9. QED
    BY <2>3, <2>8 DEF DataInv
<1>3. ASSUME j \in workers, workers' = workers \ {j}, NEW s \in {"done", "failed"},
             s = "done" => job[j].aid # 0,
             job' = [job EXCEPT ![j].status = s], UNCHANGED <<storeVars, saved, batch>>
      PROVE  DataInv'
  <2>1. /\ job' \in [Jobs -> JobRecord]
        /\ job'[j].aid = job[j].aid /\ job'[j].lines = job[j].lines /\ job'[j].status = s
        /\ \A i \in Jobs \ {j} : job'[i] = job[i]
    BY <1>0, <1>3 DEF WorkInv, JobRecord
  <2>2. \A i \in Jobs :
          /\ WereRead(job'[i].lines)
          /\ job'[i].status = "done" => job'[i].aid # 0
          /\ job'[i].aid # 0 =>
               /\ job'[i].aid \in DOMAIN analyses
               /\ analyses[job'[i].aid] = [lines |-> job'[i].lines, kind |-> "ok"]
    BY <1>0, <1>3, <2>1 DEF WorkInv
  <2>3. workers' \subseteq {i \in Jobs : job'[i].status = "running"}
    BY <1>0, <1>3, <2>1 DEF WorkInv
  <2>4. WorkInv'
    BY <1>0, <1>3, <2>1, <2>2, <2>3 DEF WorkInv, WereRead, storeVars, saved
  <2>5. SavedInv'
    BY <1>0, <1>3 DEF SavedInv, VerdictSound, VerdictNewest, WereRead, storeVars, saved
  <2>6. QED
    BY <2>4, <2>5 DEF DataInv
<1>4. CASE WorkerDone(j)
  BY <1>3, <1>4 DEF WorkerDone, threadVars
<1>5. CASE WorkerFail(j)
  BY <1>3, <1>5 DEF WorkerFail, threadVars
<1>6. QED
  BY <1>1, <1>2, <1>4, <1>5

LEMMA DataStep ==
  ASSUME StoreTypeOK, DataInv, [Next]_vars
  PROVE  DataInv'
<1>0. SavedInv /\ WorkInv /\ [StoreNext]_storeVars
  BY StoreStep DEF DataInv, vars
<1>1. CASE Ingest
  <2>1. live' \subseteq live \cup {nextId} /\ verdict' = [verdict EXCEPT ![nextId] = 0]
        /\ UNCHANGED <<analyses, job, workers, batch>>
    BY <1>1 DEF Ingest, InsertAny, Insert, jobVars, threadVars
  <2>2. SavedInv' /\ WorkInv'
    BY <1>0, <2>1, TableSaved, TableWork DEF WorkInv
  <2>3. QED
    BY <2>2 DEF DataInv
<1>2. CASE Expire
  <2>1. live' \subseteq live /\ UNCHANGED <<verdict, analyses, job, workers, batch>>
    BY <1>2 DEF Expire, DeleteOlderThan, Tick, jobVars, threadVars, saved
  <2>2. SavedInv' /\ WorkInv'
    BY <1>0, <2>1, TableSaved, TableWork DEF WorkInv
  <2>3. QED
    BY <2>2 DEF DataInv
<1>3. ASSUME NEW t \in Threads, Step(t) PROVE DataInv'
  BY <1>3, LoopData
<1>4. ASSUME NEW d \in Drains, Wake(d) PROVE DataInv'
  BY <1>4, SameData DEF Wake
<1>5. CASE Count
  BY <1>5, SameData DEF Count
<1>6. ASSUME NEW h \in Requests,
             \/ StartClear(h) \/ StartRefused(h) \/ CancelCheck(h) \/ CancelSet(h)
             \/ \E until \in 0..now : \E since \in 0..until : StartAccepted(h, since, until)
      PROVE  DataInv'
  BY <1>6, SameData DEF StartClear, StartRefused, CancelCheck, CancelSet, StartAccepted, threadVars
<1>7. ASSUME NEW j \in Jobs,
             \/ \E S \in SUBSET Ids : RunOnDemand(j, S)
             \/ WorkerSave(j) \/ WorkerDone(j) \/ WorkerFail(j)
      PROVE  DataInv'
  BY <1>7, JobData
<1>8. ASSUME NEW h \in Requests, Save(h) \/ \E a \in BOOLEAN : SaveSettings(h, a)
      PROVE  DataInv'
  BY <1>8, SameData DEF SaveSettings, Save, SaveRead, SaveCheck, SaveCreate, SaveStart, SaveStop,
     SaveForget, threadVars
<1>9. ASSUME NEW m \in MaxEventsChoices, Restart(m) PROVE DataInv'
  <2>1. live' = live /\ UNCHANGED <<verdict, analyses, job>> /\ workers' = {}
        /\ batch' = [t \in Threads |-> NoLines]
    BY <1>9 DEF Restart, Reopen, saved
  <2>2. NoLines \in LineMaps
    BY EmptyRead DEF WereRead
  <2>3. SavedInv'
    BY <1>0, <2>1, TableSaved
  <2>4. WorkInv'
    BY <1>0, <2>1, <2>2, TableWork
  <2>5. QED
    BY <2>3, <2>4 DEF DataInv
<1>10. CASE UNCHANGED vars
  BY <1>10, SameData DEF vars, threadVars
<1>11. QED
  BY <1>1, <1>2, <1>3, <1>4, <1>5, <1>6, <1>7, <1>8, <1>9, <1>10 DEF Next

LEMMA DataHolds == Spec => []DataInv
<1>1. StoreTypeOK /\ Init => DataInv
  <2> SUFFICES ASSUME StoreTypeOK, Init PROVE DataInv
    OBVIOUS
  <2>1. analyses = <<>> /\ verdict = [e \in Ids |-> 0]
    BY DEF Init
  <2>2. SavedInv
    <3>1. analyses \in Seq(Analysis) /\ Len(analyses) = 0 /\ DOMAIN analyses = {}
      BY <2>1
    <3>2. verdict \in [Ids -> 0..Len(analyses)] /\ \A e \in live : verdict[e] = 0
      BY <2>1, <3>1 DEF StoreTypeOK
    <3>3. VerdictSound /\ VerdictNewest
      BY <3>1, <3>2 DEF VerdictSound, VerdictNewest
    <3>4. QED
      BY <3>1, <3>2, <3>3 DEF SavedInv
  <2>3. WorkInv
    <3>1. [status |-> "none", lines |-> NoLines, aid |-> 0] \in JobRecord
      BY EmptyRead DEF JobRecord, WereRead
    <3>2. QED
      BY <3>1, EmptyRead DEF Init, WorkInv, WereRead
  <2>4. QED
    BY <2>2, <2>3 DEF DataInv
<1>2. QED
  BY <1>1, DataStep, StoreKept, TypeCorrect, PTL DEF Spec

\* For any number of drains, runs, jobs and rows: the verdict on an event comes
\* from a successful analysis that read that very event.
THEOREM VerdictHolds == Spec => []VerdictSound
BY DataHolds, PTL DEF DataInv, SavedInv

\* For any number of drains, runs and jobs an event carries the verdict of the
\* newest successful analysis that covered it.
THEOREM VerdictNewestHolds == Spec => []VerdictNewest
BY DataHolds, PTL DEF DataInv, SavedInv

\* A job that is done has its saved analysis, and its events show that verdict
\* or a newer one.
THEOREM JobHolds == Spec => []JobSound
<1>1. DataInv => JobSound
  <2> SUFFICES ASSUME DataInv, NEW j \in Jobs, job[j].status = "done"
               PROVE  /\ job[j].aid # 0
                      /\ analyses[job[j].aid] = [lines |-> job[j].lines, kind |-> "ok"]
                      /\ \A e \in live \cap DOMAIN job[j].lines : verdict[e] >= job[j].aid
    BY DEF JobSound
  <2>1. /\ job[j].aid # 0 /\ job[j].aid \in DOMAIN analyses
        /\ analyses[job[j].aid] = [lines |-> job[j].lines, kind |-> "ok"]
    BY DEF DataInv, WorkInv
  <2>2. QED
    BY <2>1 DEF DataInv, SavedInv, VerdictNewest
<1>2. QED
  BY <1>1, DataHolds, PTL

\* The window of an on-demand run lies in the past.
WindowTypes == window.since \in 0..MaxNow /\ window.until \in 0..MaxNow

LEMMA WindowHolds == Spec => []WindowTypes
<1>1. Init => WindowTypes
  BY StoreAssumption DEF Init, WindowTypes, StoreAssumption
<1>2. StoreTypeOK /\ WindowTypes /\ [Next]_vars => WindowTypes'
  <2> SUFFICES ASSUME StoreTypeOK, WindowTypes, [Next]_vars PROVE WindowTypes'
    OBVIOUS
  <2>1. ASSUME NEW h \in Requests, NEW until \in 0..now, NEW since \in 0..until,
               StartAccepted(h, since, until)
        PROVE  WindowTypes'
    BY <2>1, StoreAssumption DEF StartAccepted, WindowTypes, StoreTypeOK, StoreAssumption
  <2>2. CASE UNCHANGED window
    BY <2>2 DEF WindowTypes
  <2>3. ASSUME NEW t \in Threads, Step(t) PROVE UNCHANGED window
    BY <2>3 DEF Step, Check, Fetch, Skip, LlmOk, LlmFail, Gap, Finish, runVars
  <2>4. QED
    BY <2>1, <2>2, <2>3 DEF Next, Ingest, Expire, Wake, Count, Finish, StartClear, StartRefused,
       CancelCheck, CancelSet, RunOnDemand, WorkerSave, WorkerDone, WorkerFail, SaveSettings,
       Save, SaveRead, SaveCheck, SaveCreate, SaveStart, SaveStop, SaveForget, Restart, runVars, vars
<1>3. QED
  BY <1>1, <1>2, StoreKept, TypeCorrect, PTL DEF Spec

\* All variables keep their types, for any threads, jobs, requests and bounds.
THEOREM AnalysisTypeCorrect == Spec => []TypeOK
<1>1. StoreTypeOK /\ ControlInv /\ DataInv /\ WindowTypes => TypeOK
  <2> SUFFICES ASSUME StoreTypeOK, ControlInv, DataInv, WindowTypes PROVE TypeOK
    OBVIOUS
  <2>1. \A a \in DOMAIN analyses :
          analyses[a] \in [lines : LineMaps, kind : {"ok", "skip", "error"}]
    <3>1. analyses \in Seq(Analysis)
      BY DEF DataInv, SavedInv
    <3>2. \A a \in DOMAIN analyses : analyses[a] \in Analysis
      BY <3>1
    <3>3. QED
      BY <3>2 DEF Analysis, Kinds
  <2>2. \A j \in Jobs : /\ job[j].status \in {"none", "running", "done", "failed"}
                        /\ job[j].lines \in LineMaps
                        /\ job[j].aid \in 0..Len(analyses)
    <3> SUFFICES ASSUME NEW j \in Jobs
                 PROVE  /\ job[j].status \in {"none", "running", "done", "failed"}
                        /\ job[j].lines \in LineMaps
                        /\ job[j].aid \in 0..Len(analyses)
      OBVIOUS
    <3>1. job[j] \in JobRecord /\ analyses \in Seq(Analysis)
          /\ (job[j].aid # 0 => job[j].aid \in DOMAIN analyses)
      BY DEF DataInv, WorkInv, SavedInv
    <3>2. job[j].aid \in 0..Len(analyses)
      BY <3>1
    <3>3. QED
      BY <3>1, <3>2 DEF JobRecord
  <2>3. /\ verdict \in [Ids -> 0..Len(analyses)]
        /\ workers \subseteq {j \in Jobs : job[j].status = "running"}
        /\ batch \in [Threads -> LineMaps]
    BY DEF DataInv, SavedInv, WorkInv
  <2>4. /\ pc \in [Threads -> PcValues] /\ stop \in [Threads -> BOOLEAN]
        /\ drain \in Drains \cup {NoDrain} /\ auto \in BOOLEAN /\ met \in BOOLEAN
        /\ status \in {"idle", "running"} \cup Finals
        /\ req \in [Requests -> ReqValues] /\ asked \in BOOLEAN
    BY DEF ControlInv, ControlTypes
  <2>5. window.since \in 0..MaxNow /\ window.until \in 0..MaxNow
    BY DEF WindowTypes
  <2>6. QED
    BY <2>1, <2>2, <2>3, <2>4, <2>5 DEF TypeOK, PcValues, ReqValues, Finals
<1>2. QED
  BY <1>1, StoreKept, TypeCorrect, ControlHolds, DataHolds, WindowHolds, PTL
=============================================================================
