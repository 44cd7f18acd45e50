--------------------------- MODULE HubIngestProofs ---------------------------
(***************************************************************************)
(* Theorems about HubIngest: under the ingest thread and the Mist pollers  *)
(* the event table is still the bounded log of EventStore; lines keep      *)
(* their order, no Mist event is stored twice, and every stored event is   *)
(* evaluated once or accounted for.                                        *)
(***************************************************************************)
EXTENDS HubIngest, StoreAlertsProofs

-----------------------------------------------------------------------------
(* The tasks, and what they write. *)

LineRow == {r \in Row : r.type = "generic" /\ r.key = NoKey /\ r.msg \in Lines}
MistRow == {r \in Row : r.type = "mist" /\ r.key \in Keys /\ r.msg = MistText}

WorkerPcs == {"get", "insert", "evaluate"}
PollerPcs == {"off", "wait", "fetch", "look", "insert", "evaluate"}
Task(pcs) == [pc : pcs, todo : SUBSET Keys, row : Row \cup {NoRow}, id : 0..MaxId]

\* A task that is about to insert holds a well-formed row of its own kind,
\* stamped with a time that has passed.
TaskInv ==
  /\ wk \in Task(WorkerPcs)
  /\ wk.pc = "insert" => wk.row \in LineRow /\ wk.row.at <= now
  /\ mp \in [Pollers -> Task(PollerPcs)]
  /\ \A p \in Pollers : mp[p].pc = "insert" => mp[p].row \in MistRow /\ mp[p].row.at <= now
  /\ hours \in Nat /\ queue \in Seq(Lines) /\ cloud \subseteq Keys

LEMMA RowsWellFormed ==
  ASSUME NEW r \in LineRow \cup MistRow
  PROVE  r \in Row /\ WellFormed(r)
BY StoreAssumption DEF StoreAssumption, LineRow, MistRow, WellFormed, Row

LEMMA WaitingTask ==
  ASSUME NEW pcs, NEW pc \in pcs
  PROVE  Waiting(pc) \in Task(pcs) /\ Waiting(pc).pc = pc
BY StoreAssumption DEF StoreAssumption, Waiting, Task

LEMMA TaskMoves ==
  ASSUME NEW pcs, NEW x \in Task(pcs), NEW pc \in pcs, NEW r \in Row \cup {NoRow},
         NEW id \in 0..MaxId
  PROVE  [x EXCEPT !.pc = pc, !.row = r, !.id = id] \in Task(pcs)
BY DEF Task

LEMMA TaskStores ==
  ASSUME NEW pcs, NEW x \in Task(pcs), NEW pc \in pcs, NEW id \in 0..MaxId
  PROVE  [x EXCEPT !.pc = pc, !.id = id] \in Task(pcs)
BY DEF Task

\* A step of the hub is a step of the store, or leaves the table alone.
LEMMA IngestStoreStep ==
  ASSUME StoreTypeOK, TaskInv, [Next]_vars
  PROVE  [StoreNext]_storeVars
<1>1. ASSUME NEW m \in Lines, Receive(m) PROVE UNCHANGED storeVars
  BY <1>1 DEF Receive
<1>2. CASE Take
  BY <1>2 DEF Take
<1>3. CASE StoreLine
  <2>1. /\ wk.row \in Row /\ WellFormed(wk.row)
        /\ wk.row.at <= now /\ Insert(wk.row)
    BY <1>3, RowsWellFormed DEF StoreLine, TaskInv
  <2>2. QED
    BY <2>1 DEF StoreNext, InsertAny
<1>4. CASE EvaluateLine \/ LineFails \/ SweepFails
  BY <1>4 DEF EvaluateLine, LineFails, SweepFails
<1>5. CASE Sweep
  <2>1. hours \in Nat /\ hours > 0 /\ now \in Nat
    BY <1>5, StoreAssumption DEF StoreAssumption, Sweep, TaskInv, StoreTypeOK
  <2>2. CASE now - hours > 0
    <3>1. now - hours \in 1..now
      BY <2>1, <2>2
    <3>2. QED
      BY <1>5, <3>1 DEF Sweep, StoreNext
  <2>3. CASE ~(now - hours > 0)
    <3>1. \A e \in live : row[e].at >= now - hours
      BY <2>1, <2>3, StoreAssumption DEF StoreTypeOK, Row, StoreAssumption
    <3>2. live' = live
      BY <1>5, <3>1 DEF Sweep, DeleteOlderThan
    <3>3. QED
      BY <1>5, <3>2 DEF Sweep, DeleteOlderThan, storeVars
  <2>4. QED
    BY <2>2, <2>3
<1>6. ASSUME NEW p \in Pollers, Poll(p) \/ PollFails(p) \/ WakeFails(p)
      PROVE  [StoreNext]_storeVars
  <2>1. CASE Wake(p) \/ FetchEvents(p) \/ Look(p) \/ EvaluateMist(p) \/ PollFails(p) \/ WakeFails(p)
    BY <2>1 DEF Wake, FetchEvents, Look, EvaluateMist, PollFails, WakeFails
  <2>2. CASE StoreMist(p)
    <3>1. /\ mp[p].row \in Row /\ WellFormed(mp[p].row)
          /\ mp[p].row.at <= now /\ Insert(mp[p].row)
      BY <2>2, RowsWellFormed DEF StoreMist, TaskInv
    <3>2. QED
      BY <3>1 DEF StoreNext, InsertAny
  <2>3. QED
    BY <1>6, <2>1, <2>2 DEF Poll
<1>7. CASE CloudChanges
  BY <1>7 DEF CloudChanges
<1>8. CASE TimePasses
  BY <1>8 DEF TimePasses, StoreNext
<1>9. ASSUME NEW w \in BOOLEAN, NEW h \in HoursChoices, SaveSettings(w, h)
      PROVE  UNCHANGED storeVars
  BY <1>9 DEF SaveSettings
<1>10. CASE StartPoller
  BY <1>10 DEF StartPoller
<1>11. ASSUME NEW m \in MaxEventsChoices, Restart(m) PROVE StoreNext
  BY <1>11 DEF Restart, StoreNext
<1>12. CASE UNCHANGED vars
  BY <1>12 DEF vars
<1>13. QED
  BY <1>1, <1>2, <1>3, <1>4, <1>5, <1>6, <1>7, <1>8, <1>9, <1>10, <1>11, <1>12
  DEF Next, Work

\* An insert stores the row under the next id.
LEMMA InsertRow ==
  ASSUME StoreTypeOK, NEW r, Insert(r)
  PROVE  /\ nextId \in Ids /\ nextId' = nextId + 1 /\ now' = now
         /\ row'[nextId] = r /\ \A e \in Ids \ {nextId} : row'[e] = row[e]
         /\ seen \subseteq seen' /\ (r.type = "mist" => r.key \in seen')
BY DEF Insert, StoreTypeOK

LEMMA TaskStep ==
  ASSUME StoreTypeOK, TaskInv, [Next]_vars
  PROVE  TaskInv'
<1> USE StoreAssumption, IngestAssumption DEF StoreAssumption, IngestAssumption
<1>0. now \in 0..MaxNow /\ nextId \in 1..(MaxId + 1)
  BY DEF StoreTypeOK
<1>1. ASSUME UNCHANGED <<wk, mp, hours, queue, cloud>>, now <= now', now' \in Nat PROVE TaskInv'
  BY <1>0, <1>1 DEF TaskInv, LineRow, MistRow, Row
<1>2. ASSUME NEW m \in Lines, Receive(m) PROVE TaskInv'
  <2>1. UNCHANGED <<wk, mp, hours, cloud, now>> /\ queue' \in Seq(Lines)
    <3>1. UNCHANGED <<wk, mp, hours, cloud, now>>
      BY <1>2 DEF Receive, polling, retention, storeVars
    <3>2. queue' = Append(queue, m) \/ queue' = queue
      BY <1>2 DEF Receive
    <3>3. QED
      BY <3>1, <3>2 DEF TaskInv
  <2>2. QED
    BY <2>1 DEF TaskInv
<1>3. CASE Take
  <2>1. /\ UNCHANGED <<mp, hours, cloud, now>>
        /\ queue # <<>> /\ queue' = Tail(queue)
    BY <1>3 DEF Take, polling, retention, storeVars
  <2>2. queue' \in Seq(Lines) /\ Head(queue) \in Lines
    BY <2>1 DEF TaskInv
  <2>3. wk' = wk \/ wk' = [Waiting("insert") EXCEPT
                            !.row = [type |-> "generic", key |-> NoKey, at |-> now,
                                     msg |-> Head(queue)]]
    BY <1>3 DEF Take
  <2>4. DEFINE r == [type |-> "generic", key |-> NoKey, at |-> now, msg |-> Head(queue)]
  <2>5. r \in LineRow /\ r.at <= now
    BY <1>0, <2>2 DEF LineRow, Row
  <2>6. CASE wk' = [Waiting("insert") EXCEPT !.row = r]
    <3>1. wk' = [pc |-> "insert", todo |-> {}, row |-> r, id |-> 0]
      BY <2>6 DEF Waiting
    <3>2. wk' \in Task(WorkerPcs) /\ wk'.row = r
      BY <2>5, <3>1 DEF Task, WorkerPcs, LineRow
    <3>3. QED
      BY <2>1, <2>2, <2>5, <3>2 DEF TaskInv
  <2>7. CASE wk' = wk
    BY <2>1, <2>2, <2>7 DEF TaskInv
  <2>8. QED
    BY <2>3, <2>6, <2>7
<1>4. CASE StoreLine
  <2>1. /\ UNCHANGED <<mp, hours, queue, cloud, now>>
        /\ nextId \in Ids /\ wk' = [wk EXCEPT !.pc = "evaluate", !.id = nextId]
    BY <1>4 DEF StoreLine, polling, retention, Insert
  <2>2. wk \in Task(WorkerPcs) /\ nextId \in 0..MaxId /\ "evaluate" \in WorkerPcs
    BY <2>1 DEF TaskInv, WorkerPcs, Ids
  <2>3. wk' \in Task(WorkerPcs) /\ wk'.pc = "evaluate"
    <3>1. wk' \in Task(WorkerPcs)
      BY <2>1, <2>2, TaskStores
    <3>2. wk'.pc = "evaluate"
      BY <2>1, <2>2 DEF Task
    <3>3. QED
      BY <3>1, <3>2
  <2>4. QED
    BY <2>1, <2>3 DEF TaskInv
<1>5. CASE EvaluateLine \/ LineFails
  <2>1. UNCHANGED <<mp, hours, queue, cloud, now>> /\ wk' = Waiting("get")
    BY <1>5 DEF EvaluateLine, LineFails, polling, retention, storeVars
  <2>2. wk' \in Task(WorkerPcs) /\ wk'.pc = "get"
    BY <2>1, WaitingTask DEF WorkerPcs
  <2>3. QED
    BY <2>1, <2>2 DEF TaskInv
<1>6. CASE Sweep \/ SweepFails
  BY <1>0, <1>1, <1>6 DEF Sweep, SweepFails, DeleteOlderThan, ingest, polling, retention,
                         storeVars
<1>7. ASSUME NEW p \in Pollers, Poll(p) \/ PollFails(p) \/ WakeFails(p) PROVE TaskInv'
  <2>0. UNCHANGED <<wk, hours, queue, cloud, now>>
    BY <1>7 DEF Poll, PollFails, WakeFails, Wake, FetchEvents, Look, StoreMist, EvaluateMist,
               Insert, ingest, retention, storeVars
  <2>1. ASSUME NEW x \in Task(PollerPcs), mp' = [mp EXCEPT ![p] = x],
               x.pc = "insert" => x.row \in MistRow /\ x.row.at <= now
        PROVE  TaskInv'
    BY <2>0, <2>1 DEF TaskInv
  <2>2. mp[p] \in Task(PollerPcs)
    BY DEF TaskInv
  <2>3. CASE Wake(p) \/ WakeFails(p)
    <3>0. PICK pc \in {"off", "fetch"} : Goto(p, pc)
      BY <2>3 DEF Wake, WakeFails
    <3> DEFINE x == [mp[p] EXCEPT !.pc = pc]
    <3>1. mp' = [mp EXCEPT ![p] = x]
      BY <3>0 DEF Goto
    <3>2. x \in Task(PollerPcs) /\ x.pc # "insert"
      BY <2>2 DEF Task, PollerPcs
    <3>3. QED
      BY <2>1, <3>1, <3>2
  <2>4. CASE FetchEvents(p)
    <3> DEFINE x == IF wanted THEN [Waiting("look") EXCEPT !.todo = cloud] ELSE Waiting("wait")
    <3>1. mp' = [mp EXCEPT ![p] = x]
      BY <2>4 DEF FetchEvents
    <3>2. x \in Task(PollerPcs) /\ x.pc # "insert"
      BY DEF TaskInv, Task, PollerPcs, Waiting
    <3>3. QED
      BY <2>1, <3>1, <3>2
  <2>5. CASE Look(p)
    <3>1. CASE mp' = [mp EXCEPT ![p] = Waiting("wait")]
      BY <2>1, <3>1, WaitingTask DEF PollerPcs
    <3>2. ASSUME NEW k \in mp[p].todo,
                 mp' = [mp EXCEPT ![p] = [mp[p] EXCEPT
                   !.todo = mp[p].todo \ {k},
                   !.pc = IF HasParser(k) THEN "look" ELSE "insert",
                   !.row = [type |-> "mist", key |-> k, at |-> now, msg |-> MistText]]]
          PROVE  TaskInv'
      <4> DEFINE r == [type |-> "mist", key |-> k, at |-> now, msg |-> MistText]
                 x == [mp[p] EXCEPT !.todo = mp[p].todo \ {k},
                                    !.pc = IF HasParser(k) THEN "look" ELSE "insert",
                                    !.row = r]
      <4>1. k \in Keys
        BY <2>2, <3>2 DEF Task
      <4>2. r \in MistRow /\ r \in Row /\ r.at <= now
        BY <1>0, <4>1 DEF MistRow, Row
      <4>3. x \in Task(PollerPcs) /\ x.row = r
        BY <2>2, <4>2 DEF Task, PollerPcs
      <4>4. mp' = [mp EXCEPT ![p] = x]
        BY <3>2
      <4> HIDE DEF x, r
      <4>5. QED
        BY <2>1, <4>2, <4>3, <4>4
    <3>3. QED
      BY <2>5, <3>1, <3>2 DEF Look
  <2>6. CASE StoreMist(p)
    <3> DEFINE x == [mp[p] EXCEPT !.pc = "evaluate", !.id = nextId]
    <3>1. nextId \in Ids /\ mp' = [mp EXCEPT ![p] = x]
      BY <2>6 DEF StoreMist, Insert, TaskInv
    <3>2. x \in Task(PollerPcs) /\ x.pc = "evaluate"
      <4>1. nextId \in 0..MaxId /\ "evaluate" \in PollerPcs
        BY <3>1 DEF Ids, PollerPcs
      <4>2. x \in Task(PollerPcs)
        BY <2>2, <4>1, TaskStores
      <4>3. QED
        BY <2>2, <4>2 DEF Task
    <3>3. QED
      BY <2>1, <3>1, <3>2
  <2>7. CASE EvaluateMist(p)
    <3> DEFINE x == [mp[p] EXCEPT !.pc = "look", !.row = NoRow, !.id = 0]
    <3>1. mp' = [mp EXCEPT ![p] = x]
      BY <2>7 DEF EvaluateMist
    <3>2. x \in Task(PollerPcs) /\ x.pc = "look"
      <4>1. 0 \in 0..MaxId /\ "look" \in PollerPcs /\ NoRow \in Row \cup {NoRow}
        BY DEF PollerPcs
      <4>2. x \in Task(PollerPcs)
        BY <2>2, <4>1, TaskMoves
      <4>3. QED
        BY <2>2, <4>2 DEF Task
    <3>3. QED
      BY <2>1, <3>1, <3>2
  <2>8. CASE PollFails(p)
    BY <2>1, <2>8, WaitingTask DEF PollFails, PollerPcs
  <2>9. QED
    BY <1>7, <2>3, <2>4, <2>5, <2>6, <2>7, <2>8 DEF Poll
<1>8. CASE CloudChanges
  <2>1. UNCHANGED <<wk, mp, hours, queue, now>>
    BY <1>8 DEF CloudChanges, ingest, retention, storeVars
  <2>2. cloud' \subseteq Keys
    BY <1>8 DEF CloudChanges, TaskInv
  <2>3. QED
    BY <2>1, <2>2 DEF TaskInv
<1>9. CASE TimePasses
  BY <1>0, <1>1, <1>9 DEF TimePasses, Tick, ingest, polling, retention
<1>10. ASSUME NEW w \in BOOLEAN, NEW h \in HoursChoices, SaveSettings(w, h)
       PROVE  TaskInv'
  <2>1. UNCHANGED <<wk, queue, cloud, now, mp>> /\ hours' \in Nat
    BY <1>10 DEF SaveSettings, ingest, storeVars
  <2>2. QED
    BY <2>1 DEF TaskInv
<1>11. CASE StartPoller
  <2>1. UNCHANGED <<wk, queue, cloud, now, hours>>
    BY <1>11 DEF StartPoller, ingest, retention, storeVars
  <2>2. ASSUME NEW p \in Pollers, Goto(p, "wait") PROVE TaskInv'
    <3>1. /\ mp'[p] \in Task(PollerPcs) /\ mp'[p].pc = "wait"
          /\ mp' = [mp EXCEPT ![p] = mp'[p]]
      BY <2>2 DEF Goto, TaskInv, Task, PollerPcs
    <3>2. QED
      BY <2>1, <3>1 DEF TaskInv
  <2>3. CASE UNCHANGED mp
    BY <2>1, <2>3 DEF TaskInv
  <2>4. QED
    BY <1>11, <2>2, <2>3 DEF StartPoller
<1>12. ASSUME NEW m \in MaxEventsChoices, Restart(m) PROVE TaskInv'
  <2>1. /\ UNCHANGED <<now, hours, cloud>> /\ queue' = <<>> /\ wk' = Waiting("get")
        /\ mp' = [p \in Pollers |-> Waiting(IF p = poller' THEN "wait" ELSE "off")]
    BY <1>12 DEF Restart, Starts, Reopen
  <2>2. Waiting("get") \in Task(WorkerPcs) /\ Waiting("get").pc = "get"
    BY WaitingTask DEF WorkerPcs
  <2>3. \A p \in Pollers : mp'[p] \in Task(PollerPcs) /\ mp'[p].pc \in {"wait", "off"}
    BY <2>1, WaitingTask DEF PollerPcs
  <2>4. QED
    BY <2>1, <2>2, <2>3 DEF TaskInv
<1>13. CASE UNCHANGED vars
  BY <1>0, <1>1, <1>13 DEF vars, ingest, polling, retention, storeVars
<1>14. QED
  BY <1>2, <1>3, <1>4, <1>5, <1>6, <1>7, <1>8, <1>9, <1>10, <1>11, <1>12, <1>13
  DEF Next, Work

LEMMA TasksHold == Spec => [](StoreTypeOK /\ TaskInv)
<1>1. Init => StoreTypeOK /\ TaskInv
  <2> SUFFICES ASSUME Init PROVE StoreTypeOK /\ TaskInv
    OBVIOUS
  <2>1. StoreTypeOK
    BY TypeInit DEF Init
  <2>2. Waiting("get") \in Task(WorkerPcs) /\ Waiting("get").pc = "get"
    BY WaitingTask DEF WorkerPcs
  <2>3. mp = [p \in Pollers |-> Waiting(IF p = poller THEN "wait" ELSE "off")]
    BY DEF Init
  <2>4. \A p \in Pollers : mp[p] \in Task(PollerPcs) /\ mp[p].pc \in {"wait", "off"}
    BY <2>3, WaitingTask DEF PollerPcs
  <2>5. QED
    BY <2>1, <2>2, <2>3, <2>4, IngestAssumption DEF Init, TaskInv, IngestAssumption
<1>2. StoreTypeOK /\ TaskInv /\ [Next]_vars => (StoreTypeOK /\ TaskInv)'
  BY IngestStoreStep, TypeStep, TaskStep
<1>3. QED
  BY <1>1, <1>2, PTL DEF Spec

\* Whatever the tasks of the hub do, the table behaves as EventStore says.
LEMMA IngestStoreKept == Spec => StoreSpec
<1>1. Init => StoreInit
  BY DEF Init
<1>2. QED
  BY <1>1, IngestStoreStep, TasksHold, PTL DEF Spec, StoreSpec

\* With the ingest thread, the pollers, retention, settings saves and restarts at
\* work the event table (store.py) still implements the bounded log.
THEOREM IngestedLogHolds == Spec => LogRefined
BY IngestStoreKept, LogHolds, PTL

-----------------------------------------------------------------------------
(* Every stored event is evaluated once, or accounted for. *)

Held(e) ==
  \/ wk.pc = "evaluate" /\ wk.id = e
  \/ \E p \in Pollers : mp[p].pc = "evaluate" /\ mp[p].id = e

\* No event is in the hands of two tasks.
OneHand ==
  /\ wk.pc = "evaluate" =>
       wk.id \in Ids /\ \A p \in Pollers : mp[p].pc = "evaluate" => mp[p].id # wk.id
  /\ \A p \in Pollers : mp[p].pc = "evaluate" =>
       mp[p].id \in Ids
       /\ \A q \in Pollers : mp[q].pc = "evaluate" /\ mp[q].id = mp[p].id => q = p

\* The account of every event: stored, it is evaluated, missed or held, one of
\* the three; not stored, none of them.
LedgerInv ==
  /\ evaluated \in [Ids -> Nat] /\ missed \in SUBSET Ids
  /\ nextId \in (Legacy + 1)..(MaxId + 1)
  /\ OneHand
  /\ \A e \in Ids :
       /\ evaluated[e] \in {0, 1}
       /\ e \notin Stored => evaluated[e] = 0 /\ e \notin missed /\ ~Held(e)
       /\ e \in Stored => evaluated[e] = 1 \/ e \in missed \/ Held(e)
       /\ evaluated[e] = 1 => e \notin missed
       /\ Held(e) => evaluated[e] = 0 /\ e \notin missed

\* A task takes the event it has just stored.
LEMMA LedgerStored ==
  ASSUME LedgerInv, nextId \in Ids, nextId' = nextId + 1, UNCHANGED <<evaluated, missed>>,
         OneHand', \A e \in Ids : Held(e)' <=> Held(e) \/ e = nextId
  PROVE  LedgerInv'
<1>1. Legacy \in Nat /\ MaxId \in Nat
  BY StoreAssumption DEF StoreAssumption
<1>2. nextId \notin Stored /\ nextId' \in (Legacy + 1)..(MaxId + 1)
  BY <1>1 DEF Stored, LedgerInv, Ids
<1>3. \A e \in Ids : e \in Stored' <=> e \in Stored \/ e = nextId
  BY <1>1 DEF Stored, LedgerInv, Ids
<1>4. QED
  BY <1>2, <1>3 DEF LedgerInv

\* A task evaluates the event it holds.
LEMMA LedgerEvaluated ==
  ASSUME LedgerInv, NEW x \in Ids, Held(x), UNCHANGED <<nextId, missed>>,
         evaluated' = [evaluated EXCEPT ![x] = evaluated[x] + 1],
         OneHand', \A e \in Ids : Held(e)' <=> Held(e) /\ e # x
  PROVE  LedgerInv'
<1>1. Stored' = Stored
  BY DEF Stored
<1>2. evaluated' \in [Ids -> Nat]
  BY DEF LedgerInv
<1>3. evaluated[x] = 0 /\ x \notin missed /\ x \in Stored
  BY DEF LedgerInv
<1>4. \A e \in Ids : evaluated'[e] = IF e = x THEN 1 ELSE evaluated[e]
  BY <1>3 DEF LedgerInv
<1>5. QED
  BY <1>1, <1>2, <1>3, <1>4 DEF LedgerInv

\* Tasks lose the events they hold, or none.
LEMMA LedgerMissed ==
  ASSUME LedgerInv, NEW X \in SUBSET Ids, \A e \in X : Held(e),
         missed' = missed \cup X, UNCHANGED <<nextId, evaluated>>,
         OneHand', \A e \in Ids : Held(e)' <=> Held(e) /\ e \notin X
  PROVE  LedgerInv'
<1>1. Stored' = Stored
  BY DEF Stored
<1>2. QED
  BY <1>1 DEF LedgerInv

LEMMA InHandWorker ==
  ASSUME NEW e
  PROVE  e \in InHand({wk}) <=> wk.pc = "evaluate" /\ wk.id = e
BY DEF InHand

LEMMA InHandPoller ==
  ASSUME NEW e, NEW p
  PROVE  e \in InHand({mp[p]}) <=> mp[p].pc = "evaluate" /\ mp[p].id = e
BY DEF InHand

LEMMA InHandAll ==
  ASSUME NEW e
  PROVE  e \in InHand({wk} \cup {mp[p] : p \in Pollers}) <=> Held(e)
BY DEF InHand, Held

LEMMA LedgerKept ==
  ASSUME LedgerInv, UNCHANGED <<nextId, evaluated, missed>>,
         OneHand', \A e \in Ids : Held(e)' <=> Held(e)
  PROVE  LedgerInv'
<1>1. Stored' = Stored
  BY DEF Stored
<1>2. QED
  BY <1>1 DEF LedgerInv

\* The worker task, the pollers and the account stay as they are.
LEMMA LedgerSame ==
  ASSUME LedgerInv, UNCHANGED <<nextId, evaluated, missed, wk, mp>>
  PROVE  LedgerInv'
<1>1. OneHand' /\ \A e \in Ids : Held(e)' <=> Held(e)
  BY DEF LedgerInv, OneHand, Held
<1>2. QED
  BY <1>1, LedgerKept

\* A poller moves on, with nothing in hand before or after.
LEMMA LedgerPoller ==
  ASSUME LedgerInv, TaskInv, NEW p \in Pollers, NEW x, mp' = [mp EXCEPT ![p] = x],
         mp[p].pc # "evaluate", x.pc # "evaluate",
         UNCHANGED <<nextId, evaluated, missed, wk>>
  PROVE  LedgerInv'
<1>1. mp'[p] = x /\ \A q \in Pollers \ {p} : mp'[q] = mp[q]
  BY DEF TaskInv
<1>2. OneHand' /\ \A e \in Ids : Held(e)' <=> Held(e)
  BY <1>1 DEF LedgerInv, OneHand, Held
<1>3. QED
  BY <1>2, LedgerKept

LEMMA LedgerStep ==
  ASSUME StoreTypeOK, TaskInv, LedgerInv, [Next]_vars
  PROVE  LedgerInv'
<1>1. ASSUME NEW m \in Lines, Receive(m) PROVE LedgerInv'
  BY <1>1, LedgerSame DEF Receive, storeVars, polling, alerting
<1>2. CASE Take
  <2>1. UNCHANGED <<nextId, evaluated, missed, mp>> /\ wk.pc # "evaluate" /\ wk'.pc # "evaluate"
    BY <1>2 DEF Take, storeVars, polling, alerting, Waiting
  <2>2. OneHand' /\ \A e \in Ids : Held(e)' <=> Held(e)
    BY <2>1 DEF LedgerInv, OneHand, Held
  <2>3. QED
    BY <2>1, <2>2, LedgerKept
<1>3. CASE StoreLine
  <2>1. /\ nextId \in Ids /\ nextId' = nextId + 1 /\ UNCHANGED <<evaluated, missed, mp>>
        /\ wk.pc = "insert" /\ wk'.pc = "evaluate" /\ wk'.id = nextId
    BY <1>3 DEF StoreLine, Insert, polling, alerting, TaskInv, Task
  <2>2. \A e \in Ids : Held(e) => e # nextId
    BY StoreAssumption DEF StoreAssumption, LedgerInv, Stored, Ids
  <2>3. \A e \in Ids : Held(e)' <=> Held(e) \/ e = nextId
    BY <2>1 DEF Held
  <2>4. OneHand'
    <3>1. \A p \in Pollers : mp[p].pc = "evaluate" => mp[p].id \in Ids /\ mp[p].id # nextId
      BY <2>2 DEF LedgerInv, OneHand, Held
    <3>2. QED
      BY <2>1, <3>1 DEF LedgerInv, OneHand
  <2>5. QED
    BY <2>1, <2>3, <2>4, LedgerStored
<1>4. CASE EvaluateLine
  <2>1. /\ wk.pc = "evaluate" /\ wk'.pc = "get" /\ UNCHANGED <<nextId, missed, mp>>
        /\ evaluated' = [evaluated EXCEPT ![wk.id] = evaluated[wk.id] + 1]
    BY <1>4 DEF EvaluateLine, storeVars, polling, Waiting
  <2>2. wk.id \in Ids /\ Held(wk.id)
    BY <2>1 DEF LedgerInv, OneHand, Held
  <2>3. OneHand' /\ \A e \in Ids : Held(e)' <=> Held(e) /\ e # wk.id
    BY <2>1 DEF LedgerInv, OneHand, Held
  <2>4. QED
    BY <2>1, <2>2, <2>3, LedgerEvaluated
<1>5. CASE LineFails
  <2>1. /\ wk'.pc = "get" /\ UNCHANGED <<nextId, evaluated, mp>>
        /\ missed' = missed \cup InHand({wk})
    BY <1>5 DEF LineFails, storeVars, polling, Waiting
  <2>2. InHand({wk}) \in SUBSET Ids /\ \A e \in InHand({wk}) : Held(e)
    BY InHandWorker DEF LedgerInv, OneHand, Held
  <2>3. OneHand' /\ \A e \in Ids : Held(e)' <=> Held(e) /\ e \notin InHand({wk})
    BY <2>1, InHandWorker DEF LedgerInv, OneHand, Held
  <2>4. QED
    BY <2>1, <2>2, <2>3, LedgerMissed
<1>6. CASE Sweep \/ SweepFails
  BY <1>6, LedgerSame DEF Sweep, SweepFails, DeleteOlderThan, storeVars, ingest, polling,
                          histories, alerting
<1>7. ASSUME NEW p \in Pollers, Wake(p) \/ WakeFails(p) PROVE LedgerInv'
  <2>0. PICK pc \in {"off", "fetch"} : Goto(p, pc)
    BY <1>7 DEF Wake, WakeFails
  <2> DEFINE x == [mp[p] EXCEPT !.pc = pc]
  <2>1. /\ mp' = [mp EXCEPT ![p] = x] /\ mp[p].pc # "evaluate"
        /\ UNCHANGED <<nextId, evaluated, missed, wk>>
    BY <1>7, <2>0 DEF Wake, WakeFails, Goto, storeVars, ingest, histories, alerting
  <2>2. x.pc # "evaluate"
    BY DEF TaskInv, Task
  <2>3. QED
    BY <2>1, <2>2, LedgerPoller
<1>8. ASSUME NEW p \in Pollers, FetchEvents(p) PROVE LedgerInv'
  <2> DEFINE x == IF wanted THEN [Waiting("look") EXCEPT !.todo = cloud] ELSE Waiting("wait")
  <2>1. /\ mp' = [mp EXCEPT ![p] = x] /\ mp[p].pc # "evaluate"
        /\ UNCHANGED <<nextId, evaluated, missed, wk>>
    BY <1>8 DEF FetchEvents, storeVars, ingest, histories, alerting
  <2>2. x.pc # "evaluate"
    BY DEF Waiting
  <2>3. QED
    BY <2>1, <2>2, LedgerPoller
<1>9. ASSUME NEW p \in Pollers, Look(p) PROVE LedgerInv'
  <2>1. mp[p].pc # "evaluate" /\ UNCHANGED <<nextId, evaluated, missed, wk>>
    BY <1>9 DEF Look, storeVars, ingest, histories, alerting
  <2>2. CASE mp' = [mp EXCEPT ![p] = Waiting("wait")]
    <3>1. Waiting("wait").pc # "evaluate"
      BY DEF Waiting
    <3>2. QED
      BY <2>1, <2>2, <3>1, LedgerPoller
  <2>3. ASSUME NEW k \in mp[p].todo,
               mp' = [mp EXCEPT ![p] = [mp[p] EXCEPT
                 !.todo = mp[p].todo \ {k},
                 !.pc = IF HasParser(k) THEN "look" ELSE "insert",
                 !.row = [type |-> "mist", key |-> k, at |-> now, msg |-> MistText]]]
        PROVE  LedgerInv'
    <3> DEFINE x == [mp[p] EXCEPT
                 !.todo = mp[p].todo \ {k},
                 !.pc = IF HasParser(k) THEN "look" ELSE "insert",
                 !.row = [type |-> "mist", key |-> k, at |-> now, msg |-> MistText]]
    <3>1. x.pc # "evaluate"
      BY DEF TaskInv, Task
    <3>2. QED
      BY <2>1, <2>3, <3>1, LedgerPoller
  <2>4. QED
    BY <1>9, <2>2, <2>3 DEF Look
<1>10. ASSUME NEW p \in Pollers, StoreMist(p) PROVE LedgerInv'
  <2>1. /\ nextId \in Ids /\ nextId' = nextId + 1 /\ UNCHANGED <<evaluated, missed, wk>>
        /\ mp' = [mp EXCEPT ![p].pc = "evaluate", ![p].id = nextId] /\ mp[p].pc = "insert"
    BY <1>10 DEF StoreMist, Insert, ingest, histories, alerting
  <2>2. /\ mp'[p].pc = "evaluate" /\ mp'[p].id = nextId
        /\ \A q \in Pollers \ {p} : mp'[q] = mp[q]
    BY <2>1 DEF TaskInv, Task
  <2>3. \A e \in Ids : Held(e) => e # nextId
    BY StoreAssumption DEF StoreAssumption, LedgerInv, Stored, Ids
  <2>4. \A e \in Ids : Held(e)' <=> Held(e) \/ e = nextId
    BY <2>1, <2>2 DEF Held
  <2>5. OneHand'
    <3>1. \A q \in Pollers : mp[q].pc = "evaluate" => mp[q].id \in Ids /\ mp[q].id # nextId
      BY <2>3 DEF LedgerInv, OneHand, Held
    <3>2. wk.pc = "evaluate" => wk.id \in Ids /\ wk.id # nextId
      BY <2>3 DEF LedgerInv, OneHand, Held
    <3>3. wk'.pc = "evaluate" =>
            wk'.id \in Ids /\ \A q \in Pollers : mp'[q].pc = "evaluate" => mp'[q].id # wk'.id
      BY <2>1, <2>2, <3>2 DEF LedgerInv, OneHand
    <3>4. ASSUME NEW q \in Pollers, mp'[q].pc = "evaluate"
          PROVE  /\ mp'[q].id \in Ids
                 /\ \A o \in Pollers : mp'[o].pc = "evaluate" /\ mp'[o].id = mp'[q].id => o = q
      <4>1. CASE q = p
        BY <2>1, <2>2, <3>1, <4>1
      <4>2. CASE q # p
        BY <2>2, <3>1, <3>4, <4>2 DEF LedgerInv, OneHand
      <4>3. QED
        BY <4>1, <4>2
    <3>5. QED
      BY <3>3, <3>4 DEF OneHand
  <2>6. QED
    BY <2>1, <2>4, <2>5, LedgerStored
<1>11. ASSUME NEW p \in Pollers, EvaluateMist(p) PROVE LedgerInv'
  <2>1. /\ mp[p].pc = "evaluate" /\ UNCHANGED <<nextId, missed, wk>>
        /\ evaluated' = [evaluated EXCEPT ![mp[p].id] = evaluated[mp[p].id] + 1]
        /\ mp' = [mp EXCEPT ![p] = [mp[p] EXCEPT !.pc = "look", !.row = NoRow, !.id = 0]]
    BY <1>11 DEF EvaluateMist, storeVars, ingest
  <2>2. mp'[p].pc = "look" /\ \A q \in Pollers \ {p} : mp'[q] = mp[q]
    BY <2>1 DEF TaskInv, Task
  <2>3. mp[p].id \in Ids /\ Held(mp[p].id)
    BY <2>1 DEF LedgerInv, OneHand, Held
  <2>4. OneHand' /\ \A e \in Ids : Held(e)' <=> Held(e) /\ e # mp[p].id
    BY <2>1, <2>2 DEF LedgerInv, OneHand, Held
  <2>5. QED
    BY <2>1, <2>3, <2>4, LedgerEvaluated
<1>12. ASSUME NEW p \in Pollers, PollFails(p) PROVE LedgerInv'
  <2>1. /\ UNCHANGED <<nextId, evaluated, wk>> /\ missed' = missed \cup InHand({mp[p]})
        /\ mp' = [mp EXCEPT ![p] = Waiting("wait")]
    BY <1>12 DEF PollFails, storeVars, ingest
  <2>2. mp'[p].pc = "wait" /\ \A q \in Pollers \ {p} : mp'[q] = mp[q]
    BY <2>1 DEF TaskInv, Waiting
  <2> DEFINE X == InHand({mp[p]})
  <2>3. \A e : e \in X <=> mp[p].pc = "evaluate" /\ mp[p].id = e
    BY InHandPoller
  <2>4. missed' = missed \cup X
    BY <2>1
  <2> HIDE DEF X
  <2>5. X \in SUBSET Ids /\ \A e \in X : Held(e)
    BY <2>3 DEF LedgerInv, OneHand, Held
  <2>6. OneHand'
    BY <2>1, <2>2 DEF LedgerInv, OneHand
  <2>7. \A e \in Ids : Held(e)' <=> Held(e) /\ e \notin X
    BY <2>1, <2>2, <2>3 DEF LedgerInv, OneHand, Held
  <2>8. QED
    BY <2>1, <2>4, <2>5, <2>6, <2>7, LedgerMissed
<1>13. CASE CloudChanges
  BY <1>13, LedgerSame DEF CloudChanges, storeVars, ingest, histories, alerting
<1>14. CASE TimePasses
  BY <1>14, LedgerSame DEF TimePasses, Tick, ingest, polling, histories, alerting
<1>15. ASSUME NEW w \in BOOLEAN, NEW h \in HoursChoices, SaveSettings(w, h)
       PROVE  LedgerInv'
  BY <1>15, LedgerSame DEF SaveSettings, storeVars, ingest, histories, alerting
<1>16. CASE StartPoller
  <2>1. UNCHANGED <<nextId, evaluated, missed, wk>>
    BY <1>16 DEF StartPoller, storeVars, ingest, alerting
  <2>2. ASSUME NEW p \in Pollers, ~Running(p), Goto(p, "wait") PROVE LedgerInv'
    <3> DEFINE x == [mp[p] EXCEPT !.pc = "wait"]
    <3>1. mp' = [mp EXCEPT ![p] = x] /\ x.pc # "evaluate" /\ mp[p].pc # "evaluate"
      BY <2>2 DEF Goto, Running, TaskInv, Task
    <3>2. QED
      BY <2>1, <3>1, LedgerPoller
  <2>3. CASE UNCHANGED mp
    BY <2>1, <2>3, LedgerSame
  <2>4. QED
    BY <1>16, <2>2, <2>3 DEF StartPoller
<1>17. ASSUME NEW m \in MaxEventsChoices, Restart(m) PROVE LedgerInv'
  <2> DEFINE X == InHand({wk} \cup {mp[p] : p \in Pollers})
  <2>1. /\ UNCHANGED <<nextId, evaluated>> /\ missed' = missed \cup X
        /\ wk' = Waiting("get")
        /\ mp' = [p \in Pollers |-> Waiting(IF p = poller' THEN "wait" ELSE "off")]
    BY <1>17 DEF Restart, Starts, Reopen
  <2>2. wk'.pc = "get" /\ \A p \in Pollers : mp'[p].pc # "evaluate"
    BY <2>1 DEF Waiting
  <2>3. X \in SUBSET Ids /\ \A e \in X : Held(e)
    BY InHandAll DEF LedgerInv, OneHand, Held
  <2>4. OneHand' /\ \A e \in Ids : Held(e)' <=> Held(e) /\ e \notin X
    BY <2>2, InHandAll DEF OneHand, Held
  <2> HIDE DEF X
  <2>5. QED
    BY <2>1, <2>3, <2>4, LedgerMissed
<1>18. CASE UNCHANGED vars
  BY <1>18, LedgerSame DEF vars, storeVars, ingest, polling, histories, alerting
<1>19. QED
  BY <1>1, <1>2, <1>3, <1>4, <1>5, <1>6, <1>7, <1>8, <1>9, <1>10, <1>11, <1>12, <1>13,
     <1>14, <1>15, <1>16, <1>17, <1>18 DEF Next, Work, Poll

LEMMA LedgerHolds == Spec => []LedgerInv
<1>1. Init => LedgerInv
  <2> SUFFICES ASSUME Init PROVE LedgerInv
    OBVIOUS
  <2>1. wk.pc = "get" /\ \A p \in Pollers : mp[p].pc # "evaluate"
    BY DEF Init, Waiting
  <2>2. OneHand /\ \A e \in Ids : ~Held(e)
    BY <2>1 DEF OneHand, Held
  <2>3. nextId \in (Legacy + 1)..(MaxId + 1) /\ Stored = {}
    BY StoreAssumption DEF StoreAssumption, Init, StoreInit, Stored
  <2>4. evaluated = [e \in Ids |-> 0] /\ missed = {}
    BY DEF Init
  <2>5. QED
    BY <2>2, <2>3, <2>4 DEF LedgerInv
<1>2. QED
  BY <1>1, LedgerStep, TasksHold, PTL DEF Spec

LEMMA LedgerSound ==
  ASSUME LedgerInv
  PROVE  EvaluatedOnce
<1> SUFFICES ASSUME NEW e \in Ids
             PROVE  /\ evaluated[e] <= 1
                    /\ Cardinality({p \in Pollers : e \in InHand({mp[p]})}) <= 1
                    /\ e \in Stored <=>
                         \/ evaluated[e] = 1 /\ e \notin missed
                         \/ e \in missed /\ evaluated[e] = 0
                         \/ evaluated[e] = 0 /\ e \in InHand({wk} \cup {mp[p] : p \in Pollers})
  BY DEF EvaluatedOnce
<1> DEFINE H == {p \in Pollers : e \in InHand({mp[p]})}
<1>1. evaluated[e] <= 1
  BY DEF LedgerInv
<1>2. Cardinality(H) <= 1
  <2>0. \A p \in H : p \in Pollers /\ mp[p].pc = "evaluate" /\ mp[p].id = e
    BY InHandPoller
  <2> HIDE DEF H
  <2>1. \A p, q \in H : p = q
    BY <2>0 DEF LedgerInv, OneHand
  <2>2. CASE H = {}
    <3>1. Cardinality(H) = 0
      BY <2>2, FS_EmptySet
    <3>2. QED
      BY <3>1
  <2>3. ASSUME NEW p \in H PROVE Cardinality(H) <= 1
    <3>1. H = {p}
      BY <2>1, <2>3
    <3>2. Cardinality(H) = 1
      BY <3>1, FS_Singleton
    <3>3. QED
      BY <3>2
  <2>4. QED
    BY <2>2, <2>3
<1>3. e \in InHand({wk} \cup {mp[p] : p \in Pollers}) <=> Held(e)
  BY InHandAll
<1>4. QED
  BY <1>1, <1>2, <1>3 DEF LedgerInv

-----------------------------------------------------------------------------
(* Lines keep their order. *)

LEMMA StoredGrows ==
  ASSUME StoreTypeOK, LedgerInv, NEW r, Insert(r)
  PROVE  /\ Stored' = Stored \cup {nextId} /\ nextId \notin Stored
         /\ row'[nextId] = r /\ \A e \in Stored : row'[e] = row[e] /\ e < nextId
<1>1. Legacy \in Nat /\ MaxId \in Nat
  BY StoreAssumption DEF StoreAssumption
<1>2. /\ nextId \in (Legacy + 1)..(MaxId + 1) /\ nextId \in Ids /\ nextId' = nextId + 1
      /\ row' = [row EXCEPT ![nextId] = r] /\ row \in [Ids -> Row \cup {NoRow}]
  BY DEF LedgerInv, Insert, StoreTypeOK
<1>3. Stored' = Stored \cup {nextId} /\ nextId \notin Stored /\ Stored \subseteq Ids
  BY <1>1, <1>2 DEF Stored, Ids
<1>4. \A e \in Stored : e < nextId
  BY <1>1, <1>2 DEF Stored
<1>5. QED
  BY <1>2, <1>3, <1>4

Fates == {"none", "queued", "dropped", "junk", "failed", "stored", "lost"}

\* How many of the accepted lines have left the queue.
Taken == Len(accepted) - Len(queue)
Reached(m, n) == \E j \in 1..n : accepted[j] = m

\* The queue is the end of what was accepted, none of it twice; every line in
\* the table comes before the queue, and before the line the task is to insert.
OrderInv ==
  /\ fate \in [Lines -> Fates]
  /\ accepted \in Seq(Lines) /\ queue \in Seq(Lines) /\ Len(queue) <= Len(accepted)
  /\ \A i \in 1..Len(queue) : queue[i] = accepted[Taken + i]
  /\ \A i, j \in 1..Len(accepted) : accepted[i] = accepted[j] => i = j
  /\ \A i \in 1..Len(accepted) : fate[accepted[i]] # "none"
  /\ \A e \in Stored : row[e].msg \in Lines => Reached(row[e].msg, Taken)
  /\ wk.pc = "insert" =>
       \E i \in 1..Taken :
         /\ accepted[i] = wk.row.msg
         /\ \A e \in Stored : row[e].msg \in Lines => Reached(row[e].msg, i - 1)
  /\ InOrder

\* Steps that leave the queue and the table alone.
LEMMA OrderKept ==
  ASSUME OrderInv, UNCHANGED <<accepted, queue, row, nextId>>,
         wk' = wk \/ wk'.pc # "insert",
         fate' \in [Lines -> Fates], \A m \in Lines : fate[m] # "none" => fate'[m] # "none"
  PROVE  OrderInv'
<1>1. Stored' = Stored /\ Taken' = Taken /\ InOrder'
  BY DEF Stored, Taken, OrderInv, InOrder
<1>2. \A i \in 1..Len(accepted) : accepted[i] \in Lines
  BY DEF OrderInv
<1>3. QED
  BY <1>1, <1>2 DEF OrderInv, Reached

LEMMA OrderReceive ==
  ASSUME OrderInv, NEW m \in Lines, Receive(m)
  PROVE  OrderInv'
<1>1. fate[m] = "none" /\ UNCHANGED <<row, nextId, wk>>
  BY DEF Receive, storeVars
<1>2. CASE UNCHANGED <<queue, accepted>> /\ SetFate(m, "dropped")
  <2>1. fate' \in [Lines -> Fates] /\ \A x \in Lines : fate[x] # "none" => fate'[x] # "none"
    BY <1>1, <1>2 DEF SetFate, OrderInv, Fates
  <2>2. QED
    BY <1>1, <1>2, <2>1, OrderKept
<1>3. CASE queue' = Append(queue, m) /\ accepted' = Append(accepted, m) /\ SetFate(m, "queued")
  <2>1. /\ accepted' \in Seq(Lines) /\ queue' \in Seq(Lines)
        /\ Len(accepted') = Len(accepted) + 1 /\ Len(queue') = Len(queue) + 1
        /\ \A i \in 1..Len(accepted) : accepted'[i] = accepted[i] /\ accepted[i] \in Lines
        /\ \A i \in 1..Len(queue) : queue'[i] = queue[i]
        /\ accepted'[Len(accepted) + 1] = m /\ queue'[Len(queue) + 1] = m
        /\ Len(accepted) \in Nat /\ Len(queue) \in Nat /\ Len(queue) <= Len(accepted)
    BY <1>3 DEF OrderInv
  <2>2. Stored' = Stored /\ Taken' = Taken /\ Taken \in 0..Len(accepted)
    BY <1>1, <2>1 DEF Stored, Taken
  <2>3. /\ fate' \in [Lines -> Fates] /\ fate'[m] # "none"
        /\ \A x \in Lines : fate[x] # "none" => fate'[x] # "none"
    BY <1>1, <1>3 DEF SetFate, OrderInv, Fates
  <2>4. ASSUME NEW i \in 1..Len(queue') PROVE queue'[i] = accepted'[Taken' + i]
    <3>1. CASE i = Len(queue) + 1
      <4>1. Taken' + i = Len(accepted) + 1
        BY <2>1, <2>2, <3>1 DEF Taken
      <4>2. QED
        BY <2>1, <3>1, <4>1
    <3>2. CASE i # Len(queue) + 1
      <4>1. i \in 1..Len(queue) /\ Taken + i \in 1..Len(accepted)
        BY <2>1, <3>2 DEF Taken
      <4>2. queue[i] = accepted[Taken + i]
        BY <4>1 DEF OrderInv
      <4>3. QED
        BY <2>1, <2>2, <4>1, <4>2
    <3>3. QED
      BY <3>1, <3>2
  <2>5. \A i, j \in 1..Len(accepted') : accepted'[i] = accepted'[j] => i = j
    <3>1. \A i \in 1..Len(accepted) : accepted[i] # m
      BY <1>1 DEF OrderInv
    <3>2. \A i, j \in 1..Len(accepted) : accepted[i] = accepted[j] => i = j
      BY DEF OrderInv
    <3>3. \A i \in 1..Len(accepted') : i \in 1..Len(accepted) \/ i = Len(accepted) + 1
      BY <2>1
    <3>4. QED
      BY <2>1, <3>1, <3>2, <3>3
  <2>6. \A i \in 1..Len(accepted') : fate'[accepted'[i]] # "none"
    BY <2>1, <2>3 DEF OrderInv
  <2>7. \A n \in 0..Len(accepted) : \A x : Reached(x, n) => Reached(x, n)'
    BY <2>1 DEF Reached
  <2>8. \A e \in Stored' : row'[e].msg \in Lines => Reached(row[e].msg, Taken)'
    BY <1>1, <2>2, <2>7 DEF OrderInv
  <2>9. wk'.pc = "insert" =>
          \E i \in 1..Taken' :
            /\ accepted'[i] = wk'.row.msg
            /\ \A e \in Stored' : row'[e].msg \in Lines => Reached(row[e].msg, i - 1)'
    <3> SUFFICES ASSUME wk.pc = "insert"
                 PROVE  \E i \in 1..Taken' :
                          /\ accepted'[i] = wk'.row.msg
                          /\ \A e \in Stored' : row'[e].msg \in Lines => Reached(row[e].msg, i - 1)'
      BY <1>1
    <3>1. PICK i \in 1..Taken :
            /\ accepted[i] = wk.row.msg
            /\ \A e \in Stored : row[e].msg \in Lines => Reached(row[e].msg, i - 1)
      BY DEF OrderInv
    <3>2. i \in 1..Len(accepted) /\ i - 1 \in 0..Len(accepted)
      BY <2>1, <2>2
    <3>3. \A e \in Stored' : row'[e].msg \in Lines => Reached(row[e].msg, i - 1)'
      BY <1>1, <2>2, <2>7, <3>1, <3>2
    <3>4. accepted'[i] = wk'.row.msg
      BY <1>1, <2>1, <3>1, <3>2
    <3>5. QED
      BY <2>2, <3>3, <3>4
  <2>10. InOrder'
    <3> SUFFICES ASSUME NEW e \in Stored, NEW f \in Stored,
                        e < f, row[e].msg \in Lines, row[f].msg \in Lines
                 PROVE  /\ row[e].msg # row[f].msg
                        /\ \E i, j \in DOMAIN accepted' :
                             i < j /\ accepted'[i] = row[e].msg /\ accepted'[j] = row[f].msg
      BY <1>1, <2>2 DEF InOrder
    <3>1. /\ row[e].msg # row[f].msg
          /\ \E i, j \in DOMAIN accepted :
               i < j /\ accepted[i] = row[e].msg /\ accepted[j] = row[f].msg
      BY DEF OrderInv, InOrder
    <3>2. DOMAIN accepted = 1..Len(accepted) /\ DOMAIN accepted' = 1..Len(accepted')
      BY <2>1 DEF OrderInv
    <3>3. QED
      BY <2>1, <3>1, <3>2
  <2>11. QED
    BY <2>1, <2>3, <2>4, <2>5, <2>6, <2>8, <2>9, <2>10 DEF OrderInv
<1>4. QED
  BY <1>2, <1>3 DEF Receive

LEMMA OrderTake ==
  ASSUME OrderInv, Take
  PROVE  OrderInv'
<1> DEFINE m == Head(queue)
<1>1. /\ queue # <<>> /\ queue' = Tail(queue) /\ wk.pc = "get"
      /\ UNCHANGED <<row, nextId, accepted>>
  BY DEF Take, storeVars
<1>2. /\ queue' \in Seq(Lines) /\ Len(queue') = Len(queue) - 1 /\ Len(queue) \in Nat \ {0}
      /\ m = queue[1] /\ m \in Lines /\ \A i \in 1..Len(queue') : queue'[i] = queue[i + 1]
  BY <1>1 DEF OrderInv
<1>3. /\ Len(accepted) \in Nat /\ Len(queue) <= Len(accepted)
      /\ Stored' = Stored /\ Taken' = Taken + 1 /\ Taken' \in 1..Len(accepted)
      /\ Taken \in 0..Len(accepted)
  BY <1>1, <1>2 DEF Stored, Taken, OrderInv
<1>4. accepted[Taken'] = m
  BY <1>2, <1>3 DEF OrderInv
<1>5. \A i \in 1..Len(queue') : queue'[i] = accepted'[Taken' + i]
  <2> SUFFICES ASSUME NEW i \in 1..Len(queue') PROVE queue'[i] = accepted[Taken' + i]
    BY <1>1
  <2>1. i + 1 \in 1..Len(queue) /\ Taken' + i = Taken + (i + 1)
    BY <1>2, <1>3
  <2>2. QED
    BY <1>2, <2>1 DEF OrderInv
<1>6. /\ fate' \in [Lines -> Fates]
      /\ \A x \in Lines : fate[x] # "none" => fate'[x] # "none"
  <2>1. fate' = fate \/ fate' = [fate EXCEPT ![m] = "junk"]
    BY DEF Take, SetFate
  <2>2. QED
    BY <1>2, <2>1 DEF OrderInv, Fates
<1>7. \A i \in 1..Len(accepted) : accepted[i] \in Lines
  BY DEF OrderInv
<1>8. \A e \in Stored : row[e].msg \in Lines => Reached(row[e].msg, Taken)
  BY DEF OrderInv
<1>9. \A e \in Stored' : row'[e].msg \in Lines => Reached(row[e].msg, Taken)'
  BY <1>1, <1>3, <1>8 DEF Reached
<1>10. wk'.pc = "insert" =>
         \E i \in 1..Taken' :
           /\ accepted'[i] = wk'.row.msg
           /\ \A e \in Stored : row[e].msg \in Lines => Reached(row[e].msg, i - 1)
  <2>1. wk'.pc = "insert" => wk'.row.msg = m
    BY <1>1 DEF Take, Waiting
  <2>2. \A e \in Stored : row[e].msg \in Lines => Reached(row[e].msg, Taken' - 1)
    <3>1. Taken' - 1 = Taken
      BY <1>3
    <3>2. QED
      BY <1>8, <3>1
  <2>3. QED
    BY <1>1, <1>3, <1>4, <2>1, <2>2
<1>11. InOrder'
  BY <1>1, <1>3 DEF InOrder, OrderInv
<1>12. \A x, n : Reached(x, n)' <=> Reached(x, n)
  BY <1>1 DEF Reached
<1>13. wk'.pc = "insert" =>
         \E i \in 1..Taken' :
           /\ accepted'[i] = wk'.row.msg
           /\ \A e \in Stored' : row'[e].msg \in Lines => Reached(row[e].msg, i - 1)'
  BY <1>1, <1>3, <1>10, <1>12
<1>14. /\ Len(queue') <= Len(accepted') /\ accepted' \in Seq(Lines)
       /\ \A i, j \in 1..Len(accepted') : accepted'[i] = accepted'[j] => i = j
       /\ \A i \in 1..Len(accepted') : fate'[accepted'[i]] # "none"
  BY <1>1, <1>2, <1>3, <1>6, <1>7 DEF OrderInv
<1> HIDE DEF m
<1>15. QED
  BY <1>2, <1>5, <1>6, <1>9, <1>11, <1>13, <1>14 DEF OrderInv

LEMMA OrderStoreLine ==
  ASSUME StoreTypeOK, TaskInv, LedgerInv, OrderInv, StoreLine
  PROVE  OrderInv'
<1>1. /\ wk.pc = "insert" /\ Insert(wk.row) /\ wk.row.msg \in Lines
      /\ UNCHANGED <<queue, accepted>>
  BY DEF StoreLine, TaskInv, LineRow
<1>2. /\ Stored' = Stored \cup {nextId} /\ nextId \notin Stored /\ row'[nextId] = wk.row
      /\ \A e \in Stored : row'[e] = row[e] /\ e < nextId
  BY <1>1, StoredGrows
<1>3. PICK i \in 1..Taken :
        /\ accepted[i] = wk.row.msg
        /\ \A e \in Stored : row[e].msg \in Lines => Reached(row[e].msg, i - 1)
  BY <1>1 DEF OrderInv
<1>4. /\ Taken' = Taken /\ Taken \in 0..Len(accepted) /\ Len(accepted) \in Nat
      /\ wk'.pc # "insert" /\ DOMAIN accepted = 1..Len(accepted)
  BY <1>1 DEF Taken, OrderInv, StoreLine, TaskInv, Task
<1>5. /\ fate' \in [Lines -> Fates]
      /\ \A x \in Lines : fate[x] # "none" => fate'[x] # "none"
  BY <1>1 DEF StoreLine, SetFate, OrderInv, Fates
<1>6. \A x \in 1..Len(accepted) : accepted[x] \in Lines
  BY DEF OrderInv
<1>7. \A e \in Stored' : row'[e].msg \in Lines => Reached(row'[e].msg, Taken)
  <2>1. Reached(wk.row.msg, Taken)
    BY <1>3 DEF Reached
  <2>2. QED
    BY <1>2, <2>1 DEF OrderInv
<1>8. InOrder'
  <2> SUFFICES ASSUME NEW e \in Stored', NEW f \in Stored',
                      e < f, row'[e].msg \in Lines, row'[f].msg \in Lines
               PROVE  /\ row'[e].msg # row'[f].msg
                      /\ \E x, y \in DOMAIN accepted :
                           x < y /\ accepted[x] = row'[e].msg /\ accepted[y] = row'[f].msg
    BY <1>1 DEF InOrder
  <2>0. nextId \in Nat /\ Stored \subseteq Nat
    BY StoreAssumption DEF StoreAssumption, StoreTypeOK, Stored
  <2>1. e \in Stored /\ row'[e] = row[e]
    <3>1. e # nextId
      <4>1. CASE f \in Stored
        BY <1>2, <2>0, <4>1
      <4>2. CASE f = nextId
        BY <2>0, <4>2
      <4>3. QED
        BY <1>2, <4>1, <4>2
    <3>2. QED
      BY <1>2, <3>1
  <2>2. CASE f \in Stored
    BY <1>2, <2>1, <2>2 DEF OrderInv, InOrder
  <2>3. CASE f = nextId
    <3>1. PICK x \in 1..(i - 1) : accepted[x] = row[e].msg
      BY <1>3, <2>1 DEF Reached
    <3>2. x \in 1..Len(accepted) /\ i \in 1..Len(accepted) /\ x < i
      BY <1>3, <1>4
    <3>3. row'[f].msg = accepted[i]
      BY <1>2, <1>3, <2>3
    <3>4. accepted[x] # accepted[i]
      BY <3>2 DEF OrderInv
    <3>5. QED
      BY <1>4, <2>1, <3>1, <3>2, <3>3, <3>4
  <2>4. QED
    BY <1>2, <2>2, <2>3
<1>9. QED
  BY <1>1, <1>4, <1>5, <1>6, <1>7, <1>8 DEF OrderInv, Reached

LEMMA OrderStoreMist ==
  ASSUME StoreTypeOK, TaskInv, LedgerInv, OrderInv, NEW p \in Pollers, StoreMist(p)
  PROVE  OrderInv'
<1>1. /\ mp[p].pc = "insert" /\ Insert(mp[p].row) /\ mp[p].row.msg \notin Lines
      /\ UNCHANGED <<queue, accepted, wk, fate>>
  BY IngestAssumption DEF IngestAssumption, StoreMist, TaskInv, MistRow, ingest, histories
<1>2. /\ Stored' = Stored \cup {nextId} /\ row'[nextId] = mp[p].row
      /\ \A e \in Stored : row'[e] = row[e]
  BY <1>1, StoredGrows
<1>3. \A e \in Stored' : row'[e].msg \in Lines => e \in Stored /\ row'[e] = row[e]
  BY <1>1, <1>2
<1>4. Taken' = Taken
  BY <1>1 DEF Taken
<1>5. InOrder'
  BY <1>1, <1>3 DEF InOrder, OrderInv
<1>6. QED
  BY <1>1, <1>3, <1>4, <1>5 DEF OrderInv, Reached

LEMMA OrderStep ==
  ASSUME StoreTypeOK, TaskInv, LedgerInv, OrderInv, [Next]_vars
  PROVE  OrderInv'
<1>0. ASSUME UNCHANGED <<accepted, queue, row, nextId, fate>>, wk' = wk \/ wk'.pc # "insert"
      PROVE  OrderInv'
  BY <1>0, OrderKept DEF OrderInv
<1>1. CASE EvaluateLine
  BY <1>0, <1>1 DEF EvaluateLine, Waiting, storeVars
<1>2. CASE LineFails
  <2>1. /\ UNCHANGED <<accepted, queue, row, nextId>> /\ wk'.pc # "insert"
        /\ fate' = fate \/ (wk.row.msg \in Lines /\ fate' = [fate EXCEPT ![wk.row.msg] = "failed"])
    BY <1>2 DEF LineFails, Waiting, storeVars, TaskInv, LineRow
  <2>2. fate' \in [Lines -> Fates] /\ \A m \in Lines : fate[m] # "none" => fate'[m] # "none"
    BY <2>1 DEF OrderInv, Fates
  <2>3. QED
    BY <2>1, <2>2, OrderKept
<1>3. CASE Sweep \/ SweepFails
  BY <1>0, <1>3 DEF Sweep, SweepFails, DeleteOlderThan, storeVars, ingest, histories
<1>4. ASSUME NEW p \in Pollers,
             \/ Wake(p) \/ FetchEvents(p) \/ Look(p) \/ EvaluateMist(p)
             \/ PollFails(p) \/ WakeFails(p)
      PROVE  OrderInv'
  BY <1>0, <1>4 DEF Wake, FetchEvents, Look, EvaluateMist, PollFails, WakeFails, storeVars,
                    ingest, histories
<1>5. CASE CloudChanges
  BY <1>0, <1>5 DEF CloudChanges, storeVars, ingest, histories
<1>6. CASE TimePasses
  BY <1>0, <1>6 DEF TimePasses, Tick, ingest, histories
<1>7. ASSUME NEW w \in BOOLEAN, NEW h \in HoursChoices, SaveSettings(w, h)
      PROVE  OrderInv'
  BY <1>0, <1>7 DEF SaveSettings, storeVars, ingest, histories
<1>8. CASE StartPoller
  BY <1>0, <1>8 DEF StartPoller, storeVars, ingest
<1>9. ASSUME NEW m \in MaxEventsChoices, Restart(m) PROVE OrderInv'
  <2>1. /\ UNCHANGED <<accepted, row, nextId>> /\ queue' = <<>> /\ wk'.pc # "insert"
        /\ fate' = [l \in Lines |-> IF fate[l] = "queued" THEN "lost" ELSE fate[l]]
    BY <1>9 DEF Restart, Starts, Reopen, Waiting
  <2>2. /\ Stored' = Stored /\ Taken' = Len(accepted) /\ Taken \in 0..Len(accepted)
        /\ Len(accepted) \in Nat /\ queue' \in Seq(Lines) /\ Len(queue') = 0
    BY <2>1 DEF Stored, Taken, OrderInv
  <2>3. /\ fate' \in [Lines -> Fates]
        /\ \A x \in Lines : fate[x] # "none" => fate'[x] # "none"
    BY <2>1 DEF OrderInv, Fates
  <2>4. \A i \in 1..Len(accepted) : accepted[i] \in Lines
    BY DEF OrderInv
  <2>5. \A e \in Stored' : row'[e].msg \in Lines => Reached(row[e].msg, Taken)'
    BY <2>1, <2>2 DEF OrderInv, Reached
  <2>6. InOrder'
    BY <2>1, <2>2 DEF OrderInv, InOrder
  <2>7. QED
    BY <2>1, <2>2, <2>3, <2>4, <2>5, <2>6 DEF OrderInv
<1>10. CASE UNCHANGED vars
  BY <1>0, <1>10 DEF vars, storeVars, ingest, histories
<1>11. QED
  BY <1>1, <1>2, <1>3, <1>4, <1>5, <1>6, <1>7, <1>9, <1>8, <1>10, OrderReceive,
     OrderTake, OrderStoreLine, OrderStoreMist DEF Next, Work, Poll

LEMMA OrderHolds == Spec => []OrderInv
<1>1. Init => OrderInv
  <2> SUFFICES ASSUME Init PROVE OrderInv
    OBVIOUS
  <2>1. Stored = {}
    BY StoreAssumption DEF StoreAssumption, Init, StoreInit, Stored
  <2>2. queue = <<>> /\ accepted = <<>> /\ wk.pc = "get" /\ fate \in [Lines -> Fates]
    BY DEF Init, Waiting, Fates
  <2>3. QED
    BY <2>1, <2>2 DEF OrderInv, InOrder, Taken
<1>2. QED
  BY <1>1, OrderStep, TasksHold, LedgerHolds, PTL DEF Spec

\* Syslog lines are stored in the order in which they were accepted, none of
\* them twice (the queue of hub_ingest.py), for any number of lines and pollers.
THEOREM InOrderHolds == Spec => []InOrder
BY OrderHolds, PTL DEF OrderInv

-----------------------------------------------------------------------------
(* No Mist event is stored twice. *)

Adders(k) == {e \in Stored : row[e].key = k}
Waiters(k) == {p \in Pollers : mp[p].pc = "insert" /\ mp[p].row.key = k}
Allowed == IF crossed THEN Cardinality(Pollers) ELSE 1

\* A stored key is in ingest_seen, and the copies of an event, with those that
\* pollers are about to insert, are as many as pollers have ever run at once.
KeyInv ==
  /\ crossed \in BOOLEAN
  /\ ~crossed => \A p, q \in Pollers : Running(p) /\ Running(q) => p = q
  /\ \A k \in Keys : Adders(k) # {} => k \in seen
  /\ \A k \in Keys : Cardinality(Adders(k)) + Cardinality(Waiters(k)) <= Allowed

LEMMA KeySetsFinite ==
  ASSUME NEW k, LedgerInv
  PROVE  /\ IsFiniteSet(Adders(k)) /\ Cardinality(Adders(k)) \in Nat
         /\ IsFiniteSet(Waiters(k)) /\ Cardinality(Waiters(k)) \in Nat
         /\ Cardinality(Waiters(k)) <= Cardinality(Pollers)
         /\ Cardinality(Pollers) \in Nat
<1>1. Legacy + 1 \in Int /\ nextId - 1 \in Int
  BY StoreAssumption DEF StoreAssumption, LedgerInv
<1>2. IsFiniteSet(Stored)
  BY <1>1, FS_Interval DEF Stored
<1>3. IsFiniteSet(Adders(k))
  BY <1>2, FS_Subset DEF Adders
<1>4. IsFiniteSet(Pollers)
  BY IngestAssumption DEF IngestAssumption
<1>5. IsFiniteSet(Waiters(k)) /\ Cardinality(Waiters(k)) <= Cardinality(Pollers)
  BY <1>4, FS_Subset DEF Waiters
<1>6. QED
  BY <1>3, <1>4, <1>5, FS_CardinalityType

\* What two sets of pollers about to insert, one inside the other, contribute.
LEMMA FewerWaiters ==
  ASSUME NEW k, LedgerInv, NEW W \in SUBSET Waiters(k)
  PROVE  Cardinality(W) \in Nat /\ Cardinality(W) <= Cardinality(Waiters(k))
BY KeySetsFinite, FS_Subset, FS_CardinalityType

\* Steps after which no more pollers run or are about to insert.
LEMMA KeyKept ==
  ASSUME KeyInv, LedgerInv, UNCHANGED <<row, nextId, crossed>>, seen \subseteq seen',
         \A p \in Pollers : Running(p)' => Running(p),
         \A k \in Keys : Waiters(k)' \subseteq Waiters(k)
  PROVE  KeyInv'
<1>1. \A k : Adders(k)' = Adders(k)
  BY DEF Adders, Stored
<1>2. Allowed' = Allowed
  BY DEF Allowed
<1>3. ASSUME NEW k \in Keys
      PROVE  Cardinality(Adders(k)') + Cardinality(Waiters(k)') <= Allowed
  <2>1. Cardinality(Waiters(k)') \in Nat /\ Cardinality(Waiters(k)') <= Cardinality(Waiters(k))
    BY FewerWaiters
  <2>2. Cardinality(Adders(k)) + Cardinality(Waiters(k)) <= Allowed
    BY DEF KeyInv
  <2>3. Cardinality(Adders(k)) \in Nat /\ Cardinality(Waiters(k)) \in Nat /\ Allowed \in Nat
    BY KeySetsFinite DEF Allowed
  <2>4. QED
    BY <1>1, <2>1, <2>2, <2>3
<1>4. QED
  BY <1>1, <1>2, <1>3 DEF KeyInv

\* Poller p moves on without being about to insert.
LEMMA KeyPoller ==
  ASSUME KeyInv, LedgerInv, TaskInv, UNCHANGED <<row, nextId, crossed, seen>>,
         NEW p \in Pollers, Running(p), NEW x, mp' = [mp EXCEPT ![p] = x], x.pc # "insert"
  PROVE  KeyInv'
<1>1. mp'[p] = x /\ \A q \in Pollers \ {p} : mp'[q] = mp[q]
  BY DEF TaskInv
<1>2. \A q \in Pollers : Running(q)' => Running(q)
  BY <1>1 DEF Running
<1>3. \A k \in Keys : Waiters(k)' \subseteq Waiters(k)
  BY <1>1 DEF Waiters
<1>4. QED
  BY <1>2, <1>3, KeyKept

\* A poller finds an event that was never seen before.
LEMMA KeyFound ==
  ASSUME KeyInv, LedgerInv, TaskInv, UNCHANGED <<row, nextId, crossed, seen>>,
         NEW p \in Pollers, Running(p), NEW k \in Keys, ~HasParser(k),
         NEW x, mp' = [mp EXCEPT ![p] = x], x.pc = "insert", x.row.key = k
  PROVE  KeyInv'
<1>1. mp'[p] = x /\ \A q \in Pollers \ {p} : mp'[q] = mp[q]
  BY DEF TaskInv
<1>2. \A j : Adders(j)' = Adders(j)
  BY DEF Adders, Stored
<1>3. Allowed' = Allowed
  BY DEF Allowed
<1>4. \A q \in Pollers : Running(q)' => Running(q)
  BY <1>1 DEF Running
<1>5. ASSUME NEW j \in Keys
      PROVE  Cardinality(Adders(j)') + Cardinality(Waiters(j)') <= Allowed
  <2>0. /\ Cardinality(Adders(j)) \in Nat /\ Cardinality(Waiters(j)) \in Nat
        /\ Cardinality(Pollers) \in Nat /\ IsFiniteSet(Pollers)
    BY KeySetsFinite, IngestAssumption DEF IngestAssumption
  <2>1. CASE j # k
    <3>1. Waiters(j)' \subseteq Waiters(j)
      BY <1>1, <2>1 DEF Waiters
    <3>2. Cardinality(Waiters(j)') \in Nat /\ Cardinality(Waiters(j)') <= Cardinality(Waiters(j))
      BY <3>1, FewerWaiters
    <3>3. Cardinality(Adders(j)) + Cardinality(Waiters(j)) <= Allowed
      BY DEF KeyInv
    <3>4. Allowed \in Nat
      BY <2>0 DEF Allowed
    <3>5. QED
      BY <1>2, <2>0, <3>2, <3>3, <3>4
  <2>2. CASE j = k
    <3>1. Adders(j)' = {} /\ Cardinality(Adders(j)') = 0
      BY <1>2, <2>2, FS_EmptySet DEF KeyInv, HasParser
    <3>2. CASE crossed
      <4>1. Waiters(j)' \subseteq Pollers
        BY DEF Waiters
      <4>2. Cardinality(Waiters(j)') \in Nat /\ Cardinality(Waiters(j)') <= Cardinality(Pollers)
        BY <2>0, <4>1, FS_Subset, FS_CardinalityType
      <4>3. QED
        BY <3>1, <3>2, <4>2 DEF Allowed
    <3>3. CASE ~crossed
      <4>1. \A q \in Waiters(j)' : q = p
        BY <1>4, <3>3 DEF Waiters, KeyInv, Running
      <4>2. Waiters(j)' = {p}
        BY <1>1, <2>2, <4>1 DEF Waiters
      <4>3. Cardinality(Waiters(j)') = 1
        BY <4>2, FS_Singleton
      <4>4. QED
        BY <3>1, <3>3, <4>3 DEF Allowed
    <3>4. QED
      BY <3>2, <3>3 DEF KeyInv
  <2>3. QED
    BY <2>1, <2>2
<1>6. QED
  BY <1>2, <1>3, <1>4, <1>5 DEF KeyInv

LEMMA KeyStoreMist ==
  ASSUME StoreTypeOK, TaskInv, LedgerInv, LedgerInv', KeyInv, NEW p \in Pollers, StoreMist(p)
  PROVE  KeyInv'
<1> DEFINE r == mp[p].row
<1>1. /\ mp[p].pc = "insert" /\ Insert(r) /\ r.key \in Keys /\ r.type = "mist"
      /\ UNCHANGED crossed
      /\ mp' = [mp EXCEPT ![p].pc = "evaluate", ![p].id = nextId]
  BY DEF StoreMist, TaskInv, MistRow, histories
<1>2. /\ mp'[p].pc = "evaluate" /\ \A q \in Pollers \ {p} : mp'[q] = mp[q]
  BY <1>1 DEF TaskInv, Task
<1>3. /\ Stored' = Stored \cup {nextId} /\ nextId \notin Stored /\ row'[nextId] = r
      /\ \A e \in Stored : row'[e] = row[e]
  BY <1>1, StoredGrows
<1>4. seen \subseteq seen' /\ r.key \in seen'
  BY <1>1, InsertRow
<1>5. Allowed' = Allowed
  BY <1>1 DEF Allowed
<1>6. \A q \in Pollers : Running(q)' => Running(q)
  BY <1>1, <1>2 DEF Running
<1> HIDE DEF r
<1>7. ASSUME NEW k \in Keys
      PROVE  /\ Adders(k)' # {} => k \in seen'
             /\ Cardinality(Adders(k)') + Cardinality(Waiters(k)') <= Allowed
  <2>0. /\ Cardinality(Adders(k)) \in Nat /\ Cardinality(Waiters(k)) \in Nat
        /\ IsFiniteSet(Adders(k)) /\ IsFiniteSet(Waiters(k))
    BY KeySetsFinite
  <2>1. Cardinality(Adders(k)) + Cardinality(Waiters(k)) <= Allowed
    BY DEF KeyInv
  <2>2. CASE k = r.key
    <3>1. Adders(k)' = Adders(k) \cup {nextId} /\ nextId \notin Adders(k)
      BY <1>3, <2>2 DEF Adders
    <3>2. Waiters(k)' = Waiters(k) \ {p} /\ p \in Waiters(k)
      BY <1>1, <1>2, <2>2 DEF Waiters, r
    <3>3. Cardinality(Adders(k)') = Cardinality(Adders(k)) + 1
      BY <2>0, <3>1, FS_AddElement
    <3>4. Cardinality(Waiters(k)') = Cardinality(Waiters(k)) - 1
      BY <2>0, <3>2, FS_RemoveElement
    <3>5. QED
      BY <1>4, <2>0, <2>1, <2>2, <3>3, <3>4
  <2>3. CASE k # r.key
    <3>1. Adders(k)' = Adders(k)
      BY <1>3, <2>3 DEF Adders
    <3>2. Waiters(k)' = Waiters(k)
      BY <1>1, <1>2, <2>3 DEF Waiters, r
    <3>3. QED
      BY <1>4, <2>1, <3>1, <3>2 DEF KeyInv
  <2>4. QED
    BY <2>2, <2>3
<1>8. QED
  BY <1>1, <1>5, <1>6, <1>7 DEF KeyInv

LEMMA KeyStoreLine ==
  ASSUME StoreTypeOK, TaskInv, LedgerInv, KeyInv, StoreLine
  PROVE  KeyInv'
<1>1. /\ Insert(wk.row) /\ wk.row.key \notin Keys /\ UNCHANGED <<mp, crossed>>
  BY StoreAssumption DEF StoreAssumption, StoreLine, TaskInv, LineRow, polling
<1>2. /\ Stored' = Stored \cup {nextId} /\ row'[nextId] = wk.row
      /\ \A e \in Stored : row'[e] = row[e]
  BY <1>1, StoredGrows
<1>3. \A k \in Keys : Adders(k)' = Adders(k) /\ Waiters(k)' = Waiters(k)
  BY <1>1, <1>2 DEF Adders, Waiters
<1>4. seen \subseteq seen'
  BY <1>1, InsertRow
<1>5. Allowed' = Allowed /\ \A q \in Pollers : Running(q)' = Running(q)
  BY <1>1 DEF Allowed, Running
<1>6. QED
  BY <1>1, <1>3, <1>4, <1>5 DEF KeyInv

LEMMA KeyStep ==
  ASSUME StoreTypeOK, TaskInv, LedgerInv, LedgerInv', KeyInv, [Next]_vars
  PROVE  KeyInv'
<1>0. ASSUME UNCHANGED <<row, nextId, mp, crossed>>, seen \subseteq seen' PROVE KeyInv'
  BY <1>0, KeyKept DEF Running, Waiters
<1>1. ASSUME NEW m \in Lines, Receive(m) PROVE KeyInv'
  BY <1>0, <1>1 DEF Receive, storeVars, polling
<1>2. CASE Take \/ EvaluateLine \/ LineFails
  BY <1>0, <1>2 DEF Take, EvaluateLine, LineFails, storeVars, polling
<1>3. CASE Sweep \/ SweepFails
  BY <1>0, <1>3 DEF Sweep, SweepFails, DeleteOlderThan, storeVars, polling, histories
<1>4. ASSUME NEW p \in Pollers, Wake(p) \/ WakeFails(p) PROVE KeyInv'
  <2>0. PICK pc \in {"off", "fetch"} : Goto(p, pc)
    BY <1>4 DEF Wake, WakeFails
  <2> DEFINE x == [mp[p] EXCEPT !.pc = pc]
  <2>1. /\ mp' = [mp EXCEPT ![p] = x] /\ Running(p)
        /\ UNCHANGED <<row, nextId, crossed, seen>>
    BY <1>4, <2>0 DEF Wake, WakeFails, Goto, storeVars, histories, Running
  <2>2. x.pc # "insert"
    BY DEF TaskInv, Task
  <2>3. QED
    BY <2>1, <2>2, KeyPoller
<1>5. ASSUME NEW p \in Pollers, FetchEvents(p) PROVE KeyInv'
  <2> DEFINE x == IF wanted THEN [Waiting("look") EXCEPT !.todo = cloud] ELSE Waiting("wait")
  <2>1. /\ mp' = [mp EXCEPT ![p] = x] /\ Running(p)
        /\ UNCHANGED <<row, nextId, crossed, seen>>
    BY <1>5 DEF FetchEvents, storeVars, histories, Running
  <2>2. x.pc # "insert"
    BY DEF Waiting
  <2>3. QED
    BY <2>1, <2>2, KeyPoller
<1>6. ASSUME NEW p \in Pollers, Look(p) PROVE KeyInv'
  <2>1. Running(p) /\ UNCHANGED <<row, nextId, crossed, seen>>
    BY <1>6 DEF Look, storeVars, histories, Running
  <2>2. CASE mp' = [mp EXCEPT ![p] = Waiting("wait")]
    <3>1. Waiting("wait").pc # "insert"
      BY DEF Waiting
    <3>2. QED
      BY <2>1, <2>2, <3>1, KeyPoller
  <2>3. ASSUME NEW k \in mp[p].todo,
               mp' = [mp EXCEPT ![p] = [mp[p] EXCEPT
                 !.todo = mp[p].todo \ {k},
                 !.pc = IF HasParser(k) THEN "look" ELSE "insert",
                 !.row = [type |-> "mist", key |-> k, at |-> now, msg |-> MistText]]]
        PROVE  KeyInv'
    <3> DEFINE x == [mp[p] EXCEPT
                 !.todo = mp[p].todo \ {k},
                 !.pc = IF HasParser(k) THEN "look" ELSE "insert",
                 !.row = [type |-> "mist", key |-> k, at |-> now, msg |-> MistText]]
    <3>1. /\ x.pc = IF HasParser(k) THEN "look" ELSE "insert"
          /\ x.row.key = k /\ k \in Keys
      BY DEF TaskInv, Task
    <3>2. mp' = [mp EXCEPT ![p] = x]
      BY <2>3
    <3> HIDE DEF x
    <3>3. CASE HasParser(k)
      BY <2>1, <3>1, <3>2, <3>3, KeyPoller
    <3>4. CASE ~HasParser(k)
      BY <2>1, <3>1, <3>2, <3>4, KeyFound
    <3>5. QED
      BY <3>3, <3>4
  <2>4. QED
    BY <1>6, <2>2, <2>3 DEF Look
<1>7. ASSUME NEW p \in Pollers, EvaluateMist(p) PROVE KeyInv'
  <2> DEFINE x == [mp[p] EXCEPT !.pc = "look", !.row = NoRow, !.id = 0]
  <2>1. /\ mp' = [mp EXCEPT ![p] = x] /\ Running(p)
        /\ UNCHANGED <<row, nextId, crossed, seen>>
    BY <1>7 DEF EvaluateMist, storeVars, Running
  <2>2. x.pc # "insert"
    BY DEF TaskInv, Task
  <2>3. QED
    BY <2>1, <2>2, KeyPoller
<1>8. ASSUME NEW p \in Pollers, PollFails(p) PROVE KeyInv'
  <2>1. /\ mp' = [mp EXCEPT ![p] = Waiting("wait")] /\ Running(p)
        /\ UNCHANGED <<row, nextId, crossed, seen>>
    BY <1>8 DEF PollFails, storeVars, Running
  <2>2. Waiting("wait").pc # "insert"
    BY DEF Waiting
  <2>3. QED
    BY <2>1, <2>2, KeyPoller
<1>9. CASE CloudChanges
  BY <1>0, <1>9 DEF CloudChanges, storeVars, histories
<1>10. CASE TimePasses
  BY <1>0, <1>10 DEF TimePasses, Tick, polling, histories
<1>11. ASSUME NEW w \in BOOLEAN, NEW h \in HoursChoices, SaveSettings(w, h)
       PROVE  KeyInv'
  BY <1>0, <1>11 DEF SaveSettings, storeVars, histories
<1>12. CASE StartPoller
  <2>1. UNCHANGED <<row, nextId, seen>>
    BY <1>12 DEF StartPoller, storeVars
  <2>2. ASSUME NEW p \in Pollers, ~Running(p), Goto(p, "wait"),
               crossed' = (crossed \/ \E o \in Pollers : Running(o))
        PROVE  KeyInv'
    <3>1. mp'[p].pc = "wait" /\ \A q \in Pollers \ {p} : mp'[q] = mp[q]
      BY <2>2 DEF Goto, TaskInv, Task
    <3>2. \A k : Adders(k)' = Adders(k)
      BY <2>1 DEF Adders, Stored
    <3>3. \A k : Waiters(k)' = Waiters(k)
      BY <2>2, <3>1 DEF Waiters, Running
    <3>4. /\ crossed' \in BOOLEAN
          /\ ~crossed' => \A q, o \in Pollers : Running(q)' /\ Running(o)' => q = o
      BY <2>2, <3>1 DEF KeyInv, Running
    <3>5. Allowed <= Allowed' /\ Allowed \in Nat /\ Allowed' \in Nat
      <4>1. Cardinality(Pollers) \in Nat /\ Cardinality(Pollers) # 0
        BY IngestAssumption, FS_CardinalityType, FS_EmptySet DEF IngestAssumption
      <4>2. crossed => crossed'
        BY <2>2
      <4>3. CASE crossed
        BY <4>1, <4>2, <4>3 DEF Allowed
      <4>4. CASE ~crossed
        BY <4>1, <4>4 DEF Allowed
      <4>5. QED
        BY <4>3, <4>4 DEF KeyInv
    <3>6. ASSUME NEW k \in Keys
          PROVE  Cardinality(Adders(k)') + Cardinality(Waiters(k)') <= Allowed'
      <4>1. Cardinality(Adders(k)) \in Nat /\ Cardinality(Waiters(k)) \in Nat
        BY KeySetsFinite
      <4>2. Cardinality(Adders(k)) + Cardinality(Waiters(k)) <= Allowed
        BY DEF KeyInv
      <4>3. QED
        BY <3>2, <3>3, <3>5, <4>1, <4>2
    <3>7. QED
      BY <2>1, <3>2, <3>4, <3>6 DEF KeyInv
  <2>3. CASE UNCHANGED <<mp, crossed>>
    BY <1>0, <2>1, <2>3
  <2>4. QED
    BY <1>12, <2>2, <2>3 DEF StartPoller
<1>13. ASSUME NEW m \in MaxEventsChoices, Restart(m) PROVE KeyInv'
  <2>1. /\ UNCHANGED <<row, nextId, crossed>>
        /\ mp' = [p \in Pollers |-> Waiting(IF p = poller' THEN "wait" ELSE "off")]
    BY <1>13 DEF Restart, Starts, Reopen
  <2>2. seen \subseteq seen'
    BY <1>13 DEF Restart, Reopen, Migrated
  <2>3. \A p \in Pollers : mp'[p].pc = IF p = poller' THEN "wait" ELSE "off"
    BY <2>1 DEF Waiting
  <2>4. \A k : Adders(k)' = Adders(k) /\ Waiters(k)' = {}
    BY <2>1, <2>3 DEF Adders, Stored, Waiters
  <2>5. \A p, q \in Pollers : Running(p)' /\ Running(q)' => p = q
    BY <2>3 DEF Running
  <2>6. Allowed' = Allowed
    BY <2>1 DEF Allowed
  <2>7. ASSUME NEW k \in Keys
        PROVE  Cardinality(Adders(k)') + Cardinality(Waiters(k)') <= Allowed
    <3>1. Cardinality(Waiters(k)') = 0
      BY <2>4, FS_EmptySet
    <3>2. /\ Cardinality(Adders(k)) \in Nat /\ Cardinality(Waiters(k)) \in Nat
          /\ Allowed \in Nat
      BY KeySetsFinite DEF Allowed
    <3>3. Cardinality(Adders(k)) + Cardinality(Waiters(k)) <= Allowed
      BY DEF KeyInv
    <3>4. QED
      BY <2>4, <3>1, <3>2, <3>3
  <2>8. QED
    BY <2>1, <2>2, <2>4, <2>5, <2>6, <2>7 DEF KeyInv
<1>14. CASE UNCHANGED vars
  BY <1>0, <1>14 DEF vars, storeVars, polling, histories
<1>15. QED
  BY <1>1, <1>2, <1>3, <1>4, <1>5, <1>6, <1>7, <1>8, <1>9, <1>10, <1>11, <1>12, <1>13, <1>14,
     KeyStoreLine, KeyStoreMist DEF Next, Work, Poll

LEMMA KeysHold == Spec => []KeyInv
<1>1. Init => KeyInv
  <2> SUFFICES ASSUME Init PROVE KeyInv
    OBVIOUS
  <2>1. Stored = {}
    BY StoreAssumption DEF StoreAssumption, Init, StoreInit, Stored
  <2>2. \A p \in Pollers : mp[p].pc = IF p = poller THEN "wait" ELSE "off"
    BY DEF Init, Waiting
  <2>3. \A k : Adders(k) = {} /\ Waiters(k) = {}
    BY <2>1, <2>2 DEF Adders, Waiters
  <2>4. crossed = FALSE /\ Allowed = 1
    BY DEF Init, Allowed
  <2>5. Cardinality({}) = 0
    BY FS_EmptySet
  <2>6. \A p, q \in Pollers : Running(p) /\ Running(q) => p = q
    BY <2>2 DEF Running
  <2>7. ASSUME NEW k \in Keys
        PROVE  Cardinality(Adders(k)) + Cardinality(Waiters(k)) <= Allowed
    <3>1. Cardinality(Adders(k)) = 0 /\ Cardinality(Waiters(k)) = 0
      BY <2>3, <2>5
    <3>2. QED
      BY <2>4, <3>1
  <2>8. QED
    BY <2>3, <2>4, <2>6, <2>7 DEF KeyInv
<1>2. QED
  BY <1>1, KeyStep, TasksHold, LedgerHolds, PTL DEF Spec

\* "survives event prune" (store.py:169): no event of the Mist cloud is stored
\* twice, and every stored event is evaluated once or accounted for, for any
\* number of pollers, events, failed polls, settings saves and restarts.
THEOREM OnceOnlyHolds == Spec => []OnceOnly
<1>1. KeyInv /\ LedgerInv => OnceOnly
  <2> SUFFICES ASSUME KeyInv, LedgerInv PROVE KeyOnce
    BY LedgerSound DEF OnceOnly
  <2> SUFFICES ASSUME NEW k \in Keys PROVE Copies(k) <= Allowed
    BY DEF KeyOnce, Allowed
  <2>1. /\ Cardinality(Adders(k)) \in Nat /\ Cardinality(Waiters(k)) \in Nat
        /\ Allowed \in Nat
    BY KeySetsFinite DEF Allowed
  <2>2. Cardinality(Adders(k)) + Cardinality(Waiters(k)) <= Allowed
    BY DEF KeyInv
  <2>3. Copies(k) = Cardinality(Adders(k))
    BY DEF Copies, Adders
  <2>4. QED
    BY <2>1, <2>2, <2>3
<1>2. QED
  BY <1>1, KeysHold, LedgerHolds, PTL

-----------------------------------------------------------------------------
(* Types. *)

ServiceTypes ==
  /\ listening \in BOOLEAN /\ sweeping \in BOOLEAN /\ wanted \in BOOLEAN
  /\ halt \in [Pollers -> BOOLEAN] /\ poller \in Pollers \cup {NoPoller}
  /\ hours \in HoursChoices /\ Len(queue) <= QueueMax /\ starting \in Nat

LEMMA ServiceStep ==
  ASSUME TaskInv, ServiceTypes, [Next]_vars
  PROVE  ServiceTypes'
<1> USE IngestAssumption DEF IngestAssumption
<1>0. ASSUME UNCHANGED <<listening, sweeping, wanted, halt, poller, starting, hours, queue>>
      PROVE  ServiceTypes'
  BY <1>0 DEF ServiceTypes
<1>1. ASSUME NEW m \in Lines, Receive(m) PROVE ServiceTypes'
  <2>1. UNCHANGED <<listening, sweeping, wanted, halt, poller, starting, hours>>
    BY <1>1 DEF Receive, polling, retention
  <2>2. queue' = queue \/ (Len(queue) < QueueMax /\ queue' = Append(queue, m))
    BY <1>1 DEF Receive
  <2>3. Len(queue') <= QueueMax
    BY <2>2 DEF TaskInv, ServiceTypes
  <2>4. QED
    BY <2>1, <2>3 DEF ServiceTypes
<1>2. CASE Take
  <2>1. UNCHANGED <<listening, sweeping, wanted, halt, poller, starting, hours>>
    BY <1>2 DEF Take, polling, retention
  <2>2. queue # <<>> /\ queue' = Tail(queue)
    BY <1>2 DEF Take
  <2>3. Len(queue') <= QueueMax
    BY <2>2 DEF TaskInv, ServiceTypes
  <2>4. QED
    BY <2>1, <2>3 DEF ServiceTypes
<1>3. CASE StoreLine \/ EvaluateLine \/ LineFails
  BY <1>0, <1>3 DEF StoreLine, EvaluateLine, LineFails, polling, retention
<1>4. CASE Sweep \/ SweepFails
  BY <1>4 DEF Sweep, SweepFails, ingest, polling, retention, ServiceTypes
<1>5. ASSUME NEW p \in Pollers, Poll(p) \/ PollFails(p) \/ WakeFails(p) PROVE ServiceTypes'
  BY <1>0, <1>5 DEF Poll, Wake, FetchEvents, Look, StoreMist, EvaluateMist, PollFails,
                    WakeFails, ingest, retention
<1>6. CASE CloudChanges \/ TimePasses
  BY <1>0, <1>6 DEF CloudChanges, TimePasses, ingest, polling, retention
<1>7. ASSUME NEW w \in BOOLEAN, NEW h \in HoursChoices, SaveSettings(w, h)
      PROVE  ServiceTypes'
  <2>1. UNCHANGED <<listening, queue, sweeping>> /\ wanted' = w /\ hours' = h
    BY <1>7 DEF SaveSettings, ingest
  <2>2. /\ poller' \in Pollers \cup {NoPoller}
        /\ halt' = halt \/ \E p, b : b \in BOOLEAN /\ halt' = [halt EXCEPT ![p] = b]
    BY <1>7 DEF SaveSettings, ServiceTypes
  <2>3. halt' \in [Pollers -> BOOLEAN]
    BY <2>2 DEF ServiceTypes
  <2>4. starting' \in Nat
    <3>1. starting' = starting \/ starting' = starting + 1 \/ (starting > 0 /\ starting' = starting - 1)
      BY <1>7 DEF SaveSettings
    <3>2. QED
      BY <3>1 DEF ServiceTypes
  <2>5. QED
    BY <2>1, <2>2, <2>3, <2>4 DEF ServiceTypes
<1>8. CASE StartPoller
  <2>1. UNCHANGED <<listening, queue, sweeping, wanted, hours>>
    BY <1>8 DEF StartPoller, ingest, retention
  <2>2. /\ poller' \in Pollers \cup {NoPoller}
        /\ halt' = halt \/ \E p, b : b \in BOOLEAN /\ halt' = [halt EXCEPT ![p] = b]
    BY <1>8 DEF StartPoller, ServiceTypes
  <2>3. halt' \in [Pollers -> BOOLEAN]
    BY <2>2 DEF ServiceTypes
  <2>4. starting' \in Nat
    <3>1. starting' = starting \/ starting' = starting + 1 \/ (starting > 0 /\ starting' = starting - 1)
      BY <1>8 DEF StartPoller
    <3>2. QED
      BY <3>1 DEF ServiceTypes
  <2>5. QED
    BY <2>1, <2>2, <2>3, <2>4 DEF ServiceTypes
<1>9. ASSUME NEW m \in MaxEventsChoices, Restart(m) PROVE ServiceTypes'
  <2>1. /\ listening' \in BOOLEAN /\ sweeping' = (listening' /\ hours > 0)
        /\ queue' = <<>> /\ starting' = 0 /\ halt' = [p \in Pollers |-> FALSE]
        /\ poller' \in IF wanted THEN Pollers ELSE {NoPoller}
        /\ UNCHANGED <<wanted, hours>>
    BY <1>9 DEF Restart, Starts
  <2>2. Len(queue') <= QueueMax
    BY <2>1
  <2>3. QED
    BY <2>1, <2>2 DEF ServiceTypes
<1>10. CASE UNCHANGED vars
  BY <1>0, <1>10 DEF vars, ingest, polling, retention
<1>11. QED
  BY <1>1, <1>2, <1>3, <1>4, <1>5, <1>6, <1>7, <1>8, <1>9, <1>10 DEF Next, Work

LEMMA ServicesHold == Spec => []ServiceTypes
<1>1. Init => ServiceTypes
  BY IngestAssumption DEF IngestAssumption, Init, ServiceTypes
<1>2. QED
  BY <1>1, ServiceStep, TasksHold, PTL DEF Spec

\* The ingest thread, the pollers and the tables keep their types, and the queue
\* never grows beyond LOG_INTEL_QUEUE_MAXSIZE.
THEOREM IngestTypeCorrect == Spec => []IngestTypeOK
<1>1. StoreTypeOK /\ TaskInv /\ LedgerInv /\ OrderInv /\ KeyInv /\ ServiceTypes => IngestTypeOK
  <2> SUFFICES ASSUME StoreTypeOK, TaskInv, LedgerInv, OrderInv, KeyInv, ServiceTypes
               PROVE  IngestTypeOK
    OBVIOUS
  <2>1. wk.pc \in {"get", "insert", "evaluate"}
    BY DEF TaskInv, Task, WorkerPcs
  <2>2. \A p \in Pollers :
          /\ mp[p].pc \in {"off", "wait", "fetch", "look", "insert", "evaluate"}
          /\ mp[p].todo \subseteq Keys
    BY DEF TaskInv, Task, PollerPcs
  <2>3. QED
    BY <2>1, <2>2 DEF IngestTypeOK, TaskInv, LedgerInv, OrderInv, KeyInv, ServiceTypes, Fates
<1>2. QED
  BY <1>1, TasksHold, LedgerHolds, OrderHolds, KeysHold, ServicesHold, PTL

==============================================================================
