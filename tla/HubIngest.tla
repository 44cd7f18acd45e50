------------------------------ MODULE HubIngest ------------------------------
(***************************************************************************)
(* How events get into the hub: the asyncio ingest thread (hub_ingest.py)  *)
(* with its bounded queue, its worker task and its retention task, and the *)
(* Mist poller (ingest/mist_poller.py), both inserting into the event      *)
(* table of EventStore, showing each event in the live view and handing it *)
(* to the alert engine.                                                    *)
(*                                                                         *)
(* The worker task and the poller interleave at every transaction.  A      *)
(* syslog line arrives once; its text identifies it.  What showing and     *)
(* evaluating an event do is left to their own modules; an exception in    *)
(* any call is a fault.                                                    *)
(***************************************************************************)
EXTENDS EventStore, Sequences

CONSTANTS
  Lines,         \* syslog lines that may arrive, each once
  MistText,      \* the message of a Mist event
  Pollers,       \* MistPoller threads, one per start
  NoPoller,      \* _mist_poller is None
  QueueMax,      \* LOG_INTEL_QUEUE_MAXSIZE
  HoursChoices,  \* values of LOG_INTEL_RETENTION_HOURS, in clock ticks
  MaxFaults,     \* bound: exceptions
  MaxUpsets      \* bound: settings saves and restarts

ASSUME IngestAssumption ==
  /\ Lines \subseteq Messages
  /\ MistText \in Messages \ Lines
  /\ IsFiniteSet(Pollers) /\ NoPoller \notin Pollers
  /\ {"mist", "generic"} \subseteq Types
  /\ QueueMax \in Nat \ {0} /\ HoursChoices \subseteq Nat
  /\ MaxFaults \in Nat /\ MaxUpsets \in Nat

VARIABLES
  listening,  \* the sockets are bound and the worker task runs
  queue,      \* lines received and not yet taken
  wk,         \* the worker task: where it is, the row it writes and its id
  mp,         \* each poller: where it is, keys yet to look at, row and id
  halt,       \* its stop event
  poller,     \* _mist_poller
  starting,   \* saves that found no poller alive and have not started one yet
  wanted,     \* MIST_ENABLED and a key
  cloud,      \* keys of the events that a poll of the Mist cloud returns
  hours,      \* LOG_INTEL_RETENTION_HOURS
  sweeping,   \* the retention task exists
  fate,       \* history: what became of each line
  accepted,   \* history: lines put into the queue, in order
  evaluated,  \* history: times each event was evaluated for alerts
  missed,     \* history: events stored whose evaluation a fault or a stop cut off
  crossed,    \* history: two pollers ran at once
  faults, upsets  \* counters for the bounds

ingest == <<listening, queue, wk>>
polling == <<mp, halt, poller, starting, wanted, cloud>>
retention == <<hours, sweeping>>
alerting == <<evaluated, missed>>
histories == <<fate, accepted, alerting, crossed>>
vars == <<storeVars, ingest, polling, retention, histories, faults, upsets>>

Waiting(pc) == [pc |-> pc, todo |-> {}, row |-> NoRow, id |-> 0]
\* The events that these tasks have stored and not yet evaluated.
InHand(tasks) == {t.id : t \in {u \in tasks : u.pc = "evaluate"}}

SetFate(m, f) == fate' = [fate EXCEPT ![m] = f]

-----------------------------------------------------------------------------
(* The ingest thread *)

\* Faulty: one line too many is let into the queue.
ReceiveOver(m) ==
  /\ listening /\ fate[m] = "none"
  /\ IF Len(queue) <= QueueMax
     THEN /\ queue' = Append(queue, m)
          /\ accepted' = Append(accepted, m)
          /\ SetFate(m, "queued")
     ELSE SetFate(m, "dropped") /\ UNCHANGED <<queue, accepted>>
  /\ UNCHANGED <<storeVars, listening, wk, polling, retention, alerting, crossed,
                 faults, upsets>>

\* A datagram or a line of a TCP connection; a full queue drops it.
Receive(m) ==
  /\ listening /\ fate[m] = "none"
  /\ IF Len(queue) < QueueMax
     THEN /\ queue' = Append(queue, m)
          /\ accepted' = Append(accepted, m)
          /\ SetFate(m, "queued")
     ELSE SetFate(m, "dropped") /\ UNCHANGED <<queue, accepted>>
  /\ UNCHANGED <<storeVars, listening, wk, polling, retention, alerting, crossed,
                 faults, upsets>>

\* Faulty: the newest line is taken first.
TakeNewest ==
  /\ listening /\ wk.pc = "get" /\ queue # <<>>
  /\ LET m == queue[Len(queue)] IN
     /\ queue' = SubSeq(queue, 1, Len(queue) - 1)
     /\ wk' = [Waiting("insert") EXCEPT
                 !.row = [type |-> "generic", key |-> NoKey, at |-> now, msg |-> m]]
     /\ UNCHANGED fate
  /\ UNCHANGED <<storeVars, listening, polling, retention, accepted, alerting, crossed,
                 faults, upsets>>

\* _process_queue up to the insert; a line that does not parse is counted and
\* dropped.
Take ==
  /\ listening /\ wk.pc = "get" /\ queue # <<>>
  /\ queue' = Tail(queue)
  /\ LET m == Head(queue) IN
     \/ SetFate(m, "junk") /\ UNCHANGED wk
     \/ /\ wk' = [Waiting("insert") EXCEPT
                   !.row = [type |-> "generic", key |-> NoKey, at |-> now, msg |-> m]]
        /\ UNCHANGED fate
  /\ UNCHANGED <<storeVars, listening, polling, retention, accepted, alerting, crossed,
                 faults, upsets>>

StoreLine ==
  /\ wk.pc = "insert"
  /\ Insert(wk.row)
  /\ wk' = [wk EXCEPT !.pc = "evaluate", !.id = nextId]
  /\ SetFate(wk.row.msg, "stored")
  /\ UNCHANGED <<listening, queue, polling, retention, accepted, alerting, crossed,
                 faults, upsets>>

\* The event is shown and evaluated.
EvaluateLine ==
  /\ wk.pc = "evaluate"
  /\ evaluated' = [evaluated EXCEPT ![wk.id] = @ + 1]
  /\ wk' = Waiting("get")
  /\ UNCHANGED <<storeVars, listening, queue, polling, retention, fate, accepted,
                 missed, crossed, faults, upsets>>

\* Faulty: an exception ends the worker task.
LineDies ==
  /\ wk.pc \in {"insert", "evaluate"} /\ faults < MaxFaults
  /\ faults' = faults + 1
  /\ fate' = IF wk.pc = "insert" THEN [fate EXCEPT ![wk.row.msg] = "failed"] ELSE fate
  /\ missed' = missed \cup InHand({wk})
  /\ wk' = Waiting("dead")
  /\ UNCHANGED <<storeVars, listening, queue, polling, retention, accepted, evaluated,
                 crossed, upsets>>

\* An exception is counted and the worker goes on to the next line.
LineFails ==
  /\ wk.pc \in {"insert", "evaluate"} /\ faults < MaxFaults
  /\ faults' = faults + 1
  /\ fate' = IF wk.pc = "insert" THEN [fate EXCEPT ![wk.row.msg] = "failed"] ELSE fate
  /\ missed' = missed \cup InHand({wk})
  /\ wk' = Waiting("get")
  /\ UNCHANGED <<storeVars, listening, queue, polling, retention, accepted, evaluated,
                 crossed, upsets>>

\* One pass of _retention_loop.
Sweep ==
  /\ sweeping /\ hours > 0
  /\ DeleteOlderThan(now - hours)
  /\ UNCHANGED <<ingest, polling, retention, histories, faults, upsets>>

\* An exception ends the retention task; nobody looks at it.
SweepFails ==
  /\ sweeping /\ faults < MaxFaults
  /\ faults' = faults + 1
  /\ sweeping' = FALSE
  /\ UNCHANGED <<storeVars, ingest, polling, hours, histories, upsets>>

-----------------------------------------------------------------------------
(* MistPoller *)

Goto(p, pc) == mp' = [mp EXCEPT ![p].pc = pc]

\* run() between two polls.
Wake(p) ==
  /\ mp[p].pc = "wait" /\ (halt[p] \/ wanted)
  /\ Goto(p, IF halt[p] THEN "off" ELSE "fetch")
  /\ UNCHANGED <<storeVars, ingest, halt, poller, starting, wanted, cloud, retention,
                 histories, faults, upsets>>

\* poll_once: the settings are read again, then the cloud.
FetchEvents(p) ==
  /\ mp[p].pc = "fetch"
  /\ mp' = [mp EXCEPT ![p] = IF wanted THEN [Waiting("look") EXCEPT !.todo = cloud]
                             ELSE Waiting("wait")]
  /\ UNCHANGED <<storeVars, ingest, halt, poller, starting, wanted, cloud, retention,
                 histories, faults, upsets>>

\* Faulty: only rows still in the table count as seen.
LookAtTable(p) ==
  /\ mp[p].pc = "look"
  /\ \/ /\ mp[p].todo = {}
        /\ mp' = [mp EXCEPT ![p] = Waiting("wait")]
     \/ \E k \in mp[p].todo :
          mp' = [mp EXCEPT ![p] = [mp[p] EXCEPT
                   !.todo = mp[p].todo \ {k},
                   !.pc = IF \E e \in live : row[e].key = k THEN "look" ELSE "insert",
                   !.row = [type |-> "mist", key |-> k, at |-> now, msg |-> MistText]]]
  /\ UNCHANGED <<storeVars, ingest, halt, poller, starting, wanted, cloud, retention,
                 histories, faults, upsets>>

\* Faulty: the key is marked as seen before the event is stored.
LookMarks(p) ==
  /\ mp[p].pc = "look"
  /\ \/ /\ mp[p].todo = {}
        /\ mp' = [mp EXCEPT ![p] = Waiting("wait")] /\ UNCHANGED seen
     \/ \E k \in mp[p].todo :
          /\ seen' = seen \cup {k}
          /\ mp' = [mp EXCEPT ![p] = [mp[p] EXCEPT
                     !.todo = mp[p].todo \ {k},
                     !.pc = IF HasParser(k) THEN "look" ELSE "insert",
                     !.row = [type |-> "mist", key |-> k, at |-> now, msg |-> MistText]]]
  /\ UNCHANGED <<live, row, nextId, maxEvents, reserve, now, ingest, halt, poller, starting,
                 wanted, cloud, retention, histories, faults, upsets>>

\* The next event of the answer; one whose key was seen before is passed over.
Look(p) ==
  /\ mp[p].pc = "look"
  /\ \/ /\ mp[p].todo = {}
        /\ mp' = [mp EXCEPT ![p] = Waiting("wait")]
     \/ \E k \in mp[p].todo :
          mp' = [mp EXCEPT ![p] = [mp[p] EXCEPT
                   !.todo = mp[p].todo \ {k},
                   !.pc = IF HasParser(k) THEN "look" ELSE "insert",
                   !.row = [type |-> "mist", key |-> k, at |-> now, msg |-> MistText]]]
  /\ UNCHANGED <<storeVars, ingest, halt, poller, starting, wanted, cloud, retention,
                 histories, faults, upsets>>

StoreMist(p) ==
  /\ mp[p].pc = "insert"
  /\ Insert(mp[p].row)
  /\ mp' = [mp EXCEPT ![p].pc = "evaluate", ![p].id = nextId]
  /\ UNCHANGED <<ingest, halt, poller, starting, wanted, cloud, retention, histories, faults,
                 upsets>>

EvaluateMist(p) ==
  /\ mp[p].pc = "evaluate"
  /\ evaluated' = [evaluated EXCEPT ![mp[p].id] = @ + 1]
  /\ mp' = [mp EXCEPT ![p] = [@ EXCEPT !.pc = "look", !.row = NoRow, !.id = 0]]
  /\ UNCHANGED <<storeVars, ingest, halt, poller, starting, wanted, cloud, retention, fate,
                 accepted, missed, crossed, faults, upsets>>

\* get_settings() at the head of the loop is outside its try: an exception there
\* ends the thread, and only the next settings save or start looks at it.
WakeFails(p) ==
  /\ mp[p].pc = "wait" /\ ~halt[p] /\ faults < MaxFaults
  /\ faults' = faults + 1
  /\ Goto(p, "off")
  /\ UNCHANGED <<storeVars, ingest, halt, poller, starting, wanted, cloud, retention,
                 histories, upsets>>

\* An exception abandons the poll; the next one starts over.
PollFails(p) ==
  /\ mp[p].pc \in {"fetch", "look", "insert", "evaluate"} /\ faults < MaxFaults
  /\ faults' = faults + 1
  /\ missed' = missed \cup InHand({mp[p]})
  /\ mp' = [mp EXCEPT ![p] = Waiting("wait")]
  /\ UNCHANGED <<storeVars, ingest, halt, poller, starting, wanted, cloud, retention, fate,
                 accepted, evaluated, crossed, upsets>>

\* An event appears in the Mist cloud, or is too old for the lookback.
CloudChanges ==
  /\ \E k \in Keys : cloud' \in {cloud \cup {k}, cloud \ {k}} /\ cloud' # cloud
  /\ UNCHANGED <<storeVars, ingest, mp, halt, poller, starting, wanted, retention, histories,
                 faults, upsets>>

-----------------------------------------------------------------------------
Running(p) == mp[p].pc # "off"
Alive == \E p \in Pollers : p = poller /\ Running(p)

\* A settings save, up to the check of reconfigure_mist_poller.  It tells the
\* present poller to stop and forgets it without waiting for it, or finds that
\* one is to be started.
SaveSettings(w, h) ==
  /\ upsets < MaxUpsets
  /\ upsets' = upsets + 1
  /\ wanted' = w
  /\ hours' = h
  /\ \/ /\ w /\ ~Alive
        /\ starting' = starting + 1
        /\ UNCHANGED <<poller, halt>>
     \/ /\ ~w /\ poller # NoPoller
        /\ poller' = NoPoller
        /\ halt' = [halt EXCEPT ![poller] = TRUE]
        /\ UNCHANGED starting
     \/ /\ IF w THEN Alive ELSE poller = NoPoller
        /\ UNCHANGED <<poller, halt, starting>>
  /\ UNCHANGED <<storeVars, ingest, mp, cloud, sweeping, histories, faults>>

\* _start_mist_poller: a save that overlaps with another may start a second poller.
StartPoller ==
  /\ starting > 0
  /\ starting' = starting - 1
  /\ IF wanted
     THEN \E p \in Pollers :
            /\ ~Running(p)
            /\ poller' = p
            /\ Goto(p, "wait")
            /\ halt' = [halt EXCEPT ![p] = FALSE]
            /\ crossed' = (crossed \/ \E o \in Pollers : Running(o))
     ELSE UNCHANGED <<poller, halt, mp, crossed>>
  /\ UNCHANGED <<storeVars, ingest, wanted, cloud, retention, fate, accepted, alerting,
                 faults, upsets>>

\* init_hub_services: the retention task is created only if retention is on.
Starts ==
  /\ listening' \in BOOLEAN
  /\ sweeping' = (listening' /\ hours > 0)
  /\ queue' = <<>>
  /\ wk' = Waiting("get")
  /\ poller' \in IF wanted THEN Pollers ELSE {NoPoller}
  /\ mp' = [p \in Pollers |-> Waiting(IF p = poller' THEN "wait" ELSE "off")]
  /\ halt' = [p \in Pollers |-> FALSE]
  /\ starting' = 0

\* The process stops, in order or not: what was queued or in hand is lost.
Restart(m) ==
  /\ upsets < MaxUpsets
  /\ upsets' = upsets + 1
  /\ Reopen(m)
  /\ Starts
  /\ fate' = [l \in Lines |-> IF fate[l] = "queued" THEN "lost" ELSE fate[l]]
  /\ missed' = missed \cup InHand({wk} \cup {mp[p] : p \in Pollers})
  /\ UNCHANGED <<wanted, cloud, hours, accepted, evaluated, crossed, faults>>

TimePasses ==
  /\ Tick
  /\ UNCHANGED <<ingest, polling, retention, histories, faults, upsets>>

Init ==
  /\ StoreInit
  /\ listening \in BOOLEAN /\ queue = <<>> /\ wk = Waiting("get")
  /\ wanted \in BOOLEAN /\ hours \in HoursChoices
  /\ sweeping = (listening /\ hours > 0)
  /\ poller \in IF wanted THEN Pollers ELSE {NoPoller}
  /\ mp = [p \in Pollers |-> Waiting(IF p = poller THEN "wait" ELSE "off")]
  /\ halt = [p \in Pollers |-> FALSE] /\ starting = 0
  /\ cloud \in SUBSET Keys
  /\ fate = [m \in Lines |-> "none"] /\ accepted = <<>>
  /\ evaluated = [e \in Ids |-> 0] /\ missed = {}
  /\ crossed = FALSE
  /\ faults = 0 /\ upsets = 0

Work == Take \/ StoreLine \/ EvaluateLine
Poll(p) == Wake(p) \/ FetchEvents(p) \/ Look(p) \/ StoreMist(p) \/ EvaluateMist(p)

Next ==
  \/ \E m \in Lines : Receive(m)
  \/ Work \/ LineFails \/ Sweep \/ SweepFails
  \/ \E p \in Pollers : Poll(p) \/ PollFails(p) \/ WakeFails(p)
  \/ StartPoller \/ CloudChanges \/ TimePasses
  \/ \E w \in BOOLEAN, h \in HoursChoices : SaveSettings(w, h)
  \/ \E m \in MaxEventsChoices : Restart(m)

Spec == Init /\ [][Next]_vars

\* The worker task and the threads run, and an HTTP call ends.
Fairness ==
  /\ WF_vars(Work) /\ WF_vars(Sweep) /\ WF_vars(StartPoller)
  /\ \A p \in Pollers : WF_vars(Poll(p))

FairSpec == Spec /\ Fairness
-----------------------------------------------------------------------------
\* Events stored since the database was opened first.
Stored == (Legacy + 1)..(nextId - 1)

IngestTypeOK ==
  /\ StoreTypeOK
  /\ listening \in BOOLEAN /\ sweeping \in BOOLEAN /\ wanted \in BOOLEAN
  /\ crossed \in BOOLEAN
  /\ queue \in Seq(Lines) /\ Len(queue) <= QueueMax
  /\ wk.pc \in {"get", "insert", "evaluate"}
  /\ \A p \in Pollers :
        /\ mp[p].pc \in {"off", "wait", "fetch", "look", "insert", "evaluate"}
        /\ mp[p].todo \subseteq Keys
  /\ halt \in [Pollers -> BOOLEAN] /\ starting \in Nat
  /\ poller \in Pollers \cup {NoPoller} /\ cloud \subseteq Keys
  /\ hours \in HoursChoices
  /\ fate \in [Lines -> {"none", "queued", "dropped", "junk", "failed", "stored", "lost"}]
  /\ accepted \in Seq(Lines)
  /\ evaluated \in [Ids -> Nat] /\ missed \subseteq Ids

\* Lines are stored in the order in which they arrived, none of them twice,
\* although the Mist poller inserts between them and lines fail or are dropped.
InOrder ==
  \A e, f \in Stored : e < f /\ row[e].msg \in Lines /\ row[f].msg \in Lines =>
    /\ row[e].msg # row[f].msg
    /\ \E i, j \in DOMAIN accepted :
         i < j /\ accepted[i] = row[e].msg /\ accepted[j] = row[f].msg

Copies(k) == Cardinality({e \in Stored : row[e].key = k})

\* "True if this ingest key was seen before (survives event prune)"
\* (store.py:169): every poll returns the events of the whole lookback, and yet
\* none is ingested twice, through pruning, retention, failed polls and restarts,
\* as long as no two pollers have run at once; each poller adds one copy at most.
KeyOnce == \A k \in Keys : Copies(k) <= IF crossed THEN Cardinality(Pollers) ELSE 1

\* Every stored event is accounted for: evaluated for alerts once, or still in
\* the hands of the one task that stored it, or cut off by a fault or the end of
\* the process; none of these twice, and a poller that is told to stop first
\* finishes the poll it is in.
EvaluatedOnce ==
  \A e \in Ids :
    /\ evaluated[e] <= 1
    /\ Cardinality({p \in Pollers : e \in InHand({mp[p]})}) <= 1
    /\ e \in Stored <=>
         \/ evaluated[e] = 1 /\ e \notin missed
         \/ e \in missed /\ evaluated[e] = 0
         \/ evaluated[e] = 0 /\ e \in InHand({wk} \cup {mp[p] : p \in Pollers})

\* An event of the cloud is stored once, and every stored event judged once.
OnceOnly == KeyOnce /\ EvaluatedOnce

\* Every line accepted into the queue is stored, rejected by the parser, counted
\* as failed, or lost with the process; no fault stops the lines behind it.
LinesSettle ==
  \A m \in Lines : (fate[m] = "queued") ~> (fate[m] # "queued")

\* While Mist ingest stays on, its thread alive, and faults are finitely many, every
\* event of the cloud is stored before it leaves the lookback.
MistArrives ==
  (<>[](wanted /\ Alive)) => \A k \in Keys : (k \in cloud) ~> (Copies(k) > 0 \/ k \notin cloud)

\* "Hub event retention (0 = forever)" (settings_registry.py:287), a setting that
\* needs no restart: once it is on, old events are removed.
RetentionObeyed ==
  \A e \in Ids : [](e \in live /\ hours > 0 /\ row[e].at < now - hours
                      => <>(e \notin live \/ hours = 0 \/ faults > 0 \/ ~listening))
=============================================================================
