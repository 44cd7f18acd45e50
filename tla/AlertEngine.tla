------------------------------ MODULE AlertEngine ------------------------------
(***************************************************************************)
(* The alert engines: the hub's (alerts/engine.py), which looks at hub     *)
(* events and at tailed lines, and the file side's own                     *)
(* (syslogb/app/alert_engine.py), used when there is no hub.  Evaluating   *)
(* threads take a snapshot of the rules, read the clock and then wait for  *)
(* the engine's lock; web threads edit rules; four pool threads deliver.   *)
(* Whether a line fits the query, scope, type and path of a rule is left   *)
(* open.                                                                   *)
(***************************************************************************)
EXTENDS Integers, Sequences, FiniteSets

CONSTANTS
  Rules,       \* rule ids
  Defs,        \* rule definitions
  NoRule,      \* the rule does not exist, or is not loaded
  HubSources,  \* "type:address" of hub events
  FileSources, \* paths of tailed files
  Evaluators,  \* ingest, poller and tailer threads
  Editors,     \* web threads that edit rules
  Workers,     \* max_workers of the pool
  Caps,        \* values of ALERT_MAX_PER_MINUTE
  Window,      \* a minute
  MaxSkew,     \* bound: how long a thread waits for the engine's lock
  MaxClock, MaxLines, MaxEdits, MaxAlertFaults  \* bounds: time, lines, edits, exceptions

Sources == HubSources \cup FileSources
Never == -1
Channels == {"webhook", "email"}

ASSUME AlertAssumption ==
  /\ NoRule \notin Defs
  /\ \A d \in Defs : /\ d.enabled \in BOOLEAN /\ d.onPath \in BOOLEAN
                     /\ d.cooldown \in Nat /\ d.hooks \subseteq Channels
  /\ HubSources \cap FileSources = {}
  /\ Workers \in Nat \ {0} /\ Caps \subseteq Int
  /\ Window \in Nat \ {0} /\ MaxSkew \in Nat
  /\ MaxClock \in Nat /\ MaxLines \in Nat /\ MaxEdits \in Nat /\ MaxAlertFaults \in Nat

VARIABLES
  engine,     \* which of the two engines the process uses
  table,      \* alert_rules
  loaded,     \* _rules
  cap,        \* ALERT_MAX_PER_MINUTE
  clock,
  last,       \* _cooldowns, _last_fired: the stamp of a rule's last alert for a source
  recent,     \* _recent, _minute_window: the alerts whose stamps are kept there
  ev,         \* each evaluating thread: where it is, its rules, its stamp
  editor,     \* each web thread: where it is, the rules it read
  alerts,     \* alerts fired, each with the progress of its delivery
  overlapped, \* history: two edits overlapped
  lines, edits, alertFaults  \* counters for the bounds

rulesVars == <<table, loaded, editor, overlapped, edits>>
limits == <<cap, last, recent>>
alertVars == <<engine, rulesVars, limits, clock, ev, alerts, lines, alertFaults>>

Enabled(t) == [r \in Rules |-> IF t[r] = NoRule THEN NoRule
                               ELSE IF t[r].enabled THEN t[r] ELSE NoRule]
AtRest == [pc |-> "idle", src |-> CHOOSE s \in Sources : TRUE, todo |-> {}, cap |-> 0,
           rule |-> CHOOSE r \in Rules : TRUE, stamp |-> 0, defs |-> [r \in Rules |-> NoRule]]
-----------------------------------------------------------------------------
(* A line or an event is evaluated *)

\* Rules that look at a source: a rule with a directory or a glob is for files.
Candidates(s) ==
  {r \in Rules : loaded[r] # NoRule /\ (s \in HubSources => ~loaded[r].onPath)}

\* evaluate, on_line: the rules and the settings as they are now; M are the
\* rules that the line fits.
Line(t, s) ==
  /\ ev[t].pc = "idle" /\ lines < MaxLines
  /\ engine = "files" => s \in FileSources
  /\ lines' = lines + 1
  /\ \E M \in SUBSET Candidates(s) :
       /\ M # {}
       /\ ev' = [ev EXCEPT ![t] = [AtRest EXCEPT !.pc = "next", !.src = s, !.todo = M,
                                                 !.cap = cap, !.defs = loaded]]
  /\ UNCHANGED <<engine, rulesVars, limits, clock, alerts, alertFaults>>

\* _fire up to the lock: the clock is read.
ReadClock(t) ==
  /\ ev[t].pc = "next"
  /\ \E r \in ev[t].todo :
       ev' = [ev EXCEPT ![t] = [ev[t] EXCEPT !.pc = "decide", !.rule = r, !.stamp = clock,
                                             !.todo = ev[t].todo \ {r}]]
  /\ UNCHANGED <<engine, rulesVars, limits, clock, alerts, lines, alertFaults>>

Onward(t) ==
  ev' = [ev EXCEPT ![t] = IF ev[t].todo = {} THEN AtRest ELSE [ev[t] EXCEPT !.pc = "next"]]
Key(t) == <<ev[t].rule, ev[t].src>>
Def(t) == ev[t].defs[ev[t].rule]

\* Faulty: one clock tick of cooldown too few.
CoolingShort(t) == last[Key(t)] # Never /\ ev[t].stamp - last[Key(t)] < Def(t).cooldown - 1

Cooling(t) == last[Key(t)] # Never /\ ev[t].stamp - last[Key(t)] < Def(t).cooldown

\* _rate_ok pops expired stamps off the head, in the order in which they were
\* appended, _under_global_cap filters all.
Unexpired(now) ==
  IF engine = "files" THEN {n \in recent : now - alerts[n].stamp < Window}
  ELSE {n \in recent : \E m \in recent : m <= n /\ alerts[m].stamp >= now - Window}

\* The cap in force: the hub engine reads it when the line comes in and takes a
\* cap of zero for none.
CapOf(t) == IF engine = "files" THEN cap ELSE ev[t].cap
Unlimited(t) == engine = "hub" /\ CapOf(t) <= 0
Trimmed(t) == IF Unlimited(t) THEN recent ELSE Unexpired(ev[t].stamp)

\* Faulty: one alert more than the cap.
RateOkLoose(t) == Unlimited(t) \/ Cardinality(Trimmed(t)) <= CapOf(t)

RateOk(t) == Unlimited(t) \/ Cardinality(Trimmed(t)) < CapOf(t)

\* The rest of _fire, under the lock: suppressed by the cooldown or the cap and
\* recorded as such, or fired and handed to the pool.
Decide(t) ==
  /\ ev[t].pc = "decide"
  /\ Onward(t)
  /\ IF Cooling(t) THEN UNCHANGED <<last, recent, alerts>>
     ELSE IF ~RateOk(t) THEN recent' = Trimmed(t) /\ UNCHANGED <<last, alerts>>
     ELSE /\ recent' = Trimmed(t) \cup {Len(alerts) + 1}
          /\ last' = [last EXCEPT ![Key(t)] = ev[t].stamp]
          /\ alerts' = Append(alerts, [key |-> Key(t), stamp |-> ev[t].stamp, def |-> Def(t),
                                       task |-> "queued", log |-> {}])
  /\ UNCHANGED <<engine, rulesVars, cap, clock, lines, alertFaults>>

\* Recording the suppression raises: the line's other rules are not looked at.
DecideFails(t) ==
  /\ ev[t].pc = "decide" /\ alertFaults < MaxAlertFaults
  /\ Cooling(t) \/ ~RateOk(t)
  /\ alertFaults' = alertFaults + 1
  /\ recent' = IF Cooling(t) THEN recent ELSE Trimmed(t)
  /\ ev' = [ev EXCEPT ![t] = AtRest]
  /\ UNCHANGED <<engine, rulesVars, cap, last, clock, alerts, lines>>

-----------------------------------------------------------------------------
(* The delivery pool *)

Busy == {n \in DOMAIN alerts : alerts[n].task = "busy"}
Delivery(n, task) == alerts' = [alerts EXCEPT ![n].task = task]

TakeAlert(n) ==
  /\ n \in DOMAIN alerts /\ alerts[n].task = "queued"
  /\ \A m \in 1..(n - 1) : alerts[m].task # "queued"
  /\ Cardinality(Busy) < Workers
  /\ Delivery(n, "busy")
  /\ UNCHANGED <<engine, rulesVars, limits, clock, ev, lines, alertFaults>>

\* _deliver: each channel of the rule is tried and recorded as sent or failed,
\* the email after the webhook.
Deliver(n) ==
  /\ n \in Busy
  /\ alerts' = [alerts EXCEPT ![n].task = "done", ![n].log = alerts[n].def.hooks]
  /\ UNCHANGED <<engine, rulesVars, limits, clock, ev, lines, alertFaults>>

\* Recording an outcome raises: the pool drops the rest of the delivery.
DeliverFails(n) ==
  /\ n \in Busy /\ alertFaults < MaxAlertFaults
  /\ alertFaults' = alertFaults + 1
  /\ alerts[n].def.hooks # {}
  /\ alerts' = [alerts EXCEPT ![n].task = "dropped",
                    ![n].log = IF alerts[n].def.hooks = Channels THEN {"webhook"} ELSE {}]
  /\ UNCHANGED <<engine, rulesVars, limits, clock, ev, lines>>

-----------------------------------------------------------------------------
(* Rules are edited *)

\* upsert_alert_rule, delete_alert_rule: one transaction, then a reload.
Edit(e, r, d) ==
  /\ editor[e].pc = "idle" /\ edits < MaxEdits
  /\ table[r] # d
  /\ edits' = edits + 1
  /\ table' = [table EXCEPT ![r] = d]
  /\ editor' = [editor EXCEPT ![e].pc = "read"]
  /\ overlapped' = (overlapped \/ \E o \in Editors \ {e} : editor[o].pc # "idle")
  /\ UNCHANGED <<engine, loaded, limits, clock, ev, alerts, lines, alertFaults>>

\* Faulty: the file engine's reload_rules without the lock.
ReadRulesFree(e) ==
  /\ editor[e].pc = "read"
  /\ editor' = [editor EXCEPT ![e] = [pc |-> "assign", rules |-> Enabled(table)]]
  /\ UNCHANGED <<engine, table, loaded, overlapped, edits, limits, clock, ev, alerts, lines,
                 alertFaults>>

\* reload_rules: the file engine reads and assigns under its lock; the hub
\* engine reads, and assigns later.
ReadRules(e) ==
  /\ editor[e].pc = "read"
  /\ IF engine = "files"
     THEN /\ loaded' = Enabled(table)
          /\ editor' = [editor EXCEPT ![e].pc = "idle"]
     ELSE /\ editor' = [editor EXCEPT ![e] = [pc |-> "assign", rules |-> Enabled(table)]]
          /\ UNCHANGED loaded
  /\ UNCHANGED <<engine, table, overlapped, edits, limits, clock, ev, alerts, lines,
                 alertFaults>>

AssignRules(e) ==
  /\ editor[e].pc = "assign"
  /\ loaded' = editor[e].rules
  /\ editor' = [editor EXCEPT ![e] = [pc |-> "idle", rules |-> [r \in Rules |-> NoRule]]]
  /\ UNCHANGED <<engine, table, overlapped, edits, limits, clock, ev, alerts, lines,
                 alertFaults>>

\* A settings save.
SetCap(c) ==
  /\ c # cap /\ edits < MaxEdits
  /\ edits' = edits + 1
  /\ cap' = c
  /\ UNCHANGED <<engine, table, loaded, editor, overlapped, last, recent, clock, ev, alerts,
                 lines, alertFaults>>

AlertTick ==
  /\ clock < MaxClock
  /\ \A t \in Evaluators : ev[t].pc = "decide" => clock - ev[t].stamp < MaxSkew
  /\ clock' = clock + 1
  /\ UNCHANGED <<engine, rulesVars, limits, ev, alerts, lines, alertFaults>>

AlertInit ==
  /\ engine \in {"hub", "files"}
  /\ table \in [Rules -> Defs \cup {NoRule}]
  /\ loaded = Enabled(table)
  /\ cap \in Caps /\ clock = 0
  /\ last = [k \in Rules \X Sources |-> Never] /\ recent = {}
  /\ ev = [t \in Evaluators |-> AtRest]
  /\ editor = [e \in Editors |-> [pc |-> "idle", rules |-> [r \in Rules |-> NoRule]]]
  /\ alerts = <<>>
  /\ overlapped = FALSE
  /\ lines = 0 /\ edits = 0 /\ alertFaults = 0

Pool == \E n \in 1..(MaxLines * Cardinality(Rules)) : TakeAlert(n) \/ Deliver(n)

AlertNext ==
  \/ \E t \in Evaluators :
       \/ \E s \in Sources : Line(t, s)
       \/ ReadClock(t) \/ Decide(t) \/ DecideFails(t)
  \/ Pool
  \/ \E n \in DOMAIN alerts : DeliverFails(n)
  \/ \E e \in Editors :
       \/ \E r \in Rules, d \in Defs \cup {NoRule} : Edit(e, r, d)
       \/ ReadRules(e) \/ AssignRules(e)
  \/ \E c \in Caps : SetCap(c)
  \/ AlertTick

AlertSpec == AlertInit /\ [][AlertNext]_alertVars
-----------------------------------------------------------------------------
RuleMaps == [Rules -> Defs \cup {NoRule}]

AlertTypeOK ==
  /\ engine \in {"hub", "files"}
  /\ table \in RuleMaps /\ loaded \in RuleMaps
  /\ cap \in Caps /\ clock \in 0..MaxClock
  /\ last \in [Rules \X Sources -> 0..MaxClock \cup {Never}]
  /\ recent \subseteq DOMAIN alerts
  /\ \A t \in Evaluators :
        /\ ev[t].pc \in {"idle", "next", "decide"}
        /\ ev[t].todo \subseteq Rules /\ ev[t].defs \in RuleMaps
        /\ ev[t].pc = "decide" => Def(t) \in Defs
  /\ \A e \in Editors : editor[e] \in [pc : {"idle", "read", "assign"}, rules : RuleMaps]
  /\ \A n \in DOMAIN alerts :
        /\ alerts[n].key \in Rules \X Sources /\ alerts[n].stamp \in 0..MaxClock
        /\ alerts[n].task \in {"queued", "busy", "done", "dropped"}
        /\ alerts[n].log \subseteq alerts[n].def.hooks

\* Threads that read the clock one after the other decide in any order, and the
\* memory is one stamp per rule and source: still two alerts of a rule for one
\* source are never closer than the cooldown the rule had at the second one.
CooldownHeld ==
  \A m, n \in DOMAIN alerts :
    m < n /\ alerts[m].key = alerts[n].key
      => alerts[n].stamp - alerts[m].stamp >= alerts[n].def.cooldown

\* "Global alert cap per minute" (settings_registry.py:220): although stamps are
\* appended out of order and expired ones are dropped by different rules in the
\* two engines, an alert is fired only with fewer than the cap in the minute
\* before, and is held back only if the cap was reached in that minute and the
\* time a thread may have waited for the lock.
Since(x) == Cardinality({n \in DOMAIN alerts : alerts[n].stamp > x})
RateCap ==
  [][\A t \in Evaluators :
       ev[t].pc = "decide" /\ ev'[t].pc # "decide" /\ ~Cooling(t) =>
         IF alerts' # alerts
         THEN Unlimited(t) \/ Since(clock - Window) < CapOf(t)
         ELSE ~Unlimited(t) /\ Since(ev[t].stamp - Window - MaxSkew - 1) >= CapOf(t)]_alertVars

\* Whatever edits overlap, once they are answered the file engine works with the
\* rules of the table; the hub engine, whose reload is not locked, does so as
\* long as no two edits have overlapped.
RulesFresh ==
  (\A e \in Editors : editor[e].pc = "idle") /\ (engine = "files" \/ ~overlapped)
     => loaded = Enabled(table)
=============================================================================
