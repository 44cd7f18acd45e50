------------------------------ MODULE MetaSummary ------------------------------
(***************************************************************************)
(* Daily and weekly summaries (meta_summary_worker.py, meta_context.py,    *)
(* store_loggy.py): a thread wakes up now and then, looks whether a        *)
(* summary is due, reads the analyses of the window, asks the model, and   *)
(* stores the answer or the failure, while analyses are made and pruned.   *)
(* A worker that was stopped in a call finishes it beside its successor,   *)
(* and saves of the settings that overlap may leave several: what they do   *)
(* to the global that names the thread is in HubAnalysis, for the drain,   *)
(* which the same function starts and stops in the same way; here any      *)
(* number may be started, and any of them told to stop, at any time.  Nor  *)
(* are the switches kept: META_SUMMARY_ENABLED and META_WEEKLY_ENABLED are *)
(* read where they are needed, and may have been changed at any time.      *)
(***************************************************************************)
EXTENDS Naturals, Sequences, FiniteSets

CONSTANTS
  Workers,       \* worker threads, in the life of the process
  Every,         \* META_DAILY_INTERVAL_SEC and META_WEEKLY_INTERVAL_SEC
  Least,         \* META_MIN_ANALYSES_DAILY and _WEEKLY
  MinRetry,      \* META_MIN_RETRY_SEC
  ContextMax,    \* META_CONTEXT_MAX_ANALYSES
  MaxAnalyses, MaxMetas,  \* MAX_ANALYSES, MAX_META_SUMMARIES
  MaxTime, MaxMade        \* bounds: the clock, the analyses

Grans == {"daily", "weekly"}

ASSUME MetaAssumption ==
  /\ Every \in [Grans -> Nat \ {0}] /\ Least \in [Grans -> Nat]
  /\ {MinRetry, ContextMax, MaxAnalyses, MaxMetas} \subseteq Nat \ {0}
  /\ MaxTime \in Nat /\ MaxMade \in Nat

VARIABLES
  clock,
  made,     \* every analysis ever made: its time, whether the model was skipped
  gone,     \* how many of them have been pruned, the oldest first
  metas,    \* the table meta_summaries
  worker,   \* per thread: where it is, and the summary it is making
  untold    \* the threads that were started and not told to stop

metaVars == <<clock, made, gone, metas, worker, untold>>

Off == [at |-> "off", gran |-> "daily", to |-> 0, saw |-> {}, built |-> 0]
Wait == [Off EXCEPT !.at = "wait"]

\* The analyses of a window that the model made, by their numbers.
Belongs(i, g, to) == ~made[i].skip /\ made[i].at + Every[g] >= to /\ made[i].at <= to
InWindowOf(g, to) == {i \in (gone + 1)..Len(made) : Belongs(i, g, to)}

\* ORDER BY ... ASC LIMIT n
Oldest(S, n) == {i \in S : Cardinality({j \in S : j < i}) < n}

\* meta_attempt_timestamps: of a granularity, and of its successes.
Attempts(g) == {metas[i].at : i \in {j \in DOMAIN metas : metas[j].gran = g}}
Successes(g) == {metas[i].at : i \in {j \in DOMAIN metas : metas[j].gran = g /\ metas[j].ok}}

\* Faulty: only the pause after a failure is looked at.
DueRetry(g) == \A t \in Attempts(g) : clock - t >= MinRetry

Due(g) ==
  /\ \A t \in Attempts(g) : clock - t >= MinRetry
  /\ \A t \in Successes(g) : clock - t >= Every[g]
  /\ Cardinality(InWindowOf(g, clock)) >= Least[g]

Set(w, r) == worker' = [worker EXCEPT ![w] = r]

-----------------------------------------------------------------------------
TimePasses == clock < MaxTime /\ clock' = clock + 1
              /\ UNCHANGED <<made, gone, metas, worker, untold>>

\* insert_analysis, and its pruning.
Analyse ==
  /\ Len(made) < MaxMade
  /\ \E skip \in BOOLEAN : made' = Append(made, [at |-> clock, skip |-> skip])
  /\ gone' = IF Len(made') > MaxAnalyses THEN Len(made') - MaxAnalyses ELSE 0
  /\ UNCHANGED <<clock, metas, worker, untold>>

\* reconfigure_hub_llm_workers, in a save that found no thread when it looked.
StartWorker(w) ==
  /\ worker[w].at = "off"
  /\ untold' = untold \cup {w} /\ Set(w, Wait)
  /\ UNCHANGED <<clock, made, gone, metas>>

\* In a save that found one: that which the global names by then.
StopWorker(w) ==
  /\ w \in untold /\ untold' = untold \ {w}
  /\ UNCHANGED <<clock, made, gone, metas, worker>>

\* After the daily summary the weekly one, if META_WEEKLY_ENABLED is on by then,
\* and then the next poll, or the end.
NextOf(g) ==
  {Wait} \cup (IF g = "daily" THEN {[Off EXCEPT !.at = "look", !.gran = "weekly"]} ELSE {})

\* _maybe_daily, _maybe_weekly: the times, the number of analyses, the window.
LookDue(w) ==
  /\ worker[w].at = "look"
  /\ LET g == worker[w].gran
     IN  IF Due(g) THEN Set(w, [Off EXCEPT !.at = "build", !.gran = g, !.to = clock])
         ELSE \E next \in NextOf(g) : Set(w, next)
  /\ UNCHANGED <<clock, made, gone, metas, untold>>

\* build_daily_meta_context, build_weekly_meta_context: the oldest of the window.
Build(w) ==
  /\ worker[w].at = "build"
  /\ Set(w, [worker[w] EXCEPT
       !.at = "call", !.built = Len(made),
       !.saw = Oldest(InWindowOf(worker[w].gran, worker[w].to), ContextMax)])
  /\ UNCHANGED <<clock, made, gone, metas, untold>>

\* meta_summarize and insert_meta_summary, with its pruning across both kinds;
\* any answer is a success, also one that is empty or no JSON.
Store(w) ==
  /\ worker[w].at = "call"
  /\ \E ok \in BOOLEAN :
       LET r == worker[w]
           all == Append(metas, [gran |-> r.gran, to |-> r.to, at |-> clock, ok |-> ok])
       IN  metas' = SubSeq(all, IF Len(all) > MaxMetas THEN Len(all) - MaxMetas + 1 ELSE 1, Len(all))
  /\ \E next \in NextOf(worker[w].gran) : Set(w, next)
  /\ UNCHANGED <<clock, made, gone, untold>>

\* The failure cannot be stored either: the rest of this round is left out.
StoreFails(w) ==
  /\ worker[w].at \in {"build", "call"}
  /\ Set(w, Wait)
  /\ UNCHANGED <<clock, made, gone, metas, untold>>

\* The head of the loop: a thread that was told to stop ends, and the others go
\* on, once META_SUMMARY_ENABLED is on.
Poll(w) ==
  /\ worker[w].at = "wait"
  /\ Set(w, IF w \in untold THEN [Off EXCEPT !.at = "look"] ELSE [Off EXCEPT !.at = "ended"])
  /\ UNCHANGED <<clock, made, gone, metas, untold>>

MetaInit ==
  /\ clock = 0 /\ made = <<>> /\ gone = 0 /\ metas = <<>>
  /\ worker = [w \in Workers |-> Off] /\ untold = {}

MetaNext ==
  \/ TimePasses \/ Analyse
  \/ \E w \in Workers : \/ StartWorker(w) \/ StopWorker(w) \/ LookDue(w) \/ Build(w)
                        \/ Store(w) \/ StoreFails(w) \/ Poll(w)

MetaSpec == MetaInit /\ [][MetaNext]_metaVars
-----------------------------------------------------------------------------
MetaTypeOK ==
  /\ clock \in 0..MaxTime /\ gone \in 0..Len(made) /\ Len(metas) <= MaxMetas
  /\ \A w \in Workers : worker[w].at \in {"off", "look", "build", "call", "wait", "ended"}
  /\ untold \subseteq {w \in Workers : worker[w].at \notin {"off", "ended"}}

\* Two successful summaries of a kind never cover the same hours, although each
\* is stored only when the model has answered, whichever failures lie between,
\* and however many workers overlapping saves have started; only if the one was
\* decided before the other had been stored (by another worker) may they overlap.
WindowsApart ==
  \A i, j \in DOMAIN metas :
    i < j /\ metas[i].gran = metas[j].gran /\ metas[i].ok /\ metas[j].ok =>
      \/ metas[i].to + Every[metas[j].gran] <= metas[j].to
      \/ metas[j].to <= metas[i].at

\* What the model is asked about are the oldest analyses of the window, without a
\* hole: up to the limit, only those are missing that were pruned after they had
\* been counted, and before they were read.
SawWindow ==
  \A w \in Workers : worker[w].at = "call" =>
    LET m == worker[w]
        in == {k \in 1..m.built : Belongs(k, m.gran, m.to)}
    IN  /\ m.saw \subseteq in /\ Cardinality(m.saw) <= ContextMax
        /\ \A k \in in : \/ k \in m.saw
                         \/ k + MaxAnalyses <= m.built
                         \/ Cardinality(m.saw) = ContextMax /\ \A a \in m.saw : a < k

\* No hour is summarised twice, and a summary has seen its window.
SummariesSound == WindowsApart /\ SawWindow
=============================================================================
