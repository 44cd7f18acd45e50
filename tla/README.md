# log-intel: TLA+ models, model checks and proofs

This directory is a verification development of log-intel, a log hub that
receives syslog and Mist cloud events, stores them in SQLite, shows them live,
raises alerts, and has an LLM analyse them; the same process tails, pages and
searches log files and runs scheduled LLM analyses of them. Paths below are
relative to `src/log_intel/` unless they start with another directory.

    tlc -workers 2 -config X.cfg MCModule.tla     model-check (the table under "Runs")
    tlapm XProofs.tla                             check the proofs of one module

`PROJECT.json` lists the components, the runs, a mutant for every property, the
source lines behind every definition, the findings, the hazards and the theorems.

## 1. Inventory

| Component | State | Operations | Hard part | What makes it correct |
|---|---|---|---|---|
| Event store (`store.py`) | table `events`, `ingest_seen`, `max_events`; reserves from the settings | insert with pruning, mark a key, retention, reopen and upgrade | pruning with reserves at the cap, restart with a smaller cap, upgrade | it is a bounded log: the cap holds, the new row survives, no key is forgotten; reserves hold, oldest first |
| Hub LLM analysis (`loggy_ported/analysis_service.py`, `analysis/`, `store_loggy.py`) | verdict of each event, table `analyses`, jobs, on-demand status, cancel event | drain, on-demand run, on-demand jobs, start, cancel | rows change under a call that takes minutes; three kinds of writers; start and cancel race | a verdict belongs to the event it is shown on and is the newest; runs end; every event is analysed |
| Service lifecycle (`main.py`, `wsgi.py`) | globals for drain, poller, summary worker | start, reconfigure after a settings save, stop | threads are replaced without being waited for; saves check and assign without a lock | while saves do not overlap, one thread of a kind at most that is not on its way out |
| File-analysis jobs and schedules (`syslogb/app/analyze_worker.py`, `analysis_scheduler.py`, `store.py`, `web/routes.py`) | tables `jobs` and `analysis_schedules`, queue, pending list | create, enqueue, run, cancel, prune, poll, alert | web, worker and scheduler each read and write in separate transactions | no job is lost or run twice; findings are alerted once |
| Analysis of a file (`syslogb/rag/`, `app/llm_client.py`, `app/llm_filter.py`) | vectors so far, Chroma collections, cached model name | read, filter, chunk, embed with retries and splitting, index, query, ask | the file grows, the user cancels or changes the model, batches are repeated | a prompt holds the job's own lines; each vector is of its own text |
| Syslog ingest (`hub_ingest.py`, `ingest/syslog_server.py`) | bounded queue, worker task, retention task | receive, drop, parse, insert, broadcast, evaluate, sweep | full queue, exceptions, restart | accepted lines are stored in order; retention is obeyed |
| Mist poller (`ingest/mist_poller.py`) | stop event, the answer of a poll | poll, look, insert, evaluate | check and insert are two transactions; overlap of two pollers | every event once, and eventually |
| Live view (`hub_state.py`, `hub_flask.py`) | `recent_stream`, subscribers, a queue per connection | broadcast, connect, replay, send, disconnect | registration, replay and broadcasts overlap; full queues | no gap, no third copy, delivery |
| Alert engines (`alerts/engine.py`, `syslogb/app/alert_engine.py`) | rules, cooldown and rate memory, delivery pool | evaluate, suppress, fire, deliver, edit and reload rules | the clock is read before the lock; unlocked reload | cooldown and cap per minute hold; edited rules come into force |
| Summary worker (`loggy_ported/meta_*.py`) | last summaries | look whether one is due, build context, summarise | minutes between deciding and storing; stopped workers finish beside their successor | no hour is summarised twice; a summary has seen its window |
| File tailing (`syslogb/app/tailer.py`, `tail_service.py`, `scanner.py`) | handle, offset and partial line of each file | open, stat, read, emit, rescan, reload | rotation, truncation and errors between two steps | lines whole, once, in order, without a hole |
| Settings (`config.py`, `settings_bridge.py`, `hub_config.py`, `syslogb/app/runtime_config.py`, `settings_registry.py`) | settings table, two modules of globals, a cached object | seed, upgrade, save, reload, ask | concurrent saves and readers, crash during start | what was saved is applied and stays |
| Paging (`syslogb/app/file_reader.py`, `journal_reader.py`) | none; offsets held by the browser | tail, older, newer, time window | pages cut at bytes while the file grows | whole lines in order; seams close; paging moves on |
| Search (`query_parser.py`, `severity.py`, `fail_filter.py`, `search.py`, `unified_search.py`, `store.py`) | none | parse, classify, search, merge | two parsers of severity, shares of a limit, origins that fail | a query means what it says; an answer owes each origin its share |
| Web interface (`syslogb/web/routes.py`, `hub_flask.py`, `app/*auth*.py`) | sessions | login, edit, page, search, save | only the handlers that change or read shared state matter here | with the component each handler belongs to |
| Parsers, trends, geography, syslog-pusher | none that the hub shares | | | see "Left out" |

How they interact: the ingest task and the poller insert into the event store
(one `RLock`, one transaction per method), then call `HubState.broadcast_sync`,
then the alert engine; tailers call the alert engine too. Analysis threads read
batches from the store and write verdicts back by event id; the summary worker
reads their analyses. Settings saves reach the drain, the poller and the summary
worker through `main.py`. Web threads create jobs and schedules in the second
database, the worker thread takes them from an in-memory queue and runs the
analysis of the file, the scheduler polls them.

## 2. Modules

| Module | Models | Composition |
|---|---|---|
| `BoundedLog` | what the event table promises to its users | abstract specification |
| `EventStore` | `store.py` | base of the next two; implements `BoundedLog` (`LogRefined`) |
| `HubAnalysis` | analysis threads, jobs, lifecycle of the drain | EXTENDS EventStore, shares its table |
| `HubIngest` | ingest thread, Mist pollers, retention, their restart | EXTENDS EventStore, shares its table |
| `AnalysisJobs` | file-analysis jobs, worker, scheduler, web handlers | its own database |
| `Retrieval` | what the worker does with one job's file | inside a step of `AnalysisJobs` |
| `LiveView` | broadcast and event streams | what ingest and the poller call |
| `AlertEngine` | both alert engines | what ingest, poller and tailers call |
| `LineText` | text made of lines | used by `FileTail`, `LogPages`, `Retrieval` |
| `FileTail` | one tailed path with its scanner | |
| `LogPages` | paging sessions | |
| `QueryText`, `Severity` | query language, severity filters | used by `LogSearch` |
| `QuerySense` | what a query should mean | the reference for `QueryText` |
| `LogSearch` | file search and unified search | EXTENDS `QueryText`, `Severity`, `LineText` |
| `Settings` | settings, caches, what a save starts | |
| `MetaSummary` | daily and weekly summaries | |
| `...Proofs` | theorems | EXTEND their modules |
| `MC...` | small sets for TLC | `MCStoreAlerts`, `MCLive` and `MCWorkbench` put components that share no state into one run, `MCIngest` three behaviours of one component |

State and actions follow the code: one variable per table column or field that a
property can tell apart, one action per transaction, lock section or call that
may block, and a program counter with the locals that a thread carries across
them. Definitions marked `Faulty` are what a bug would make of the definition
below them; no specification uses them, and each property is shown to fail with
one of them in place.

**EventStore.** `Insert` is `insert` with `_prune_events_locked`: reserves are
scaled down when they exceed the cap (`Floors`, `Scaled`), rows are taken in id
order while their type is above its floor (`Deletable`), then any others but the
newest (the second pass). `Reopen` is a restart with any cap, `Migrated` the
filling of `ingest_seen` from an old database, `Legacy` the rows such a database
starts with. Scaling a reserve is a floating-point product cut to an integer:
`Scaled` allows the exact quotient, and one less where the product may fall just
below an exact multiple.

**HubAnalysis.** `Check`, `Fetch`, `Skip`, `LlmOk`/`LlmFail`, `Gap` are the steps
of `drain_unanalyzed`, for the drain threads and for the on-demand run. The table
changes between any two of them. `StartClear` and `StartRefused`/`StartAccepted`
are separate because the cancel event is cleared outside the lock. A settings save
is a web thread's request too: `SaveSettings`, then one step for each read or write
of `_scheduled_drain` in `reconfigure_hub_llm_workers` and `_start_scheduled_drain`
(`SaveRead`, `SaveCheck`, `SaveCreate`, `SaveStart`, `SaveStop`, `SaveForget`). Two of
them at once may start two drains, of which one is never told to stop, or leave none;
the history `met` remembers that two overlapped, until the next restart. The start
thread of an object that another save has replaced is that object (`SaveStart`).

**AnalysisJobs.** Every store method is one transaction. The worker's check of
the status, its write of `running`, each progress report with its cancel check,
and the final write are separate steps; so are creating and enqueueing a job, and
the scheduler's poll, settlement and start. `model` is `LLM_ENABLED`, which a settings
save may change at any time (`SwitchModel`): a tick of the scheduler does nothing
while it is off (`Wake`), and requests are refused. `never` is a process in which the
model has not been on yet, so that worker and scheduler do not exist.

**Retrieval.** One job after another, over one file whose size is its number of
lines. Pure parts are operators (`Kept`, `Chunks`, `Packed`, `Halves`), the pipeline
is a step for each point where the file, the job's status or the settings may
change: `ReadFile`, `BeginBatch`, the requests of a batch, `IndexChunks`, `Query`,
`AskModel`, `Finish`. The recursion that splits a request is a list of the requests
still to make (`call.left`), so that each request is a step, `RequestDone` or
`RequestSplit`: with OpenAI the model is looked up for each. `EmbedSucceeds` and
`EmbedFails` end an attempt. A collection is keyed by what the file's size is
when its name is computed, so `IndexChunks` and `Query` may disagree. `job.skips` is
`LLM_SKIP_LOW_LEVELS` as the job read it with its lines: without it `Kept` keeps INFO
and DEBUG lines too.

**HubIngest.** `Receive` is the datagram and TCP handler, `Take`, `StoreLine`,
`EvaluateLine` the worker task up to each await, `LineFails` its handler of any
exception. A poller goes through `Wake`, `FetchEvents`, `Look`, `StoreMist`,
`EvaluateMist`; `PollFails` is the handler of any exception in a poll, and `WakeFails`
an exception of `get_settings()` between two polls, outside of that handler, which ends
the thread. `SaveSettings` is `reconfigure_mist_poller` up to its check and
`StartPoller` what it does after finding no poller alive: saves that overlap
(`starting`) may start two. `Restart` is a stop and start of the process, in order or
by a crash.

**LiveView.** `Publish`, `Copy`, `Offer`, `Remove`, `Published` are the steps of
`broadcast_sync` with only the copy and the removal under the lock; `Connect`,
`Replay`, `Send`, `Disconnect` those of the stream of a browser.

**AlertEngine.** `Line` takes the snapshot of the rules, `ReadClock` the time,
`Decide` is the section under the lock. The two engines differ in three places
(`Unexpired`, `CapOf`, `ReadRules`), chosen by `engine`. A rule's query is left
open: any nonempty set of candidate rules may fit a line.

**FileTail.** A line is written in two halves (`LineText`: piece 2n-1, then 2n with
its newline), so chunks, rotations and truncations can fall into the middle of a
line. `Stat`, `Read`, `Emit` are the loop of the tailer thread, `Scan` and `Reload`
the scanner and the service, `RenameAway`, `CreateNew`, `CutShort` logrotate. `Stop`
is `FileTailer.stop`, which gives its thread two seconds and then forgets it. We take
two seconds to be enough for a stat, an open and a read, so that a thread stopped
there ends; a thread in a callback may outlast them, and its loop does not look at the
stop flag: `late` holds the lines that such threads still have in hand, `EmitLate`
hands them on beside the next tailer, and `LateFails` is a callback that raises.

**LogPages.** A request takes the size of the file (`AskPage`), the function that
reads a plain file takes it again (`TakeSize`), and then reads (`Serve`), as often as a
time window wants more (`Widen`) or falls back to the plain tail (`FallBack`); the text
may grow between any two of these. Offsets are bytes in a plain file and line numbers in
a gzip file. A line of `Garbled` is not UTF-8: decoded with replacements and encoded
again it has three times its bytes (`Bytes`), so that stepping back over it goes too
far (`Trimmed`). Lines end with a newline alone: the other separators of `splitlines`
and a carriage return are not in the model. The loops over lines are written as what
they stop at: a gzip page holds the lines that fit (`GzipTail`, `Fitting`).

**QueryText, QuerySense, Severity, LogSearch.** The parser is the code's recursive
descent, as one function (`Rules`) from a rule and a place in the query to what the
rule makes of the rest. `Meaning` in `QuerySense` splits a query at its loosest
operator instead, and the two are compared. A line of text is reduced to the set of terms in it and its form. A
search's answer is computed by the code's path (shares, cut-offs, sorting,
fallbacks) and compared with what each origin owes. Several journals, or files, may
show the same entry (`Together`): `journal://boot` shows what `journal://system` does.
A line of the log is then one line for each source that shows it, and the copies count
against the limit like other lines.

**Settings.** The start is three transactions (`EnsureLegacy`, `Seed`, `Sync`); a
save commits (`Save`) and then reads every key in a transaction of its own
(`ReadKey`) for each of the three places it refreshes, decides about the poller
(`Look`, `Decide`, `StartPoller`, `StopPoller`) and ends (`EndSave`). `Crash` may
fall between any two. `Effective` is the precedence of `effective_value`: the saved
value before the environment, but for the bootstrap keys such as DATA_DIR (`EnvFirst`).

**MetaSummary.** `LookDue` fixes the window, `Build` reads it, `Store`/`StoreFails`
come after the call. Two hours, days or weeks are ticks of one clock. `StartWorker` may
start a worker although others are not told to stop, as overlapping saves do, and
`untold` is the set of these. The intervals are constants: a save that changes them
while a summary is made is not modelled.

## 3. Runs

| Run | Configuration | Asks | Bounds |
|---|---|---|---|
| store | `StoreAlerts.cfg`, MCStoreAlerts | does the table implement the bounded log and prune rightly; do cooldown, cap per minute and edited rules hold | 4 rows, caps none/2/3, four settings of the reserves (none, fitting, one of them too large), two keys, two legacy rows; one rule, two evaluating threads, two editors, one pool worker, caps 0/1/2, window of 2 in a clock of 3, a skew of 1, three lines, two edits, one exception |
| hub_verdicts | `HubVerdicts.cfg`, MCHubAnalysis | do verdicts and jobs stay sound | two drains, one job, three rows over a cap of 2, batches of 2, one LLM failure, two saves or restarts (one when a job meets the third row; two overlapping saves with one row and no job); an on-demand run with one web thread over a single row and two clock values (constraint `MCBound`) |
| hub_on_demand | `HubOnDemand.cfg`, MCHubRuns | is the published state right, does a run end, is any event starved | part "user": two web threads, two rows, two clock values, batch and wall limit, one failure or one restart; part "drains": two drains, three rows, batches of 1, two failures, two saves (one row or failure once they overlap) |
| jobs | `Jobs.cfg`, MCAnalysisJobs | are jobs lost, run twice, pruned wrongly, alerted wrongly | two jobs, one schedule, history of 1, one restart, one store fault; the model switched off and on in a process that has had neither yet (`MCSwitch`), and off or on after the restart |
| ingest | `HubIngest.cfg`, MCIngest | are lines stored once, in order, and all settled; is a Mist event ingested or evaluated again, does it arrive | part "lines": three lines, queue of two, one poller, one restart or save; part "overlap": one line, two pollers, one key, two saves, overlapping or not, or restarts; part "retention": one line, one poller, retention of 1 over three clock values; a table of one row and one exception in each |
| live_view | `Live.cfg`, MCLive | gaps, copies, delivery; are tailed lines whole, in order, without a hole, and do they come | two publishers, two connections, queue of 1, replay of 1, two events; three inodes, two lines in four pieces, chunks of 3, two rotations, one upset, one I/O error, three of these in all and one while a stopped tailer still has lines in hand |
| workbench | `Workbench.cfg`, MCWorkbench | paging, query language, severity, search, analysis of a file, settings, summaries: one compound property each | text of 7 pieces of which two lines are not UTF-8, and 3 pages, queries of up to 5 tokens over 2 terms, all 2 000 or so forms of a line, 3 lines in 6 sources, of which the system and the boot journal share their entries, a file of 5 lines with chunks of 2 and 2 jobs, 2 settings with 2 saving threads, one reader, 2 saves and 2 starts, 2 summary workers over a clock of 2 with at most 3 analyses (2 once the clock is at its end) |
| hub_cancel, jobs_failed, ingest_retention, setup, gzip_paging | `HubCancel.cfg`, `JobsFailed.cfg`, `HubRetention.cfg`, `SettingsSetup.cfg`, `GzipPaging.cfg` | a documented promise that the code breaks | see "Findings" |

In `MCStoreAlerts`, `MCLive` and `MCWorkbench` a variable `part` says which
component moves; the others stay at one of their initial states. The components
put together share no variable, so each behaviour of a component is one of the
composition, and a run checks exactly what separate runs would. In `MCIngest`
`part` bounds the environment instead: how many lines arrive, whether pollers may
overlap, whether time passes. It never holds back a step that a thread has to take.

Why the bounds are enough: each hazard needs few actors and few rows. Pruning
needs one row more than the cap and one type above, one at its floor; a stale
batch needs one row pruned between fetch and save and one new row; overtaking
needs two lines in the queue and a drop needs a third; overlap needs two pollers;
a gap needs one event between registration and replay; clocks out of order need
two threads and a skew of 1; a glued line needs one chunk that ends in the middle
and one rotation; a seam needs two pages and a third to go back; precedence needs
five tokens; a repeated batch needs two batches; crossing saves need two threads; a read beyond the
size that was seen needs one piece logged between the two. A page that begins a second
time on a line, after stepping back too far, needs more text than these bounds have
(`PageBytes` of 6, a text of 13 pieces): simulation shows it, and the theorem covers it.
The mutants confirm that each property can fail within its bounds. Values that
only count (`MaxId`, `MaxNow`, `MaxFails`, `MaxFaults`, `MaxUpsets`, `MaxRestarts`,
`MaxEvents`, `MaxClock`, `MaxLines`, `MaxEdits`, `MaxWritten`, `MaxRotations`,
`MaxTailFaults`, `MaxText`, `MaxPages`, `MaxTokens`, `MaxFile`, `MaxJobs`,
`MaxTrouble`, `MaxSaves`, `MaxStarts`, `MaxTime`, `MaxMade`) stop the environment,
not the code, except that `Insert` stops at `MaxId`. `MaxSkew` is an assumption:
a thread that waits longer for the alert engine's lock is not modelled. Deadlock
checking is off where the model may really come to rest: no more rows to insert,
nothing left to do.

Fairness: the steps of a thread or task that the code keeps running (drain loop,
on-demand thread, job worker, scheduler tick, ingest worker, poller, broadcast,
an open event stream, a tailer's loop) are weakly fair, because threads are
scheduled and no step waits for another actor except through what its guard says;
LLM and HTTP calls end because the clients set timeouts. Nothing is assumed of
browsers, new requests, new settings saves, crashes, faults, rotation, scans or time.
Web threads in the middle of a request (`Enqueue`, `Save`, `StartPoller`) are fair for
the same reason. The alert engines, `Retrieval`, `Settings` and the pages have safety
properties only.

What liveness excludes is written in the property: finitely many faults
(bounded), automatic analysis left on and no two saves that overlapped
(`<>[](auto /\ ~met)`), Mist ingest left on and a poller alive
(`<>[](wanted /\ Alive)`), the model left on in the end (`<>[](model = "on")`, for
alerts), jobs of the present process (`mine`), no store fault that ended the worker or
took a job out of every hand (`faults > 0` with its effect), a browser that stays and whose queue does not overflow, a file
that is not rotated before it is read.

## 4. Findings

* **hub_cancel**: a start request that is refused also clears the cancel event,
  so an accepted cancel of the run in progress is lost
  (`loggy_ported/analysis_service.py:325`).
* **jobs_failed**: the worker writes `failed`, the scheduler waits for `error`:
  a failed scheduled analysis is never reported
  (`syslogb/app/analyze_worker.py:87`).
* **ingest_retention**: retention switched on by a settings save in a process
  that started with 0 hours never runs (`hub_ingest.py:92`).
* **setup**: a new installation that is restarted before the wizard has ended
  takes its own seeded settings for those of an older program and never shows the
  wizard again (`syslogb/app/store.py:481`).

* **gzip_paging**: a page of a gzip file that passed over blank lines and reached
  the end says that it ends before the last line it shows; a newer page that is read
  on from there, where one is offered, shows that line again
  (`syslogb/app/file_reader.py:291`).

What the models say beside that, where no document promises otherwise, and the
properties are worded accordingly:

* A cancel accepted between the job worker's check and its next write is
  overwritten; while a job embeds, the cancel is caught by the retry of the batch
  and the job ends as failed (`rag/embedder.py:216`).
* A progress write that fails after a batch was embedded repeats the batch, and
  its vectors are there twice (`slipped`): the chunks behind get those of other chunks
  of the job. A file that grows between indexing and
  query makes the job fail. Collections are never deleted. An embedding model of
  Ollama is remembered for a minute, whatever the settings say since.
* Files and journals contribute their oldest matches when the limit cuts, the
  event table and the archive their newest; the event table knows no operators;
  a regular expression is tried on the newest events only; the source type is
  filtered after the limit.
* Going through a plain file by pages loses up to two lines at each seam, and
  repeats none, even if the file grows meanwhile, as long as it is UTF-8; after
  stepping back over a line that is not, a newer page may show lines again and not get
  on (`file_reader.py:244`). A file that grows between the stat and the read
  (`file_reader.py:230`, `234`) may leave part of a line at the end of a page. An older
  page of the journal is its last lines once more. A page that does not reach the end
  of the file finds its end by stepping back over the last line it keeps and not the
  one it dropped (`file_reader.py:115`), so a page that is read on from there may
  show a part of the last line of the file, however short it is.
* A JSON level of "major" ranks as an error but is no failure line.
* Hits in the system journal come twice, once for `journal://boot`, and use up the
  share of the files behind them.
* While the model is switched off the scheduler does not look at its pending jobs; the
  alert comes once it is on again.
* Two overlapping edits of rules may leave the hub engine with the older rules;
  two overlapping saves may leave older settings in force, a drain, a summary worker
  or a Mist poller that nobody stops, or no drain although the setting is on. A thread that began to read before a save may fill the settings
  cache with the old values until the next save.
* A tailer that cannot open its file, or whose callback raises, stays listed and
  is not replaced until the path vanishes. An I/O error makes it read its file
  from the start. What was not read before a rename or a truncation is lost. A
  tailer that is stopped in a callback hands on its last lines beside its successor.
* A worker that was told to stop may store a summary of hours its successor has
  covered. The context takes the oldest analyses of a window; any answer counts
  as a success.

## 5. Proofs

Assumed: the named ASSUMEs on the constants, which TLC evaluates on every run.
The bounds may be any natural numbers, caps any integers, reserves any natural
numbers, and the sets of keys, messages, threads, connections, jobs and schedules
may be infinite; only the pollers are counted, so there are finitely many.

**StoreAlertsProofs: the event table.** `StoreTypeOK` is inductive: its last conjunct (a live row
has been inserted and is well formed, so it has a key exactly when it is a Mist
row) is what the action properties need. `PruneEffect` is the heart: what one
insert leaves. It follows from `DivLe`, `ScaleSum` and `FloorsFit` (the scaled
floors, added up, leave room for the newest row), `ProtectedBound` (so few rows
are protected that the first pass alone reaches the cap) and `MinExists`/
`MaxExists`; the second pass of the code is therefore never needed.
From it: `CapHolds`, `NewestHolds`, `OldestHolds`, `ReserveHolds`. `SeenHolds`
needs a strengthening of its own, `SeenCovers`: the key of every row of the table
is recorded, so a restart never has anything to add to `ingest_seen`. `LogHolds`
is the refinement: under `kept <- live, next <- nextId, cap <- maxEvents,
known <- seen` and the keys of legacy rows, initial states map to initial states,
an insert to `Add` (by `PruneEffect`), retention to `Drop`, a mark to `Learn`, a
reopening to `Open`, and ticks and changes of the reserves to stutters.

**LiveViewProofs.** `Inv` adds to the types that the replay buffer holds the
newest events without a gap (`RecentOK`, kept by `PushEffect`), and that a
broadcast offers nothing before it has copied the list (`PubOK`). With it `NoGap`
is inductive (`GapStep`): an event published but not yet copied counts as coming
to everyone, the copy contains every connection that is not dropped, and an
overflow drops the connection. `AtMostTwice` needs `Once`: the queue, the sent
part and what is still offered to a connection are pairwise disjoint and free of
repetition, because two publishers never hold the same event (`Distinct`) and a
new event is newer than all that was queued (`Past`).

**HubAnalysisProofs.** A step of the analysis threads, of a settings save or of a
restart is a store step or leaves the store alone (`StoreStep`), so `Spec` implies
`StoreSpec` (`StoreKept`) and what is proved of the store holds here too: the
module implements `BoundedLog` (`AnalysedLogHolds`). `ControlInv` needs nothing of
the data: the program counters, `OneDrain`, `RunningIsAlive` and `SaveInv` are
inductive together. `SaveInv` says that until two saves overlap one web thread at most
is inside a save, and what `_scheduled_drain` and the setting have in common at each
step of it (`SavePhase`). `DataInv` is what the verdicts need: whatever a thread, a job or a saved
analysis holds was read from rows of the table (`WereRead`), and as ids are not
used again and messages never change it stays true of those rows (`ReadStays`).
`SavedInv` relates the columns of an event to the analyses of its lines,
`WorkInv` what is in progress to the rows; `SaveEffect` is the step that writes
both. `VerdictHolds`, `VerdictNewestHolds`, `JobHolds` and `AnalysisTypeCorrect`
follow.

**StoreAlertsProofs: the alert engines.** `RulesInv` says what an edit in progress owes. In the file
engine the rules in force are those of the table or an edit is still to read
them; in the hub engine, while no two edits have overlapped, one edit is in
progress and what it carries is the table. `CooldownInv` adds to the types of
what a decision reads that the remembered stamp of a rule and a source is not
older than any of its alerts (`Remembered`), although threads read the clock
before they wait for the lock: the code compares with that stamp, so a late
thread is refused and not only the next one. `RateInv` carries the cap per
minute: of the alerts of the last minute none is missing from the stamps an engine
keeps, although the stamps of two threads may be out of order by the skew, and a
decision keeps none older than the minute before its own stamp; so the kept stamps
lie between two windows (`Keeps`), and both halves of `RateCap`, an alert fired and
an alert held back, compare the cap with one of them (`RateHolds`).

**HubIngestProofs.** Like the analysis threads, the ingest task and the pollers
only take store steps or leave the table alone: what a task holds is a well-formed
row that is stamped in the past (`TaskInv`). So the log is the bounded log of
`BoundedLog` under ingest too (`IngestedLogHolds`). For the order of the lines the
queue is tied to what was accepted: it is always the end of it, and every stored
line was accepted before the worker's line and before the whole queue
(`OrderInv`). That each stored event is evaluated at most once and never lost
unnoticed rests on a ledger: an event is evaluated, missed or still held by the
task that stored it, exactly one of the three (`LedgerInv`). That a key is stored
again only as often as pollers overlap rests on counting: a stored key is in
`ingest_seen`, and its copies and the pollers that have looked and not yet
inserted are together no more than allowed (`KeyInv`).

**AnalysisJobsProofs.** `Held` is strengthened to `HolderInv`: creators, queue,
worker and scheduler share no job, and what one of them holds is pending, running
or cancelled. This is what the other two need: a job of the history is finished,
so the one being saved is not in it and nothing that was alerted is run again.
`SaveEffect` is the step with the arithmetic, the pruning of the history: the jobs
it removes are the beginning of the history, and it removes some only if Keep are
left (`HistoryHolds`). `AlertInv` says that an alerted job is finished, grave and
out of the scheduler's sight, and that what the scheduler has read and not yet
settled is still true, because the worker cannot touch a finished job
(`AlertHolds`).

**WorkbenchProofs: settings.** `SavedInv` (the row of a saved key holds what was
saved) needs only that seeding fills gaps. `PlaceInv` says where a thread can be
and that it holds nothing while idle. With `LooseInv`, as long as no two saves have
overlapped one saver at most is under way, and it starts a poller only when there
is none. `ForceInv` follows one save on its way: until something crosses it
everything any thread has read is still what the table says, and each place that
the saver has passed (the globals, the hub's globals, the cache, the poller) goes
by the table. The cache is the delicate one: it may be stale only while the saver
is still in front of it. At the end of the way this is `SettingsSound`
(`SettingsHold`). The types need `ValueInv`: what threads have read so far are
values, so a thread that has read every key publishes a whole settings object.

**WorkbenchProofs: summaries.** `MetaInv` says of each worker that has decided and
not yet stored what `WindowsApart` says of the table: its window begins after every
success of its kind, or it was decided before that success was stored. A decision
establishes it (`DueApart`), time and other workers keep it, and storing hands it
to the table, whose pruning keeps the order (`StoreEffect`). For what a summary has
seen, `OldestAreOldest` shows by the least and the greatest of the numbers involved
(`LeastNumber`, `GreatestNumber`) that the first n of a set are n in number and
older than the rest; `SeenInv` then carries what a worker has read, and what there
was to be read, through whatever analyses are added while its call runs.

**WorkbenchProofs: severity.** What a filter says of a line with a syslog priority
depends on the priority's remainder by eight only (`SameRemainder`), so that the
theorem, for any set of priorities, is a finite case analysis of the two tables of
levels (`Ranks`, `Severe`).

**LogFileProofs: the tailer.** The first part is about text: the newlines of a text have a
least, a next and a greatest one, the lines cut at them are runs of pieces that
end in their newline, and together with the rest they are the text. `TailInv` says
what the pieces in each place are: a file holds a run of pieces, the one being
written the newest of all (`FilesOK`); the partial line is what stands in the file
in front of the offset (`PartOK`); lines and the partial line are runs of pieces,
each line of one line of the log, unless the tailer could not have noticed a change
(`HandOK`); everything from the offset it opened at to the one it has reached was
handed on, is in hand or is the partial line (`SkipOK`); and all it has taken comes
before all that it has yet to read (`TailOrder`). The lines that a stopped thread still
has in hand are lines of earlier tailers, whole, and before all that later ones take. Each conjunct is disturbed by few
steps only, so the actions are grouped by what they do to them: files move, the
tailer goes on, lets go of its handle, opens, reads, hands on. `LinesHold` follows,
and `TailTypeHolds`.

**LogFileProofs: the analysis of a file.** The lemmas come first. `ChunksAre` and
`RagChunksAre` say, from division alone, which lines stand in which segment and
that the segments leave out no line but the oldest (`Spread`); `FlattenIs` that a
text joined of segments comes from them in their order (`Traced`), so that the
prompt, which is made of chosen segments, stands in the lines of the job and steps
back by no more than the overlap (`ChosenPlaced`); `PackedIs` and `SplitInTurn`
that requests follow one another without a gap, however they are packed or split.
`RetrievalInv` has one conjunct for each part of the job: its lines are kept lines
of the file, in order (`LinesOK`), and the segments theirs (`ChunksOK`); the
vectors there are belong to the first batches (`VectorsOK`), the attempt at hand
has those of the first texts of its batch, and what it still has to ask for begins
where they end (`CallOK`); the job's collection is complete and none has the name
of a longer file, so that a query finds the job's own or nothing (`IndexOK`); and
the prompt is in place (`PromptOK`). Of a job for which recording the progress
failed only this stays, as in the property: its vectors are those of chunks of its own. `RetrievalHolds` follows;
`RetrievalTypeHolds` adds the bounds (`BoundsOK`).

**LogFileProofs: searching.** An answer does not depend on earlier ones, so the
invariant (`SearchFine`) is little more than the property, and the work lies in what
a request computes. A set of lines in order holds each line once, and the i-th of it
has so many greater ones (`InOrderAll`, `DescendingIs`); hence the first k in
descending order are the k newest (`NewestIs`), which is what a database owes. The
journals and files in turn give lines of theirs, none twice, and as many as there
are up to the limit (`FoundIn`, `MoreFound`, `CollectIs`, along the sources). The
share computed by division is the greatest that fits (`ShareIs`). From these each origin gives what is
due (`HubGives`, `FilesGive`, `ArchiveGives`), the origins have no line in common
(`OfferIs`), and sorting and cutting what they give loses only what is beyond the
limit (`ShownIs`). What the parser and the regular expressions match is left open:
the theorem holds for any reading of a query. It assumes (`SearchAssumption`) that
no journal or file is listed twice, which holds as long as no configured log
directory contains another.

**LogPagesProofs.** A page is described by places: `PartOfLine(t, lo, hi, n)` is what
of line n stands between two bytes, and a sequence of lines is `PartsOf` a stretch
when it holds such parts in order. `SplitParts` and `WholeParts` say that splitting
a stretch gives the parts of the lines that have a place in it, whatever byte it
begins and ends at; `PartsPick` and `PartsCut` that choosing among them gives parts
again. With this each way of reading becomes a statement about the numbers of the
first and the last line: `FirstCutIs` and `TailIs` (the text after the first newline),
`RangeIs` (a page that does not reach the end, as the reader had seen it, drops its
last line and, unless it ended with a newline, steps back over one more; the new end is
at most one line further than what is shown, and anywhere before that if the line is
not UTF-8), `AllLinesAre`, `LinesAtIs` and `SizeGrows` (gzip: what fits is
what comes last, or first). `TailSound`, `RangeSound`, `GzipTailSound`, `ForwardSound`
and `JournalSound` say of each kind of page which lines it may lack before and after
those it shows. `PagesInv` keeps this of the page in view and of the one before it
(`PageFine`), and what the one has to do with the other (`Follows`): an older page of
a plain file ends where the page it was asked from begins, but for one line, and a
newer one begins where that one ended, or at the start of the file if the end lies
before it. What is known of the size that the reader saw (`ReqOK`) is only that it is no
more than the text, which is all that these statements need. A page stays what it was when the text grows
(`PageStays`), because nothing in it depends on places that were not there when it was
read. `PlainSeam` counts what two such pages can both lack, the line that the boundary
cuts and the one before it, and `GzipSeam` that nothing is left between line numbers.
The text itself is in order (`InOneRow`) because the program that logs ends one line
before it begins the next (`RowGrows`). `PagesHold` follows. `PagesTypeHolds` takes
from the same invariant that both ends of a page lie in the text as it was then
(`GzipTailEnds` for the tail of a gzip file, which counts the lines it shows from
where it begins), and that every piece it shows had been written (`ReadBefore`).

Only model-checked: every liveness property (`RunEnds`, `EventsHandled`,
`JobsSettle`, `AlertsArrive`, `LinesSettle`, `MistArrives`, `Delivered`,
`LinesArrive`), which the proof system does not reach; and `QueryMeaning`,
whose reference definition is recursive, so that a proof would be an induction over
data. The type invariants of the MC modules join those of the components, which
have a theorem each, except that of the query parser.

## 6. Not modelled, and why

* Parsers of log lines (`parsers/`, the classifier's text work): pure functions
  over unbounded strings. A line parses or not; findings are grave or not. What an
  analysis or a summary says, the wording of prompts, alerts and pages.
* Trends, geography, exports, saved searches, sessions and permissions: queries
  computed anew for each request, or state that no other thread races for.
* syslog-pusher (`src/syslog-pusher/`): a separate Windows agent; the hub sees its
  messages, which `HubIngest` receives as any others.
* Database errors inside `drain_unanalyzed` and the on-demand thread; they are
  modelled for jobs (`WorkerDies`, `TickFails`), for ingest (`LineFails`,
  `PollFails`, `SweepFails`), for alerts (`DecideFails`, `DeliverFails`), for
  summaries (`StoreFails`) and for the analysis of a file (`Break`, `EmbedFails`).
* Settings that a save changes under a thread which has read them, other than those
  named above: the intervals of summaries, limits and sizes are constants of a
  behaviour. In `HubIngest` a save checks and stops the poller in one step, and only
  its start is separate.
* Octet framing, client slots and over-long lines of the TCP server; the
  importance filter of the event stream and the file-tail queue that it serves
  too; the merge buffer and the process that follows the journal. A browser that
  reconnects is a new connection.
* Wire formats of the LLM servers and the repair of their JSON: a call ends with
  an answer or an error.
* Equal `finished_at` of two jobs: the history is a sequence. The job whose id a
  schedule shows is read together with its status.
* Detection of binary files, formats of timestamps and access rules of paths in
  paging and search.
