------------------------------- MODULE Settings -------------------------------
(***************************************************************************)
(* The settings (settings_bridge.py, runtime_config.py, hub_config.py,     *)
(* config.py, AppStore): a table of the database, read key by key into two *)
(* modules of globals and into one cached object, by web threads that save *)
(* or reload them and by any thread that asks for them; and what a save    *)
(* starts and stops.  A setting that nobody saved has its value from the   *)
(* environment.  The background thread is the Mist poller; the others are  *)
(* started and stopped alike.                                              *)
(***************************************************************************)
EXTENDS Naturals, Sequences, FiniteSets

CONSTANTS
  Registry, \* the settings, in the order in which they are read
  Secrets,  \* SECRET_KEYS: an empty value means unchanged
  OldKeys,  \* the settings that an older program knew
  EnvFirst, \* BOOTSTRAP_ENV_KEYS: their value in the environment comes first
  Poller,   \* the settings that the Mist poller needs
  Savers,   \* web threads that save or reload
  Readers,  \* other threads that call get_settings
  Updates,  \* what a page may send: values for some of the settings
  Envs,     \* environments that a process may start in
  MaxSaves, MaxStarts  \* bounds

Keys == {Registry[i] : i \in DOMAIN Registry}
Values == {"", "x"}

ASSUME SettingsAssumption ==
  /\ \A u \in Updates : DOMAIN u \subseteq Keys /\ \A k \in DOMAIN u : u[k] \in Values
  /\ Envs \subseteq [Keys -> Values]
  /\ Secrets \cup OldKeys \cup EnvFirst \cup Poller \subseteq Keys /\ Savers \cap Readers = {}
  /\ MaxSaves \in Nat /\ MaxStarts \in Nat

VARIABLES
  db,      \* the table settings: a value for the keys that have a row
  setup,   \* SETUP_COMPLETE
  env,     \* the environment of the process
  boot,    \* how far the program has started
  conf, hub, cache,  \* app.config, hub_config, the result of get_settings
  at, got, \* per thread: where it is, what it has read
  last,    \* per thread: this save completes the setup
  poller, loose,  \* the Mist poller that the global names; others that run
  saved,   \* history: what the user saved last
  legacy, ended,  \* history: the database is an old one; the user ended the setup
  crossed, overlapped,  \* history: a save crossed a read or a save; ever a save
  saves, starts  \* counters for the bounds

tables == <<db, setup>>
globals == <<conf, hub, cache, poller, loose>>
threads == <<at, got, last>>
history == <<saved, legacy, ended, crossed, overlapped>>
settingsVars == <<tables, env, boot, globals, threads, history, saves, starts>>

Unset == "unset"
Nothing == <<>>   \* has not been read
Threads == Savers \cup Readers
NoValues == [k \in Keys |-> ""]

\* effective_value; without a value anywhere it is the default of the registry.
Effective(k) ==
  IF db[k] = Unset \/ (k \in EnvFirst /\ env[k] # "") THEN env[k] ELSE db[k]
AllEffective == [k \in Keys |-> Effective(k)]

\* MIST_ENABLED and MIST_API_KEY, both.
Wanted(c) == \A k \in Poller : c[k] # ""

Busy(T) == {t \in T : at[t] # "idle"}
Goto(t, place) == at' = [at EXCEPT ![t] = place] /\ got' = [got EXCEPT ![t] = Nothing]

-----------------------------------------------------------------------------
(* Start *)

\* A process starts, in an environment of its own.
Start ==
  /\ boot = "down" /\ starts < MaxStarts /\ starts' = starts + 1
  /\ env' \in Envs
  /\ boot' = "legacy"
  /\ UNCHANGED <<tables, globals, threads, history, saves>>

\* ensure_legacy_setup_complete: settings without SETUP_COMPLETE.
EnsureLegacy ==
  /\ boot = "legacy" /\ boot' = "seed"
  /\ setup' = (setup \/ \E k \in Keys : db[k] # Unset)
  /\ UNCHANGED <<db, env, globals, threads, history, saves, starts>>

\* Faulty: keys that exist are brought up to date as well.
FillAll == db' = [k \in Keys |-> IF env[k] # "" \/ db[k] = Unset THEN env[k] ELSE db[k]]

\* INSERT of the keys that have no row: from the environment or the default.
Fill == db' = [k \in Keys |-> IF db[k] = Unset THEN env[k] ELSE db[k]]

\* seed_settings_values_from_env_if_empty
Seed ==
  /\ boot = "seed" /\ boot' = "sync"
  /\ IF \E k \in Keys : db[k] # Unset THEN UNCHANGED db ELSE Fill
  /\ UNCHANGED <<setup, env, globals, threads, history, saves, starts>>

\* sync_registry_settings for the keys of a newer program, and everything is
\* applied before another thread runs.
Sync ==
  /\ boot = "sync" /\ boot' = "up"
  /\ Fill /\ UNCHANGED <<setup, env, threads, saved, legacy, ended, overlapped, saves, starts>>
  /\ conf' = [k \in Keys |-> Effective(k)'] /\ hub' = conf' /\ cache' = Nothing
  /\ poller' = Wanted(conf') /\ loose' = 0
  /\ crossed' = FALSE

\* The process ends at any point.
Crash ==
  /\ boot # "down" /\ boot' = "down"
  /\ at' = [t \in Threads |-> "idle"] /\ got' = [t \in Threads |-> Nothing]
  /\ last' = [t \in Threads |-> FALSE]
  /\ conf' = NoValues /\ hub' = NoValues /\ cache' = Nothing /\ poller' = FALSE /\ loose' = 0
  /\ overlapped' = FALSE
  /\ UNCHANGED <<tables, env, saved, legacy, ended, crossed, saves, starts>>

-----------------------------------------------------------------------------
(* A save *)

\* set_many, one transaction.
SetMany(updates) ==
  [k \in Keys |-> IF k \notin DOMAIN updates \/ (k \in Secrets /\ updates[k] = "")
                  THEN db[k] ELSE updates[k]]

Crosses(t) ==
  /\ crossed' = (Busy(Threads \ {t}) # {})
  /\ overlapped' = (overlapped \/ Busy(Savers \ {t}) # {})

\* PUT /api/settings; the page that is shown until then completes the setup.
Save(t) ==
  /\ boot = "up" /\ at[t] = "idle" /\ saves < MaxSaves /\ saves' = saves + 1
  /\ \E updates \in Updates, complete \in BOOLEAN :
       /\ complete => ~setup
       /\ db' = SetMany(updates)
       /\ saved' = [k \in Keys |->
            IF k \notin DOMAIN updates \/ (k \in Secrets /\ updates[k] = "")
            THEN saved[k] ELSE updates[k]]
       /\ last' = [last EXCEPT ![t] = complete] /\ ended' = (ended \/ complete)
  /\ Goto(t, "conf") /\ Crosses(t)
  /\ UNCHANGED <<setup, env, boot, globals, legacy, starts>>

\* POST /api/settings/reload
Reload(t) ==
  /\ boot = "up" /\ at[t] = "idle" /\ saves < MaxSaves /\ saves' = saves + 1
  /\ Goto(t, "conf") /\ Crosses(t)
  /\ UNCHANGED <<tables, env, boot, globals, last, saved, legacy, ended, starts>>

\* Every key is read in a transaction of its own.
ReadKey(t) ==
  /\ at[t] \in {"conf", "hub", "get", "again"}
  /\ at[t] \in {"get", "again"} => cache = Nothing \/ got[t] # Nothing
  /\ \E i \in DOMAIN Registry :
       /\ DOMAIN got[t] = {Registry[j] : j \in 1..(i - 1)}
       /\ LET k == Registry[i]
          IN  got' = [got EXCEPT ![t] =
                        [j \in DOMAIN @ \cup {k} |-> IF j = k THEN Effective(k) ELSE @[j]]]
  /\ UNCHANGED <<tables, env, boot, globals, at, last, history, saves, starts>>

HasAll(t) == DOMAIN got[t] = Keys

\* refresh_config_module, invalidate_settings_cache
RefreshConfig(t) ==
  /\ at[t] = "conf" /\ HasAll(t)
  /\ conf' = got[t] /\ cache' = Nothing
  /\ Goto(t, "hub")
  /\ UNCHANGED <<tables, env, boot, hub, poller, loose, last, history, saves, starts>>

\* hub_config.refresh_from_settings(build_settings(store))
RefreshHub(t) ==
  /\ at[t] = "hub" /\ HasAll(t)
  /\ hub' = got[t]
  /\ Goto(t, "get")
  /\ UNCHANGED <<tables, env, boot, conf, cache, poller, loose, last, history, saves, starts>>

\* get_settings: from the cache, or what was built; of two that built it at once
\* the first one fills the cache, whatever was cleared meanwhile.
Got(t, place) ==
  /\ got' = [got EXCEPT ![t] = IF HasAll(t) THEN @ ELSE cache]
  /\ cache' = IF cache = Nothing THEN got[t] ELSE cache
  /\ at' = [at EXCEPT ![t] = place]
Ready(t) == HasAll(t) \/ (got[t] = Nothing /\ cache # Nothing)

\* Another thread asks.
AskSettings(t) ==
  /\ boot = "up" /\ at[t] = "idle" /\ cache = Nothing
  /\ Goto(t, "get")
  /\ UNCHANGED <<tables, env, boot, globals, last, history, saves, starts>>

Answered(t) ==
  /\ at[t] = "get" /\ HasAll(t)
  /\ cache' = IF cache = Nothing THEN got[t] ELSE cache
  /\ Goto(t, "idle")
  /\ UNCHANGED <<tables, env, boot, conf, hub, poller, loose, last, history, saves, starts>>

\* reconfigure_mist_poller: what is wanted and what is there.
Look(t) ==
  /\ at[t] = "get" /\ Ready(t) /\ Got(t, "look")
  /\ UNCHANGED <<tables, env, boot, conf, hub, poller, loose, last, history, saves, starts>>

Decide(t) ==
  /\ at[t] = "look"
  /\ Goto(t, IF Wanted(got[t]) /\ ~poller THEN "again"
             ELSE IF ~Wanted(got[t]) /\ poller THEN "stop" ELSE "done")
  /\ UNCHANGED <<tables, env, boot, globals, last, history, saves, starts>>

\* _start_mist_poller asks once more, and the global is overwritten.
StartPoller(t) ==
  /\ at[t] = "again" /\ Ready(t)
  /\ LET c == IF HasAll(t) THEN got[t] ELSE cache
     IN  /\ poller' = (poller \/ Wanted(c))
         /\ loose' = IF poller /\ Wanted(c) THEN loose + 1 ELSE loose
  /\ cache' = IF cache = Nothing THEN got[t] ELSE cache
  /\ Goto(t, "done")
  /\ UNCHANGED <<tables, env, boot, conf, hub, last, history, saves, starts>>

\* Two that stop it: the second one finds None, and its exception is logged.
StopPoller(t) ==
  /\ at[t] = "stop"
  /\ poller' = FALSE
  /\ Goto(t, "done")
  /\ UNCHANGED <<tables, env, boot, conf, hub, cache, loose, last, history, saves, starts>>

\* mark_setup_complete, at the very end.
EndSave(t) ==
  /\ at[t] = "done"
  /\ setup' = (setup \/ last[t])
  /\ last' = [last EXCEPT ![t] = FALSE]
  /\ Goto(t, "idle")
  /\ UNCHANGED <<db, env, boot, globals, history, saves, starts>>

\* POST /api/setup/skip
SkipSetup ==
  /\ boot = "up" /\ ~setup
  /\ setup' = TRUE /\ ended' = TRUE
  /\ UNCHANGED <<db, env, boot, globals, threads, saved, legacy, crossed, overlapped, saves, starts>>

-----------------------------------------------------------------------------
\* A new database, or one of a program that knew some of the keys and no setup.
SettingsInit ==
  /\ db \in {[k \in Keys |-> IF k \in K THEN "x" ELSE Unset] : K \in {{}, OldKeys}}
  /\ legacy = (\E k \in Keys : db[k] # Unset)
  /\ setup = FALSE /\ env = NoValues /\ boot = "down"
  /\ conf = NoValues /\ hub = NoValues /\ cache = Nothing /\ poller = FALSE /\ loose = 0
  /\ at = [t \in Threads |-> "idle"] /\ got = [t \in Threads |-> Nothing]
  /\ last = [t \in Threads |-> FALSE]
  /\ saved = [k \in Keys |-> Unset] /\ ended = FALSE /\ crossed = FALSE /\ overlapped = FALSE
  /\ saves = 0 /\ starts = 0

SettingsNext ==
  \/ Start \/ EnsureLegacy \/ Seed \/ Sync \/ Crash \/ SkipSetup
  \/ \E t \in Threads : ReadKey(t)
  \/ \E t \in Savers : \/ Save(t) \/ Reload(t) \/ RefreshConfig(t) \/ RefreshHub(t)
                       \/ Look(t) \/ Decide(t) \/ StartPoller(t) \/ StopPoller(t) \/ EndSave(t)
  \/ \E t \in Readers : AskSettings(t) \/ Answered(t)

SettingsSpec == SettingsInit /\ [][SettingsNext]_settingsVars
-----------------------------------------------------------------------------
SettingsTypeOK ==
  /\ db \in [Keys -> Values \cup {Unset}] /\ env \in [Keys -> Values]
  /\ conf \in [Keys -> Values] /\ hub \in [Keys -> Values]
  /\ cache = Nothing \/ cache \in [Keys -> Values]
  /\ boot \in {"down", "legacy", "seed", "sync", "up"}
  /\ \A t \in Threads :
        /\ DOMAIN got[t] \subseteq Keys /\ (boot # "up" => at[t] = "idle")
        /\ at[t] \in {"idle", "conf", "hub", "get", "look", "again", "stop", "done"}

\* Once a save has come to its end everybody goes by it: both modules of globals,
\* the cached settings if there are any, and the poller, whoever asked for
\* settings after the save had been committed.  Excepted are saves that crossed
\* another one, or a thread that was in the middle of reading the keys; a save or
\* reload afterwards puts that right, but not a second poller, which only two
\* saves at once can start.
Applied ==
  /\ boot = "up" /\ Busy(Threads) = {} /\ ~crossed =>
       /\ conf = AllEffective /\ hub = AllEffective
       /\ cache # Nothing => cache = AllEffective
       /\ poller = Wanted(AllEffective)
  /\ boot = "up" /\ ~overlapped => loose = 0

\* What the user saved stays in effect until it is saved anew, through restarts
\* in any environment, crashes during the start and newer registries, and saves
\* that cross one another; an empty secret in the form changes nothing.  Only of
\* the settings that the process needs to find its database the environment may
\* hide what was saved, in which case it is that of this process, and what was
\* saved is in effect again in a process that is started without it.
SavedWins ==
  boot = "up" => \A k \in Keys : saved[k] # Unset =>
    Effective(k) = IF k \in EnvFirst /\ env[k] # "" THEN env[k] ELSE saved[k]

\* "Does not set SETUP_COMPLETE - the setup wizard still runs on first visit."
\* (store.py:266), "Mark setup done for databases created before SETUP_COMPLETE
\* existed." (store.py:469): a new database shows the wizard until the user has
\* ended it.
SetupAsked == setup => ended \/ legacy

\* What was saved is applied and stays.
SettingsSound == Applied /\ SavedWins
=============================================================================
