---------------------------- MODULE WorkbenchProofs ----------------------------
(***************************************************************************)
(* Theorems about the small components of the web workbench.  Settings:    *)
(* what was saved stays, and everybody goes by it once a save that crossed *)
(* nothing has come to its end, for any registry, environments and numbers *)
(* of threads.  MetaSummary: no two summaries of a kind cover the same     *)
(* hours, and each has seen its window, however many workers were stopped  *)
(* in a call and go on beside their successors.  Severity: the two filters *)
(* agree on what is severe, for every priority.                            *)
(***************************************************************************)
EXTENDS Settings, MetaSummary, Severity, Integers, SequenceTheorems, FiniteSetTheorems, NaturalsInduction,
        WellFoundedInduction, TLAPS

-----------------------------------------------------------------------------
(* What was saved. *)

\* The row of a key that the user saved holds what the user saved.
SavedInv ==
  /\ db \in [Keys -> Values \cup {Unset}] /\ env \in [Keys -> Values]
  /\ saved \in [Keys -> Values \cup {Unset}]
  /\ \A k \in Keys : saved[k] # Unset => db[k] = saved[k]

LEMMA ValueSet == Unset \notin Values
BY DEF Unset, Values

\* Seeding fills gaps only.
LEMMA FillKeeps ==
  ASSUME SavedInv, Fill
  PROVE  /\ db' \in [Keys -> Values]
         /\ \A k \in Keys : saved[k] # Unset => db'[k] = saved[k]
BY DEF SavedInv, Fill

LEMMA SavedStep ==
  ASSUME SavedInv, [SettingsNext]_settingsVars
  PROVE  SavedInv'
<1> USE SettingsAssumption DEF SettingsAssumption
<1>1. ASSUME UNCHANGED <<db, env, saved>> PROVE SavedInv'
  BY <1>1 DEF SavedInv
<1>2. CASE Start
  BY <1>2 DEF Start, tables, history, SavedInv
<1>3. CASE Seed \/ Sync
  <2>1. UNCHANGED <<env, saved>> /\ (UNCHANGED db \/ Fill)
    BY <1>3 DEF Seed, Sync, history
  <2>2. QED
    BY <1>1, <2>1, FillKeeps DEF SavedInv
<1>4. ASSUME NEW t \in Savers, Save(t) PROVE SavedInv'
  <2>1. PICK updates \in Updates :
          /\ db' = SetMany(updates)
          /\ saved' = [k \in Keys |->
               IF k \notin DOMAIN updates \/ (k \in Secrets /\ updates[k] = "")
               THEN saved[k] ELSE updates[k]]
    BY <1>4 DEF Save
  <2>2. UNCHANGED env
    BY <1>4 DEF Save
  <2>3. QED
    BY <2>1, <2>2 DEF SavedInv, SetMany
<1>5. CASE EnsureLegacy \/ Crash \/ SkipSetup
  BY <1>1, <1>5 DEF EnsureLegacy, Crash, SkipSetup, tables, history
<1>6. ASSUME NEW t \in Threads, ReadKey(t) PROVE SavedInv'
  BY <1>1, <1>6 DEF ReadKey, tables, history
<1>7. ASSUME NEW t \in Savers,
             \/ Reload(t) \/ RefreshConfig(t) \/ RefreshHub(t) \/ Look(t)
             \/ Decide(t) \/ StartPoller(t) \/ StopPoller(t) \/ EndSave(t)
      PROVE  SavedInv'
  <2>1. UNCHANGED <<db, env, saved>>
    BY <1>7 DEF Reload, RefreshConfig, RefreshHub, Look, Decide, StartPoller, StopPoller,
                EndSave, tables, history
  <2>2. QED
    BY <1>1, <2>1
<1>8. ASSUME NEW t \in Readers, AskSettings(t) \/ Answered(t) PROVE SavedInv'
  BY <1>1, <1>8 DEF AskSettings, Answered, tables, history
<1>9. CASE UNCHANGED settingsVars
  BY <1>1, <1>9 DEF settingsVars, tables, history
<1>10. QED
  BY <1>2, <1>3, <1>4, <1>5, <1>6, <1>7, <1>8, <1>9 DEF SettingsNext

LEMMA SavedInvHolds == SettingsSpec => []SavedInv
<1>1. SettingsInit => SavedInv
  <2> SUFFICES ASSUME SettingsInit PROVE SavedInv
    OBVIOUS
  <2>1. PICK K : db = [k \in Keys |-> IF k \in K THEN "x" ELSE Unset]
    BY DEF SettingsInit
  <2>2. db \in [Keys -> Values \cup {Unset}]
    BY <2>1 DEF Values
  <2>3. env = [k \in Keys |-> ""] /\ saved = [k \in Keys |-> Unset]
    BY DEF SettingsInit, NoValues
  <2>4. QED
    BY <2>2, <2>3 DEF SavedInv, Values
<1>2. QED
  BY <1>1, SavedStep, PTL DEF SettingsSpec

\* What the user saved stays in effect until it is saved anew, through restarts
\* in any environment, crashes during the start and newer registries, and saves
\* that cross one another.  Only of the settings that the process needs to find
\* its database a value in the environment hides what was saved.
THEOREM SavedHolds == SettingsSpec => []SavedWins
<1>1. SavedInv => SavedWins
  BY DEF SavedInv, SavedWins, Effective
<1>2. QED
  BY <1>1, SavedInvHolds, PTL

-----------------------------------------------------------------------------
(* What is in force. *)

\* What a thread has read of the settings is what they are.
Current(t) == \A k \in DOMAIN got[t] : got[t][k] = Effective(k)
IsFunction(f) == f = [k \in DOMAIN f |-> f[k]]

Places == {"idle", "conf", "hub", "get", "look", "again", "stop", "done"}
Active(t) == at[t] # "idle"

\* Where each thread is, and what it holds there.
PlaceInv ==
  /\ at \in [Threads -> Places] /\ DOMAIN got = Threads
  /\ poller \in BOOLEAN /\ overlapped \in BOOLEAN /\ crossed \in BOOLEAN
  /\ \A t \in Threads : IsFunction(got[t]) /\ DOMAIN got[t] \subseteq Keys
  /\ \A t \in Threads : at[t] = "idle" => got[t] = Nothing
  /\ \A t \in Readers : at[t] \in {"idle", "get"}
  /\ boot # "up" => \A t \in Threads : at[t] = "idle"
  /\ cache = Nothing \/ (IsFunction(cache) /\ DOMAIN cache \subseteq Keys)

\* A second poller takes two savers that overlap.
LooseInv ==
  boot = "up" /\ ~overlapped =>
    /\ loose = 0
    /\ \A t, u \in Savers : Active(t) /\ Active(u) => t = u
    /\ \A t \in Savers : at[t] = "again" => ~poller

\* As long as nothing has crossed the last save, at most one saver is under way,
\* everything read since is what the settings are, and what the saver has passed
\* is in force.
ForceInv ==
  boot = "up" /\ ~crossed =>
    /\ \A t, u \in Savers : Active(t) /\ Active(u) => t = u
    /\ \A t \in Threads : Current(t)
    /\ cache # Nothing => cache = AllEffective \/ \E t \in Savers : at[t] = "conf"
    /\ (\A t \in Savers : at[t] # "conf") => conf = AllEffective
    /\ (\A t \in Savers : at[t] \notin {"conf", "hub"}) => hub = AllEffective
    /\ (\A t \in Savers : at[t] \in {"idle", "done"}) => poller = Wanted(AllEffective)
    /\ \A t \in Savers :
         /\ at[t] = "look" => got[t] = AllEffective
         /\ at[t] = "again" => Wanted(AllEffective) /\ ~poller
         /\ at[t] = "stop" => ~Wanted(AllEffective)

LEMMA Empty == DOMAIN Nothing = {} /\ IsFunction(Nothing)
BY DEF Nothing, IsFunction

\* What a thread has read in full is the settings, if all of it is current.
LEMMA Whole ==
  ASSUME PlaceInv, NEW t \in Threads, HasAll(t), Current(t)
  PROVE  got[t] = AllEffective
<1>1. got[t] = [k \in Keys |-> got[t][k]]
  BY DEF PlaceInv, IsFunction, HasAll
<1>2. \A k \in Keys : got[t][k] = Effective(k)
  BY DEF HasAll, Current
<1>3. QED
  BY <1>1, <1>2 DEF AllEffective

LEMMA GotoEffect ==
  ASSUME PlaceInv, NEW t \in Threads, NEW place \in Places, Goto(t, place)
  PROVE  /\ at' \in [Threads -> Places] /\ DOMAIN got' = Threads
         /\ at'[t] = place /\ got'[t] = Nothing
         /\ \A u \in Threads \ {t} : at'[u] = at[u] /\ got'[u] = got[u]
BY DEF Goto, PlaceInv

\* A thread reads the next key.
LEMMA ReadEffect ==
  ASSUME PlaceInv, NEW t \in Threads, ReadKey(t)
  PROVE  /\ DOMAIN got' = Threads /\ at[t] \in {"conf", "hub", "get", "again"}
         /\ IsFunction(got'[t]) /\ DOMAIN got'[t] \subseteq Keys
         /\ Current(t) => \A k \in DOMAIN got'[t] : got'[t][k] = Effective(k)
         /\ \A u \in Threads \ {t} : got'[u] = got[u]
<1>1. PICK i \in DOMAIN Registry :
        LET k == Registry[i]
        IN  got' = [got EXCEPT ![t] =
                      [j \in DOMAIN got[t] \cup {k} |-> IF j = k THEN Effective(k) ELSE got[t][j]]]
  BY DEF ReadKey
<1> DEFINE k == Registry[i]
           new == [j \in DOMAIN got[t] \cup {k} |-> IF j = k THEN Effective(k) ELSE got[t][j]]
<1>2. k \in Keys
  BY DEF Keys
<1>3. got' = [got EXCEPT ![t] = new]
  BY <1>1
<1>4. /\ DOMAIN new = DOMAIN got[t] \cup {k}
      /\ \A j \in DOMAIN new : new[j] = IF j = k THEN Effective(k) ELSE got[t][j]
      /\ new = [j \in DOMAIN new |-> new[j]]
  OBVIOUS
<1> HIDE DEF new
<1>5. DOMAIN got' = Threads /\ got'[t] = new /\ \A u \in Threads \ {t} : got'[u] = got[u]
  BY <1>3 DEF PlaceInv
<1>6. IsFunction(new) /\ DOMAIN new \subseteq Keys
  BY <1>2, <1>4 DEF IsFunction, PlaceInv
<1>7. Current(t) => \A j \in DOMAIN new : new[j] = Effective(j)
  BY <1>4 DEF Current
<1>8. at[t] \in {"conf", "hub", "get", "again"}
  BY DEF ReadKey
<1>9. QED
  BY <1>5, <1>6, <1>7, <1>8

LEMMA PlaceStep ==
  ASSUME PlaceInv, [SettingsNext]_settingsVars
  PROVE  PlaceInv'
<1> USE SettingsAssumption DEF SettingsAssumption
<1> DEFINE Flags == poller \in BOOLEAN /\ overlapped \in BOOLEAN /\ crossed \in BOOLEAN
           Cached == cache = Nothing \/ (IsFunction(cache) /\ DOMAIN cache \subseteq Keys)
<1>0. Flags /\ Cached
  BY DEF PlaceInv
<1>p. "idle" \in Places /\ Savers \subseteq Threads /\ Readers \subseteq Threads
  BY DEF Places, Threads
<1>1. ASSUME UNCHANGED threads, boot' # "up" => boot # "up", Flags', Cached' PROVE PlaceInv'
  BY <1>1 DEF PlaceInv, threads
<1>2. ASSUME NEW t \in Threads, NEW place \in Places, Goto(t, place),
             t \in Readers => place \in {"idle", "get"},
             boot' # "up" => boot # "up" /\ place = "idle", Flags', Cached'
      PROVE  PlaceInv'
  <2>1. /\ at' \in [Threads -> Places] /\ DOMAIN got' = Threads
        /\ at'[t] = place /\ got'[t] = Nothing
        /\ \A u \in Threads \ {t} : at'[u] = at[u] /\ got'[u] = got[u]
    BY <1>2, GotoEffect
  <2>2. \A u \in Threads : IsFunction(got'[u]) /\ DOMAIN got'[u] \subseteq Keys
    BY <2>1, Empty DEF PlaceInv
  <2>3. QED
    BY <1>2, <1>p, <2>1, <2>2 DEF PlaceInv
<1>3. CASE Start \/ EnsureLegacy \/ Seed
  <2>1. UNCHANGED <<threads, cache, poller, overlapped, crossed>> /\ boot # "up"
    BY <1>3 DEF Start, EnsureLegacy, Seed, globals, history
  <2>2. QED
    BY <1>0, <1>1, <2>1
<1>4. CASE Sync
  <2>1. UNCHANGED <<threads, overlapped>> /\ cache' = Nothing /\ crossed' = FALSE
        /\ boot # "up" /\ poller' = Wanted(conf')
    BY <1>4 DEF Sync
  <2>2. poller' \in BOOLEAN
    BY <2>1 DEF Wanted
  <2>3. QED
    BY <1>0, <1>1, <2>1, <2>2
<1>5. CASE Crash
  <2>1. /\ at' = [t \in Threads |-> "idle"] /\ got' = [t \in Threads |-> Nothing]
        /\ cache' = Nothing /\ poller' = FALSE /\ overlapped' = FALSE /\ UNCHANGED crossed
    BY <1>5 DEF Crash
  <2>2. QED
    BY <1>0, <1>p, <2>1, Empty DEF PlaceInv
<1>6. CASE SkipSetup
  BY <1>0, <1>1, <1>6 DEF SkipSetup, globals
<1>7. ASSUME NEW t \in Threads, ReadKey(t) PROVE PlaceInv'
  <2>1. UNCHANGED <<at, boot, cache, poller, overlapped, crossed>>
    BY <1>7 DEF ReadKey, globals, history
  <2>2. /\ DOMAIN got' = Threads /\ at[t] # "idle"
        /\ IsFunction(got'[t]) /\ DOMAIN got'[t] \subseteq Keys
        /\ \A u \in Threads \ {t} : got'[u] = got[u]
    BY <1>7, ReadEffect
  <2>3. QED
    BY <2>1, <2>2 DEF PlaceInv
<1>8. ASSUME NEW t \in Savers, Save(t) \/ Reload(t) PROVE PlaceInv'
  <2>1. /\ Goto(t, "conf") /\ boot = "up" /\ UNCHANGED <<boot, cache, poller>>
        /\ Crosses(t) /\ "conf" \in Places
    BY <1>8 DEF Save, Reload, globals, Places
  <2>2. crossed' \in BOOLEAN /\ overlapped' \in BOOLEAN
    BY <1>0, <2>1 DEF Crosses
  <2>3. QED
    BY <1>0, <1>2, <1>p, <2>1, <2>2
<1>9. ASSUME NEW t \in Savers, RefreshConfig(t) PROVE PlaceInv'
  <2>1. /\ Goto(t, "hub") /\ UNCHANGED <<boot, poller, crossed, overlapped>> /\ cache' = Nothing
        /\ at[t] = "conf" /\ "hub" \in Places
    BY <1>9 DEF RefreshConfig, history, Places
  <2>2. QED
    BY <1>0, <1>2, <1>p, <2>1 DEF PlaceInv
<1>10. ASSUME NEW t \in Savers, RefreshHub(t) PROVE PlaceInv'
  <2>1. /\ Goto(t, "get") /\ UNCHANGED <<boot, poller, crossed, overlapped, cache>>
        /\ at[t] = "hub" /\ "get" \in Places
    BY <1>10 DEF RefreshHub, history, Places
  <2>2. QED
    BY <1>0, <1>2, <1>p, <2>1 DEF PlaceInv
<1>11. ASSUME NEW t \in Threads PROVE IsFunction(got[t]) /\ DOMAIN got[t] \subseteq Keys
  BY DEF PlaceInv
<1>12. ASSUME NEW t \in Savers, Look(t) PROVE PlaceInv'
  <2>1. /\ got' = [got EXCEPT ![t] = IF HasAll(t) THEN got[t] ELSE cache]
        /\ cache' = IF cache = Nothing THEN got[t] ELSE cache
        /\ at' = [at EXCEPT ![t] = "look"] /\ at[t] = "get"
        /\ UNCHANGED <<boot, poller, crossed, overlapped>> /\ "look" \in Places
    BY <1>12 DEF Look, Got, history, Places
  <2>2. at' \in [Threads -> Places] /\ at'[t] = "look" /\ \A u \in Threads \ {t} : at'[u] = at[u]
    BY <1>p, <2>1 DEF PlaceInv
  <2>3. /\ DOMAIN got' = Threads /\ \A u \in Threads \ {t} : got'[u] = got[u]
        /\ got'[t] = got[t] \/ got'[t] = cache
    BY <1>p, <2>1 DEF PlaceInv
  <2>4. \A u \in Threads : IsFunction(got'[u]) /\ DOMAIN got'[u] \subseteq Keys
    BY <1>0, <1>11, <2>3, Empty
  <2>5. Cached'
    BY <1>0, <1>11, <1>p, <2>1
  <2>6. t \notin Readers /\ t \in Threads
    BY <1>p
  <2>7. boot = "up"
    BY <2>1, <2>6 DEF PlaceInv
  <2>8. QED
    BY <1>0, <1>p, <2>1, <2>2, <2>3, <2>4, <2>5, <2>6, <2>7 DEF PlaceInv
<1>13. ASSUME NEW t \in Savers, Decide(t) PROVE PlaceInv'
  <2>1. PICK place \in {"again", "stop", "done"} : Goto(t, place)
    BY <1>13 DEF Decide
  <2>2. /\ UNCHANGED <<boot, poller, crossed, overlapped, cache>> /\ at[t] = "look"
        /\ place \in Places
    BY <1>13 DEF Decide, history, globals, Places
  <2>3. QED
    BY <1>0, <1>2, <1>p, <2>1, <2>2 DEF PlaceInv
<1>14. ASSUME NEW t \in Savers, StartPoller(t) PROVE PlaceInv'
  <2>1. /\ Goto(t, "done") /\ UNCHANGED <<boot, crossed, overlapped>> /\ at[t] = "again"
        /\ cache' = IF cache = Nothing THEN got[t] ELSE cache
        /\ poller' = (poller \/ Wanted(IF HasAll(t) THEN got[t] ELSE cache))
        /\ "done" \in Places
    BY <1>14 DEF StartPoller, history, Places
  <2>2. poller' \in BOOLEAN
    BY <2>1 DEF Wanted
  <2>3. Cached'
    BY <1>0, <1>11, <1>p, <2>1
  <2>4. QED
    BY <1>0, <1>2, <1>p, <2>1, <2>2, <2>3 DEF PlaceInv
<1>15. ASSUME NEW t \in Savers, StopPoller(t) PROVE PlaceInv'
  <2>1. /\ Goto(t, "done") /\ UNCHANGED <<boot, crossed, overlapped, cache>> /\ at[t] = "stop"
        /\ poller' = FALSE /\ "done" \in Places
    BY <1>15 DEF StopPoller, history, Places
  <2>2. QED
    BY <1>0, <1>2, <1>p, <2>1 DEF PlaceInv
<1>16. ASSUME NEW t \in Savers, EndSave(t) PROVE PlaceInv'
  <2>1. Goto(t, "idle") /\ UNCHANGED <<boot, crossed, overlapped, cache, poller>>
    BY <1>16 DEF EndSave, history, globals
  <2>2. QED
    BY <1>0, <1>2, <1>p, <2>1
<1>17. ASSUME NEW t \in Readers, AskSettings(t) PROVE PlaceInv'
  <2>1. /\ Goto(t, "get") /\ boot = "up" /\ "get" \in Places
        /\ UNCHANGED <<boot, crossed, overlapped, cache, poller>>
    BY <1>17 DEF AskSettings, history, globals, Places
  <2>2. QED
    BY <1>0, <1>2, <1>p, <2>1
<1>18. ASSUME NEW t \in Readers, Answered(t) PROVE PlaceInv'
  <2>1. /\ Goto(t, "idle") /\ UNCHANGED <<boot, crossed, overlapped, poller>>
        /\ cache' = IF cache = Nothing THEN got[t] ELSE cache
    BY <1>18 DEF Answered, history
  <2>2. Cached'
    BY <1>0, <1>11, <1>p, <2>1
  <2>3. QED
    BY <1>0, <1>2, <1>p, <2>1, <2>2
<1>19. CASE UNCHANGED settingsVars
  BY <1>0, <1>1, <1>19 DEF settingsVars, globals, history
<1>20. QED
  BY <1>3, <1>4, <1>5, <1>6, <1>7, <1>8, <1>9, <1>10, <1>12, <1>13, <1>14, <1>15, <1>16,
     <1>17, <1>18, <1>19 DEF SettingsNext
\* A second poller is started only by a saver that did not see the first.
LEMMA LooseStep ==
  ASSUME PlaceInv, PlaceInv', LooseInv, [SettingsNext]_settingsVars
  PROVE  LooseInv'
<1> USE SettingsAssumption DEF SettingsAssumption
<1>p. Savers \subseteq Threads /\ Savers \cap Readers = {}
  BY DEF Threads
<1>1. ASSUME boot' = "up" => boot = "up", UNCHANGED <<loose, overlapped>>,
             \A t \in Savers : Active(t)' => Active(t),
             \A t \in Savers : (at[t] = "again")' => at[t] = "again" /\ poller' = poller
      PROVE  LooseInv'
  BY <1>1 DEF LooseInv
<1>2. ASSUME NEW t \in Savers, NEW place \in Places, Goto(t, place)
      PROVE  at'[t] = place /\ \A u \in Savers \ {t} : at'[u] = at[u]
  BY <1>2, <1>p, GotoEffect
<1>3. CASE Start \/ EnsureLegacy \/ Seed \/ Crash
  BY <1>3 DEF Start, EnsureLegacy, Seed, Crash, LooseInv
<1>4. CASE Sync
  <2>1. loose' = 0 /\ boot # "up" /\ UNCHANGED at
    BY <1>4 DEF Sync, threads
  <2>2. \A t \in Savers : at'[t] = "idle"
    BY <1>p, <2>1 DEF PlaceInv
  <2>3. QED
    BY <2>1, <2>2 DEF LooseInv, Active
<1>5. CASE SkipSetup
  BY <1>1, <1>5 DEF SkipSetup, globals, threads, Active
<1>6. ASSUME NEW t \in Threads, ReadKey(t) PROVE LooseInv'
  BY <1>1, <1>6 DEF ReadKey, globals, history, Active
<1>7. ASSUME NEW t \in Savers, Save(t) \/ Reload(t) PROVE LooseInv'
  <2>1. /\ Goto(t, "conf") /\ UNCHANGED <<boot, loose, poller>> /\ Crosses(t) /\ "conf" \in Places
    BY <1>7 DEF Save, Reload, globals, Places
  <2>2. at'[t] = "conf" /\ \A u \in Savers \ {t} : at'[u] = at[u]
    BY <1>2, <2>1
  <2>3. ~overlapped' => ~overlapped /\ \A u \in Savers \ {t} : at[u] = "idle"
    BY <2>1 DEF Crosses, Busy
  <2>4. QED
    BY <2>1, <2>2, <2>3 DEF LooseInv, Active
<1>8. ASSUME NEW t \in Savers,
             RefreshConfig(t) \/ RefreshHub(t) \/ Look(t) \/ EndSave(t) \/ StopPoller(t)
      PROVE  LooseInv'
  <2>1. UNCHANGED <<boot, loose, overlapped>> /\ at[t] # "idle" /\ (UNCHANGED poller \/ at[t] = "stop")
    BY <1>8 DEF RefreshConfig, RefreshHub, Look, EndSave, StopPoller, history, globals
  <2>2. \E place \in {"hub", "get", "look", "idle", "done"} :
          at'[t] = place /\ \A u \in Savers \ {t} : at'[u] = at[u]
    BY <1>8, <1>p DEF RefreshConfig, RefreshHub, Look, Got, EndSave, StopPoller, Goto, PlaceInv
  <2>3. CASE UNCHANGED poller
    BY <1>1, <2>1, <2>2, <2>3 DEF Active
  <2>4. CASE at[t] = "stop"
    BY <2>1, <2>2, <2>4 DEF LooseInv, Active
  <2>5. QED
    BY <2>1, <2>3, <2>4
<1>9. ASSUME NEW t \in Savers, Decide(t) PROVE LooseInv'
  <2>1. PICK place \in {"again", "stop", "done"} :
          Goto(t, place) /\ (place = "again" => ~poller)
    BY <1>9 DEF Decide
  <2>2. UNCHANGED <<boot, loose, overlapped, poller>> /\ at[t] = "look" /\ place \in Places
    BY <1>9 DEF Decide, history, globals, Places
  <2>3. at'[t] = place /\ \A u \in Savers \ {t} : at'[u] = at[u]
    BY <1>2, <2>1, <2>2
  <2>4. QED
    BY <2>1, <2>2, <2>3 DEF LooseInv, Active
<1>10. ASSUME NEW t \in Savers, StartPoller(t) PROVE LooseInv'
  <2>1. /\ Goto(t, "done") /\ UNCHANGED <<boot, overlapped>> /\ at[t] = "again" /\ "done" \in Places
        /\ ~poller => UNCHANGED loose
    BY <1>10 DEF StartPoller, history, Places
  <2>2. at'[t] = "done" /\ \A u \in Savers \ {t} : at'[u] = at[u]
    BY <1>2, <2>1
  <2>3. QED
    BY <2>1, <2>2 DEF LooseInv, Active
<1>11. ASSUME NEW t \in Readers, AskSettings(t) \/ Answered(t) PROVE LooseInv'
  <2>1. UNCHANGED <<boot, loose, overlapped, poller>> /\ \E place \in Places : Goto(t, place)
    BY <1>11 DEF AskSettings, Answered, globals, history, Places
  <2>2. \A u \in Savers : at'[u] = at[u]
    BY <1>p, <2>1, GotoEffect DEF Threads
  <2>3. QED
    BY <1>1, <2>1, <2>2 DEF Active
<1>12. CASE UNCHANGED settingsVars
  BY <1>1, <1>12 DEF settingsVars, globals, threads, history, Active
<1>13. QED
  BY <1>3, <1>4, <1>5, <1>6, <1>7, <1>8, <1>9, <1>10, <1>11, <1>12 DEF SettingsNext
\* What a saver passes comes into force, unless something crosses the save.
LEMMA ForceStep ==
  ASSUME PlaceInv, PlaceInv', ForceInv, [SettingsNext]_settingsVars
  PROVE  ForceInv'
<1> USE SettingsAssumption DEF SettingsAssumption
<1>p. Savers \subseteq Threads /\ Readers \subseteq Threads /\ Savers \cap Readers = {}
  BY DEF Threads
<1>c. \A t \in Threads : got[t] = Nothing => Current(t)
  BY Empty DEF Current
<1>e. ASSUME UNCHANGED <<db, env>>
      PROVE  /\ AllEffective' = AllEffective /\ \A k \in Keys : Effective(k)' = Effective(k)
             /\ \A t \in Threads : got'[t] = got[t] /\ Current(t) => Current(t)'
             /\ \A t \in Threads : got'[t] = Nothing => Current(t)'
  <2>1. \A k \in Keys : Effective(k)' = Effective(k)
    BY <1>e DEF Effective
  <2>2. AllEffective' = AllEffective
    BY <2>1 DEF AllEffective
  <2>3. \A k : Effective(k)' = Effective(k)
    BY <1>e DEF Effective
  <2>4. QED
    BY <2>1, <2>2, <2>3, Empty DEF Current
<1>1. ASSUME boot' = "up" => boot = "up",
             UNCHANGED <<db, env, at, got, cache, conf, hub, poller, crossed>>
      PROVE  ForceInv'
  <2>1. AllEffective' = AllEffective /\ \A t \in Threads : Current(t) => Current(t)'
    BY <1>1, <1>e
  <2>2. QED
    BY <1>1, <2>1 DEF ForceInv, Active
<1>2. ASSUME NEW t \in Threads, NEW place \in Places, Goto(t, place)
      PROVE  /\ at'[t] = place /\ got'[t] = Nothing
             /\ \A u \in Threads \ {t} : at'[u] = at[u] /\ got'[u] = got[u]
  BY <1>2, GotoEffect
<1>3. ASSUME boot' # "up" PROVE ForceInv'
  BY <1>3 DEF ForceInv
<1>4. CASE Start \/ EnsureLegacy \/ Seed \/ Crash
  BY <1>3, <1>4 DEF Start, EnsureLegacy, Seed, Crash
<1>5. CASE Sync
  <2>1. /\ conf' = AllEffective' /\ hub' = conf' /\ cache' = Nothing /\ poller' = Wanted(conf')
        /\ boot # "up" /\ UNCHANGED <<at, got>>
    BY <1>5 DEF Sync, threads, AllEffective
  <2>2. \A t \in Threads : at'[t] = "idle" /\ got'[t] = Nothing
    BY <2>1 DEF PlaceInv
  <2>3. \A t \in Threads : Current(t)'
    BY <2>2, Empty DEF Current
  <2>4. QED
    BY <1>p, <2>1, <2>2, <2>3 DEF ForceInv, Active
<1>6. CASE SkipSetup
  BY <1>1, <1>6 DEF SkipSetup, globals, threads
<1>7. ASSUME NEW t \in Threads, ReadKey(t) PROVE ForceInv'
  <2>1. UNCHANGED <<db, env, boot, at, cache, conf, hub, poller, crossed>>
    BY <1>7 DEF ReadKey, tables, globals, history
  <2>2. /\ at[t] # "look" /\ \A u \in Threads \ {t} : got'[u] = got[u]
        /\ Current(t) => \A k \in DOMAIN got'[t] : got'[t][k] = Effective(k)
    BY <1>7, ReadEffect
  <2>3. Current(t) => Current(t)'
    BY <2>1, <2>2 DEF Current, Effective
  <2>4. /\ AllEffective' = AllEffective
        /\ \A u \in Threads : Current(u) => Current(u)'
    BY <1>e, <2>1, <2>2, <2>3
  <2>5. \A u \in Savers : at[u] = "look" => got'[u] = got[u]
    BY <1>p, <2>2
  <2>6. QED
    BY <1>p, <2>1, <2>4, <2>5 DEF ForceInv, Active
<1>8. ASSUME NEW t \in Savers, Save(t) \/ Reload(t) PROVE ForceInv'
  <2>1. /\ Goto(t, "conf") /\ "conf" \in Places
        /\ crossed' = (Busy(Threads \ {t}) # {})
    BY <1>8 DEF Save, Reload, Places, Crosses
  <2>2. ASSUME ~crossed' PROVE \A u \in Threads \ {t} : at[u] = "idle"
    BY <2>1, <2>2 DEF Busy
  <2>3. ASSUME ~crossed'
        PROVE  /\ at'[t] = "conf" /\ \A u \in Threads \ {t} : at'[u] = "idle"
               /\ \A u \in Threads : got'[u] = Nothing
    BY <1>2, <1>p, <2>1, <2>2, <2>3 DEF PlaceInv
  <2>4. ASSUME ~crossed' PROVE \A u \in Threads : Current(u)'
    BY <2>3, <2>4, Empty DEF Current
  <2>5. QED
    BY <1>p, <2>3, <2>4 DEF ForceInv, Active
<1>9. ASSUME NEW t \in Savers, at[t] # "idle", ~crossed, boot = "up"
      PROVE  /\ t \in Threads /\ \A u \in Savers \ {t} : at[u] = "idle"
             /\ HasAll(t) => got[t] = AllEffective
             /\ cache # Nothing /\ at[t] # "conf" => cache = AllEffective
             /\ \A u \in Threads : Current(u)
  <2>1. \A u \in Savers \ {t} : at[u] = "idle"
    BY <1>9 DEF ForceInv, Active
  <2>2. \A u \in Threads : Current(u)
    BY <1>9 DEF ForceInv
  <2>3. HasAll(t) => got[t] = AllEffective
    BY <1>p, <2>2, Whole
  <2>4. cache # Nothing /\ at[t] # "conf" => cache = AllEffective
    BY <1>9, <2>1 DEF ForceInv
  <2>5. QED
    BY <1>p, <2>1, <2>2, <2>3, <2>4
<1>10. ASSUME NEW t \in Savers, NEW place \in Places, at[t] # "idle",
              UNCHANGED <<db, env, boot, crossed>>, Goto(t, place),
              ASSUME ~crossed, boot = "up"
              PROVE  /\ cache' # Nothing => cache' = AllEffective
                     /\ conf' = AllEffective /\ place # "conf"
                     /\ place # "hub" => hub' = AllEffective
                     /\ place \in {"idle", "done"} => poller' = Wanted(AllEffective)
                     /\ place # "look"
                     /\ place = "again" => Wanted(AllEffective) /\ ~poller'
                     /\ place = "stop" => ~Wanted(AllEffective)
       PROVE  ForceInv'
  <2> SUFFICES ASSUME ~crossed, boot = "up" PROVE ForceInv'
    BY <1>10 DEF ForceInv
  <2>1. /\ at'[t] = place /\ got'[t] = Nothing
        /\ \A u \in Threads \ {t} : at'[u] = at[u] /\ got'[u] = got[u]
    BY <1>2, <1>10, <1>p
  <2>2. \A u \in Savers \ {t} : at'[u] = "idle"
    BY <1>9, <1>10, <1>p, <2>1
  <2>3. \A u \in Threads : Current(u)'
    BY <1>9, <1>10, <1>e, <2>1
  <2>4. AllEffective' = AllEffective
    BY <1>10, <1>e
  <2>5. /\ \A u \in Savers : Active(u)' => u = t
        /\ \A u \in Savers : at'[u] = "look" => u = t
        /\ \A u \in Savers : at'[u] = "again" => u = t
        /\ \A u \in Savers : at'[u] = "stop" => u = t
    BY <2>2 DEF Active
  <2>6. QED
    BY <1>10, <2>1, <2>2, <2>3, <2>4, <2>5 DEF ForceInv
<1>11. ASSUME NEW t \in Savers, RefreshConfig(t) PROVE ForceInv'
  <2>1. /\ Goto(t, "hub") /\ at[t] = "conf" /\ HasAll(t) /\ "hub" \in Places
        /\ conf' = got[t] /\ cache' = Nothing /\ UNCHANGED <<db, env, boot, crossed>>
    BY <1>11 DEF RefreshConfig, tables, history, Places
  <2>2. ASSUME ~crossed, boot = "up" PROVE conf' = AllEffective
    BY <1>9, <2>1, <2>2
  <2>3. QED
    BY <1>10, <2>1, <2>2
<1>12. ASSUME NEW t \in Savers, RefreshHub(t) PROVE ForceInv'
  <2>1. /\ Goto(t, "get") /\ at[t] = "hub" /\ HasAll(t) /\ "get" \in Places
        /\ hub' = got[t] /\ UNCHANGED <<db, env, boot, crossed, conf, cache>>
    BY <1>12 DEF RefreshHub, tables, history, Places
  <2>2. ASSUME ~crossed, boot = "up"
        PROVE  hub' = AllEffective /\ conf = AllEffective /\ (cache # Nothing => cache = AllEffective)
    <3>1. hub' = AllEffective /\ \A u \in Savers \ {t} : at[u] = "idle"
      BY <1>9, <2>1, <2>2
    <3>2. \A u \in Savers : at[u] # "conf"
      BY <2>1, <3>1
    <3>3. QED
      BY <2>2, <3>1, <3>2 DEF ForceInv
  <2>3. QED
    BY <1>10, <2>1, <2>2
<1>13. ASSUME NEW t \in Savers, at[t] \notin {"idle", "conf", "hub"}, ~crossed, boot = "up"
       PROVE  conf = AllEffective /\ hub = AllEffective
  <2>1. \A u \in Savers : at[u] \notin {"conf", "hub"}
    BY <1>9, <1>13
  <2>2. QED
    BY <1>13, <2>1 DEF ForceInv
<1>14. ASSUME NEW t \in Savers, Look(t) PROVE ForceInv'
  <2> SUFFICES ASSUME ~crossed, boot = "up" PROVE ForceInv'
    BY <1>14 DEF Look, history, ForceInv
  <2>1. /\ at[t] = "get" /\ Ready(t) /\ t \in Threads
        /\ got' = [got EXCEPT ![t] = IF HasAll(t) THEN got[t] ELSE cache]
        /\ cache' = IF cache = Nothing THEN got[t] ELSE cache
        /\ at' = [at EXCEPT ![t] = "look"]
        /\ UNCHANGED <<db, env, boot, conf, hub, poller, crossed>>
    BY <1>14, <1>p DEF Look, Got, tables, history
  <2>2. /\ HasAll(t) \/ cache # Nothing
        /\ HasAll(t) => got[t] = AllEffective
        /\ cache # Nothing => cache = AllEffective
    BY <1>9, <2>1 DEF Ready
  <2>3. cache' = AllEffective
    BY <2>1, <2>2
  <2>4. got'[t] = AllEffective /\ \A u \in Threads \ {t} : got'[u] = got[u]
    BY <2>1, <2>2 DEF PlaceInv
  <2>5. at'[t] = "look" /\ \A u \in Threads \ {t} : at'[u] = at[u]
    BY <2>1 DEF PlaceInv
  <2>6. AllEffective' = AllEffective /\ \A u \in Threads : Current(u)'
    <3>1. \A u \in Threads \ {t} : Current(u)'
      BY <1>9, <1>e, <2>1, <2>4
    <3>2. Current(t)'
      BY <1>e, <2>1, <2>4 DEF Current, AllEffective
    <3>3. QED
      BY <1>e, <2>1, <3>1, <3>2
  <2>7. \A u \in Savers \ {t} : at'[u] = "idle"
    BY <1>9, <1>p, <2>1, <2>5
  <2>8. conf = AllEffective /\ hub = AllEffective
    BY <1>13, <2>1
  <2>9. /\ \A u \in Savers : Active(u)' => u = t
        /\ \A u \in Savers : at'[u] \notin {"again", "stop", "conf"}
        /\ \A u \in Savers : at'[u] = "look" => u = t
    BY <2>5, <2>7 DEF Active
  <2>10. QED
    BY <2>1, <2>3, <2>4, <2>5, <2>6, <2>8, <2>9 DEF ForceInv
<1>15. ASSUME NEW t \in Savers, Decide(t) PROVE ForceInv'
  <2>1. /\ at[t] = "look" /\ UNCHANGED <<db, env, boot, conf, hub, cache, poller, crossed>>
        /\ Goto(t, IF Wanted(got[t]) /\ ~poller THEN "again"
                   ELSE IF ~Wanted(got[t]) /\ poller THEN "stop" ELSE "done")
    BY <1>15 DEF Decide, tables, globals, history
  <2>2. PICK place \in {"again", "stop", "done"} :
          /\ Goto(t, place)
          /\ place = "again" => Wanted(got[t]) /\ ~poller
          /\ place = "stop" => ~Wanted(got[t])
          /\ place = "done" => (Wanted(got[t]) <=> poller)
    BY <2>1 DEF PlaceInv
  <2>3. ASSUME ~crossed, boot = "up"
        PROVE  /\ got[t] = AllEffective /\ conf = AllEffective /\ hub = AllEffective
               /\ cache # Nothing => cache = AllEffective
    BY <1>9, <1>13, <2>1, <2>3 DEF ForceInv
  <2>4. place = "done" => poller = Wanted(got[t])
    <3>1. poller \in BOOLEAN /\ Wanted(got[t]) \in BOOLEAN
      BY DEF PlaceInv, Wanted
    <3>2. QED
      BY <2>2, <3>1
  <2>5. place \in Places
    BY DEF Places
  <2>6. QED
    BY <1>10, <2>1, <2>2, <2>3, <2>4, <2>5
<1>16. ASSUME NEW t \in Savers, StartPoller(t) PROVE ForceInv'
  <2>1. /\ at[t] = "again" /\ Ready(t) /\ Goto(t, "done") /\ "done" \in Places
        /\ poller' = (poller \/ Wanted(IF HasAll(t) THEN got[t] ELSE cache))
        /\ cache' = IF cache = Nothing THEN got[t] ELSE cache
        /\ UNCHANGED <<db, env, boot, conf, hub, crossed>>
    BY <1>16 DEF StartPoller, tables, history, Places
  <2>2. ASSUME ~crossed, boot = "up"
        PROVE  /\ poller' = Wanted(AllEffective) /\ conf = AllEffective /\ hub = AllEffective
               /\ cache' = AllEffective
    <3>1. /\ HasAll(t) \/ cache # Nothing
          /\ HasAll(t) => got[t] = AllEffective
          /\ cache # Nothing => cache = AllEffective
      BY <1>9, <2>1, <2>2 DEF Ready
    <3>2. (IF HasAll(t) THEN got[t] ELSE cache) = AllEffective /\ cache' = AllEffective
      BY <2>1, <3>1
    <3>3. Wanted(AllEffective) /\ ~poller
      BY <2>1, <2>2 DEF ForceInv
    <3>4. poller' = Wanted(AllEffective)
      BY <2>1, <3>2, <3>3 DEF Wanted
    <3>5. QED
      BY <1>13, <2>1, <2>2, <3>2, <3>4
  <2>3. QED
    BY <1>10, <2>1, <2>2
<1>17. ASSUME NEW t \in Savers, StopPoller(t) PROVE ForceInv'
  <2>1. /\ at[t] = "stop" /\ Goto(t, "done") /\ "done" \in Places /\ poller' = FALSE
        /\ UNCHANGED <<db, env, boot, conf, hub, cache, crossed>>
    BY <1>17 DEF StopPoller, tables, history, Places
  <2>2. ASSUME ~crossed, boot = "up"
        PROVE  /\ poller' = Wanted(AllEffective) /\ conf = AllEffective /\ hub = AllEffective
               /\ cache # Nothing => cache = AllEffective
    <3>1. ~Wanted(AllEffective)
      BY <2>1, <2>2 DEF ForceInv
    <3>2. poller' = Wanted(AllEffective)
      BY <2>1, <3>1 DEF Wanted
    <3>3. QED
      BY <1>9, <1>13, <2>1, <2>2, <3>2
  <2>3. QED
    BY <1>10, <2>1, <2>2
<1>18. ASSUME NEW t \in Savers, EndSave(t) PROVE ForceInv'
  <2>1. /\ at[t] = "done" /\ Goto(t, "idle") /\ "idle" \in Places
        /\ UNCHANGED <<db, env, boot, conf, hub, cache, poller, crossed>>
    BY <1>18 DEF EndSave, globals, history, Places
  <2>2. ASSUME ~crossed, boot = "up"
        PROVE  /\ poller = Wanted(AllEffective) /\ conf = AllEffective /\ hub = AllEffective
               /\ cache # Nothing => cache = AllEffective
    <3>1. \A u \in Savers : at[u] \in {"idle", "done"}
      BY <1>9, <2>1, <2>2
    <3>2. poller = Wanted(AllEffective)
      BY <2>2, <3>1 DEF ForceInv
    <3>3. QED
      BY <1>9, <1>13, <2>1, <2>2, <3>2
  <2>3. QED
    BY <1>10, <2>1, <2>2
<1>19. ASSUME NEW t \in Readers, AskSettings(t) \/ Answered(t) PROVE ForceInv'
  <2> SUFFICES ASSUME ~crossed, boot = "up" PROVE ForceInv'
    BY <1>19 DEF AskSettings, Answered, history, ForceInv
  <2>1. /\ UNCHANGED <<db, env, boot, conf, hub, poller, crossed>>
        /\ \E place \in Places : Goto(t, place)
        /\ UNCHANGED cache \/ (HasAll(t) /\ cache' = IF cache = Nothing THEN got[t] ELSE cache)
    BY <1>19 DEF AskSettings, Answered, tables, globals, history, Places
  <2>2. got'[t] = Nothing /\ \A u \in Threads \ {t} : at'[u] = at[u] /\ got'[u] = got[u]
    BY <1>2, <1>p, <2>1
  <2>3. AllEffective' = AllEffective /\ \A u \in Threads : Current(u)'
    BY <1>e, <2>1, <2>2 DEF ForceInv
  <2>4. HasAll(t) => got[t] = AllEffective
    BY <1>p, Whole DEF ForceInv
  <2>5. cache' = cache \/ cache' = AllEffective
    BY <2>1, <2>4
  <2>6. \A u \in Savers : at'[u] = at[u] /\ got'[u] = got[u]
    BY <1>p, <2>2
  <2>7. QED
    BY <2>1, <2>3, <2>5, <2>6 DEF ForceInv, Active
<1>20. CASE UNCHANGED settingsVars
  BY <1>1, <1>20 DEF settingsVars, tables, globals, threads, history
<1>21. QED
  BY <1>4, <1>5, <1>6, <1>7, <1>8, <1>11, <1>12, <1>14, <1>15, <1>16, <1>17, <1>18,
     <1>19, <1>20 DEF SettingsNext

LEMMA ForceHolds == SettingsSpec => [](PlaceInv /\ LooseInv /\ ForceInv)
<1>1. SettingsInit => PlaceInv /\ LooseInv /\ ForceInv
  <2> SUFFICES ASSUME SettingsInit PROVE PlaceInv /\ LooseInv /\ ForceInv
    OBVIOUS
  <2>1. /\ at = [t \in Threads |-> "idle"] /\ got = [t \in Threads |-> Nothing]
        /\ boot = "down" /\ cache = Nothing /\ poller = FALSE
        /\ overlapped = FALSE /\ crossed = FALSE
    BY DEF SettingsInit
  <2>2. PlaceInv
    BY <2>1, Empty DEF PlaceInv, Places, Threads
  <2>3. LooseInv /\ ForceInv
    BY <2>1 DEF LooseInv, ForceInv
  <2>4. QED
    BY <2>2, <2>3
<1>2. /\ PlaceInv /\ LooseInv /\ ForceInv /\ [SettingsNext]_settingsVars
      => (PlaceInv /\ LooseInv /\ ForceInv)'
  BY PlaceStep, LooseStep, ForceStep
<1>3. QED
  BY <1>1, <1>2, PTL DEF SettingsSpec

\* Once a save that crossed nothing has come to its end, both modules of globals,
\* the cached settings and the poller go by what is saved, and what was saved is
\* in effect; a poller that nobody stops takes two saves at once.
THEOREM SettingsHold == SettingsSpec => []SettingsSound
<1>1. PlaceInv /\ LooseInv /\ ForceInv => Applied
  <2> SUFFICES ASSUME PlaceInv, LooseInv, ForceInv, boot = "up" PROVE Applied
    BY DEF Applied
  <2>1. ASSUME Busy(Threads) = {} PROVE \A t \in Savers : at[t] = "idle"
    BY <2>1 DEF Busy, Threads
  <2>2. QED
    BY <2>1 DEF Applied, LooseInv, ForceInv
<1>2. QED
  BY <1>1, ForceHolds, SavedHolds, PTL DEF SettingsSound

-----------------------------------------------------------------------------
(* The types of the settings. *)

\* Whatever is read, cached or copied into the globals is a value of every key.
ValueInv ==
  /\ conf \in [Keys -> Values] /\ hub \in [Keys -> Values]
  /\ cache = Nothing \/ cache \in [Keys -> Values]
  /\ boot \in {"down", "legacy", "seed", "sync", "up"}
  /\ \A t \in Threads : \A k \in DOMAIN got[t] : got[t][k] \in Values

LEMMA EffectiveTyped == SavedInv => \A k \in Keys : Effective(k) \in Values
BY DEF SavedInv, Effective

LEMMA WholeTyped ==
  ASSUME PlaceInv, ValueInv, NEW t \in Threads, HasAll(t)
  PROVE  got[t] \in [Keys -> Values]
<1>1. got[t] = [k \in Keys |-> got[t][k]]
  BY DEF PlaceInv, IsFunction, HasAll
<1>2. \A k \in Keys : got[t][k] \in Values
  BY DEF HasAll, ValueInv
<1>3. QED
  BY <1>1, <1>2

LEMMA ValueStep ==
  ASSUME SavedInv, SavedInv', PlaceInv, ValueInv, [SettingsNext]_settingsVars
  PROVE  ValueInv'
<1> DEFINE Cached == cache = Nothing \/ cache \in [Keys -> Values]
           Boots == boot \in {"down", "legacy", "seed", "sync", "up"}
           Read == \A t \in Threads : \A k \in DOMAIN got[t] : got[t][k] \in Values
<1>0. /\ conf \in [Keys -> Values] /\ hub \in [Keys -> Values] /\ Cached /\ Boots /\ Read
      /\ Savers \subseteq Threads /\ Readers \subseteq Threads /\ DOMAIN got = Threads
  BY DEF ValueInv, Threads, PlaceInv
<1>1. ASSUME NEW t \in Threads, NEW place, Goto(t, place) PROVE Read'
  <2>1. /\ got'[t] = Nothing /\ \A u \in Threads \ {t} : got'[u] = got[u]
    BY <1>0, <1>1 DEF Goto
  <2>2. DOMAIN Nothing = {}
    BY DEF Nothing
  <2>3. QED
    BY <1>0, <2>1, <2>2
<1>2. ASSUME NEW t \in Threads, HasAll(t) \/ (got[t] = Nothing /\ cache # Nothing),
             cache' = IF cache = Nothing THEN got[t] ELSE cache
      PROVE  Cached'
  BY <1>0, <1>2, WholeTyped
<1>3. CASE Start \/ EnsureLegacy \/ Seed \/ SkipSetup \/ UNCHANGED settingsVars
  <2>1. UNCHANGED <<conf, hub, cache, got>> /\ Boots'
    BY <1>0, <1>3 DEF Start, EnsureLegacy, Seed, SkipSetup, globals, threads, settingsVars
  <2>2. QED
    BY <1>0, <2>1 DEF ValueInv
<1>4. CASE Sync
  <2>1. /\ conf' = [k \in Keys |-> Effective(k)'] /\ hub' = conf' /\ cache' = Nothing
        /\ boot' = "up" /\ UNCHANGED got
    BY <1>4 DEF Sync, threads
  <2>2. \A k \in Keys : Effective(k)' \in Values
    BY DEF SavedInv, Effective
  <2>3. QED
    BY <1>0, <2>1, <2>2 DEF ValueInv
<1>5. CASE Crash
  <2>1. /\ got' = [t \in Threads |-> Nothing] /\ conf' = NoValues /\ hub' = NoValues
        /\ cache' = Nothing /\ boot' = "down"
    BY <1>5 DEF Crash
  <2>2. NoValues \in [Keys -> Values] /\ DOMAIN Nothing = {}
    BY DEF NoValues, Values, Nothing
  <2>3. QED
    BY <2>1, <2>2 DEF ValueInv
<1>6. ASSUME NEW t \in Threads, ReadKey(t) PROVE ValueInv'
  <2>1. UNCHANGED <<conf, hub, cache, boot>>
    BY <1>6 DEF ReadKey, globals
  <2>2. PICK i \in DOMAIN Registry :
          LET k == Registry[i]
          IN  got' = [got EXCEPT ![t] =
                        [j \in DOMAIN got[t] \cup {k} |-> IF j = k THEN Effective(k) ELSE got[t][j]]]
    BY <1>6 DEF ReadKey
  <2> DEFINE k == Registry[i]
             new == [j \in DOMAIN got[t] \cup {k} |-> IF j = k THEN Effective(k) ELSE got[t][j]]
  <2>3. Effective(k) \in Values
    BY EffectiveTyped DEF Keys
  <2>4. \A j \in DOMAIN new : new[j] \in Values
    BY <1>0, <2>3
  <2>5. got' = [got EXCEPT ![t] = new]
    BY <2>2
  <2> HIDE DEF new
  <2>6. got'[t] = new /\ \A u \in Threads \ {t} : got'[u] = got[u]
    BY <1>0, <2>5
  <2>7. QED
    BY <1>0, <2>1, <2>4, <2>6 DEF ValueInv
<1>7. ASSUME NEW t \in Savers, \/ Save(t) \/ Reload(t) \/ Decide(t) \/ StopPoller(t) \/ EndSave(t)
      PROVE  ValueInv'
  <2>1. UNCHANGED <<conf, hub, cache, boot>> /\ \E place : Goto(t, place)
    BY <1>7 DEF Save, Reload, Decide, StopPoller, EndSave, globals
  <2>2. QED
    BY <1>0, <1>1, <2>1 DEF ValueInv
<1>8. ASSUME NEW t \in Savers, RefreshConfig(t) \/ RefreshHub(t) PROVE ValueInv'
  <2>1. HasAll(t) /\ UNCHANGED boot /\ \E place : Goto(t, place)
    BY <1>8 DEF RefreshConfig, RefreshHub
  <2>2. /\ conf' \in {conf, got[t]} /\ hub' \in {hub, got[t]} /\ cache' \in {cache, Nothing}
    BY <1>8 DEF RefreshConfig, RefreshHub
  <2>3. t \in Threads /\ got[t] \in [Keys -> Values]
    BY <1>0, <2>1, WholeTyped
  <2>4. QED
    BY <1>0, <1>1, <2>1, <2>2, <2>3 DEF ValueInv
<1>9. ASSUME NEW t \in Savers, Look(t) PROVE ValueInv'
  <2>1. /\ got' = [got EXCEPT ![t] = IF HasAll(t) THEN got[t] ELSE cache]
        /\ cache' = IF cache = Nothing THEN got[t] ELSE cache
        /\ UNCHANGED <<conf, hub, boot>>
        /\ HasAll(t) \/ (got[t] = Nothing /\ cache # Nothing)
    BY <1>9 DEF Look, Got, Ready
  <2>2. /\ \A u \in Threads \ {t} : got'[u] = got[u]
        /\ (HasAll(t) /\ got'[t] = got[t]) \/ (cache \in [Keys -> Values] /\ got'[t] = cache)
    BY <1>0, <2>1
  <2>3. Read'
    BY <1>0, <2>2
  <2>4. Cached'
    BY <1>0, <1>2, <2>1
  <2>5. QED
    BY <1>0, <2>1, <2>3, <2>4 DEF ValueInv
<1>10. ASSUME NEW t \in Savers, StartPoller(t) PROVE ValueInv'
  <2>1. /\ Goto(t, "done") /\ UNCHANGED <<conf, hub, boot>>
        /\ cache' = IF cache = Nothing THEN got[t] ELSE cache
        /\ HasAll(t) \/ (got[t] = Nothing /\ cache # Nothing)
    BY <1>10 DEF StartPoller, Ready
  <2>2. QED
    BY <1>0, <1>1, <1>2, <2>1 DEF ValueInv
<1>11. ASSUME NEW t \in Readers, AskSettings(t) \/ Answered(t) PROVE ValueInv'
  <2>1. UNCHANGED <<conf, hub, boot>> /\ \E place : Goto(t, place)
    BY <1>11 DEF AskSettings, Answered, globals
  <2>2. UNCHANGED cache \/ (HasAll(t) /\ cache' = IF cache = Nothing THEN got[t] ELSE cache)
    BY <1>11 DEF AskSettings, Answered, globals
  <2>3. Cached'
    BY <1>0, <1>2, <2>2
  <2>4. QED
    BY <1>0, <1>1, <2>1, <2>3 DEF ValueInv
<1>12. QED
  BY <1>3, <1>4, <1>5, <1>6, <1>7, <1>8, <1>9, <1>10, <1>11 DEF SettingsNext

\* The table, both modules of globals, the cache and what the threads have read
\* keep their types, and no thread is in the middle of a save while the program
\* is down or starting.
THEOREM SettingsTypeHolds == SettingsSpec => []SettingsTypeOK
<1>1. SettingsInit => ValueInv
  <2> SUFFICES ASSUME SettingsInit PROVE ValueInv
    OBVIOUS
  <2>1. /\ got = [t \in Threads |-> Nothing] /\ conf = NoValues /\ hub = NoValues
        /\ cache = Nothing /\ boot = "down"
    BY DEF SettingsInit
  <2>2. NoValues \in [Keys -> Values] /\ DOMAIN Nothing = {}
    BY DEF NoValues, Values, Nothing
  <2>3. QED
    BY <2>1, <2>2 DEF ValueInv
<1>2. SavedInv /\ PlaceInv /\ ValueInv => SettingsTypeOK
  BY DEF SavedInv, PlaceInv, ValueInv, SettingsTypeOK, Places
<1>3. QED
  BY <1>1, <1>2, ValueStep, SavedInvHolds, ForceHolds, PTL DEF SettingsSpec

-----------------------------------------------------------------------------
(* The summaries: no hour is summarised twice. *)

MetaRecord == [gran : Grans, to : Nat, at : Nat, ok : BOOLEAN]
Deciding(w) == worker[w].at \in {"build", "call"}

\* The window of g that ends at t shares no hour with a stored success: it begins
\* after it, or it was decided before that was stored.
Apart(m, g, t) == m.gran = g /\ m.ok => m.to + Every[g] <= t \/ t <= m.at

WorkerRecord ==
  /\ DOMAIN worker = Workers
  /\ \A w \in Workers : worker[w].gran \in Grans /\ worker[w].to \in Nat

\* The table is in the order of its times, none of them in the future, and what
\* a worker is about is apart from all of it.
MetaInv ==
  /\ clock \in Nat /\ metas \in Seq(MetaRecord)
  /\ WorkerRecord
  /\ \A w \in Workers : Deciding(w) =>
       /\ worker[w].to <= clock
       /\ \A i \in DOMAIN metas : Apart(metas[i], worker[w].gran, worker[w].to)
  /\ \A i \in DOMAIN metas : metas[i].at <= clock /\ metas[i].to <= metas[i].at
  /\ WindowsApart

\* A worker that looks whether a summary is due.
LEMMA DueApart ==
  ASSUME MetaInv, NEW g \in Grans, Due(g), NEW i \in DOMAIN metas
  PROVE  Apart(metas[i], g, clock)
<1>1. Every[g] \in Nat
  BY MetaAssumption DEF MetaAssumption
<1>2. metas[i] \in MetaRecord
  BY DEF MetaInv
<1>3. SUFFICES ASSUME metas[i].gran = g, metas[i].ok PROVE metas[i].to + Every[g] <= clock
  BY DEF Apart
<1>4. metas[i].at \in Successes(g)
  BY <1>3 DEF Successes
<1>5. clock - metas[i].at >= Every[g]
  BY <1>4 DEF Due
<1>6. metas[i].to <= metas[i].at /\ metas[i].to \in Nat /\ metas[i].at \in Nat /\ clock \in Nat
  BY <1>2 DEF MetaInv, MetaRecord
<1>7. QED
  BY <1>1, <1>5, <1>6

\* Storing appends to the table and may cut its beginning off.
LEMMA StoreEffect ==
  ASSUME MetaInv, NEW m \in MetaRecord,
         LET all == Append(metas, m)
         IN  metas' = SubSeq(all, IF Len(all) > MaxMetas THEN Len(all) - MaxMetas + 1 ELSE 1, Len(all))
  PROVE  /\ metas' \in Seq(MetaRecord) /\ Len(metas') <= MaxMetas
         /\ \E d \in Nat : \A i \in DOMAIN metas' :
              \/ metas'[i] = m /\ i = Len(metas') /\ i + d = Len(metas) + 1
              \/ i + d \in DOMAIN metas /\ metas'[i] = metas[i + d]
<1> DEFINE all == Append(metas, m)
           n == Len(all)
           first == IF n > MaxMetas THEN n - MaxMetas + 1 ELSE 1
<1>1. metas \in Seq(MetaRecord) /\ MaxMetas \in Nat \ {0}
  BY MetaAssumption DEF MetaInv, MetaAssumption
<1>2. /\ all \in Seq(MetaRecord) /\ n = Len(metas) + 1 /\ Len(metas) \in Nat
      /\ all[n] = m /\ \A i \in 1..Len(metas) : all[i] = metas[i]
      /\ DOMAIN metas = 1..Len(metas)
  BY <1>1
<1>3. metas' = SubSeq(all, first, n)
  OBVIOUS
<1>4. first \in 1..n /\ n \in Nat /\ n - first + 1 <= MaxMetas
  BY <1>1, <1>2
<1>5. \A i \in first..n : all[i] \in MetaRecord
  BY <1>2, <1>4
<1> HIDE DEF all, n, first
<1>6. /\ metas' \in Seq(MetaRecord) /\ Len(metas') = n - first + 1
      /\ \A i \in 1..(n - first + 1) : metas'[i] = all[first + i - 1]
  <2>1. first \in Int /\ n \in Int /\ first \in 1..n
    BY <1>4
  <2>2. /\ SubSeq(all, first, n) \in Seq(MetaRecord)
        /\ Len(SubSeq(all, first, n)) = n - first + 1
        /\ \A i \in 1..(n - first + 1) : SubSeq(all, first, n)[i] = all[first + i - 1]
    BY <1>5, <2>1, SubSeqProperties
  <2>3. QED
    BY <1>3, <2>2
<1>7. DOMAIN metas' = 1..(n - first + 1)
  BY <1>6
<1> DEFINE d == first - 1
<1>8. d \in Nat
  BY <1>4
<1>9. ASSUME NEW i \in DOMAIN metas'
      PROVE  \/ metas'[i] = m /\ i = Len(metas') /\ i + d = Len(metas) + 1
             \/ i + d \in DOMAIN metas /\ metas'[i] = metas[i + d]
  <2>0. i \in 1..(n - first + 1) /\ first \in 1..n /\ n \in Nat
    BY <1>4, <1>7
  <2>1. metas'[i] = all[i + d] /\ i + d \in 1..n
    <3>1. first + i - 1 = i + d /\ i + d \in 1..n
      BY <2>0
    <3>2. metas'[i] = all[first + i - 1]
      BY <1>6, <2>0
    <3>3. QED
      BY <3>1, <3>2
  <2>2. CASE i + d = n
    <3>1. i = Len(metas')
      BY <1>6, <2>0, <2>2
    <3>2. QED
      BY <1>2, <2>1, <2>2, <3>1
  <2>3. CASE i + d # n
    <3>1. i + d \in 1..Len(metas)
      BY <1>2, <2>1, <2>3
    <3>2. QED
      BY <1>2, <2>1, <3>1
  <2>4. QED
    BY <2>2, <2>3
<1>10. QED
  BY <1>4, <1>6, <1>8, <1>9

LEMMA MetaStep ==
  ASSUME MetaInv, [MetaNext]_metaVars
  PROVE  MetaInv'
<1>1. ASSUME UNCHANGED <<clock, metas>>, WorkerRecord',
             \A w \in Workers : Deciding(w)' =>
               \/ /\ Deciding(w) /\ worker'[w].gran = worker[w].gran
                  /\ worker'[w].to = worker[w].to
               \/ Due(worker'[w].gran) /\ worker'[w].to = clock
      PROVE  MetaInv'
  <2>1. \A w \in Workers : Deciding(w)' =>
          /\ worker'[w].to <= clock'
          /\ \A i \in DOMAIN metas' : Apart(metas'[i], worker'[w].gran, worker'[w].to)
    <3> SUFFICES ASSUME NEW w \in Workers, Deciding(w)'
                 PROVE  /\ worker'[w].to <= clock
                        /\ \A i \in DOMAIN metas : Apart(metas[i], worker'[w].gran, worker'[w].to)
      BY <1>1
    <3>1. CASE /\ Deciding(w) /\ worker'[w].gran = worker[w].gran
               /\ worker'[w].to = worker[w].to
      BY <3>1 DEF MetaInv
    <3>2. CASE Due(worker'[w].gran) /\ worker'[w].to = clock
      <4>1. worker'[w].gran \in Grans /\ clock \in Nat
        BY <1>1 DEF WorkerRecord, MetaInv
      <4>2. QED
        BY <3>2, <4>1, DueApart
    <3>3. QED
      BY <1>1, <3>1, <3>2
  <2>2. WindowsApart'
    BY <1>1 DEF MetaInv, WindowsApart
  <2>3. QED
    BY <1>1, <2>1, <2>2 DEF MetaInv
<1>2. ASSUME NEW w \in Workers, NEW r, Set(w, r), r.gran \in Grans, r.to \in Nat
      PROVE  /\ WorkerRecord' /\ worker'[w] = r
             /\ \A v \in Workers \ {w} : worker'[v] = worker[v]
  BY <1>2 DEF Set, MetaInv, WorkerRecord
<1>3. ASSUME NEW w \in Workers, NEW r, Set(w, r), UNCHANGED <<clock, metas>>,
             r.gran \in Grans, r.to \in Nat,
             r.at \in {"build", "call"} =>
               \/ Deciding(w) /\ r.gran = worker[w].gran /\ r.to = worker[w].to
               \/ Due(r.gran) /\ r.to = clock
      PROVE  MetaInv'
  <2>1. /\ WorkerRecord' /\ worker'[w] = r
        /\ \A v \in Workers \ {w} : worker'[v] = worker[v]
    BY <1>2, <1>3
  <2>2. QED
    BY <1>1, <1>3, <2>1 DEF Deciding
<1>4. CASE TimePasses
  <2>1. clock' = clock + 1 /\ clock \in Nat /\ UNCHANGED <<metas, worker>>
    BY <1>4 DEF TimePasses, MetaInv
  <2>2. \A i \in DOMAIN metas : metas[i].at \in Nat
    <3>1. metas \in Seq(MetaRecord)
      BY DEF MetaInv
    <3>2. \A i \in DOMAIN metas : metas[i] \in MetaRecord
      BY <3>1
    <3>3. QED
      BY <3>2 DEF MetaRecord
  <2>3. \A w \in Workers : worker[w].to \in Nat
    BY DEF MetaInv, WorkerRecord
  <2>4. \A i \in DOMAIN metas : metas[i].at <= clock'
    BY <2>1, <2>2 DEF MetaInv
  <2>5. \A w \in Workers : Deciding(w) => worker[w].to <= clock'
    BY <2>1, <2>3 DEF MetaInv
  <2>6. clock' \in Nat
    BY <2>1
  <2>7. QED
    BY <2>1, <2>4, <2>5, <2>6 DEF MetaInv, WorkerRecord, Deciding, Apart, WindowsApart
<1>5. CASE Analyse \/ \E w \in Workers : StopWorker(w)
  <2>1. UNCHANGED <<clock, metas, worker>>
    BY <1>5 DEF Analyse, StopWorker
  <2>2. QED
    BY <2>1 DEF MetaInv, WorkerRecord, Deciding, Apart, WindowsApart
<1>6. /\ [Off EXCEPT !.at = "look"].gran = "daily" /\ [Off EXCEPT !.at = "look"].to = 0
      /\ [Off EXCEPT !.at = "look"].at = "look"
  BY DEF Off
<1>7. ASSUME NEW w \in Workers, NEW place \in {"look", "wait", "ended"},
             Set(w, [Off EXCEPT !.at = place]), UNCHANGED <<clock, metas>>
      PROVE  MetaInv'
  <2> DEFINE r == [Off EXCEPT !.at = place]
  <2>1. r.gran = "daily" /\ r.to = 0 /\ r.at = place
    BY DEF Off
  <2> HIDE DEF r
  <2>2. r.gran \in Grans /\ r.to \in Nat /\ r.at \notin {"build", "call"}
    BY <2>1 DEF Grans
  <2>3. Set(w, r)
    BY <1>7 DEF r
  <2>4. QED
    BY <1>3, <1>7, <2>2, <2>3
<1>8. \A g \in Grans : \A next \in NextOf(g) :
        next.gran \in Grans /\ next.to \in Nat /\ next.at \notin {"build", "call"}
  <2> SUFFICES ASSUME NEW g \in Grans, NEW next \in NextOf(g)
               PROVE  next.gran \in Grans /\ next.to \in Nat /\ next.at \notin {"build", "call"}
    OBVIOUS
  <2>1. next = [Off EXCEPT !.at = "wait"] \/ next = [Off EXCEPT !.at = "look", !.gran = "weekly"]
    BY DEF NextOf, Wait
  <2>2. \/ next = [at |-> "wait", gran |-> "daily", to |-> 0, saw |-> {}, built |-> 0]
        \/ next = [at |-> "look", gran |-> "weekly", to |-> 0, saw |-> {}, built |-> 0]
    BY <2>1 DEF Off
  <2>3. QED
    BY <2>2 DEF Grans
<1>9. ASSUME NEW w \in Workers, StartWorker(w) \/ StoreFails(w) \/ Poll(w) PROVE MetaInv'
  <2>1. UNCHANGED <<clock, metas>>
    BY <1>9 DEF StartWorker, StoreFails, Poll
  <2>2. \E place \in {"look", "wait", "ended"} : Set(w, [Off EXCEPT !.at = place])
    BY <1>9 DEF StartWorker, StoreFails, Poll, Wait
  <2>3. QED
    BY <1>7, <2>1, <2>2
<1>10. ASSUME NEW w \in Workers, LookDue(w) PROVE MetaInv'
  <2> DEFINE g == worker[w].gran
             b == [Off EXCEPT !.at = "build", !.gran = g, !.to = clock]
  <2>1. g \in Grans /\ clock \in Nat
    BY DEF MetaInv, WorkerRecord
  <2>2. b.gran = g /\ b.to = clock /\ b.at = "build"
    BY DEF Off
  <2>3. /\ UNCHANGED <<clock, metas>>
        /\ IF Due(g) THEN Set(w, b) ELSE \E next \in NextOf(g) : Set(w, next)
    BY <1>10 DEF LookDue
  <2> HIDE DEF b, g
  <2>4. CASE Due(g)
    BY <1>3, <2>1, <2>2, <2>3, <2>4
  <2>5. CASE ~Due(g)
    BY <1>3, <1>8, <2>1, <2>3, <2>5
  <2>6. QED
    BY <2>4, <2>5
<1>11. ASSUME NEW w \in Workers, Build(w) PROVE MetaInv'
  <2>1. /\ worker[w].at = "build" /\ UNCHANGED <<clock, metas>>
        /\ \E saw : worker' = [worker EXCEPT ![w] =
                      [worker[w] EXCEPT !.at = "call", !.built = Len(made), !.saw = saw]]
    BY <1>11 DEF Build, Set
  <2>2. PICK saw : worker' = [worker EXCEPT ![w] =
                     [worker[w] EXCEPT !.at = "call", !.built = Len(made), !.saw = saw]]
    BY <2>1
  <2>3. /\ worker'[w].gran = worker[w].gran /\ worker'[w].to = worker[w].to
        /\ \A v \in Workers \ {w} : worker'[v] = worker[v]
        /\ DOMAIN worker' = Workers
    BY <2>2 DEF MetaInv, WorkerRecord
  <2>4. WorkerRecord'
    BY <2>3 DEF MetaInv, WorkerRecord
  <2>5. \A v \in Workers : Deciding(v)' =>
          Deciding(v) /\ worker'[v].gran = worker[v].gran /\ worker'[v].to = worker[v].to
    BY <2>1, <2>3 DEF Deciding
  <2>6. QED
    BY <1>1, <2>1, <2>4, <2>5
<1>12. ASSUME NEW w \in Workers, Store(w) PROVE MetaInv'
  <2> DEFINE r == worker[w]
  <2>1. PICK ok \in BOOLEAN :
          LET all == Append(metas, [gran |-> r.gran, to |-> r.to, at |-> clock, ok |-> ok])
          IN  metas' = SubSeq(all, IF Len(all) > MaxMetas THEN Len(all) - MaxMetas + 1 ELSE 1,
                              Len(all))
    BY <1>12 DEF Store
  <2> DEFINE m == [gran |-> r.gran, to |-> r.to, at |-> clock, ok |-> ok]
  <2>2. /\ r.gran \in Grans /\ r.to \in Nat /\ clock \in Nat /\ r.to <= clock
        /\ \A i \in DOMAIN metas : Apart(metas[i], r.gran, r.to)
    BY <1>12 DEF Store, MetaInv, WorkerRecord, Deciding
  <2>3. /\ m \in MetaRecord /\ m.gran = r.gran /\ m.to = r.to /\ m.at = clock /\ m.ok = ok
    BY <2>2 DEF MetaRecord
  <2>4. LET all == Append(metas, m)
        IN  metas' = SubSeq(all, IF Len(all) > MaxMetas THEN Len(all) - MaxMetas + 1 ELSE 1, Len(all))
    BY <2>1
  <2>5. UNCHANGED clock /\ \E next \in NextOf(r.gran) : Set(w, next)
    BY <1>12 DEF Store
  <2> HIDE DEF m, r
  <2>6. metas' \in Seq(MetaRecord)
    BY <2>3, <2>4, StoreEffect
  <2>7. PICK d \in Nat : \A i \in DOMAIN metas' :
              \/ metas'[i] = m /\ i = Len(metas') /\ i + d = Len(metas) + 1
              \/ i + d \in DOMAIN metas /\ metas'[i] = metas[i + d]
    BY <2>3, <2>4, StoreEffect
  <2>8. /\ WorkerRecord' /\ ~Deciding(w)'
        /\ \A v \in Workers \ {w} : worker'[v] = worker[v]
    BY <1>2, <1>8, <2>2, <2>5 DEF Deciding
  <2>9. ASSUME NEW v \in Workers, Deciding(v)'
        PROVE  /\ worker'[v].to <= clock'
               /\ \A i \in DOMAIN metas' : Apart(metas'[i], worker'[v].gran, worker'[v].to)
    <3>1. /\ worker'[v] = worker[v] /\ worker[v].to <= clock
          /\ \A i \in DOMAIN metas : Apart(metas[i], worker[v].gran, worker[v].to)
      BY <2>8, <2>9 DEF MetaInv, Deciding
    <3>2. Apart(m, worker[v].gran, worker[v].to)
      BY <2>3, <3>1 DEF Apart
    <3>3. QED
      BY <2>5, <2>7, <3>1, <3>2
  <2>10. \A i \in DOMAIN metas' : metas'[i].at <= clock' /\ metas'[i].to <= metas'[i].at
    <3>1. m.at <= clock /\ m.to <= m.at
      BY <2>2, <2>3 DEF r
    <3>2. QED
      BY <2>5, <2>7, <3>1 DEF MetaInv
  <2>11. WindowsApart'
    <3> SUFFICES ASSUME NEW i \in DOMAIN metas', NEW j \in DOMAIN metas', i < j,
                        metas'[i].gran = metas'[j].gran, metas'[i].ok, metas'[j].ok
                 PROVE  \/ metas'[i].to + Every[metas'[j].gran] <= metas'[j].to
                        \/ metas'[j].to <= metas'[i].at
      BY DEF WindowsApart
    <3>0. i \in Nat /\ j \in Nat /\ i <= Len(metas') /\ j <= Len(metas') /\ Len(metas') \in Nat
      BY <2>6
    <3>1. i + d \in DOMAIN metas /\ metas'[i] = metas[i + d]
      BY <2>7, <3>0
    <3>2. CASE metas'[j] = m
      <4>1. Apart(metas[i + d], m.gran, m.to)
        BY <2>2, <2>3, <3>1
      <4>2. QED
        BY <3>1, <3>2, <4>1 DEF Apart
    <3>3. CASE j + d \in DOMAIN metas /\ metas'[j] = metas[j + d]
      <4>1. i + d < j + d
        BY <3>0
      <4>2. QED
        BY <3>1, <3>3, <4>1 DEF MetaInv, WindowsApart
    <3>4. QED
      BY <2>7, <3>2, <3>3
  <2>12. clock' \in Nat
    BY <2>2, <2>5
  <2>13. QED
    BY <2>6, <2>8, <2>9, <2>10, <2>11, <2>12 DEF MetaInv
<1>13. CASE UNCHANGED metaVars
  BY <1>13 DEF metaVars, MetaInv, WorkerRecord, Deciding, Apart, WindowsApart
<1>14. QED
  BY <1>4, <1>5, <1>9, <1>10, <1>11, <1>12, <1>13 DEF MetaNext

LEMMA MetaInvInit == MetaInit => MetaInv
<1> SUFFICES ASSUME MetaInit PROVE MetaInv
  OBVIOUS
<1>1. clock = 0 /\ metas = <<>> /\ worker = [w \in Workers |-> Off]
  BY DEF MetaInit
<1>2. metas \in Seq(MetaRecord) /\ DOMAIN metas = {}
  BY <1>1
<1>3. WorkerRecord /\ \A w \in Workers : ~Deciding(w)
  BY <1>1 DEF WorkerRecord, Deciding, Off, Grans
<1>4. QED
  BY <1>1, <1>2, <1>3 DEF MetaInv, WindowsApart

-----------------------------------------------------------------------------
(* What a summary has seen. *)

\* The least of a set of numbers that is not empty.
LEMMA LeastNumber ==
  ASSUME NEW S \in SUBSET Nat, S # {}
  PROVE  \E m \in S : \A x \in S : m <= x
<1> DEFINE R == {ss \in Nat \X Nat : ss[1] < ss[2]}
<1>1. IsWellFoundedOn(R, Nat)
  BY NatLessThanWellFounded DEF OpToRel
<1>2. \A x, m \in S : x < m => <<x, m>> \in R
  OBVIOUS
<1> HIDE DEF R
<1>3. \E m \in S : \A x \in S : ~(<<x, m>> \in R)
  BY <1>1, WFMin
<1>4. PICK m \in S : \A x \in S : ~(<<x, m>> \in R)
  BY <1>3
<1>5. \A x \in S : ~(x < m)
  BY <1>2, <1>4
<1>6. QED
  BY <1>5

\* The greatest of a set of numbers that is bounded and not empty.
LEMMA GreatestNumber ==
  ASSUME NEW n \in Nat, NEW S \in SUBSET (1..n), S # {}
  PROVE  \E m \in S : \A x \in S : x <= m
<1> DEFINE T == {b \in Nat : \A x \in S : x <= b}
<1>1. n \in T
  OBVIOUS
<1>2. PICK b \in T : \A y \in T : b <= y
  BY <1>1, LeastNumber
<1>3. b \in Nat /\ \A x \in S : x <= b
  OBVIOUS
<1>4. b \in S
  <2>1. SUFFICES ASSUME b \notin S PROVE FALSE
    OBVIOUS
  <2>2. \A x \in S : x <= b - 1 /\ x >= 1
    BY <1>3, <2>1
  <2>3. b - 1 \in Nat
    <3>1. PICK x \in S : TRUE
      OBVIOUS
    <3>2. x \in Nat /\ x <= b - 1 /\ x >= 1
      BY <2>2, <3>1
    <3>3. QED
      BY <1>3, <3>2
  <2>4. b - 1 \in T
    BY <2>2, <2>3
  <2>5. b <= b - 1
    BY <1>2, <2>4
  <2>6. QED
    BY <1>3, <2>5
<1>5. QED
  BY <1>3, <1>4

\* The n oldest of a set are n at most; when one of the set is left out, they are n
\* in number and all of them older than that one.
LEMMA OldestAreOldest ==
  ASSUME NEW len \in Nat, NEW S \in SUBSET (1..len), NEW n \in Nat \ {0}
  PROVE  /\ Oldest(S, n) \subseteq S
         /\ Cardinality(Oldest(S, n)) <= n
         /\ \A k \in S \ Oldest(S, n) :
              Cardinality(Oldest(S, n)) = n /\ \A a \in Oldest(S, n) : a < k
<1> DEFINE Below(k) == {j \in S : j < k}
           T == Oldest(S, n)
<1>0. \A x \in S : x \in Nat
  OBVIOUS
<1>1. IsFiniteSet(S)
  <2>1. 1 \in Int /\ len \in Int
    OBVIOUS
  <2>2. IsFiniteSet(1..len)
    BY <2>1, FS_Interval
  <2>3. QED
    BY <2>2, FS_Subset
<1>2. T \subseteq S /\ \A k \in S : k \in T <=> Cardinality(Below(k)) < n
  BY DEF Oldest
<1>3. \A k \in S : Below(k) \subseteq S
  OBVIOUS
<1>4. ASSUME NEW U \in SUBSET S
      PROVE  /\ IsFiniteSet(U) /\ Cardinality(U) \in Nat
             /\ \A V \in SUBSET U : Cardinality(V) <= Cardinality(U)
  <2>1. IsFiniteSet(U)
    BY <1>1, FS_Subset
  <2>2. QED
    BY <2>1, FS_Subset, FS_CardinalityType
<1>5. ASSUME NEW x \in S, NEW y \in S, x <= y
      PROVE  Below(x) \subseteq Below(y)
  <2>1. \A j \in S : j < x => j < y
    BY <1>0, <1>5
  <2>2. QED
    BY <2>1
<1> HIDE DEF T
<1>6. Cardinality(T) <= n
  <2>1. CASE T = {}
    BY <2>1, FS_EmptySet
  <2>2. CASE T # {}
    <3>1. T \in SUBSET (1..len)
      BY <1>2
    <3>2. PICK t \in T : \A x \in T : x <= t
      BY <2>2, <3>1, GreatestNumber
    <3>3. t \in S /\ Cardinality(Below(t)) < n
      BY <1>2
    <3>4. IsFiniteSet(Below(t)) /\ Cardinality(Below(t)) \in Nat
      BY <1>3, <1>4, <3>3
    <3>5. \A x \in T : x # t => x < t
      BY <1>2, <3>2, <1>0
    <3>6. T \subseteq Below(t) \cup {t}
      BY <1>2, <3>5
    <3>7. t \notin Below(t)
      BY <3>3, <1>0
    <3> HIDE DEF Below
    <3>8. IsFiniteSet(Below(t) \cup {t}) /\ Cardinality(Below(t) \cup {t}) = Cardinality(Below(t)) + 1
      BY <3>4, <3>7, FS_AddElement
    <3>9. Cardinality(T) <= Cardinality(Below(t) \cup {t})
      BY <3>6, <3>8, FS_Subset
    <3>10. Cardinality(T) \in Nat
      BY <1>2, <1>4
    <3>11. QED
      BY <3>3, <3>4, <3>8, <3>9, <3>10
  <2>3. QED
    BY <2>1, <2>2
<1>7. ASSUME NEW k \in S \ T
      PROVE  Cardinality(T) = n /\ \A a \in T : a < k
  <2>1. S \ T \in SUBSET Nat /\ S \ T # {}
    BY <1>0, <1>7
  <2>2. PICK m \in S \ T : \A x \in S \ T : m <= x
    BY <2>1, LeastNumber
  <2>3. \A j \in S : j < m => j \in T
    BY <2>2, <1>0
  <2>4. Below(m) \subseteq T
    BY <2>3
  <2>5. /\ Cardinality(Below(m)) <= Cardinality(T)
        /\ Cardinality(Below(m)) \in Nat /\ Cardinality(T) \in Nat
    BY <1>2, <1>3, <1>4, <2>4
  <2>6. ~(Cardinality(Below(m)) < n)
    BY <1>2
  <2>7. Cardinality(T) = n
    BY <1>6, <2>5, <2>6
  <2>8. ASSUME NEW a \in T, ~(a < k) PROVE FALSE
    <3>1. a \in S /\ Cardinality(Below(a)) < n /\ ~(Cardinality(Below(k)) < n)
      BY <1>2, <1>7
    <3>2. k <= a
      BY <2>8, <3>1, <1>0
    <3>3. Below(k) \in SUBSET Below(a)
      BY <1>5, <3>1, <3>2
    <3>4. Below(a) \in SUBSET S /\ Below(k) \in SUBSET S
      OBVIOUS
    <3> HIDE DEF Below
    <3>5. /\ Cardinality(Below(k)) <= Cardinality(Below(a))
          /\ Cardinality(Below(k)) \in Nat /\ Cardinality(Below(a)) \in Nat
      BY <1>4, <3>3, <3>4
    <3>6. QED
      BY <3>1, <3>5
  <2>9. QED
    BY <2>7, <2>8
<1>8. QED
  BY <1>2, <1>6, <1>7 DEF T

MadeRecord == [at : Nat, skip : BOOLEAN]
Pruned(n) == IF n > MaxAnalyses THEN n - MaxAnalyses ELSE 0
InWindow(m) == {k \in 1..m.built : Belongs(k, m.gran, m.to)}

\* What SawWindow says of a worker in its call.
HasSeen(m) ==
  /\ m.saw \subseteq InWindow(m) /\ Cardinality(m.saw) <= ContextMax
  /\ \A k \in InWindow(m) : \/ k \in m.saw
                            \/ k + MaxAnalyses <= m.built
                            \/ Cardinality(m.saw) = ContextMax /\ \A a \in m.saw : a < k

LEMMA SawIs == SawWindow <=> \A w \in Workers : worker[w].at = "call" => HasSeen(worker[w])
BY DEF SawWindow, HasSeen, InWindow

WorkerState == [at : {"off", "look", "build", "call", "wait", "ended"}, gran : Grans,
                to : Nat, saw : SUBSET Nat, built : Nat]

\* Analyses are added at the end, pruned at the beginning, and a summary knows of
\* those that there were.
SeenInv ==
  /\ made \in Seq(MadeRecord) /\ gone = Pruned(Len(made))
  /\ worker \in [Workers -> WorkerState]
  /\ \A w \in Workers : worker[w].at = "call" =>
       worker[w].built \in 0..Len(made) /\ HasSeen(worker[w])

\* What the table gives to a worker that reads it.
LEMMA ReadsOldest ==
  ASSUME SeenInv, NEW m, m.built = Len(made), m.saw = Oldest(InWindowOf(m.gran, m.to), ContextMax)
  PROVE  HasSeen(m)
<1> DEFINE len == Len(made)
           S == InWindowOf(m.gran, m.to)
<1>1. len \in Nat /\ MaxAnalyses \in Nat /\ ContextMax \in Nat \ {0}
  BY MetaAssumption DEF SeenInv, MetaAssumption
<1>2. gone = Pruned(len)
  BY DEF SeenInv
<1> HIDE DEF len
<1>3. gone \in Nat /\ \A k \in 1..len : k + MaxAnalyses <= len \/ k >= gone + 1
  BY <1>1, <1>2 DEF Pruned
<1>4. m.built = len /\ S = {i \in (gone + 1)..len : Belongs(i, m.gran, m.to)}
  BY DEF len, InWindowOf
<1>5. S \in SUBSET (1..len) /\ S \subseteq InWindow(m)
  BY <1>1, <1>3, <1>4 DEF InWindow
<1>6. \A k \in InWindow(m) : k \in S \/ k + MaxAnalyses <= m.built
  BY <1>1, <1>3, <1>4 DEF InWindow
<1>7. m.saw = Oldest(S, ContextMax)
  OBVIOUS
<1> HIDE DEF S
<1>8. /\ Oldest(S, ContextMax) \subseteq S
      /\ Cardinality(Oldest(S, ContextMax)) <= ContextMax
      /\ \A k \in S \ Oldest(S, ContextMax) :
           /\ Cardinality(Oldest(S, ContextMax)) = ContextMax
           /\ \A a \in Oldest(S, ContextMax) : a < k
  BY <1>1, <1>5, OldestAreOldest
<1>9. QED
  BY <1>5, <1>6, <1>7, <1>8 DEF HasSeen

LEMMA SeenStep ==
  ASSUME MetaInv, SeenInv, [MetaNext]_metaVars
  PROVE  SeenInv'
<1>1. ASSUME UNCHANGED <<made, gone>>, worker' \in [Workers -> WorkerState],
             \A w \in Workers : worker'[w].at = "call" =>
               worker'[w] = worker[w] \/ (worker'[w].built = Len(made) /\ HasSeen(worker'[w]))
      PROVE  SeenInv'
  <2>1. SUFFICES ASSUME NEW w \in Workers, worker'[w].at = "call"
                 PROVE  worker'[w].built \in 0..Len(made) /\ HasSeen(worker'[w])
    BY <1>1 DEF SeenInv, HasSeen, InWindow, Belongs
  <2>2. Len(made) \in 0..Len(made)
    BY DEF SeenInv
  <2>3. QED
    BY <1>1, <2>1, <2>2 DEF SeenInv
<1>2. ASSUME NEW w \in Workers, NEW r \in WorkerState, Set(w, r)
      PROVE  /\ worker'[w] = r /\ \A v \in Workers \ {w} : worker'[v] = worker[v]
             /\ worker' \in [Workers -> WorkerState]
  BY <1>2 DEF Set, SeenInv
<1>3. ASSUME NEW w \in Workers, NEW r \in WorkerState, Set(w, r), r.at # "call",
             UNCHANGED <<made, gone>>
      PROVE  SeenInv'
  BY <1>1, <1>2, <1>3
<1>4. CASE Analyse
  <2>1. PICK skip \in BOOLEAN : made' = Append(made, [at |-> clock, skip |-> skip])
    BY <1>4 DEF Analyse
  <2> DEFINE n == Len(made)
  <2>2. clock \in Nat /\ made \in Seq(MadeRecord) /\ n \in Nat
    BY DEF MetaInv, SeenInv
  <2>3. [at |-> clock, skip |-> skip] \in MadeRecord
    BY <2>2 DEF MadeRecord
  <2>4. /\ made' \in Seq(MadeRecord) /\ Len(made') = n + 1
        /\ \A i \in 1..n : made'[i] = made[i]
    BY <2>1, <2>2, <2>3
  <2>5. gone' = Pruned(Len(made'))
    BY <1>4 DEF Analyse, Pruned
  <2>6. UNCHANGED worker
    BY <1>4 DEF Analyse
  <2>7. ASSUME NEW w \in Workers, worker[w].at = "call"
        PROVE  worker[w].built \in 0..Len(made') /\ HasSeen(worker[w])'
    <3>1. worker[w].built \in 0..n /\ HasSeen(worker[w])
      BY <2>7 DEF SeenInv
    <3>2. worker[w].built \in 0..Len(made')
      BY <2>2, <2>4, <3>1
    <3> HIDE DEF n
    <3>3. \A k \in 1..worker[w].built : k \in 1..n
      BY <2>2, <3>1
    <3>4. \A k \in 1..worker[w].built :
            Belongs(k, worker[w].gran, worker[w].to)' <=> Belongs(k, worker[w].gran, worker[w].to)
      BY <2>4, <2>6, <3>3 DEF Belongs
    <3>5. InWindow(worker[w])' = InWindow(worker[w])
      BY <2>6, <3>4, Zenon DEF InWindow
    <3>6. HasSeen(worker[w])'
      BY <2>6, <3>1, <3>5 DEF HasSeen
    <3>7. QED
      BY <3>2, <3>6
  <2>8. QED
    BY <2>4, <2>5, <2>6, <2>7 DEF SeenInv
<1>5. CASE TimePasses \/ (\E w \in Workers : StopWorker(w)) \/ UNCHANGED metaVars
  <2>1. UNCHANGED <<made, gone, worker>>
    BY <1>5 DEF TimePasses, StopWorker, metaVars
  <2>2. worker' \in [Workers -> WorkerState]
    BY <2>1 DEF SeenInv
  <2>3. QED
    BY <1>1, <2>1, <2>2
<1>6. \A place \in {"look", "wait", "ended"} :
        [Off EXCEPT !.at = place].at # "call" /\ [Off EXCEPT !.at = place] \in WorkerState
  BY DEF Off, WorkerState, Grans
<1>10. \A g \in Grans : \A next \in NextOf(g) : next.at # "call" /\ next \in WorkerState
  <2> SUFFICES ASSUME NEW g \in Grans, NEW next \in NextOf(g)
               PROVE  next.at # "call" /\ next \in WorkerState
    OBVIOUS
  <2>1. next = [Off EXCEPT !.at = "wait"] \/ next = [Off EXCEPT !.at = "look", !.gran = "weekly"]
    BY DEF NextOf, Wait
  <2>2. \/ next = [at |-> "wait", gran |-> "daily", to |-> 0, saw |-> {}, built |-> 0]
        \/ next = [at |-> "look", gran |-> "weekly", to |-> 0, saw |-> {}, built |-> 0]
    BY <2>1 DEF Off
  <2>3. QED
    BY <2>2 DEF Grans, WorkerState
<1>7. ASSUME NEW w \in Workers, StartWorker(w) \/ StoreFails(w) \/ Poll(w) PROVE SeenInv'
  <2>1. UNCHANGED <<made, gone>>
    BY <1>7 DEF StartWorker, StoreFails, Poll
  <2>2. \E place \in {"look", "wait", "ended"} : Set(w, [Off EXCEPT !.at = place])
    BY <1>7 DEF StartWorker, StoreFails, Poll, Wait
  <2>3. QED
    BY <1>3, <1>6, <2>1, <2>2
<1>8. ASSUME NEW w \in Workers, LookDue(w) \/ Store(w) PROVE SeenInv'
  <2> DEFINE g == worker[w].gran
             b == [Off EXCEPT !.at = "build", !.gran = g, !.to = clock]
  <2>1. g \in Grans /\ clock \in Nat
    BY DEF MetaInv, WorkerRecord
  <2>2. b.at # "call" /\ b \in WorkerState
    BY <2>1 DEF Off, WorkerState
  <2>3. UNCHANGED <<made, gone>> /\ (Set(w, b) \/ \E next \in NextOf(g) : Set(w, next))
    BY <1>8 DEF LookDue, Store
  <2> HIDE DEF b, g
  <2>4. QED
    BY <1>3, <1>10, <2>1, <2>2, <2>3
<1>9. ASSUME NEW w \in Workers, Build(w) PROVE SeenInv'
  <2> DEFINE s == Oldest(InWindowOf(worker[w].gran, worker[w].to), ContextMax)
             r == [worker[w] EXCEPT !.at = "call", !.built = Len(made), !.saw = s]
  <2>1. UNCHANGED <<made, gone>> /\ Set(w, r)
    BY <1>9 DEF Build
  <2>2. worker[w] \in WorkerState /\ Len(made) \in Nat
    BY DEF SeenInv
  <2>3. s \in SUBSET Nat
    <3>1. gone \in Nat
      BY <2>2, MetaAssumption DEF SeenInv, Pruned, MetaAssumption
    <3>2. InWindowOf(worker[w].gran, worker[w].to) \in SUBSET Nat
      BY <2>2, <3>1 DEF InWindowOf
    <3>3. QED
      BY <3>2 DEF Oldest
  <2> HIDE DEF s
  <2>4. /\ r \in WorkerState /\ r.at = "call" /\ r.built = Len(made) /\ r.saw = s
        /\ r.gran = worker[w].gran /\ r.to = worker[w].to
    BY <2>2, <2>3 DEF WorkerState
  <2>5. r.saw = Oldest(InWindowOf(r.gran, r.to), ContextMax)
    BY <2>4 DEF s
  <2> HIDE DEF r
  <2>6. HasSeen(r)
    BY <2>4, <2>5, ReadsOldest
  <2>7. QED
    BY <1>1, <1>2, <2>1, <2>4, <2>6
<1>11. QED
  BY <1>4, <1>5, <1>7, <1>8, <1>9 DEF MetaNext

LEMMA SeenInit == MetaInit => SeenInv
<1> SUFFICES ASSUME MetaInit PROVE SeenInv
  OBVIOUS
<1>1. made = <<>> /\ gone = 0 /\ worker = [w \in Workers |-> Off]
  BY DEF MetaInit
<1>2. made \in Seq(MadeRecord) /\ Len(made) = 0
  BY <1>1
<1>3. gone = Pruned(Len(made))
  BY <1>1, <1>2, MetaAssumption DEF Pruned, MetaAssumption
<1>4. Off \in WorkerState /\ Off.at # "call"
  BY DEF Off, WorkerState, Grans
<1>5. QED
  BY <1>1, <1>2, <1>3, <1>4 DEF SeenInv

LEMMA MetaAlways == MetaSpec => [](MetaInv /\ SeenInv)
BY MetaInvInit, SeenInit, MetaStep, SeenStep, PTL DEF MetaSpec

\* No hour is summarised twice (two successes of a kind have windows apart, or the
\* one was decided before the other was stored, by another worker), and what a summary has seen are the oldest analyses of its window, up to
\* the limit and but for those that were pruned meanwhile.
THEOREM SummariesHold == MetaSpec => []SummariesSound
<1>1. MetaInv /\ SeenInv => SummariesSound
  BY SawIs DEF MetaInv, SeenInv, SummariesSound
<1>2. QED
  BY <1>1, MetaAlways, PTL

\* What else the types of the summary worker say: both tables keep their limit.
MetaBounds ==
  /\ clock <= MaxTime /\ Len(metas) <= MaxMetas
  /\ untold \subseteq {w \in Workers : worker[w].at \notin {"off", "ended"}}

LEMMA BoundsStep ==
  ASSUME MetaInv, SeenInv, MetaBounds, [MetaNext]_metaVars
  PROVE  MetaBounds'
<1>1. clock' <= MaxTime
  <2>1. clock \in Nat /\ MaxTime \in Nat
    BY MetaAssumption DEF MetaInv, MetaAssumption
  <2>2. CASE TimePasses
    BY <2>1, <2>2 DEF TimePasses
  <2>3. CASE ~TimePasses
    <3>1. UNCHANGED clock
      BY <2>3 DEF MetaNext, metaVars, Analyse, StopWorker, StartWorker, LookDue, Build, Store,
                  StoreFails, Poll
    <3>2. QED
      BY <3>1 DEF MetaBounds
  <2>4. QED
    BY <2>2, <2>3
<1>2. Len(metas') <= MaxMetas
  <2>1. CASE UNCHANGED metas
    BY <2>1 DEF MetaBounds
  <2>2. ASSUME NEW w \in Workers, Store(w) PROVE Len(metas') <= MaxMetas
    <3>1. worker[w].gran \in Grans /\ worker[w].to \in Nat /\ clock \in Nat
      BY DEF MetaInv, WorkerRecord
    <3>2. PICK ok \in BOOLEAN :
            LET all == Append(metas, [gran |-> worker[w].gran, to |-> worker[w].to,
                                      at |-> clock, ok |-> ok])
            IN  metas' = SubSeq(all, IF Len(all) > MaxMetas THEN Len(all) - MaxMetas + 1 ELSE 1,
                                Len(all))
      BY <2>2 DEF Store
    <3> DEFINE m == [gran |-> worker[w].gran, to |-> worker[w].to, at |-> clock, ok |-> ok]
    <3>3. m \in MetaRecord
      BY <3>1 DEF MetaRecord
    <3>4. LET all == Append(metas, m)
          IN  metas' = SubSeq(all, IF Len(all) > MaxMetas THEN Len(all) - MaxMetas + 1 ELSE 1,
                              Len(all))
      BY <3>2
    <3> HIDE DEF m
    <3>5. QED
      BY <3>3, <3>4, StoreEffect
  <2>3. UNCHANGED metas \/ \E w \in Workers : Store(w)
    BY DEF MetaNext, metaVars, TimePasses, Analyse, StopWorker, StartWorker, LookDue, Build,
           StoreFails, Poll
  <2>4. QED
    BY <2>1, <2>2, <2>3
<1>3. ASSUME NEW v \in untold'
      PROVE  v \in Workers /\ worker'[v].at \notin {"off", "ended"}
  <2> DEFINE Going(x) == worker[x].at \notin {"off", "ended"}
  <2>1. DOMAIN worker = Workers /\ \A x \in untold : x \in Workers /\ Going(x)
    BY DEF SeenInv, MetaBounds
  <2>2. \A w \in Workers : \A r : Set(w, r) =>
          worker'[w] = r /\ \A x \in Workers \ {w} : worker'[x] = worker[x]
    BY <2>1 DEF Set
  <2>3. CASE UNCHANGED worker /\ untold' \subseteq untold
    BY <2>1, <2>3
  <2>4. ASSUME NEW w \in Workers, NEW r, Set(w, r), untold' \subseteq untold \cup {w},
               r.at \in {"off", "ended"} => w \notin untold'
        PROVE  v \in Workers /\ worker'[v].at \notin {"off", "ended"}
    <3>1. CASE v = w
      BY <2>2, <2>4, <3>1
    <3>2. CASE v # w
      BY <2>1, <2>2, <2>4, <3>2
    <3>3. QED
      BY <3>1, <3>2
  <2>5. /\ Wait.at = "wait" /\ \A g : \A next \in NextOf(g) : next.at \notin {"off", "ended"}
        /\ [Off EXCEPT !.at = "look"].at = "look"
    BY DEF Wait, Off, NextOf
  <2>6. ASSUME NEW w \in Workers, StartWorker(w)
        PROVE  v \in Workers /\ worker'[v].at \notin {"off", "ended"}
    BY <2>4, <2>5, <2>6 DEF StartWorker
  <2>7. ASSUME NEW w \in Workers, LookDue(w) \/ Build(w) \/ Store(w) \/ StoreFails(w)
        PROVE  v \in Workers /\ worker'[v].at \notin {"off", "ended"}
    <3>1. untold' = untold
      BY <2>7 DEF LookDue, Build, Store, StoreFails
    <3>2. \E r : Set(w, r) /\ r.at \notin {"off", "ended"}
      <4>1. CASE LookDue(w)
        <5> DEFINE b == [Off EXCEPT !.at = "build", !.gran = worker[w].gran, !.to = clock]
        <5>1. b.at = "build"
          BY DEF Off
        <5>2. Set(w, b) \/ \E next \in NextOf(worker[w].gran) : Set(w, next)
          BY <4>1 DEF LookDue
        <5> HIDE DEF b
        <5>3. QED
          BY <2>5, <5>1, <5>2
      <4>2. CASE Build(w)
        <5> DEFINE b == [worker[w] EXCEPT
                          !.at = "call", !.built = Len(made),
                          !.saw = Oldest(InWindowOf(worker[w].gran, worker[w].to), ContextMax)]
        <5>1. Set(w, b) /\ worker[w] \in WorkerState
          BY <4>2 DEF Build, SeenInv
        <5>2. b.at = "call"
          BY <5>1 DEF WorkerState
        <5> HIDE DEF b
        <5>3. QED
          BY <5>1, <5>2
      <4>3. CASE Store(w)
        BY <2>5, <4>3 DEF Store
      <4>4. CASE StoreFails(w)
        BY <2>5, <4>4 DEF StoreFails
      <4>5. QED
        BY <2>7, <4>1, <4>2, <4>3, <4>4
    <3>3. QED
      BY <2>4, <3>1, <3>2
  <2>8. ASSUME NEW w \in Workers, Poll(w)
        PROVE  v \in Workers /\ worker'[v].at \notin {"off", "ended"}
    <3>1. untold' = untold
      BY <2>8 DEF Poll
    <3>2. CASE w \in untold
      BY <2>4, <2>5, <2>8, <3>1, <3>2 DEF Poll
    <3>3. CASE w \notin untold
      BY <2>4, <2>8, <3>1, <3>3 DEF Poll
    <3>4. QED
      BY <3>2, <3>3
  <2>9. CASE TimePasses \/ Analyse \/ (\E w \in Workers : StopWorker(w)) \/ UNCHANGED metaVars
    BY <2>3, <2>9 DEF TimePasses, Analyse, StopWorker, metaVars
  <2>10. QED
    BY <2>6, <2>7, <2>8, <2>9 DEF MetaNext
<1>4. QED
  BY <1>1, <1>2, <1>3 DEF MetaBounds

\* The tables stay within their limits, no thread is anywhere but at a step of its
\* loop, and none ends that was not told to stop.
THEOREM MetaTypeHolds == MetaSpec => []MetaTypeOK
<1>1. MetaInit => MetaBounds
  BY MetaAssumption DEF MetaInit, MetaBounds, MetaAssumption
<1>2. ASSUME MetaInv, SeenInv, MetaBounds PROVE MetaTypeOK
  <2>1. clock \in 0..MaxTime /\ Len(metas) <= MaxMetas
    BY <1>2, MetaAssumption DEF MetaInv, MetaBounds, MetaAssumption
  <2>2. gone \in 0..Len(made)
    BY <1>2, MetaAssumption DEF SeenInv, Pruned, MetaAssumption
  <2>3. \A w \in Workers : worker[w].at \in {"off", "look", "build", "call", "wait", "ended"}
    BY <1>2 DEF SeenInv, WorkerState
  <2>4. QED
    BY <1>2, <2>1, <2>2, <2>3 DEF MetaBounds, MetaTypeOK
<1>3. QED
  BY <1>1, <1>2, MetaAlways, BoundsStep, PTL DEF MetaSpec

-----------------------------------------------------------------------------
(* How severe a line is. *)

\* The line keeps the shape of a line.
LEMMA FormStep == form \in Forms /\ [NextForm]_form => (form \in Forms)'
BY DEF Forms, NextForm

\* The rank of each name of a level.
LEMMA Ranks ==
  \A i \in 1..8 : Rank(Names[i]) = 8 - i
<1>1. DOMAIN Names = 1..8
  BY DEF Names
<1>2. \A i, j \in 1..8 : Names[i] = Names[j] => i = j
  BY DEF Names
<1>3. ASSUME NEW i \in 1..8 PROVE Rank(Names[i]) = 8 - i
  <2>1. Names[i] \in Elements(Names)
    BY <1>1 DEF Elements
  <2>2. (CHOOSE j \in DOMAIN Names : Names[j] = Names[i]) = i
    BY <1>1, <1>2
  <2>3. QED
    BY <2>1, <2>2 DEF Rank
<1>4. QED
  BY <1>3

\* The names that rank with error or above, and their numbers.
LEMMA Severe ==
  ASSUME NEW level, Rank(level) >= Rank("error")
  PROVE  level \in {"emergency", "alert", "critical", "error"}
<1>1. /\ Rank("emergency") = 7 /\ Rank("alert") = 6 /\ Rank("critical") = 5 /\ Rank("error") = 4
      /\ Rank("warning") = 3 /\ Rank("notice") = 2 /\ Rank("info") = 1 /\ Rank("debug") = 0
  BY Ranks DEF Names
<1>2. CASE level \in {"warning", "notice", "info", "debug"}
  BY <1>1, <1>2
<1>3. CASE level \notin Elements(Names)
  <2>1. Rank(level) = 1
    BY <1>3 DEF Rank
  <2>2. QED
    BY <1>1, <2>1
<1>4. Elements(Names) = {"emergency", "alert", "critical", "error", "warning", "notice", "info", "debug"}
  BY DEF Elements, Names
<1>5. QED
  BY <1>2, <1>3, <1>4

\* The two ways of taking the severity out of a priority are the same.
LEMMA SameRemainder ==
  ASSUME NEW p \in Nat
  PROVE  p % 8 = p - 8 * (p \div 8) /\ p % 8 \in 0..7
OBVIOUS

\* For any priorities: a line that an importance of error or more lets through is
\* a failure to the failure view too, but for a JSON level of "major".
THEOREM SeverityHolds == FormInit /\ [][NextForm]_form => []SevereIsFailure
<1>1. FormInit => form \in Forms
  BY DEF FormInit, Forms, AnyWord
<1>2. ASSUME form \in Forms PROVE SevereIsFailure
  <2>1. SUFFICES ASSUME Rank(ClassifyLine(form)) >= Rank("error")
                 PROVE  IsFailure(form) \/ (form.pri = NoPri /\ form.json = "major")
    BY DEF SevereIsFailure, MeetsMin
  <2>2. ClassifyLine(form) \in {"emergency", "alert", "critical", "error"}
    BY <2>1, Severe
  <2>3. /\ form.pri \in Nat /\ form.json \in AnyWord /\ form.word \in AnyWord
        /\ form.fails \in BOOLEAN
    <3>1. Priorities \cup {NoPri} \in SUBSET Nat
      BY SeverityAssumption DEF NoPri, SeverityAssumption
    <3>2. form \in [pri : Priorities \cup {NoPri}, json : AnyWord, word : AnyWord, fails : BOOLEAN]
      BY <1>2 DEF Forms
    <3>3. QED
      BY <3>1, <3>2
  <2>4. \A v \in AnyWord :
          Normalize(v) \in {"emergency", "alert", "critical", "error"} => v \in FailureWords \/ v = "major"
    BY DEF AnyWord, Normalize, Aliases, FailureWords, Elements, Names
  <2>5. CASE form.pri # NoPri
    <3> DEFINE r == form.pri - 8 * (form.pri \div 8)
    <3>1. form.pri % 8 = r /\ r \in 0..7
      BY <2>3, SameRemainder
    <3>2. Names[r + 1] \in {"emergency", "alert", "critical", "error"}
      BY <2>2, <2>5, <3>1 DEF ClassifyLine
    <3> HIDE DEF r
    <3>3. r <= 3
      BY <3>1, <3>2 DEF Names
    <3>4. QED
      BY <2>5, <3>3 DEF IsFailure, r
  <2>6. CASE form.pri = NoPri /\ form.json # "none"
    BY <2>2, <2>3, <2>4, <2>6 DEF ClassifyLine, IsFailure
  <2>7. CASE form.pri = NoPri /\ form.json = "none" /\ form.word \in ClassifierWords
    <3>1. Normalize(form.word) \in {"emergency", "alert", "critical", "error"}
      BY <2>2, <2>7 DEF ClassifyLine
    <3>2. form.word # "major"
      BY <2>7 DEF ClassifierWords, Elements, Names
    <3>3. QED
      BY <2>3, <2>4, <3>1, <3>2 DEF IsFailure
  <2>8. CASE form.pri = NoPri /\ form.json = "none" /\ form.word \notin ClassifierWords
    BY <2>2, <2>8 DEF ClassifyLine, IsFailure
  <2>9. QED
    BY <2>5, <2>6, <2>7, <2>8
<1>3. QED
  BY <1>1, <1>2, FormStep, PTL
=============================================================================
