----------------------------- MODULE EventStore -----------------------------
(***************************************************************************)
(* The hub's event table and its ingest de-duplication table, as kept by   *)
(* EventStore (src/log_intel/store.py).  Every method runs under one lock  *)
(* and commits one SQLite transaction, so each operation is one action.    *)
(*                                                                         *)
(* A row is a source type, an ingest key (only Mist rows carry one), the   *)
(* time it was received and a message; the remaining columns are carried   *)
(* through unchanged and do not occur here.  row[e] is kept after e is     *)
(* deleted: live says which ids are in the table.                          *)
(***************************************************************************)
EXTENDS Integers, FiniteSets

CONSTANTS
  Types,             \* source types of events
  Keys,              \* parser keys "mist:..." that a Mist event can carry
  NoKey,             \* the parser of every event that is not a Mist event
  Messages,          \* event messages, as far as anything depends on them
  MaxEventsChoices,  \* values of LOG_INTEL_MAX_EVENTS over the restarts
  ReserveChoices,    \* values of the two LOG_INTEL_RESERVE_EVENTS_* settings
  Legacy,            \* last id given out in the database an upgrade opens
  MaxId,             \* bound: number of rows ever inserted
  MaxNow             \* bound: number of clock ticks

Reserved == {"mist", "palo_alto"}
Ids == 1..MaxId

ASSUME StoreAssumption ==
  /\ NoKey \notin Keys
  /\ MaxEventsChoices \subseteq Int
  /\ ReserveChoices \subseteq [Reserved -> Nat]
  /\ MaxId \in Nat
  /\ MaxNow \in Nat
  /\ Legacy \in 0..MaxId

VARIABLES
  live,       \* ids in table events
  row,        \* contents of the row with a given id
  nextId,     \* the next AUTOINCREMENT id
  seen,       \* table ingest_seen
  maxEvents,  \* self._max_events
  reserve,    \* get_settings().reserve_events_*; all 0 when it raises
  now         \* the clock

storeVars == <<live, row, nextId, seen, maxEvents, reserve, now>>

Row == [type: Types, key: Keys \cup {NoKey}, at: 0..MaxNow, msg: Messages]
NoRow == [type |-> "none"]

\* A Mist row carries a key, no other row does.
WellFormed(r) == (r.type = "mist") <=> (r.key \in Keys)

OfType(S, r, t) == {e \in S : r[e].type = t}

\* Faulty forms of Migrated: no backfill on upgrade, or one that takes every row.
MigratedNothing(s, S, r) == s
MigratedAnyType(s, S, r) == IF s = {} THEN {r[e].key : e \in S} ELSE s

\* The legacy Mist keys are copied once, when ingest_seen is still empty.
Migrated(s, S, r) ==
  IF s = {} THEN {r[e].key : e \in OfType(S, r, "mist")} ELSE s

HasParser(k) == k \in seen \/ \E e \in live : row[e].key = k

-----------------------------------------------------------------------------
(***************************************************************************)
(* Pruning.  The two reserves are floors on the number of rows of a type;  *)
(* when together they leave no room under the cap they are scaled down.    *)
(***************************************************************************)
FloorBudget == IF maxEvents > 0 THEN maxEvents - 1 ELSE 0
ReserveSum == reserve["mist"] + reserve["palo_alto"]

\* int(v * (budget / total)): the floating-point product may fall just below
\* an exact multiple, and then truncates to one less.
Scaled(t) ==
  LET q == (reserve[t] * FloorBudget) \div ReserveSum
  IN  {q} \cup IF q > 0 /\ (reserve[t] * FloorBudget) % ReserveSum = 0
               THEN {q - 1} ELSE {}

Floors ==
  IF ReserveSum > FloorBudget
  THEN {f \in [Reserved -> 0..FloorBudget] : \A t \in Reserved : f[t] \in Scaled(t)}
  ELSE {reserve}

\* Faulty: the pass takes one row too many of a reserved type.
DeletableOffByOne(S, r, f) ==
  {e \in S : r[e].type \in Reserved /\ f[r[e].type] > 0 =>
               Cardinality({x \in OfType(S, r, r[e].type) : x >= e}) >= f[r[e].type]}

\* Faulty: the rows of a type are counted from its oldest row up.
DeletableFromNewest(S, r, f) ==
  {e \in S : r[e].type \in Reserved /\ f[r[e].type] > 0 =>
               Cardinality({x \in OfType(S, r, r[e].type) : x <= e}) > f[r[e].type]}

\* Rows the first pass may take: walking up the ids, a row of a reserved type
\* is skipped once no more rows of its type remain than the floor.
Deletable(S, r, f) ==
  {e \in S : r[e].type \in Reserved /\ f[r[e].type] > 0 =>
               Cardinality({x \in OfType(S, r, r[e].type) : x >= e}) > f[r[e].type]}

\* D holds the oldest rows of S.
Oldest(D, S) == D \subseteq S /\ \A d \in D, s \in S \ D : d < s

\* The rows that pruning table S deletes with floors f: nothing within the cap;
\* else the excess, from the deletable rows first and, where these run out,
\* from the oldest of the others.
Prunes(D, S, r, f) ==
  IF maxEvents <= 0 \/ Cardinality(S) <= maxEvents
  THEN D = {}
  ELSE /\ Cardinality(D) = Cardinality(S) - maxEvents
       /\ \/ Oldest(D, Deletable(S, r, f))
          \/ /\ Deletable(S, r, f) \subseteq D
             /\ Oldest(D \ Deletable(S, r, f), S \ Deletable(S, r, f))

-----------------------------------------------------------------------------
\* The first database: empty, or one written before ingest_seen existed.
StoreInit ==
  /\ live \in SUBSET (1..Legacy)
  /\ \E r \in [1..Legacy -> {x \in Row : WellFormed(x) /\ x.at = 0}] :
        row = [e \in Ids |-> IF e \in live THEN r[e] ELSE NoRow]
  /\ nextId = Legacy + 1
  /\ seen = Migrated({}, live, row)
  /\ maxEvents \in MaxEventsChoices
  /\ reserve \in ReserveChoices
  /\ now = 0

\* One transaction: the row, its key, and the pruning it makes necessary.
Insert(r) ==
  /\ nextId \in Ids
  /\ row' = [row EXCEPT ![nextId] = r]
  /\ seen' = IF r.type = "mist" THEN seen \cup {r.key} ELSE seen
  /\ \E f \in Floors, D \in SUBSET (live \cup {nextId}) :
        /\ Prunes(D, live \cup {nextId}, row', f)
        /\ live' = (live \cup {nextId}) \ D
  /\ nextId' = nextId + 1
  /\ UNCHANGED <<maxEvents, reserve, now>>

\* Ingest stamps an event just before it inserts it, on a thread of its own.
InsertAny == \E r \in Row : WellFormed(r) /\ r.at <= now /\ Insert(r)

MarkIngestSeen(k) ==
  /\ seen' = seen \cup {k}
  /\ UNCHANGED <<live, row, nextId, maxEvents, reserve, now>>

\* Retention: by age alone, whatever the reserves.
DeleteOlderThan(cutoff) ==
  /\ live' = {e \in live : row[e].at >= cutoff}
  /\ UNCHANGED <<row, nextId, seen, maxEvents, reserve, now>>

\* A restart, clean or not: committed rows stay, the cap is read again.
Reopen(m) ==
  /\ maxEvents' = m
  /\ seen' = Migrated(seen, live, row)
  /\ UNCHANGED <<live, row, nextId, reserve, now>>

\* Settings saved while the store is open: pruning reads the reserves live.
ChangeReserve(f) ==
  /\ reserve' = f
  /\ UNCHANGED <<live, row, nextId, seen, maxEvents, now>>

Tick ==
  /\ now < MaxNow
  /\ now' = now + 1
  /\ UNCHANGED <<live, row, nextId, seen, maxEvents, reserve>>

StoreNext ==
  \/ InsertAny
  \/ \E k \in Keys : MarkIngestSeen(k)
  \/ \E cutoff \in 1..now : DeleteOlderThan(cutoff)
  \/ \E m \in MaxEventsChoices : Reopen(m)
  \/ \E f \in ReserveChoices : ChangeReserve(f)
  \/ Tick

StoreSpec == StoreInit /\ [][StoreNext]_storeVars

-----------------------------------------------------------------------------
\* Types of the tables and of the settings; every live row has been inserted.
StoreTypeOK ==
  /\ live \in SUBSET Ids
  /\ row \in [Ids -> Row \cup {NoRow}]
  /\ nextId \in 1..(MaxId + 1)
  /\ seen \in SUBSET Keys
  /\ maxEvents \in MaxEventsChoices
  /\ reserve \in ReserveChoices
  /\ now \in 0..MaxNow
  /\ \A e \in live : e < nextId /\ row[e] \in Row /\ WellFormed(row[e])

Inserts == nextId' # nextId

\* "Floors must not prevent enforcing max_events" (store.py:237): whatever the
\* reserves, an insert leaves no more rows than the cap, even the first insert
\* after a restart with a smaller cap.
CapEnforced ==
  [][Inserts /\ maxEvents > 0 => Cardinality(live') <= maxEvents]_storeVars

\* The row an insert has just written is never among the rows it prunes: the id
\* it returns is then broadcast, evaluated for alerts and linked to.
NewestSurvives == [][Inserts => nextId \in live']_storeVars

\* "minimum ... events kept when pruning" (README): while the reserves fit under
\* the cap, an insert leaves at least the reserve of a type, or all there were.
ReserveKept ==
  [][Inserts /\ ReserveSum <= FloorBudget =>
       \A t \in Reserved :
          \/ Cardinality(OfType(live', row', t)) >= reserve[t]
          \/ OfType(live, row, t) \subseteq live']_storeVars

\* Within a type pruning takes the oldest rows: no pruned row is newer than a
\* row of its type that stays.
OldestOfTypeFirst ==
  [][Inserts => \A d \in live \ live', e \in live' :
                  row'[d].type = row'[e].type => d < e]_storeVars

\* "True if this ingest key was seen before (survives event prune)"
\* (store.py:169): has_parser never forgets a key, through pruning, retention,
\* restarts and the upgrade of a database that had no ingest_seen.
SeenForever ==
  [][\A k \in Keys : HasParser(k) => HasParser(k)']_storeVars

\* The keys a poll would recognise.
Known == {k \in Keys : HasParser(k)}

Log == INSTANCE BoundedLog WITH
         AllKeys <- Keys, AllCaps <- MaxEventsChoices,
         kept <- live, next <- nextId, cap <- maxEvents, known <- Known

\* The table, with its reserves, its two-pass pruning, its retention and the
\* upgrade of an old database, is a bounded log: ids are never given twice, an
\* insert deletes exactly the excess and never the new row, and no deletion or
\* restart makes it forget a key.
LogRefined == Log!LogSpec
=============================================================================
