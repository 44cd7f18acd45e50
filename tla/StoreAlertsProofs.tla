-------------------------- MODULE StoreAlertsProofs --------------------------
(***************************************************************************)
(* Theorems about the event table and the alert engines, which the other   *)
(* parts of the hub work with.  EventStore: for every cap, every pair of   *)
(* reserves, every database an upgrade may open and any number of rows and *)
(* clock ticks.  AlertEngine: the cooldown of a rule holds for any number  *)
(* of evaluating threads however late they come to decide, so does the cap *)
(* per minute up to the time they may have waited, and the rules in force  *)
(* are those of the table although edits are not ordered.                  *)
(***************************************************************************)
EXTENDS EventStore, AlertEngine, FiniteSetTheorems, WellFoundedInduction, TLAPS

-----------------------------------------------------------------------------
(* Arithmetic and finite sets of ids. *)

\* A nonempty set of naturals has a least element.
LEMMA MinExists ==
  ASSUME NEW S \in SUBSET Nat, S # {}
  PROVE  \E m \in S : \A x \in S : m <= x
<1> DEFINE R == {ss \in Nat \X Nat : ss[1] < ss[2]}
<1>1. IsWellFoundedOn(R, Nat)
  BY NatLessThanWellFounded DEF OpToRel
<1>2. \A x, m \in S : x < m => <<x, m>> \in R
  OBVIOUS
<1> HIDE DEF R
<1>3. \E m \in S : \A x \in S : ~(<<x, m>> \in R)
  BY <1>1, WFMin
<1>4. PICK m \in S : \A x \in S : ~(<<x, m>> \in R)
  BY <1>3
<1>5. \A x \in S : ~(x < m)
  BY <1>2, <1>4
<1>6. QED
  BY <1>5

\* A nonempty bounded set of naturals has a greatest element.
LEMMA MaxExists ==
  ASSUME NEW n \in Nat, NEW S \in SUBSET (1..n), S # {}
  PROVE  \E m \in S : \A x \in S : x <= m
<1> DEFINE T == {n - x : x \in S}
<1>1. T \in SUBSET Nat /\ T # {}
  <2>1. \A x \in S : n - x \in Nat
    OBVIOUS
  <2>2. T \subseteq Nat
    BY <2>1
  <2>3. PICK x \in S : TRUE
    OBVIOUS
  <2>4. n - x \in T
    OBVIOUS
  <2>5. QED
    BY <2>2, <2>4
<1>2. PICK k \in T : \A y \in T : k <= y
  BY <1>1, MinExists
<1>3. PICK m \in S : k = n - m
  OBVIOUS
<1>4. \A x \in S : n - m <= n - x
  BY <1>2, <1>3
<1>5. QED
  BY <1>4

\* Integer division rounds down.
LEMMA DivLe ==
  ASSUME NEW a \in Nat, NEW b \in Nat, b > 0
  PROVE  (a \div b) * b <= a /\ a \div b \in Nat
  OBVIOUS

\* Two quotas scaled to a budget smaller than their sum fit the budget.
LEMMA ScaleSum ==
  ASSUME NEW v \in Nat, NEW w \in Nat, NEW b \in Nat, v + w > b
  PROVE  /\ (v * b) \div (v + w) \in Nat
         /\ (w * b) \div (v + w) \in Nat
         /\ ((v * b) \div (v + w)) + ((w * b) \div (v + w)) <= b
<1> DEFINE t == v + w
           p == (v * b) \div t
           q == (w * b) \div t
<1>1. t \in Nat /\ t > 0 /\ v * b \in Nat /\ w * b \in Nat
  OBVIOUS
<1>2. p * t <= v * b /\ q * t <= w * b /\ p \in Nat /\ q \in Nat
  BY <1>1, DivLe
<1>3. v * b + w * b = t * b
  OBVIOUS
<1> HIDE DEF p, q, t
<1>4. (p + q) * t = p * t + q * t
  BY <1>1, <1>2
<1>5. (p + q) * t <= b * t
  BY <1>1, <1>2, <1>3, <1>4
<1>6. p + q <= b
  BY <1>1, <1>2, <1>5
<1>7. QED
  BY <1>2, <1>6 DEF p, q, t

-----------------------------------------------------------------------------
(* Pruning. *)

\* Whatever the reserves, the floors leave room for one row under the cap.
LEMMA FloorsFit ==
  ASSUME maxEvents \in Int, maxEvents > 0, reserve \in [Reserved -> Nat],
         NEW f \in Floors
  PROVE  /\ f \in [Reserved -> Nat]
         /\ f["mist"] + f["palo_alto"] <= maxEvents - 1
<1> DEFINE m == reserve["mist"]
           p == reserve["palo_alto"]
<1>1. m \in Nat /\ p \in Nat /\ FloorBudget \in Nat
  BY DEF Reserved, FloorBudget
<1>2. CASE ReserveSum <= FloorBudget
  BY <1>1, <1>2 DEF Floors, ReserveSum, FloorBudget
<1>3. CASE ReserveSum > FloorBudget
  <2>1. f \in [Reserved -> 0..FloorBudget] /\ \A t \in Reserved : f[t] \in Scaled(t)
    BY <1>1, <1>3 DEF Floors
  <2>2. /\ (m * FloorBudget) \div ReserveSum \in Nat
        /\ (p * FloorBudget) \div ReserveSum \in Nat
        /\ ((m * FloorBudget) \div ReserveSum) + ((p * FloorBudget) \div ReserveSum)
             <= FloorBudget
    BY <1>1, <1>3, ScaleSum DEF ReserveSum
  <2>3. /\ f["mist"] \in Nat /\ f["palo_alto"] \in Nat
        /\ f["mist"] <= (m * FloorBudget) \div ReserveSum
        /\ f["palo_alto"] <= (p * FloorBudget) \div ReserveSum
    <3> DEFINE a == (m * FloorBudget) \div ReserveSum
               b == (p * FloorBudget) \div ReserveSum
    <3>1. f["mist"] \in {a, a - 1} /\ f["palo_alto"] \in {b, b - 1}
      BY <2>1 DEF Scaled, Reserved
    <3>2. f["mist"] \in Nat /\ f["palo_alto"] \in Nat
      BY <1>1, <2>1 DEF Reserved
    <3>3. a \in Nat /\ b \in Nat
      BY <2>2
    <3> HIDE DEF a, b
    <3>4. f["mist"] <= a /\ f["palo_alto"] <= b
      BY <3>1, <3>2, <3>3
    <3>5. QED
      BY <3>2, <3>4 DEF a, b
  <2>4. f \in [Reserved -> Nat]
    BY <1>1, <2>1
  <2> DEFINE a == (m * FloorBudget) \div ReserveSum
             b == (p * FloorBudget) \div ReserveSum
  <2>5. a \in Nat /\ b \in Nat /\ a + b <= FloorBudget
        /\ f["mist"] <= a /\ f["palo_alto"] <= b
    BY <2>2, <2>3
  <2> HIDE DEF a, b
  <2>6. f["mist"] + f["palo_alto"] <= FloorBudget
    BY <1>1, <2>3, <2>5
  <2>7. QED
    BY <2>4, <2>6 DEF FloorBudget
<1>4. QED
  BY <1>1, <1>2, <1>3 DEF ReserveSum

\* The first pass skips at most floor-many rows of a reserved type.
LEMMA ProtectedBound ==
  ASSUME NEW S \in SUBSET Nat, IsFiniteSet(S), NEW r,
         NEW f \in [Reserved -> Nat], NEW t \in Reserved
  PROVE  /\ IsFiniteSet(OfType(S, r, t) \ Deletable(S, r, f))
         /\ Cardinality(OfType(S, r, t) \ Deletable(S, r, f)) <= f[t]
<1> DEFINE P == OfType(S, r, t) \ Deletable(S, r, f)
<1>1. P \subseteq S /\ IsFiniteSet(P)
  BY FS_Subset DEF OfType
<1>2. CASE P = {}
  BY <1>1, <1>2, FS_EmptySet
<1>3. CASE P # {}
  <2>1. PICK m \in P : \A x \in P : m <= x
    BY <1>1, <1>3, MinExists
  <2> DEFINE Q == {x \in OfType(S, r, t) : x >= m}
  <2>2. P \subseteq Q /\ IsFiniteSet(Q)
    BY <1>1, <2>1, FS_Subset DEF OfType
  <2>3. m \in S /\ r[m].type = t /\ m \notin Deletable(S, r, f)
    BY <2>1 DEF OfType
  <2>4. ~(Cardinality(Q) > f[t])
    BY <2>3 DEF Deletable
  <2>5. Cardinality(P) <= Cardinality(Q) /\ Cardinality(P) \in Nat /\ Cardinality(Q) \in Nat
    BY <2>2, FS_Subset, FS_CardinalityType
  <2> HIDE DEF P, Q
  <2>6. QED
    BY <1>1, <2>4, <2>5 DEF P
<1>4. QED
  BY <1>2, <1>3

\* What pruning a table S does to it.  The first pass alone always suffices, so
\* the rows it takes are the oldest of those above the floors; and the newest
\* row n is never one of them.
LEMMA PruneEffect ==
  ASSUME maxEvents \in Int, reserve \in [Reserved -> Nat],
         NEW f, NEW S, NEW r, NEW D, NEW n,
         Prunes(D, S, r, f), f \in Floors, D \in SUBSET S, D # {},
         S \in SUBSET Nat, IsFiniteSet(S), n \in S, \A x \in S : x <= n
  PROVE  /\ maxEvents > 0
         /\ f \in [Reserved -> Nat]
         /\ Oldest(D, Deletable(S, r, f))
         /\ n \in S \ D
         /\ Cardinality(S \ D) = maxEvents
<1>1. /\ maxEvents > 0
      /\ Cardinality(D) = Cardinality(S) - maxEvents
      /\ Oldest(D, Deletable(S, r, f)) \/ Deletable(S, r, f) \subseteq D
  <2>1. ~(maxEvents <= 0 \/ Cardinality(S) <= maxEvents)
    BY DEF Prunes
  <2>2. /\ Cardinality(D) = Cardinality(S) - maxEvents
        /\ Oldest(D, Deletable(S, r, f)) \/ Deletable(S, r, f) \subseteq D
    BY <2>1, Zenon DEF Prunes
  <2>3. QED
    BY <2>1, <2>2
<1>2. f \in [Reserved -> Nat] /\ f["mist"] + f["palo_alto"] <= maxEvents - 1
  BY <1>1, FloorsFit
<1> DEFINE Del == Deletable(S, r, f)
           M == OfType(S, r, "mist") \ Del
           P == OfType(S, r, "palo_alto") \ Del
<1>3. /\ Cardinality(S) \in Nat /\ Cardinality(D) \in Nat
      /\ IsFiniteSet(Del) /\ Cardinality(Del) \in Nat
      /\ IsFiniteSet(S \ Del) /\ Cardinality(S \ Del) \in Nat
      /\ Cardinality(S \ Del) = Cardinality(S) - Cardinality(Del)
  <2>1. Del \subseteq S
    BY DEF Deletable
  <2>2. IsFiniteSet(Del) /\ IsFiniteSet(D) /\ IsFiniteSet(S \ Del)
    BY <2>1, FS_Subset
  <2>3. S \cap Del = Del
    BY <2>1
  <2>4. QED
    BY <2>2, <2>3, FS_CardinalityType, FS_Difference
<1>4. Cardinality(S \ Del) <= maxEvents - 1
  <2>1. /\ IsFiniteSet(M) /\ Cardinality(M) <= f["mist"]
        /\ IsFiniteSet(P) /\ Cardinality(P) <= f["palo_alto"]
    BY <1>2, ProtectedBound DEF Reserved
  <2>2. S \ Del = M \cup P
    BY DEF Deletable, OfType, Reserved
  <2>3. /\ Cardinality(M) \in Nat /\ Cardinality(P) \in Nat
        /\ Cardinality(M \cap P) \in Nat
        /\ Cardinality(M \cup P) =
             Cardinality(M) + Cardinality(P) - Cardinality(M \cap P)
    <3>1. IsFiniteSet(M \cap P)
      BY <2>1, FS_Subset
    <3>2. QED
      BY <2>1, <3>1, FS_Union, FS_CardinalityType
  <2>4. f["mist"] \in Nat /\ f["palo_alto"] \in Nat
    BY <1>2 DEF Reserved
  <2> HIDE DEF M, P, Del
  <2>5. Cardinality(M \cup P) <= f["mist"] + f["palo_alto"]
    BY <2>1, <2>3, <2>4
  <2>6. Cardinality(S \ Del) = Cardinality(M \cup P)
    BY <2>2
  <2>7. Cardinality(S \ Del) \in Nat
    BY <1>3 DEF Del
  <2>8. QED
    BY <1>2, <2>4, <2>5, <2>6, <2>7
<1>5. ~(Del \subseteq D)
  <2>1. Cardinality(Del) > Cardinality(D)
    BY <1>1, <1>3, <1>4
  <2>2. IsFiniteSet(D)
    BY FS_Subset
  <2> HIDE DEF Del
  <2>3. Del \subseteq D => Cardinality(Del) <= Cardinality(D)
    BY <2>2, FS_Subset
  <2>4. QED
    BY <1>3, <2>1, <2>3
<1>6. Oldest(D, Del)
  BY <1>1, <1>5
<1>7. n \notin D
  <2>1. PICK s \in Del \ D : TRUE
    BY <1>5
  <2>2. s \in S
    BY <2>1 DEF Deletable
  <2>3. \A d \in D : d < s
    BY <1>6, <2>1 DEF Oldest
  <2>4. s <= n /\ s \in Nat /\ n \in Nat
    BY <2>2
  <2>5. QED
    BY <2>3, <2>4
<1>8. Cardinality(S \ D) = maxEvents
  <2>1. S \cap D = D
    OBVIOUS
  <2>2. Cardinality(S \ D) = Cardinality(S) - Cardinality(D)
    BY <2>1, FS_Difference, ZenonT(30)
  <2>3. QED
    BY <1>1, <1>3, <2>2
<1>9. QED
  BY <1>1, <1>2, <1>6, <1>7, <1>8

-----------------------------------------------------------------------------
(* Type correctness. *)

LEMMA TypeInit ==
  ASSUME StoreInit
  PROVE  StoreTypeOK
<1>1. PICK r \in [1..Legacy -> {x \in Row : WellFormed(x) /\ x.at = 0}] :
         row = [e \in Ids |-> IF e \in live THEN r[e] ELSE NoRow]
  BY DEF StoreInit
<1>2. Legacy \in Nat /\ MaxId \in Nat /\ MaxNow \in Nat /\ Legacy <= MaxId
  BY StoreAssumption DEF StoreAssumption
<1>3. live \in SUBSET (1..Legacy) /\ live \subseteq Ids
  BY <1>2 DEF StoreInit, Ids
<1>4. \A e \in live : row[e] = r[e] /\ row[e] \in Row /\ WellFormed(row[e])
  BY <1>1, <1>3
<1>5. row \in [Ids -> Row \cup {NoRow}]
  BY <1>1, <1>3
<1>6. \A e \in live : e < nextId
  BY <1>2, <1>3 DEF StoreInit
<1>7. seen \in SUBSET Keys
  <2>1. \A e \in OfType(live, row, "mist") : row[e].key \in Keys
    BY <1>4 DEF OfType, WellFormed
  <2>2. seen = {row[e].key : e \in OfType(live, row, "mist")}
    BY DEF StoreInit, Migrated
  <2>3. QED
    BY <2>1, <2>2
<1>8. nextId \in 1..(MaxId + 1) /\ now \in 0..MaxNow
  BY <1>2 DEF StoreInit
<1>9. maxEvents \in MaxEventsChoices /\ reserve \in ReserveChoices
  BY DEF StoreInit
<1>10. QED
  BY <1>3, <1>4, <1>5, <1>6, <1>7, <1>8, <1>9 DEF StoreTypeOK

LEMMA TypeStep ==
  ASSUME StoreTypeOK, [StoreNext]_storeVars
  PROVE  StoreTypeOK'
<1>0. MaxId \in Nat /\ MaxNow \in Nat
  BY StoreAssumption DEF StoreAssumption
<1>1. ASSUME NEW r \in Row, WellFormed(r), Insert(r) PROVE StoreTypeOK'
  <2>1. nextId \in Ids /\ nextId' = nextId + 1 /\ row' = [row EXCEPT ![nextId] = r]
    BY <1>1 DEF Insert
  <2>2. live' \subseteq live \cup {nextId}
    BY <1>1 DEF Insert
  <2>3. seen' \in SUBSET Keys
    <3>1. r.type = "mist" => r.key \in Keys
      BY <1>1 DEF WellFormed
    <3>2. QED
      BY <1>1, <3>1 DEF Insert, StoreTypeOK
  <2>4. row' \in [Ids -> Row \cup {NoRow}]
    BY <2>1 DEF StoreTypeOK
  <2>5. \A e \in live' : e < nextId' /\ row'[e] \in Row /\ WellFormed(row'[e])
    <3> SUFFICES ASSUME NEW e \in live'
                 PROVE  e < nextId' /\ row'[e] \in Row /\ WellFormed(row'[e])
      OBVIOUS
    <3>1. CASE e = nextId
      BY <1>1, <2>1, <3>1 DEF StoreTypeOK, Ids
    <3>2. CASE e # nextId
      <4>1. e \in live /\ e \in Ids /\ row'[e] = row[e]
        BY <2>1, <2>2, <3>2 DEF StoreTypeOK
      <4>2. e < nextId /\ nextId \in Nat /\ e \in Nat
        BY <2>1, <4>1 DEF StoreTypeOK, Ids
      <4>3. QED
        BY <2>1, <4>1, <4>2 DEF StoreTypeOK
    <3>3. QED
      BY <3>1, <3>2
  <2>6. live' \in SUBSET Ids /\ nextId' \in 1..(MaxId + 1)
    BY <1>0, <2>1, <2>2 DEF StoreTypeOK, Ids
  <2>7. UNCHANGED <<maxEvents, reserve, now>>
    BY <1>1 DEF Insert
  <2>8. QED
    BY <2>3, <2>4, <2>5, <2>6, <2>7 DEF StoreTypeOK
<1>2. ASSUME NEW k \in Keys, MarkIngestSeen(k) PROVE StoreTypeOK'
  BY <1>2 DEF MarkIngestSeen, StoreTypeOK
<1>3. ASSUME NEW c \in 1..now, DeleteOlderThan(c) PROVE StoreTypeOK'
  BY <1>3 DEF DeleteOlderThan, StoreTypeOK
<1>4. ASSUME NEW m \in MaxEventsChoices, Reopen(m) PROVE StoreTypeOK'
  <2>1. Migrated(seen, live, row) \in SUBSET Keys
    <3>1. \A e \in OfType(live, row, "mist") : row[e].key \in Keys
      BY DEF OfType, WellFormed, StoreTypeOK
    <3>2. QED
      BY <3>1 DEF Migrated, StoreTypeOK
  <2>2. QED
    BY <1>4, <2>1 DEF Reopen, StoreTypeOK
<1>5. ASSUME NEW f \in ReserveChoices, ChangeReserve(f) PROVE StoreTypeOK'
  BY <1>5 DEF ChangeReserve, StoreTypeOK
<1>6. CASE Tick
  BY <1>0, <1>6 DEF Tick, StoreTypeOK
<1>7. CASE UNCHANGED storeVars
  BY <1>7 DEF storeVars, StoreTypeOK
<1>8. QED
  BY <1>1, <1>2, <1>3, <1>4, <1>5, <1>6, <1>7 DEF StoreNext, InsertAny

\* The tables and settings always have their types, and every live row has
\* been inserted with a key exactly when it is a Mist row.
THEOREM TypeCorrect == StoreSpec => []StoreTypeOK
BY TypeInit, TypeStep, PTL DEF StoreSpec

-----------------------------------------------------------------------------
(* What an insert does to the table. *)

\* The table S an insert prunes, with the new row as its greatest id, and the
\* rows D it takes; D is empty or what PruneEffect says.
LEMMA InsertEffect ==
  ASSUME StoreTypeOK, StoreNext, Inserts
  PROVE  \E f \in Floors, D \in SUBSET (live \cup {nextId}) :
           /\ Prunes(D, live \cup {nextId}, row', f)
           /\ live' = (live \cup {nextId}) \ D
           /\ nextId \in Ids
           /\ live \cup {nextId} \in SUBSET Nat
           /\ IsFiniteSet(live \cup {nextId})
           /\ \A x \in live \cup {nextId} : x <= nextId
           /\ maxEvents \in Int /\ reserve \in [Reserved -> Nat]
           /\ \E r \in Row : row' = [row EXCEPT ![nextId] = r]
<1>1. PICK r \in Row : Insert(r)
  BY DEF StoreNext, InsertAny, Inserts, MarkIngestSeen, DeleteOlderThan, Reopen,
         ChangeReserve, Tick
<1>2. PICK f \in Floors, D \in SUBSET (live \cup {nextId}) :
         /\ Prunes(D, live \cup {nextId}, row', f)
         /\ live' = (live \cup {nextId}) \ D
  BY <1>1 DEF Insert
<1>3. nextId \in Ids /\ row' = [row EXCEPT ![nextId] = r]
  BY <1>1 DEF Insert
<1>4. live \cup {nextId} \in SUBSET Ids /\ Ids \subseteq Nat /\ IsFiniteSet(Ids)
  BY <1>3, StoreAssumption, FS_Interval DEF StoreTypeOK, StoreAssumption, Ids
<1>5. IsFiniteSet(live \cup {nextId})
  BY <1>4, FS_Subset
<1>6. \A x \in live \cup {nextId} : x <= nextId
  BY <1>3, <1>4 DEF StoreTypeOK
<1>7. maxEvents \in Int /\ reserve \in [Reserved -> Nat]
  BY StoreAssumption DEF StoreTypeOK, StoreAssumption
<1>8. QED
  BY <1>2, <1>3, <1>4, <1>5, <1>6, <1>7

\* No insert leaves more rows than the cap.
THEOREM CapHolds == StoreSpec => CapEnforced
<1>1. ASSUME StoreTypeOK, StoreNext, Inserts, maxEvents > 0
      PROVE  Cardinality(live') <= maxEvents
  <2> DEFINE S == live \cup {nextId}
  <2>1. PICK f \in Floors, D \in SUBSET S :
           /\ Prunes(D, S, row', f)
           /\ live' = S \ D
           /\ nextId \in Ids
           /\ S \in SUBSET Nat /\ IsFiniteSet(S) /\ \A x \in S : x <= nextId
           /\ maxEvents \in Int /\ reserve \in [Reserved -> Nat]
    BY <1>1, InsertEffect
  <2>2. CASE D = {}
    <3>1. live' = S
      BY <2>1, <2>2
    <3>2. Cardinality(S) \in Nat
      BY <2>1, FS_CardinalityType
    <3>3. CASE Cardinality(S) <= maxEvents
      BY <3>1, <3>3
    <3>4. CASE ~(Cardinality(S) <= maxEvents)
      <4>1. Cardinality({}) = Cardinality(S) - maxEvents
        BY <1>1, <2>1, <2>2, <3>4 DEF Prunes
      <4>2. QED
        BY <2>1, <3>2, <3>4, <4>1, FS_EmptySet
    <3>5. QED
      BY <3>3, <3>4
  <2>3. CASE D # {}
    <3> HIDE DEF S
    <3>1. nextId \in S
      BY DEF S
    <3>2. Cardinality(S \ D) = maxEvents
      BY <2>1, <2>3, <3>1, PruneEffect, ZenonT(30)
    <3>3. QED
      BY <2>1, <3>2
  <2>4. QED
    BY <2>2, <2>3
<1>2. StoreTypeOK /\ [StoreNext]_storeVars
        => [Inserts /\ maxEvents > 0 => Cardinality(live') <= maxEvents]_storeVars
  BY <1>1
<1>3. QED
  BY <1>2, TypeCorrect, PTL DEF StoreSpec, CapEnforced

\* An insert never prunes the row it has just written.
THEOREM NewestHolds == StoreSpec => NewestSurvives
<1>1. ASSUME StoreTypeOK, StoreNext, Inserts
      PROVE  nextId \in live'
  <2> DEFINE S == live \cup {nextId}
             r == row'
  <2>1. PICK f \in Floors, D \in SUBSET S :
           /\ Prunes(D, S, r, f)
           /\ live' = S \ D
           /\ S \in SUBSET Nat /\ IsFiniteSet(S) /\ \A x \in S : x <= nextId
           /\ maxEvents \in Int /\ reserve \in [Reserved -> Nat]
    BY <1>1, InsertEffect
  <2>2. nextId \in S
    OBVIOUS
  <2> HIDE DEF S, r
  <2>3. CASE D = {}
    BY <2>1, <2>2, <2>3
  <2>4. CASE D # {}
    <3>1. /\ Prunes(D, S, r, f)
          /\ S \in SUBSET Nat /\ IsFiniteSet(S) /\ \A x \in S : x <= nextId
          /\ maxEvents \in Int /\ reserve \in [Reserved -> Nat]
      BY <2>1
    <3>2. nextId \in S \ D
      BY <2>2, <2>4, <3>1, PruneEffect
    <3>3. QED
      BY <2>1, <3>2
  <2>5. QED
    BY <2>3, <2>4
<1>2. StoreTypeOK /\ [StoreNext]_storeVars => [Inserts => nextId \in live']_storeVars
  BY <1>1
<1>3. QED
  BY <1>2, TypeCorrect, PTL DEF StoreSpec, NewestSurvives

\* Within a type an insert prunes the oldest rows.
THEOREM OldestHolds == StoreSpec => OldestOfTypeFirst
<1>1. ASSUME StoreTypeOK, StoreNext, Inserts,
             NEW d \in live \ live', NEW e \in live', row'[d].type = row'[e].type
      PROVE  d < e
  <2> DEFINE S == live \cup {nextId}
             r == row'
  <2>1. PICK f \in Floors, D \in SUBSET S :
           /\ Prunes(D, S, r, f)
           /\ live' = S \ D
           /\ S \in SUBSET Nat /\ IsFiniteSet(S) /\ \A x \in S : x <= nextId
           /\ maxEvents \in Int /\ reserve \in [Reserved -> Nat]
    BY <1>1, InsertEffect
  <2>2. d \in D /\ d \in S /\ e \in S \ D /\ nextId \in S
    BY <2>1
  <2>3. r[d].type = r[e].type
    BY <1>1
  <2> HIDE DEF S, r
  <2>4. Oldest(D, Deletable(S, r, f)) /\ f \in [Reserved -> Nat]
    BY <2>1, <2>2, PruneEffect
  <2>5. CASE e \in Deletable(S, r, f)
    BY <2>2, <2>4, <2>5 DEF Oldest
  <2>6. CASE e \notin Deletable(S, r, f)
    <3> DEFINE t == r[e].type
               Q(x) == {y \in OfType(S, r, t) : y >= x}
    <3>1. t \in Reserved /\ f[t] > 0 /\ ~(Cardinality(Q(e)) > f[t])
      BY <2>2, <2>6 DEF Deletable
    <3>2. d \in Deletable(S, r, f)
      BY <2>2, <2>4 DEF Oldest
    <3>3. Cardinality(Q(d)) > f[t]
      BY <2>3, <3>1, <3>2 DEF Deletable
    <3>4. ASSUME ~(d < e) PROVE FALSE
      <4>1. d \in Nat /\ e \in Nat /\ e <= d
        BY <2>1, <2>2, <3>4
      <4>2. Q(d) \subseteq Q(e)
        <5> SUFFICES ASSUME NEW y \in OfType(S, r, t), y >= d PROVE y >= e
          OBVIOUS
        <5>1. y \in Nat
          BY <2>1 DEF OfType
        <5>2. QED
          BY <4>1, <5>1
      <4>3. IsFiniteSet(Q(e))
        BY <2>1, FS_Subset DEF OfType
      <4>4. Cardinality(Q(d)) <= Cardinality(Q(e)) /\ Cardinality(Q(d)) \in Nat
            /\ Cardinality(Q(e)) \in Nat
        BY <4>2, <4>3, FS_Subset, FS_CardinalityType
      <4>5. f[t] \in Nat
        BY <2>4, <3>1
      <4> HIDE DEF Q, t
      <4>6. QED
        BY <3>1, <3>3, <4>4, <4>5
    <3>5. QED
      BY <3>4
  <2>7. QED
    BY <2>5, <2>6
<1>2. StoreTypeOK /\ [StoreNext]_storeVars
        => [Inserts => \A d \in live \ live', e \in live' :
                         row'[d].type = row'[e].type => d < e]_storeVars
  BY <1>1
<1>3. QED
  BY <1>2, TypeCorrect, PTL DEF StoreSpec, OldestOfTypeFirst

\* Reserves that fit under the cap are honoured by every insert.
THEOREM ReserveHolds == StoreSpec => ReserveKept
<1>1. ASSUME StoreTypeOK, StoreNext, Inserts, ReserveSum <= FloorBudget,
             NEW t \in Reserved, ~(OfType(live, row, t) \subseteq live')
      PROVE  Cardinality(OfType(live', row', t)) >= reserve[t]
  <2> DEFINE S == live \cup {nextId}
             r == row'
  <2>1. PICK f \in Floors, D \in SUBSET S :
           /\ Prunes(D, S, r, f)
           /\ live' = S \ D
           /\ nextId \in Ids
           /\ S \in SUBSET Nat /\ IsFiniteSet(S) /\ \A x \in S : x <= nextId
           /\ maxEvents \in Int /\ reserve \in [Reserved -> Nat]
           /\ \E x \in Row : r = [row EXCEPT ![nextId] = x]
    BY <1>1, InsertEffect
  <2>2. f = reserve
    BY <1>1, <2>1 DEF Floors, ReserveSum, FloorBudget, Reserved
  <2>3. PICK e \in live : row[e].type = t /\ e \notin live'
    BY <1>1 DEF OfType
  <2>4. r[e].type = t /\ e \in D
    <3>1. e < nextId /\ e \in Nat /\ nextId \in Nat /\ e \in Ids
      BY <1>1, <2>1 DEF StoreTypeOK
    <3>2. r[e] = row[e]
      BY <1>1, <2>1, <3>1 DEF StoreTypeOK
    <3>3. QED
      BY <2>1, <2>3, <3>2
  <2> DEFINE V == {d \in D : r[d].type = t}
  <2>5. PICK m \in V : \A x \in V : x <= m
    <3>1. V \in SUBSET (1..nextId) /\ V # {}
      <4>1. \A x \in S : x \in Ids
        BY <1>1, <2>1 DEF StoreTypeOK
      <4>2. \A x \in S : x \in 1..nextId
        BY <2>1, <4>1 DEF Ids
      <4>3. QED
        BY <2>4, <4>2
    <3>2. nextId \in Nat
      BY <2>1 DEF Ids
    <3>3. QED
      BY <3>1, <3>2, MaxExists
  <2>6. nextId \in S
    OBVIOUS
  <2> HIDE DEF S, r
  <2>7. Oldest(D, Deletable(S, r, f)) /\ f \in [Reserved -> Nat]
    <3>1. /\ Prunes(D, S, r, f) /\ D # {}
          /\ S \in SUBSET Nat /\ IsFiniteSet(S) /\ \A x \in S : x <= nextId
          /\ maxEvents \in Int /\ reserve \in [Reserved -> Nat]
      BY <2>1, <2>4
    <3>2. QED
      BY <2>6, <3>1, PruneEffect
  <2> DEFINE Q == {x \in OfType(S, r, t) : x >= m}
             K == OfType(S \ D, r, t)
  <2>8. f[t] > 0 => Cardinality(Q) > f[t]
    <3>1. m \in Deletable(S, r, f) /\ r[m].type = t
      BY <2>5, <2>7 DEF Oldest
    <3>2. QED
      BY <3>1 DEF Deletable
  <2>9. Q \ {m} \subseteq K
    <3> SUFFICES ASSUME NEW x \in S, r[x].type = t, x >= m, x # m
                 PROVE  x \notin D
      BY DEF OfType
    <3>1. x \in Nat /\ m \in Nat
      BY <2>1, <2>5
    <3>2. ~(x <= m)
      BY <3>1
    <3>3. QED
      BY <2>5, <3>2
  <2>10. /\ IsFiniteSet(Q) /\ Cardinality(Q) \in Nat
         /\ IsFiniteSet(K) /\ Cardinality(K) \in Nat
    BY <2>1, FS_Subset, FS_CardinalityType DEF OfType
  <2>11. m \in Q
    BY <2>1, <2>5 DEF OfType
  <2>12. Cardinality(K) >= Cardinality(Q) - 1
    <3>1. Cardinality(Q \ {m}) = Cardinality(Q) - 1
      BY <2>10, <2>11, FS_RemoveElement
    <3>2. Cardinality(Q \ {m}) <= Cardinality(K)
      BY <2>9, <2>10, FS_Subset
    <3> HIDE DEF Q, K
    <3>3. QED
      BY <2>10, <3>1, <3>2
  <2>13. f[t] \in Nat
    BY <2>7
  <2> HIDE DEF Q, K
  <2>14. Cardinality(K) >= f[t]
    BY <2>8, <2>10, <2>12, <2>13
  <2>15. QED
    BY <2>1, <2>2, <2>14 DEF K, r
<1>2. StoreTypeOK /\ [StoreNext]_storeVars
        => [Inserts /\ ReserveSum <= FloorBudget =>
              \A t \in Reserved :
                 \/ Cardinality(OfType(live', row', t)) >= reserve[t]
                 \/ OfType(live, row, t) \subseteq live']_storeVars
  BY <1>1
<1>3. QED
  BY <1>2, TypeCorrect, PTL DEF StoreSpec, ReserveKept

-----------------------------------------------------------------------------
(* De-duplication. *)

\* Every Mist row in the table has its key in ingest_seen: what has_parser needs
\* to survive the pruning of that row.
SeenCovers == \A e \in live : row[e].key \in Keys => row[e].key \in seen

\* ingest_seen covers the table from the first opening on.
LEMMA SeenCoversHolds == StoreSpec => []SeenCovers
<1>1. StoreInit => SeenCovers
  <2> SUFFICES ASSUME StoreInit, NEW e \in live, row[e].key \in Keys
               PROVE  row[e].key \in seen
    BY DEF SeenCovers
  <2>1. PICK r \in [1..Legacy -> {x \in Row : WellFormed(x) /\ x.at = 0}] :
           row = [i \in Ids |-> IF i \in live THEN r[i] ELSE NoRow]
    BY DEF StoreInit
  <2>2. e \in 1..Legacy /\ e \in Ids
    BY StoreAssumption DEF StoreInit, StoreAssumption, Ids
  <2>3. WellFormed(row[e])
    BY <2>1, <2>2
  <2>4. e \in OfType(live, row, "mist")
    BY <2>3 DEF OfType, WellFormed
  <2>5. seen = {row[i].key : i \in OfType(live, row, "mist")}
    BY DEF StoreInit, Migrated
  <2>6. QED
    BY <2>4, <2>5
<1>2. StoreTypeOK /\ SeenCovers /\ [StoreNext]_storeVars => SeenCovers'
  <2> SUFFICES ASSUME StoreTypeOK, SeenCovers, [StoreNext]_storeVars PROVE SeenCovers'
    OBVIOUS
  <2>1. ASSUME NEW r \in Row, WellFormed(r), Insert(r) PROVE SeenCovers'
    <3> SUFFICES ASSUME NEW e \in live', row'[e].key \in Keys
                 PROVE  row'[e].key \in seen'
      BY DEF SeenCovers
    <3>1. nextId \in Ids /\ row' = [row EXCEPT ![nextId] = r] /\ e \in live \cup {nextId}
      BY <2>1 DEF Insert
    <3>2. CASE e = nextId
      <4>1. row'[e] = r
        BY <3>1, <3>2 DEF StoreTypeOK
      <4>2. r.type = "mist"
        BY <2>1, <4>1 DEF WellFormed
      <4>3. QED
        BY <2>1, <4>1, <4>2 DEF Insert
    <3>3. CASE e # nextId
      <4>1. e \in live /\ row'[e] = row[e]
        BY <3>1, <3>3 DEF StoreTypeOK
      <4>2. seen \subseteq seen'
        BY <2>1 DEF Insert
      <4>3. QED
        BY <4>1, <4>2 DEF SeenCovers
    <3>4. QED
      BY <3>2, <3>3
  <2>2. ASSUME NEW k \in Keys, MarkIngestSeen(k) PROVE SeenCovers'
    BY <2>2 DEF MarkIngestSeen, SeenCovers
  <2>3. ASSUME NEW c \in 1..now, DeleteOlderThan(c) PROVE SeenCovers'
    BY <2>3 DEF DeleteOlderThan, SeenCovers
  <2>4. ASSUME NEW m \in MaxEventsChoices, Reopen(m) PROVE SeenCovers'
    <3>1. \A e \in live : row[e].key \in Keys => e \in OfType(live, row, "mist")
      BY DEF OfType, WellFormed, StoreTypeOK
    <3>2. QED
      BY <2>4, <3>1 DEF Reopen, Migrated, SeenCovers
  <2>5. ASSUME NEW f \in ReserveChoices, ChangeReserve(f) PROVE SeenCovers'
    BY <2>5 DEF ChangeReserve, SeenCovers
  <2>6. CASE Tick
    BY <2>6 DEF Tick, SeenCovers
  <2>7. CASE UNCHANGED storeVars
    BY <2>7 DEF storeVars, SeenCovers
  <2>8. QED
    BY <2>1, <2>2, <2>3, <2>4, <2>5, <2>6, <2>7 DEF StoreNext, InsertAny
<1>3. QED
  BY <1>1, <1>2, TypeCorrect, PTL DEF StoreSpec

\* has_parser never forgets a key.
THEOREM SeenHolds == StoreSpec => SeenForever
<1>1. ASSUME SeenCovers, StoreNext, NEW k \in Keys, HasParser(k)
      PROVE  HasParser(k)'
  <2>1. k \in seen
    BY <1>1 DEF HasParser, SeenCovers
  <2>2. k \in seen'
    BY <1>1, <2>1 DEF StoreNext, InsertAny, Insert, MarkIngestSeen, DeleteOlderThan,
                      Reopen, Migrated, ChangeReserve, Tick
  <2>3. QED
    BY <2>2 DEF HasParser
<1>2. SeenCovers /\ [StoreNext]_storeVars
        => [\A k \in Keys : HasParser(k) => HasParser(k)']_storeVars
  BY <1>1
<1>3. QED
  BY <1>2, SeenCoversHolds, PTL DEF StoreSpec, SeenForever

-----------------------------------------------------------------------------
(* Refinement of BoundedLog. *)

\* While ingest_seen covers the table, the keys that are known are those in it.
LEMMA KnownIsSeen ==
  ASSUME SeenCovers
  PROVE  Known = Keys \cap seen
BY DEF Known, HasParser, SeenCovers

\* An upgrade that finds ingest_seen empty finds no Mist row either, once the
\* first opening is over.
LEMMA MigrationIdle ==
  ASSUME StoreTypeOK, SeenCovers
  PROVE  Migrated(seen, live, row) = seen
<1>1. CASE seen = {}
  <2>1. \A e \in OfType(live, row, "mist") : FALSE
    BY <1>1 DEF OfType, StoreTypeOK, WellFormed, SeenCovers
  <2>2. QED
    BY <1>1, <2>1 DEF Migrated
<1>2. CASE seen # {}
  BY <1>2 DEF Migrated
<1>3. QED
  BY <1>1, <1>2

\* An insert adds one entry, and as many go as the cap asks for.
LEMMA InsertAdds ==
  ASSUME StoreTypeOK, StoreNext, Inserts
  PROVE  /\ nextId \in live' /\ live' \subseteq live \cup {nextId}
         /\ IF maxEvents > 0 /\ Cardinality(live) >= maxEvents
            THEN Cardinality(live') = maxEvents
            ELSE live' = live \cup {nextId}
<1> DEFINE S == live \cup {nextId}
           r == row'
<1>1. PICK f \in Floors, D \in SUBSET S :
         /\ Prunes(D, S, r, f)
         /\ live' = S \ D
         /\ S \in SUBSET Nat /\ IsFiniteSet(S) /\ \A x \in S : x <= nextId
         /\ maxEvents \in Int /\ reserve \in [Reserved -> Nat]
  BY InsertEffect
<1>2. /\ Cardinality(live) \in Nat /\ Cardinality(S) \in Nat
      /\ Cardinality(S) = Cardinality(live) + 1
  <2>1. IsFiniteSet(live) /\ nextId \notin live
    <3>1. IsFiniteSet(live)
      BY <1>1, FS_Subset
    <3>2. \A e \in live : e < nextId
      BY DEF StoreTypeOK
    <3>3. nextId \in Int
      BY <1>1
    <3>4. QED
      BY <3>1, <3>2, <3>3
  <2>2. QED
    BY <1>1, <2>1, FS_AddElement, FS_CardinalityType
<1>3. nextId \in S
  OBVIOUS
<1>4. CASE D = {}
  <2>1. live' = S
    BY <1>1, <1>4
  <2>2. ~(maxEvents > 0 /\ Cardinality(S) > maxEvents)
    <3>1. SUFFICES ASSUME maxEvents > 0, Cardinality(S) > maxEvents PROVE FALSE
      OBVIOUS
    <3> HIDE DEF S, r
    <3>2. ~(maxEvents <= 0 \/ Cardinality(S) <= maxEvents)
      BY <1>1, <1>2, <3>1
    <3>3. Cardinality({}) = Cardinality(S) - maxEvents
      BY <1>1, <1>4, <3>2 DEF Prunes
    <3>4. QED
      BY <1>1, <1>2, <3>1, <3>3, FS_EmptySet
  <2> HIDE DEF S, r
  <2>3. ~(maxEvents > 0 /\ Cardinality(live) >= maxEvents)
    BY <1>1, <1>2, <2>2
  <2>4. QED
    BY <1>3, <2>1, <2>3 DEF S
<1>5. CASE D # {}
  <2> HIDE DEF S, r
  <2>1. /\ maxEvents > 0 /\ nextId \in S \ D /\ Cardinality(S \ D) = maxEvents
    BY <1>1, <1>3, <1>5, PruneEffect, ZenonT(30)
  <2>2. Cardinality(S) > maxEvents
    <3>1. ~(maxEvents <= 0 \/ Cardinality(S) <= maxEvents)
      BY <1>1, <1>5 DEF Prunes
    <3>2. QED
      BY <1>1, <1>2, <3>1
  <2>3. Cardinality(live) >= maxEvents
    BY <1>1, <1>2, <2>2
  <2>4. QED
    BY <1>1, <2>1, <2>3 DEF S
<1>6. QED
  BY <1>4, <1>5

\* The number of entries is counted alike in both modules.
LEMMA SameCardinality ==
  ASSUME NEW S
  PROVE  Log!Cardinality(S) = Cardinality(S)
BY DEF Log!Cardinality, Cardinality

\* The event table implements the bounded log.
THEOREM LogHolds == StoreSpec => LogRefined
<1>1. StoreInit => Log!LogInit
  <2> SUFFICES ASSUME StoreInit PROVE Log!LogInit
    OBVIOUS
  <2>1. Legacy \in Nat
    BY StoreAssumption DEF StoreAssumption
  <2>2. Known \subseteq Keys
    BY DEF Known
  <2>3. QED
    BY <2>1, <2>2 DEF StoreInit, Log!LogInit
<1>2. StoreTypeOK /\ SeenCovers /\ SeenCovers' /\ [StoreNext]_storeVars
        => [Log!Add \/ Log!Drop \/ Log!Learn \/ Log!Open]_(Log!logVars)
  <2> SUFFICES ASSUME StoreTypeOK, SeenCovers, SeenCovers', [StoreNext]_storeVars
               PROVE  [Log!Add \/ Log!Drop \/ Log!Learn \/ Log!Open]_(Log!logVars)
    OBVIOUS
  <2>1. Known = Keys \cap seen /\ Known' = Keys \cap seen'
    BY KnownIsSeen DEF Known, HasParser, SeenCovers
  <2>2. ASSUME NEW r \in Row, WellFormed(r), r.at <= now, Insert(r) PROVE Log!Add
    <3>1. nextId' = nextId + 1 /\ maxEvents' = maxEvents /\ seen \subseteq seen'
      BY <2>2 DEF Insert
    <3>2. StoreNext
      BY <2>2, Zenon DEF StoreNext, InsertAny
    <3>3. Inserts
      BY <3>1 DEF Inserts, StoreTypeOK
    <3>4. QED
      BY <2>1, <3>1, <3>2, <3>3, InsertAdds, SameCardinality DEF Log!Add
  <2>3. ASSUME NEW k \in Keys, MarkIngestSeen(k) PROVE Log!Learn
    BY <2>1, <2>3 DEF MarkIngestSeen, Log!Learn
  <2>4. ASSUME NEW c \in 1..now, DeleteOlderThan(c) PROVE Log!Drop
    BY <2>1, <2>4 DEF DeleteOlderThan, Log!Drop
  <2>5. ASSUME NEW m \in MaxEventsChoices, Reopen(m) PROVE Log!Open
    BY <2>1, <2>5, MigrationIdle DEF Reopen, Log!Open
  <2>6. ASSUME NEW f \in ReserveChoices, ChangeReserve(f) PROVE UNCHANGED Log!logVars
    BY <2>1, <2>6 DEF ChangeReserve, Log!logVars
  <2>7. CASE Tick
    BY <2>1, <2>7 DEF Tick, Log!logVars
  <2>8. CASE UNCHANGED storeVars
    BY <2>1, <2>8 DEF storeVars, Log!logVars
  <2>9. QED
    BY <2>2, <2>3, <2>4, <2>5, <2>6, <2>7, <2>8 DEF StoreNext, InsertAny
<1>3. QED
  BY <1>1, <1>2, TypeCorrect, SeenCoversHolds, PTL DEF StoreSpec, LogRefined, Log!LogSpec

-----------------------------------------------------------------------------
(* The alert engines: the rules in force. *)

EditorRecord == [pc : {"idle", "read", "assign"}, rules : RuleMaps]

LEMMA EnabledRules ==
  ASSUME NEW t \in RuleMaps
  PROVE  Enabled(t) \in RuleMaps
BY DEF Enabled, RuleMaps

\* What an edit in progress owes.  The file engine reads and assigns at once;
\* in the hub engine an edit that is alone carries the rules of the table.
RulesInv ==
  /\ table \in RuleMaps /\ loaded \in RuleMaps
  /\ editor \in [Editors -> EditorRecord]
  /\ overlapped \in BOOLEAN
  /\ engine = "files" =>
       /\ \A e \in Editors : editor[e].pc # "assign"
       /\ loaded = Enabled(table) \/ \E e \in Editors : editor[e].pc = "read"
  /\ engine = "hub" /\ ~overlapped =>
       /\ \A e, o \in Editors : editor[e].pc # "idle" /\ editor[o].pc # "idle" => e = o
       /\ \A e \in Editors : editor[e].pc = "assign" => editor[e].rules = Enabled(table)
       /\ loaded = Enabled(table) \/ \E e \in Editors : editor[e].pc # "idle"
  /\ engine \in {"hub", "files"}

LEMMA RulesStep ==
  ASSUME RulesInv, [AlertNext]_alertVars
  PROVE  RulesInv'
<1> DEFINE Same == UNCHANGED <<engine, table, loaded, editor, overlapped>>
<1>1. ASSUME Same PROVE RulesInv'
  BY <1>1 DEF RulesInv, Enabled
<1>2. ASSUME NEW e \in Editors, NEW r \in Rules, NEW d \in Defs \cup {NoRule}, Edit(e, r, d)
      PROVE  RulesInv'
  <2>1. /\ editor[e].pc = "idle" /\ UNCHANGED <<engine, loaded>>
        /\ table' = [table EXCEPT ![r] = d]
        /\ editor' = [editor EXCEPT ![e].pc = "read"]
        /\ overlapped' = (overlapped \/ \E o \in Editors \ {e} : editor[o].pc # "idle")
    BY <1>2 DEF Edit
  <2>2. table' \in RuleMaps /\ loaded' \in RuleMaps
    BY <2>1 DEF RulesInv, RuleMaps
  <2>3. editor' \in [Editors -> EditorRecord] /\ overlapped' \in BOOLEAN
    BY <2>1 DEF RulesInv, EditorRecord
  <2>4. /\ editor'[e].pc = "read"
        /\ \A o \in Editors \ {e} : editor'[o] = editor[o]
    BY <2>1 DEF RulesInv, EditorRecord
  <2>5. CASE engine = "files"
    BY <2>1, <2>2, <2>3, <2>4, <2>5 DEF RulesInv
  <2>6. CASE engine = "hub"
    <3>1. ~overlapped' => ~overlapped /\ \A o \in Editors \ {e} : editor'[o].pc = "idle"
      BY <2>1, <2>4
    <3>2. QED
      BY <2>1, <2>2, <2>3, <2>4, <2>6, <3>1 DEF RulesInv
  <2>7. QED
    BY <2>5, <2>6 DEF RulesInv
<1>3. ASSUME NEW e \in Editors, ReadRules(e) PROVE RulesInv'
  <2>0. Enabled(table) \in RuleMaps
    BY EnabledRules DEF RulesInv
  <2>1. editor[e].pc = "read" /\ UNCHANGED <<engine, table, overlapped>>
    BY <1>3 DEF ReadRules
  <2>2. CASE engine = "files"
    <3>1. loaded' = Enabled(table) /\ editor' = [editor EXCEPT ![e].pc = "idle"]
      BY <1>3, <2>2 DEF ReadRules
    <3>2. Enabled(table)' = Enabled(table)
      BY <2>1 DEF Enabled
    <3>3. QED
      BY <2>0, <2>1, <2>2, <3>1, <3>2 DEF RulesInv, EditorRecord
  <2>3. CASE engine = "hub"
    <3>1. UNCHANGED loaded
          /\ editor' = [editor EXCEPT ![e] = [pc |-> "assign", rules |-> Enabled(table)]]
      BY <1>3, <2>3 DEF ReadRules
    <3>2. Enabled(table)' = Enabled(table)
      BY <2>1 DEF Enabled
    <3>3. QED
      BY <2>0, <2>1, <2>3, <3>1, <3>2 DEF RulesInv, EditorRecord
  <2>4. QED
    BY <2>2, <2>3 DEF RulesInv
<1>4. ASSUME NEW e \in Editors, AssignRules(e) PROVE RulesInv'
  <2>1. /\ editor[e].pc = "assign" /\ loaded' = editor[e].rules
        /\ UNCHANGED <<engine, table, overlapped>>
        /\ editor' = [editor EXCEPT ![e] = [pc |-> "idle", rules |-> [r \in Rules |-> NoRule]]]
    BY <1>4 DEF AssignRules
  <2>2. Enabled(table)' = Enabled(table)
    BY <2>1 DEF Enabled
  <2>3. [r \in Rules |-> NoRule] \in RuleMaps
    BY DEF RuleMaps
  <2>4. QED
    BY <2>1, <2>2, <2>3 DEF RulesInv, EditorRecord
<1>5. ASSUME NEW t \in Evaluators,
             (\E s \in Sources : Line(t, s)) \/ ReadClock(t) \/ Decide(t) \/ DecideFails(t)
      PROVE  Same
  BY <1>5 DEF Line, ReadClock, Decide, DecideFails, rulesVars
<1>6. ASSUME NEW n, TakeAlert(n) \/ Deliver(n) \/ DeliverFails(n)
      PROVE  Same
  BY <1>6 DEF TakeAlert, Deliver, DeliverFails, rulesVars
<1>7. ASSUME NEW c \in Caps, SetCap(c) PROVE Same
  BY <1>7 DEF SetCap
<1>8. CASE AlertTick
  BY <1>1, <1>8 DEF AlertTick, rulesVars
<1>9. CASE UNCHANGED alertVars
  BY <1>1, <1>9 DEF alertVars, rulesVars
<1>10. QED
  BY <1>1, <1>2, <1>3, <1>4, <1>5, <1>6, <1>7, <1>8, <1>9 DEF AlertNext, Pool

LEMMA RulesInvHolds == AlertSpec => []RulesInv
<1>1. AlertInit => RulesInv
  <2> SUFFICES ASSUME AlertInit PROVE RulesInv
    OBVIOUS
  <2>1. table \in RuleMaps /\ loaded = Enabled(table) /\ loaded \in RuleMaps
    BY EnabledRules DEF AlertInit, RuleMaps
  <2>2. editor \in [Editors -> EditorRecord] /\ \A e \in Editors : editor[e].pc = "idle"
    BY DEF AlertInit, EditorRecord, RuleMaps
  <2>3. QED
    BY <2>1, <2>2 DEF AlertInit, RulesInv
<1>2. QED
  BY <1>1, RulesStep, PTL DEF AlertSpec

\* Whatever edits overlap, of any number of web threads, once they are answered
\* the file engine works with the rules of the table, and so does the hub engine
\* while no two of them have overlapped (reload_rules of the two engines).
THEOREM RulesHold == AlertSpec => []RulesFresh
<1>1. RulesInv => RulesFresh
  BY DEF RulesInv, RulesFresh
<1>2. QED
  BY <1>1, RulesInvHolds, PTL

-----------------------------------------------------------------------------
(* The cooldown. *)

EvRecord ==
  [pc : {"idle", "next", "decide"}, src : Sources \cup {AtRest.src}, todo : SUBSET Rules,
   cap : Caps \cup {0}, rule : Rules \cup {AtRest.rule}, stamp : Nat, defs : RuleMaps]
AlertRecord ==
  [key : Rules \X Sources, stamp : Nat, def : Defs,
   task : {"queued", "busy", "done", "dropped"}, log : SUBSET Channels]

\* Types of what the decision to fire reads: a thread that looks at a rule has
\* its definition in the snapshot it took.
DecisionTypes ==
  /\ loaded \in RuleMaps /\ cap \in Caps /\ clock \in Nat
  /\ ev \in [Evaluators -> EvRecord]
  /\ \A t \in Evaluators : ev[t].pc # "idle" =>
       ev[t].src \in Sources /\ \A r \in ev[t].todo : ev[t].defs[r] \in Defs
  /\ \A t \in Evaluators : ev[t].pc = "decide" => ev[t].rule \in Rules /\ Def(t) \in Defs
  /\ last \in [Rules \X Sources -> Nat \cup {Never}]
  /\ alerts \in Seq(AlertRecord)

\* The remembered stamp of a rule and a source is that of its newest alert, or
\* a later one.
Remembered ==
  \A n \in DOMAIN alerts :
    last[alerts[n].key] # Never /\ alerts[n].stamp <= last[alerts[n].key]

CooldownInv == DecisionTypes /\ Remembered /\ CooldownHeld

LEMMA AtRestRecord == AtRest \in EvRecord /\ AtRest.pc = "idle"
BY DEF AtRest, EvRecord, RuleMaps

\* An alert is never taken back or changed but for its delivery.
LEMMA SameAlerts ==
  ASSUME CooldownInv, UNCHANGED last, DecisionTypes', DOMAIN alerts' = DOMAIN alerts,
         \A n \in DOMAIN alerts : /\ alerts'[n].key = alerts[n].key
                                  /\ alerts'[n].stamp = alerts[n].stamp
                                  /\ alerts'[n].def = alerts[n].def
  PROVE  CooldownInv'
BY DEF CooldownInv, Remembered, CooldownHeld

\* A delivery changes one alert, its progress and its log.
LEMMA DeliveryStep ==
  ASSUME CooldownInv, NEW n \in DOMAIN alerts, NEW a \in AlertRecord,
         a.key = alerts[n].key, a.stamp = alerts[n].stamp, a.def = alerts[n].def,
         alerts' = [alerts EXCEPT ![n] = a], UNCHANGED <<loaded, limits, clock, ev>>
  PROVE  CooldownInv'
<1>1. alerts \in Seq(AlertRecord)
  BY DEF CooldownInv, DecisionTypes
<1>2. alerts' \in Seq(AlertRecord) /\ DOMAIN alerts' = DOMAIN alerts
  BY <1>1
<1>3. DecisionTypes'
  BY <1>2 DEF CooldownInv, DecisionTypes, limits, Def
<1>4. \A m \in DOMAIN alerts : alerts'[m] = IF m = n THEN a ELSE alerts[m]
  BY <1>1
<1>5. QED
  BY <1>2, <1>3, <1>4, SameAlerts DEF limits

LEMMA CooldownStep ==
  ASSUME RulesInv, CooldownInv, [AlertNext]_alertVars
  PROVE  CooldownInv'
<1> USE AlertAssumption DEF AlertAssumption
<1>1. ASSUME NEW t \in Evaluators, NEW s \in Sources, Line(t, s) PROVE CooldownInv'
  <2>1. PICK M \in SUBSET Candidates(s) :
          ev' = [ev EXCEPT ![t] = [AtRest EXCEPT !.pc = "next", !.src = s, !.todo = M,
                                                 !.cap = cap, !.defs = loaded]]
    BY <1>1 DEF Line
  <2> DEFINE new == [AtRest EXCEPT !.pc = "next", !.src = s, !.todo = M, !.cap = cap,
                                   !.defs = loaded]
  <2>2. new \in EvRecord /\ new.pc = "next" /\ new.src = s /\ new.todo = M /\ new.defs = loaded
    BY AtRestRecord DEF EvRecord, Candidates, CooldownInv, DecisionTypes
  <2>3. \A r \in M : loaded[r] \in Defs
    BY DEF Candidates, CooldownInv, DecisionTypes, RuleMaps
  <2> HIDE DEF new
  <2>4. ev' = [ev EXCEPT ![t] = new]
    BY <2>1 DEF new
  <2>5. UNCHANGED <<loaded, cap, clock, last, alerts>>
    BY <1>1 DEF Line, rulesVars, limits
  <2>6. DecisionTypes'
    BY <2>2, <2>3, <2>4, <2>5 DEF CooldownInv, DecisionTypes, Def
  <2>7. QED
    BY <2>5, <2>6, SameAlerts
<1>2. ASSUME NEW t \in Evaluators, ReadClock(t) PROVE CooldownInv'
  <2>1. PICK r \in ev[t].todo :
          ev' = [ev EXCEPT ![t] = [ev[t] EXCEPT !.pc = "decide", !.rule = r, !.stamp = clock,
                                                !.todo = ev[t].todo \ {r}]]
    BY <1>2 DEF ReadClock
  <2> DEFINE new == [ev[t] EXCEPT !.pc = "decide", !.rule = r, !.stamp = clock,
                                  !.todo = ev[t].todo \ {r}]
  <2>2. /\ ev[t] \in EvRecord /\ ev[t].src \in Sources /\ clock \in Nat
        /\ \A x \in ev[t].todo : ev[t].defs[x] \in Defs
    BY <1>2 DEF ReadClock, CooldownInv, DecisionTypes
  <2>3. /\ new \in EvRecord /\ new.src = ev[t].src /\ new.todo = ev[t].todo \ {r}
        /\ new.defs = ev[t].defs /\ new.rule = r /\ r \in Rules
    BY <2>2 DEF EvRecord
  <2> HIDE DEF new
  <2>4. ev' = [ev EXCEPT ![t] = new]
    BY <2>1 DEF new
  <2>5. UNCHANGED <<loaded, cap, clock, last, alerts>>
    BY <1>2 DEF ReadClock, rulesVars, limits
  <2>6. DecisionTypes'
    BY <2>2, <2>3, <2>4, <2>5 DEF CooldownInv, DecisionTypes, Def
  <2>7. QED
    BY <2>5, <2>6, SameAlerts
<1>3. ASSUME NEW t \in Evaluators, ev[t].pc = "decide", Onward(t) \/ ev' = [ev EXCEPT ![t] = AtRest]
      PROVE  /\ ev' \in [Evaluators -> EvRecord]
             /\ \A u \in Evaluators : ev'[u].pc # "idle" =>
                  ev'[u].src \in Sources /\ \A r \in ev'[u].todo : ev'[u].defs[r] \in Defs
             /\ \A u \in Evaluators : ev'[u].pc = "decide" =>
                  ev'[u].rule \in Rules /\ ev'[u].defs[ev'[u].rule] \in Defs
  <2> DEFINE on == [ev[t] EXCEPT !.pc = "next"]
  <2>0. ev[t] \in EvRecord
    BY DEF CooldownInv, DecisionTypes
  <2>1. /\ on \in EvRecord /\ on.pc = "next" /\ on.src = ev[t].src /\ on.todo = ev[t].todo
        /\ on.defs = ev[t].defs
    BY <2>0, SMTT(20) DEF EvRecord
  <2> HIDE DEF on
  <2>2. ev' = [ev EXCEPT ![t] = on] \/ ev' = [ev EXCEPT ![t] = AtRest]
    BY <1>3 DEF Onward, on
  <2>3. /\ ev \in [Evaluators -> EvRecord] /\ ev[t].src \in Sources
        /\ \A r \in ev[t].todo : ev[t].defs[r] \in Defs
        /\ \A u \in Evaluators : ev[u].pc # "idle" =>
                  ev[u].src \in Sources /\ \A r \in ev[u].todo : ev[u].defs[r] \in Defs
        /\ \A u \in Evaluators : ev[u].pc = "decide" =>
                  ev[u].rule \in Rules /\ ev[u].defs[ev[u].rule] \in Defs
    BY <1>3 DEF CooldownInv, DecisionTypes, Def
  <2>4. CASE ev' = [ev EXCEPT ![t] = on]
    BY <2>1, <2>3, <2>4
  <2>5. CASE ev' = [ev EXCEPT ![t] = AtRest]
    BY <2>3, <2>5, AtRestRecord
  <2>6. QED
    BY <2>2, <2>4, <2>5
<1>4. ASSUME NEW t \in Evaluators, Decide(t) \/ DecideFails(t), UNCHANGED <<last, alerts>>
      PROVE  CooldownInv'
  <2>1. ev[t].pc = "decide" /\ (Onward(t) \/ ev' = [ev EXCEPT ![t] = AtRest])
        /\ UNCHANGED <<loaded, cap, clock>>
    BY <1>4 DEF Decide, DecideFails, rulesVars
  <2>2. DecisionTypes'
    BY <1>3, <1>4, <2>1 DEF CooldownInv, DecisionTypes, Def
  <2>3. QED
    BY <1>4, <2>2, SameAlerts
\* An alert is fired: the remembered stamp rises by the cooldown at least.
<1>5. ASSUME NEW t \in Evaluators, Decide(t), ~Cooling(t), RateOk(t) PROVE CooldownInv'
  <2> DEFINE k == Key(t)
             x == [key |-> k, stamp |-> ev[t].stamp, def |-> Def(t), task |-> "queued", log |-> {}]
             n == Len(alerts) + 1
  <2>1. /\ ev[t].pc = "decide" /\ Onward(t) /\ UNCHANGED <<loaded, cap, clock>>
        /\ last' = [last EXCEPT ![k] = ev[t].stamp] /\ alerts' = Append(alerts, x)
    BY <1>5 DEF Decide, rulesVars
  <2>2. /\ k \in Rules \X Sources /\ ev[t].stamp \in Nat /\ Def(t) \in Defs
        /\ Def(t).cooldown \in Nat
    BY <2>1 DEF Key, CooldownInv, DecisionTypes, EvRecord
  <2>3. x \in AlertRecord /\ x.key = k /\ x.stamp = ev[t].stamp /\ x.def = Def(t)
    BY <2>2 DEF AlertRecord
  <2>4. last[k] = Never \/ ev[t].stamp - last[k] >= Def(t).cooldown
    BY <1>5, <2>2 DEF Cooling, CooldownInv, DecisionTypes, Never
  <2>5. /\ last \in [Rules \X Sources -> Nat \cup {Never}] /\ alerts \in Seq(AlertRecord)
        /\ Remembered /\ CooldownHeld
    BY DEF CooldownInv, DecisionTypes
  <2> HIDE DEF k, x
  <2>6. /\ alerts' \in Seq(AlertRecord) /\ Len(alerts) \in Nat
        /\ DOMAIN alerts = 1..(n - 1) /\ DOMAIN alerts' = 1..n
        /\ alerts'[n] = x /\ \A m \in 1..(n - 1) : alerts'[m] = alerts[m] /\ alerts[m] \in AlertRecord
    BY <2>1, <2>3, <2>5
  <2>7. /\ last' \in [Rules \X Sources -> Nat \cup {Never}] /\ last'[k] = ev[t].stamp
        /\ \A l \in Rules \X Sources : l # k => last'[l] = last[l]
    BY <2>1, <2>2, <2>5
  <2>8. DecisionTypes'
    BY <1>3, <2>1, <2>6, <2>7 DEF CooldownInv, DecisionTypes, Def
  <2>9. \A m \in 1..(n - 1) : alerts[m].key = k =>
          last[k] # Never /\ alerts[m].stamp <= last[k] /\ alerts[m].stamp \in Nat /\ last[k] \in Nat
    <3> SUFFICES ASSUME NEW m \in 1..(n - 1), alerts[m].key = k
                 PROVE  /\ last[k] # Never /\ alerts[m].stamp <= last[k]
                        /\ alerts[m].stamp \in Nat /\ last[k] \in Nat
      OBVIOUS
    <3>1. last[k] # Never /\ alerts[m].stamp <= last[k]
      BY <2>5, <2>6 DEF Remembered
    <3>2. last[k] \in Nat \cup {Never}
      BY <2>2, <2>5
    <3>3. alerts[m].stamp \in Nat
      BY <2>6 DEF AlertRecord
    <3>4. QED
      BY <3>1, <3>2, <3>3
  <2>10. Remembered'
    <3> SUFFICES ASSUME NEW m \in 1..n
                 PROVE  last'[alerts'[m].key] # Never /\ alerts'[m].stamp <= last'[alerts'[m].key]
      BY <2>6 DEF Remembered
    <3>1. CASE m = n
      BY <2>2, <2>3, <2>6, <2>7, <3>1 DEF Never
    <3>2. CASE m # n /\ alerts[m].key = k
      <4>1. alerts'[m] = alerts[m] /\ m \in 1..(n - 1)
        BY <2>6, <3>2
      <4>2. alerts[m].stamp <= ev[t].stamp
        BY <2>2, <2>4, <2>9, <3>2, <4>1
      <4>3. QED
        BY <2>2, <2>7, <3>2, <4>1, <4>2 DEF Never
    <3>3. CASE m # n /\ alerts[m].key # k
      <4>1. alerts'[m] = alerts[m] /\ m \in 1..(n - 1) /\ alerts[m].key \in Rules \X Sources
        BY <2>6, <3>3 DEF AlertRecord
      <4>2. last[alerts[m].key] # Never /\ alerts[m].stamp <= last[alerts[m].key]
        BY <2>5, <2>6, <4>1 DEF Remembered
      <4>3. QED
        BY <2>7, <3>3, <4>1, <4>2
    <3>4. QED
      BY <3>1, <3>2, <3>3
  <2>11. CooldownHeld'
    <3> SUFFICES ASSUME NEW m \in 1..n, NEW o \in 1..n, m < o, alerts'[m].key = alerts'[o].key
                 PROVE  alerts'[o].stamp - alerts'[m].stamp >= alerts'[o].def.cooldown
      BY <2>6 DEF CooldownHeld
    <3>1. m \in 1..(n - 1) /\ alerts'[m] = alerts[m]
      BY <2>6
    <3>2. CASE o = n
      <4>1. /\ alerts'[o].stamp = ev[t].stamp /\ alerts'[o].def = Def(t) /\ alerts[m].key = k
        BY <2>3, <2>6, <3>1, <3>2
      <4>2. QED
        BY <2>2, <2>4, <2>9, <3>1, <4>1
    <3>3. CASE o # n
      <4>1. o \in 1..(n - 1) /\ alerts'[o] = alerts[o]
        BY <2>6, <3>3
      <4>2. QED
        BY <2>5, <2>6, <3>1, <4>1 DEF CooldownHeld
    <3>4. QED
      BY <3>2, <3>3
  <2>12. QED
    BY <2>8, <2>10, <2>11 DEF CooldownInv
<1>6. ASSUME NEW n, TakeAlert(n) PROVE CooldownInv'
  <2>1. n \in DOMAIN alerts /\ alerts[n] \in AlertRecord
    BY <1>6 DEF TakeAlert, CooldownInv, DecisionTypes
  <2>2. alerts' = [alerts EXCEPT ![n] = [alerts[n] EXCEPT !.task = "busy"]]
    BY <1>6 DEF TakeAlert, Delivery
  <2>3. [alerts[n] EXCEPT !.task = "busy"] \in AlertRecord
    BY <2>1 DEF AlertRecord
  <2>4. UNCHANGED <<loaded, limits, clock, ev>>
    BY <1>6 DEF TakeAlert, rulesVars
  <2>5. QED
    BY <2>1, <2>2, <2>3, <2>4, DeliveryStep DEF AlertRecord
<1>7. ASSUME NEW n, Deliver(n) \/ DeliverFails(n) PROVE CooldownInv'
  <2>1. n \in DOMAIN alerts /\ alerts[n] \in AlertRecord /\ alerts[n].def.hooks \subseteq Channels
    <3>1. n \in DOMAIN alerts /\ alerts[n] \in AlertRecord
      BY <1>7 DEF Deliver, DeliverFails, Busy, CooldownInv, DecisionTypes
    <3>2. alerts[n].def \in Defs
      BY <3>1 DEF AlertRecord
    <3>3. QED
      BY <3>1, <3>2
  <2>2. PICK task \in {"done", "dropped"}, log \in SUBSET Channels :
          alerts' = [alerts EXCEPT ![n] = [alerts[n] EXCEPT !.task = task, !.log = log]]
    <3>1. CASE Deliver(n)
      BY <2>1, <3>1 DEF Deliver
    <3>2. CASE DeliverFails(n)
      <4>1. (IF alerts[n].def.hooks = Channels THEN {"webhook"} ELSE {}) \subseteq Channels
        BY DEF Channels
      <4>2. QED
        BY <3>2, <4>1, ZenonT(30) DEF DeliverFails
    <3>3. QED
      BY <1>7, <3>1, <3>2
  <2>3. [alerts[n] EXCEPT !.task = task, !.log = log] \in AlertRecord
    BY <2>1 DEF AlertRecord
  <2>4. UNCHANGED <<loaded, limits, clock, ev>>
    BY <1>7 DEF Deliver, DeliverFails, rulesVars
  <2>5. QED
    BY <2>1, <2>2, <2>3, <2>4, DeliveryStep DEF AlertRecord
\* Edits, settings and the clock.
<1>8. ASSUME loaded' \in RuleMaps, cap' \in Caps, clock' \in Nat, UNCHANGED <<ev, last, alerts>>
      PROVE  CooldownInv'
  <2>1. DecisionTypes'
    BY <1>8 DEF CooldownInv, DecisionTypes, Def
  <2>2. QED
    BY <1>8, <2>1, SameAlerts
<1>9. loaded \in RuleMaps /\ cap \in Caps /\ clock \in Nat
  BY DEF CooldownInv, DecisionTypes
<1>10. ASSUME NEW e \in Editors, ReadRules(e) \/ AssignRules(e), RulesInv PROVE CooldownInv'
  <2>1. Enabled(table) \in RuleMaps /\ editor[e].rules \in RuleMaps
    BY EnabledRules DEF RulesInv, EditorRecord
  <2>2. loaded' \in RuleMaps /\ UNCHANGED <<ev, cap, clock, last, alerts>>
    BY <1>9, <1>10, <2>1 DEF ReadRules, AssignRules, limits
  <2>3. QED
    BY <1>8, <1>9, <2>2
<1>11. ASSUME NEW e \in Editors, NEW r \in Rules, NEW d \in Defs \cup {NoRule}, Edit(e, r, d)
       PROVE  CooldownInv'
  BY <1>8, <1>9, <1>11 DEF Edit, limits
<1>12. ASSUME NEW c \in Caps, SetCap(c) PROVE CooldownInv'
  BY <1>8, <1>9, <1>12 DEF SetCap
<1>13. CASE AlertTick
  BY <1>8, <1>9, <1>13 DEF AlertTick, limits, rulesVars
<1>14. CASE UNCHANGED alertVars
  BY <1>8, <1>9, <1>14 DEF alertVars, limits, rulesVars
<1>15. ASSUME NEW t \in Evaluators, Decide(t) \/ DecideFails(t) PROVE CooldownInv'
  <2>1. UNCHANGED <<last, alerts>> \/ (Decide(t) /\ ~Cooling(t) /\ RateOk(t))
    BY <1>15 DEF Decide, DecideFails
  <2>2. QED
    BY <1>4, <1>5, <1>15, <2>1
<1>16. QED
  BY <1>1, <1>2, <1>6, <1>7, <1>10, <1>11, <1>12, <1>13, <1>14, <1>15 DEF AlertNext, Pool

LEMMA CooldownInvHolds == AlertSpec => [](RulesInv /\ CooldownInv)
<1>1. RulesInv /\ AlertInit => CooldownInv
  <2> SUFFICES ASSUME RulesInv, AlertInit PROVE CooldownInv
    OBVIOUS
  <2>1. alerts = <<>> /\ alerts \in Seq(AlertRecord) /\ DOMAIN alerts = {}
    BY DEF AlertInit
  <2>2. ev \in [Evaluators -> EvRecord] /\ \A t \in Evaluators : ev[t].pc = "idle"
    BY AtRestRecord DEF AlertInit
  <2>3. DecisionTypes
    BY <2>1, <2>2 DEF AlertInit, DecisionTypes, RulesInv
  <2>4. QED
    BY <2>1, <2>3 DEF CooldownInv, Remembered, CooldownHeld
<1>2. RulesInv /\ CooldownInv /\ [AlertNext]_alertVars => CooldownInv'
  BY CooldownStep
<1>3. QED
  BY <1>1, <1>2, RulesInvHolds, PTL DEF AlertSpec

\* However many threads read the clock before they wait for the lock, and in
\* whichever order they get it, two alerts of a rule for one source are never
\* closer than the cooldown the rule had at the second one (_fire).
THEOREM CooldownHolds == AlertSpec => []CooldownHeld
<1>1. CooldownInv => CooldownHeld
  BY DEF CooldownInv
<1>2. QED
  BY <1>1, CooldownInvHolds, PTL

-----------------------------------------------------------------------------
(* The cap per minute. *)

\* The stamps that are kept are those of alerts, and none of the last minute is
\* missing; a thread decides with a stamp that is at most MaxSkew old, so stamps
\* are out of order by no more than that.
RateInv ==
  /\ recent \in SUBSET (DOMAIN alerts)
  /\ \A n \in DOMAIN alerts :
       /\ alerts[n].stamp <= clock /\ alerts[n].log \subseteq alerts[n].def.hooks
       /\ alerts[n].stamp > clock - Window => n \in recent
  /\ \A m, n \in DOMAIN alerts : m <= n => alerts[m].stamp <= alerts[n].stamp + MaxSkew
  /\ \A t \in Evaluators : ev[t].pc = "decide" =>
       ev[t].stamp <= clock /\ clock <= ev[t].stamp + MaxSkew
  /\ clock <= MaxClock /\ \A k \in Rules \X Sources : last[k] <= clock

LEMMA AlertNumbers ==
  ASSUME CooldownInv
  PROVE  /\ clock \in Nat /\ Window \in Nat \ {0} /\ MaxSkew \in Nat /\ MaxClock \in Nat
         /\ DOMAIN alerts = 1..Len(alerts) /\ Len(alerts) \in Nat
         /\ \A n \in DOMAIN alerts : n \in Nat /\ alerts[n] \in AlertRecord /\ alerts[n].stamp \in Nat
         /\ \A t \in Evaluators : ev[t].stamp \in Nat
<1>1. alerts \in Seq(AlertRecord) /\ clock \in Nat /\ ev \in [Evaluators -> EvRecord]
  BY DEF CooldownInv, DecisionTypes
<1>2. \A n \in DOMAIN alerts : n \in Nat /\ alerts[n] \in AlertRecord
  BY <1>1
<1>3. \A n \in DOMAIN alerts : alerts[n].stamp \in Nat
  BY <1>2 DEF AlertRecord
<1>4. \A t \in Evaluators : ev[t].stamp \in Nat
  BY <1>1 DEF EvRecord
<1>5. QED
  BY <1>1, <1>2, <1>3, <1>4, AlertAssumption DEF AlertAssumption

\* What a deciding thread keeps: all of the last minute, and nothing that is older
\* than the minute before its own stamp by more than MaxSkew.
LEMMA Keeps ==
  ASSUME CooldownInv, RateInv, NEW t \in Evaluators, ev[t].pc = "decide"
  PROVE  /\ Unexpired(ev[t].stamp) \in SUBSET recent /\ Trimmed(t) \in SUBSET recent
         /\ \A n \in DOMAIN alerts : alerts[n].stamp > clock - Window =>
              n \in Unexpired(ev[t].stamp) /\ n \in Trimmed(t)
         /\ \A n \in Unexpired(ev[t].stamp) :
              alerts[n].stamp > ev[t].stamp - Window - MaxSkew - 1
<1> DEFINE x == ev[t].stamp
           U == Unexpired(x)
<1>1. /\ clock \in Nat /\ Window \in Nat /\ MaxSkew \in Nat /\ x \in Nat /\ x <= clock
      /\ \A n \in DOMAIN alerts : n \in Nat /\ alerts[n].stamp \in Nat
      /\ recent \in SUBSET (DOMAIN alerts)
  BY AlertNumbers DEF RateInv
<1> HIDE DEF x
<1>2. U \in SUBSET recent
  BY DEF Unexpired
<1>3. ASSUME NEW n \in DOMAIN alerts, alerts[n].stamp > clock - Window
      PROVE  n \in U
  <2>1. n \in recent
    BY <1>3 DEF RateInv
  <2>2. x - alerts[n].stamp < Window /\ alerts[n].stamp >= x - Window /\ n <= n
    <3> DEFINE s == alerts[n].stamp
    <3>1. s \in Nat /\ n \in Nat /\ s > clock - Window
      BY <1>1, <1>3
    <3> HIDE DEF s
    <3>2. x - s < Window /\ s >= x - Window /\ n <= n
      BY <1>1, <3>1
    <3>3. QED
      BY <3>2 DEF s
  <2>3. QED
    BY <2>1, <2>2 DEF Unexpired
<1>4. ASSUME NEW n \in U
      PROVE  alerts[n].stamp > x - Window - MaxSkew - 1
  <2>1. n \in DOMAIN alerts /\ alerts[n].stamp \in Nat
    BY <1>1, <1>2
  <2>2. CASE engine = "files"
    <3>1. x - alerts[n].stamp < Window
      BY <1>4, <2>2 DEF Unexpired
    <3>2. QED
      BY <1>1, <2>1, <3>1
  <2>3. CASE engine # "files"
    <3>1. PICK m \in recent : m <= n /\ alerts[m].stamp >= x - Window
      BY <1>4, <2>3 DEF Unexpired
    <3>2. m \in DOMAIN alerts /\ alerts[m].stamp \in Nat
      BY <1>1
    <3>3. alerts[m].stamp <= alerts[n].stamp + MaxSkew
      BY <2>1, <3>1, <3>2 DEF RateInv
    <3>4. QED
      BY <1>1, <2>1, <3>1, <3>2, <3>3
  <2>4. QED
    BY <2>2, <2>3
<1>5. Trimmed(t) = recent \/ Trimmed(t) = U
  BY DEF Trimmed, x
<1>6. \A n \in DOMAIN alerts : alerts[n].stamp > clock - Window => n \in recent
  BY DEF RateInv
<1>7. QED
  BY <1>2, <1>3, <1>4, <1>5, <1>6 DEF x

LEMMA RateStep ==
  ASSUME CooldownInv, CooldownInv', RateInv, [AlertNext]_alertVars
  PROVE  RateInv'
<1> DEFINE Punctual == \A t \in Evaluators : ev[t].pc = "decide" =>
                         ev[t].stamp <= clock /\ clock <= ev[t].stamp + MaxSkew
\* No alert, no time.
<1>1. ASSUME UNCHANGED <<alerts, clock, last>>, recent' \in SUBSET recent,
             \A n \in DOMAIN alerts : alerts[n].stamp > clock - Window => n \in recent',
             \A u \in Evaluators : ev'[u].pc = "decide" =>
               \/ ev[u].pc = "decide" /\ ev'[u].stamp = ev[u].stamp
               \/ ev'[u].stamp = clock
      PROVE  RateInv'
  <2>1. ASSUME NEW u \in Evaluators, ev'[u].pc = "decide"
        PROVE  ev'[u].stamp <= clock /\ clock <= ev'[u].stamp + MaxSkew
    <3>1. CASE ev[u].pc = "decide" /\ ev'[u].stamp = ev[u].stamp
      BY <3>1 DEF RateInv
    <3>2. CASE ev'[u].stamp = clock
      BY <3>2, AlertNumbers
    <3>3. QED
      BY <1>1, <2>1, <3>1, <3>2
  <2>2. recent' \in SUBSET (DOMAIN alerts)
    BY <1>1 DEF RateInv
  <2>3. QED
    BY <1>1, <2>1, <2>2 DEF RateInv
<1>2. ASSUME UNCHANGED <<alerts, clock, last, recent>>,
             \A u \in Evaluators : ev'[u].pc = "decide" =>
               \/ ev[u].pc = "decide" /\ ev'[u].stamp = ev[u].stamp
               \/ ev'[u].stamp = clock
      PROVE  RateInv'
  BY <1>1, <1>2 DEF RateInv
<1>3. ASSUME NEW t \in Evaluators, ReadClock(t) \/ \E s \in Sources : Line(t, s)
      PROVE  RateInv'
  <2>1. UNCHANGED <<alerts, clock, last, recent>>
    BY <1>3 DEF ReadClock, Line, limits
  <2>2. ev \in [Evaluators -> EvRecord] /\ ev[t] \in EvRecord /\ AtRest \in EvRecord
    BY AtRestRecord DEF CooldownInv, DecisionTypes
  <2>3. ASSUME NEW u \in Evaluators, ev'[u].pc = "decide"
        PROVE  \/ ev[u].pc = "decide" /\ ev'[u].stamp = ev[u].stamp
               \/ ev'[u].stamp = clock
    <3>1. CASE u # t
      <4>1. ev'[u] = ev[u]
        BY <1>3, <2>2, <3>1 DEF ReadClock, Line
      <4>2. QED
        BY <2>3, <4>1
    <3>2. CASE u = t /\ ReadClock(t)
      <4>1. PICK r \in ev[t].todo :
              ev' = [ev EXCEPT ![t] = [ev[t] EXCEPT !.pc = "decide", !.rule = r, !.stamp = clock,
                                                    !.todo = ev[t].todo \ {r}]]
        BY <3>2 DEF ReadClock
      <4>2. QED
        BY <2>2, <3>2, <4>1 DEF EvRecord
    <3>3. CASE u = t /\ \E s \in Sources : Line(t, s)
      <4>0. PICK s \in Sources : Line(t, s)
        BY <3>3
      <4>1. PICK M \in SUBSET Candidates(s) :
              ev' = [ev EXCEPT ![t] = [AtRest EXCEPT !.pc = "next", !.src = s, !.todo = M,
                                                     !.cap = cap, !.defs = loaded]]
        BY <4>0 DEF Line
      <4>2. ev'[t].pc = "next"
        BY <2>2, <4>1 DEF EvRecord
      <4>3. QED
        BY <2>3, <3>3, <4>2
    <3>4. QED
      BY <1>3, <3>1, <3>2, <3>3
  <2>4. QED
    BY <1>2, <2>1, <2>3
<1>4. ASSUME NEW t \in Evaluators, ev[t].pc = "decide", Onward(t) \/ ev' = [ev EXCEPT ![t] = AtRest]
      PROVE  /\ ev'[t].pc # "decide" /\ \A u \in Evaluators \ {t} : ev'[u] = ev[u]
  BY <1>4, AtRestRecord DEF Onward, CooldownInv, DecisionTypes, EvRecord
<1>5. ASSUME NEW t \in Evaluators, Decide(t) \/ DecideFails(t), UNCHANGED alerts
      PROVE  RateInv'
  <2>1. /\ ev[t].pc = "decide" /\ (Onward(t) \/ ev' = [ev EXCEPT ![t] = AtRest])
        /\ UNCHANGED clock
    BY <1>5 DEF Decide, DecideFails
  <2>2. UNCHANGED last /\ (recent' = recent \/ recent' = Trimmed(t))
    <3>1. alerts \in Seq(AlertRecord)
      BY DEF CooldownInv, DecisionTypes
    <3>2. \A a : Append(alerts, a) # alerts
      <4>1. Len(alerts) \in Nat
        BY <3>1
      <4>2. \A a : Len(Append(alerts, a)) = Len(alerts) + 1
        BY <3>1
      <4>3. QED
        BY <4>1, <4>2
    <3>3. QED
      BY <1>5, <3>2 DEF Decide, DecideFails
  <2>3. QED
    BY <1>1, <1>4, <1>5, <2>1, <2>2, Keeps DEF RateInv
<1>6. ASSUME NEW t \in Evaluators, Decide(t), ~Cooling(t), RateOk(t) PROVE RateInv'
  <2> DEFINE k == Key(t)
             x == [key |-> k, stamp |-> ev[t].stamp, def |-> Def(t), task |-> "queued", log |-> {}]
             n == Len(alerts) + 1
             T == Trimmed(t)
  <2>1. /\ ev[t].pc = "decide" /\ Onward(t) /\ UNCHANGED clock
        /\ last' = [last EXCEPT ![k] = ev[t].stamp] /\ alerts' = Append(alerts, x)
        /\ recent' = T \cup {n}
    BY <1>6 DEF Decide
  <2>2. /\ ev[t].stamp \in Nat /\ ev[t].stamp <= clock /\ clock <= ev[t].stamp + MaxSkew
        /\ clock \in Nat /\ MaxSkew \in Nat
    BY <2>1, AlertNumbers DEF RateInv
  <2>3. x.stamp = ev[t].stamp /\ x.log = {} /\ x.def = Def(t)
    OBVIOUS
  <2>4. /\ T \in SUBSET recent /\ \A m \in DOMAIN alerts : alerts[m].stamp > clock - Window => m \in T
    BY <2>1, Keeps
  <2>5. recent \in SUBSET (DOMAIN alerts) /\ alerts \in Seq(AlertRecord)
    BY DEF RateInv, CooldownInv, DecisionTypes
  <2> HIDE DEF k, x, T
  <2>6. /\ Len(alerts) \in Nat /\ DOMAIN alerts = 1..(n - 1) /\ DOMAIN alerts' = 1..n
        /\ alerts'[n] = x /\ \A m \in 1..(n - 1) : alerts'[m] = alerts[m] /\ m # n
    <3>1. Len(alerts) \in Nat /\ DOMAIN alerts = 1..Len(alerts)
      BY <2>5
    <3>2. /\ Len(alerts') = Len(alerts) + 1 /\ DOMAIN alerts' = 1..Len(alerts')
          /\ alerts'[Len(alerts) + 1] = x /\ \A m \in 1..Len(alerts) : alerts'[m] = alerts[m]
      BY <2>1, <2>5
    <3>3. QED
      BY <3>1, <3>2
  <2>7. \A m \in 1..n : m = n \/ m \in 1..(n - 1)
    BY <2>6
  <2>8. n \in 1..n /\ 1..(n - 1) \subseteq 1..n
    BY <2>6
  <2>9. recent' \in SUBSET (DOMAIN alerts')
    BY <2>1, <2>4, <2>5, <2>6, <2>8
  <2>10. \A m \in DOMAIN alerts' :
           /\ alerts'[m].stamp <= clock /\ alerts'[m].log \subseteq alerts'[m].def.hooks
           /\ alerts'[m].stamp > clock - Window => m \in recent'
    <3> SUFFICES ASSUME NEW m \in 1..n
                 PROVE  /\ alerts'[m].stamp <= clock /\ alerts'[m].log \subseteq alerts'[m].def.hooks
                        /\ alerts'[m].stamp > clock - Window => m \in recent'
      BY <2>6
    <3>1. CASE m = n
      BY <2>1, <2>2, <2>3, <2>6, <3>1
    <3>2. CASE m \in 1..(n - 1)
      BY <2>1, <2>4, <2>6, <3>2 DEF RateInv
    <3>3. QED
      BY <2>7, <3>1, <3>2
  <2>11. \A m, o \in DOMAIN alerts' : m <= o => alerts'[m].stamp <= alerts'[o].stamp + MaxSkew
    <3> SUFFICES ASSUME NEW m \in 1..n, NEW o \in 1..n, m <= o
                 PROVE  alerts'[m].stamp <= alerts'[o].stamp + MaxSkew
      BY <2>6
    <3>1. CASE o = n
      <4>1. alerts'[m].stamp <= clock /\ alerts'[o].stamp = ev[t].stamp
        BY <2>3, <2>6, <2>10, <3>1
      <4>2. alerts'[m].stamp \in Nat
        <5>1. CASE m = n
          BY <2>2, <3>1, <4>1, <5>1
        <5>2. CASE m \in 1..(n - 1)
          BY <2>6, <5>2, AlertNumbers
        <5>3. QED
          BY <2>7, <5>1, <5>2
      <4>3. QED
        BY <2>2, <4>1, <4>2
    <3>2. CASE o \in 1..(n - 1)
      <4>1. m \in 1..(n - 1)
        BY <2>6, <3>2
      <4>2. QED
        BY <2>6, <3>2, <4>1 DEF RateInv
    <3>3. QED
      BY <2>7, <3>1, <3>2
  <2>12. Punctual'
    BY <1>4, <2>1 DEF RateInv
  <2>13. \A l \in Rules \X Sources : last'[l] <= clock
    <3>1. \A l \in Rules \X Sources : last'[l] = IF l = k THEN ev[t].stamp ELSE last[l]
      BY <2>1 DEF CooldownInv, DecisionTypes
    <3>2. QED
      BY <2>2, <3>1 DEF RateInv
  <2>14. QED
    BY <2>1, <2>9, <2>10, <2>11, <2>12, <2>13 DEF RateInv
\* A delivery.
<1>7. ASSUME NEW n \in DOMAIN alerts, NEW task, NEW log, log \subseteq alerts[n].def.hooks,
             alerts' = [alerts EXCEPT ![n] = [alerts[n] EXCEPT !.task = task, !.log = log]],
             UNCHANGED <<recent, last, clock, ev>>
      PROVE  RateInv'
  <2> DEFINE a == [alerts[n] EXCEPT !.task = task, !.log = log]
  <2>1. alerts[n] \in AlertRecord /\ alerts \in Seq(AlertRecord)
    BY AlertNumbers DEF CooldownInv, DecisionTypes
  <2>2. a.stamp = alerts[n].stamp /\ a.def = alerts[n].def /\ a.log = log
    BY <2>1 DEF AlertRecord
  <2> HIDE DEF a
  <2>3. alerts' = [alerts EXCEPT ![n] = a]
    BY <1>7 DEF a
  <2>4. DOMAIN alerts' = DOMAIN alerts /\ \A m \in DOMAIN alerts : alerts'[m] = IF m = n THEN a ELSE alerts[m]
    BY <2>1, <2>3
  <2>5. \A m \in DOMAIN alerts : /\ alerts'[m].stamp = alerts[m].stamp
                                 /\ alerts'[m].log \subseteq alerts'[m].def.hooks
    BY <1>7, <2>2, <2>4 DEF RateInv
  <2>6. QED
    BY <1>7, <2>4, <2>5 DEF RateInv
<1>8. ASSUME NEW n, TakeAlert(n) PROVE RateInv'
  <2>1. /\ n \in DOMAIN alerts /\ UNCHANGED <<recent, last, clock, ev>>
        /\ alerts' = [alerts EXCEPT ![n] = [alerts[n] EXCEPT !.task = "busy"]]
    BY <1>8 DEF TakeAlert, Delivery, limits
  <2>2. alerts[n] \in AlertRecord
    BY <2>1, AlertNumbers
  <2>3. [alerts[n] EXCEPT !.task = "busy"] = [alerts[n] EXCEPT !.task = "busy", !.log = alerts[n].log]
    BY <2>2 DEF AlertRecord
  <2>4. alerts[n].log \subseteq alerts[n].def.hooks
    BY <2>1 DEF RateInv
  <2>5. QED
    BY <1>7, <2>1, <2>3, <2>4
<1>9. ASSUME NEW n, Deliver(n) \/ DeliverFails(n) PROVE RateInv'
  <2>1. n \in DOMAIN alerts /\ UNCHANGED <<recent, last, clock, ev>>
    BY <1>9 DEF Deliver, DeliverFails, Busy, limits
  <2>2. \E task \in {"done", "dropped"}, log \in SUBSET alerts[n].def.hooks :
          alerts' = [alerts EXCEPT ![n] = [alerts[n] EXCEPT !.task = task, !.log = log]]
    <3>1. CASE Deliver(n)
      BY <3>1 DEF Deliver
    <3>2. CASE DeliverFails(n)
      <4>1. (IF alerts[n].def.hooks = Channels THEN {"webhook"} ELSE {}) \subseteq alerts[n].def.hooks
        BY DEF Channels
      <4>2. QED
        BY <3>2, <4>1 DEF DeliverFails
    <3>3. QED
      BY <1>9, <3>1, <3>2
  <2>3. QED
    BY <1>7, <2>1, <2>2
<1>10. CASE AlertTick
  <2>1. /\ clock < MaxClock /\ clock' = clock + 1 /\ UNCHANGED <<alerts, recent, last, ev>>
        /\ \A t \in Evaluators : ev[t].pc = "decide" => clock - ev[t].stamp < MaxSkew
    BY <1>10 DEF AlertTick, limits
  <2>2. /\ clock \in Nat /\ Window \in Nat /\ MaxSkew \in Nat /\ MaxClock \in Nat
        /\ \A n \in DOMAIN alerts : alerts[n].stamp \in Nat
        /\ \A t \in Evaluators : ev[t].stamp \in Nat
    BY AlertNumbers
  <2>3. clock' <= MaxClock /\ clock <= clock'
    BY <2>1, <2>2
  <2>4. \A n \in DOMAIN alerts : /\ alerts[n].stamp <= clock'
                                 /\ alerts[n].stamp > clock' - Window => alerts[n].stamp > clock - Window
    BY <2>1, <2>2 DEF RateInv
  <2>5. \A t \in Evaluators : ev[t].pc = "decide" =>
          ev[t].stamp <= clock' /\ clock' <= ev[t].stamp + MaxSkew
    BY <2>1, <2>2 DEF RateInv
  <2>6. \A k \in Rules \X Sources : last[k] <= clock'
    <3>1. \A k \in Rules \X Sources : last[k] \in Int /\ last[k] <= clock
      BY DEF RateInv, CooldownInv, DecisionTypes, Never
    <3>2. QED
      BY <2>1, <2>2, <3>1
  <2>7. QED
    BY <2>1, <2>3, <2>4, <2>5, <2>6 DEF RateInv
<1>11. ASSUME NEW e \in Editors, \/ \E r \in Rules, d \in Defs \cup {NoRule} : Edit(e, r, d)
                                 \/ ReadRules(e) \/ AssignRules(e)
       PROVE  RateInv'
  <2>1. UNCHANGED <<alerts, clock, last, recent, ev>>
    BY <1>11 DEF Edit, ReadRules, AssignRules, limits
  <2>2. QED
    BY <1>2, <2>1
<1>12. CASE (\E c \in Caps : SetCap(c)) \/ UNCHANGED alertVars
  <2>1. UNCHANGED <<alerts, clock, last, recent, ev>>
    BY <1>12 DEF SetCap, alertVars, limits
  <2>2. QED
    BY <1>2, <2>1
<1>13. ASSUME NEW t \in Evaluators, Decide(t) \/ DecideFails(t) PROVE RateInv'
  <2>1. UNCHANGED alerts \/ (Decide(t) /\ ~Cooling(t) /\ RateOk(t))
    BY <1>13 DEF Decide, DecideFails
  <2>2. QED
    BY <1>5, <1>6, <1>13, <2>1
<1>14. QED
  BY <1>3, <1>8, <1>9, <1>10, <1>11, <1>12, <1>13 DEF AlertNext, Pool

LEMMA RateInvHolds == AlertSpec => [](RulesInv /\ CooldownInv /\ RateInv)
<1>1. AlertInit => RateInv
  <2> SUFFICES ASSUME AlertInit PROVE RateInv
    OBVIOUS
  <2>1. /\ alerts = <<>> /\ recent = {} /\ clock = 0 /\ last = [k \in Rules \X Sources |-> Never]
        /\ \A t \in Evaluators : ev[t].pc = "idle"
    BY AtRestRecord DEF AlertInit
  <2>2. DOMAIN alerts = {}
    BY <2>1
  <2>3. 0 <= MaxClock /\ Never <= 0
    BY AlertAssumption DEF AlertAssumption, Never
  <2>4. QED
    BY <2>1, <2>2, <2>3 DEF RateInv
<1>2. QED
  BY <1>1, RateStep, RulesInvHolds, CooldownInvHolds, PTL DEF AlertSpec

\* A thread stops deciding by deciding.
LEMMA WhoDecides ==
  ASSUME CooldownInv, [AlertNext]_alertVars, NEW t \in Evaluators,
         ev[t].pc = "decide", ev'[t].pc # "decide"
  PROVE  Decide(t) \/ DecideFails(t)
<1>1. ev \in [Evaluators -> EvRecord] /\ ev'[t] # ev[t]
  BY DEF CooldownInv, DecisionTypes
<1>2. ASSUME NEW u \in Evaluators, (\E s \in Sources : Line(u, s)) \/ ReadClock(u) PROVE FALSE
  <2>1. u # t
    BY <1>2 DEF Line, ReadClock
  <2>2. ev'[t] = ev[t]
    BY <1>1, <1>2, <2>1 DEF Line, ReadClock
  <2>3. QED
    BY <1>1, <2>2
<1>3. ASSUME NEW u \in Evaluators, Decide(u) \/ DecideFails(u) PROVE u = t
  <2>1. u # t => ev'[t] = ev[t]
    BY <1>1, <1>3 DEF Decide, DecideFails, Onward
  <2>2. QED
    BY <1>1, <2>1
<1>4. UNCHANGED ev \/ \E u \in Evaluators : \/ \E s \in Sources : Line(u, s)
                                            \/ ReadClock(u) \/ Decide(u) \/ DecideFails(u)
  BY DEF AlertNext, Pool, TakeAlert, Deliver, DeliverFails, Edit, ReadRules, AssignRules, SetCap,
         AlertTick, alertVars
<1>5. QED
  BY <1>1, <1>2, <1>3, <1>4

\* For any number of threads that read the clock before they wait for the lock, and
\* although the two engines drop expired stamps by different rules: an alert is
\* fired only with fewer than the cap in the minute before, and held back only if
\* the cap was reached within that minute and the time a thread may have waited.
THEOREM RateHolds == AlertSpec => RateCap
<1>1. ASSUME CooldownInv, RateInv, [AlertNext]_alertVars
      PROVE  \A t \in Evaluators :
               ev[t].pc = "decide" /\ ev'[t].pc # "decide" /\ ~Cooling(t) =>
                 IF alerts' # alerts
                 THEN Unlimited(t) \/ Since(clock - Window) < CapOf(t)
                 ELSE ~Unlimited(t) /\ Since(ev[t].stamp - Window - MaxSkew - 1) >= CapOf(t)
  <2> SUFFICES ASSUME NEW t \in Evaluators, ev[t].pc = "decide", ev'[t].pc # "decide", ~Cooling(t)
               PROVE  IF alerts' # alerts
                      THEN Unlimited(t) \/ Since(clock - Window) < CapOf(t)
                      ELSE ~Unlimited(t) /\ Since(ev[t].stamp - Window - MaxSkew - 1) >= CapOf(t)
    OBVIOUS
  <2> DEFINE U == Unexpired(ev[t].stamp)
             Late == {n \in DOMAIN alerts : alerts[n].stamp > clock - Window}
             Wide == {n \in DOMAIN alerts : alerts[n].stamp > ev[t].stamp - Window - MaxSkew - 1}
  <2>1. Late \subseteq U /\ U \subseteq Wide /\ Wide \subseteq DOMAIN alerts
    BY <1>1, Keeps DEF RateInv
  <2>2. Since(clock - Window) = Cardinality(Late)
        /\ Since(ev[t].stamp - Window - MaxSkew - 1) = Cardinality(Wide)
    BY DEF Since
  <2> HIDE DEF U, Late, Wide
  <2>3. IsFiniteSet(DOMAIN alerts)
    <3>1. 1 \in Int /\ Len(alerts) \in Int /\ DOMAIN alerts = 1..Len(alerts)
      BY <1>1, AlertNumbers
    <3>2. IsFiniteSet(1..Len(alerts))
      BY <3>1, FS_Interval
    <3>3. QED
      BY <3>1, <3>2
  <2>4. /\ Cardinality(Late) <= Cardinality(U) /\ Cardinality(U) <= Cardinality(Wide)
        /\ Cardinality(Late) \in Nat /\ Cardinality(U) \in Nat /\ Cardinality(Wide) \in Nat
    <3>1. IsFiniteSet(Wide)
      BY <2>1, <2>3, FS_Subset
    <3>2. IsFiniteSet(U) /\ Cardinality(U) <= Cardinality(Wide)
      BY <2>1, <3>1, FS_Subset
    <3>3. IsFiniteSet(Late) /\ Cardinality(Late) <= Cardinality(U)
      BY <2>1, <3>2, FS_Subset
    <3>4. QED
      BY <3>1, <3>2, <3>3, FS_CardinalityType
  <2>5. CapOf(t) \in Int
    <3>1. ev[t] \in EvRecord /\ cap \in Caps
      BY <1>1 DEF CooldownInv, DecisionTypes
    <3>2. ev[t].cap \in Caps \cup {0} /\ Caps \subseteq Int
      BY <3>1, AlertAssumption DEF EvRecord, AlertAssumption
    <3> DEFINE mine == ev[t].cap
    <3>3. cap \in Caps /\ Caps \subseteq Int /\ (mine \in Caps \/ mine = 0)
      BY <3>1, <3>2
    <3> HIDE DEF mine
    <3>4. cap \in Int /\ mine \in Int
      <4>1. \A c \in Caps : c \in Int
        BY <3>3
      <4>2. cap \in Int
        BY <3>3, <4>1
      <4>3. mine \in Int
        <5>1. CASE mine \in Caps
          BY <4>1, <5>1
        <5>2. CASE mine = 0
          BY <5>2
        <5>3. QED
          BY <3>3, <5>1, <5>2
      <4>4. QED
        BY <4>2, <4>3
    <3>5. CapOf(t) = cap \/ CapOf(t) = ev[t].cap
      BY DEF CapOf
    <3>6. QED
      BY <3>4, <3>5 DEF mine
  <2>6. ~Unlimited(t) => Trimmed(t) = U
    BY DEF Trimmed, U
  <2>7. Decide(t) \/ DecideFails(t)
    BY <1>1, WhoDecides
  <2>8. alerts' # alerts => RateOk(t)
    BY <2>7 DEF Decide, DecideFails
  <2>9. alerts' = alerts => ~RateOk(t)
    <3>1. ASSUME Decide(t), RateOk(t) PROVE alerts' # alerts
      <4>1. alerts \in Seq(AlertRecord)
        BY <1>1 DEF CooldownInv, DecisionTypes
      <4>2. Len(alerts) \in Nat /\ \A a : Len(Append(alerts, a)) = Len(alerts) + 1
        BY <4>1
      <4>3. \E a : alerts' = Append(alerts, a)
        BY <3>1 DEF Decide
      <4>4. QED
        BY <4>2, <4>3
    <3>2. QED
      BY <2>7, <3>1 DEF DecideFails
  <2>10. CASE alerts' # alerts
    BY <2>2, <2>4, <2>5, <2>6, <2>8, <2>10 DEF RateOk
  <2>11. CASE alerts' = alerts
    BY <2>2, <2>4, <2>5, <2>6, <2>9, <2>11 DEF RateOk
  <2>12. QED
    BY <2>10, <2>11
<1>2. QED
  BY <1>1, RateInvHolds, PTL DEF AlertSpec, RateCap

\* Both engines keep the types of their rules, stamps and alerts; a thread that
\* decides has a definition of its rule, and what a delivery has recorded is among
\* the channels of the rule.
THEOREM AlertTypeHolds == AlertSpec => []AlertTypeOK
<1>1. ASSUME RulesInv, CooldownInv, RateInv PROVE AlertTypeOK
  <2>1. engine \in {"hub", "files"} /\ table \in RuleMaps /\ loaded \in RuleMaps
        /\ \A e \in Editors : editor[e] \in [pc : {"idle", "read", "assign"}, rules : RuleMaps]
    BY <1>1 DEF RulesInv, EditorRecord
  <2>2. /\ MaxClock \in Nat /\ \A n \in DOMAIN alerts : alerts[n] \in AlertRecord
        /\ \A n \in DOMAIN alerts : alerts[n].stamp \in Nat
    BY <1>1, AlertNumbers
  <2>3. cap \in Caps /\ clock \in 0..MaxClock /\ recent \subseteq DOMAIN alerts
    BY <1>1, <2>2 DEF CooldownInv, DecisionTypes, RateInv
  <2>4. last \in [Rules \X Sources -> 0..MaxClock \cup {Never}]
    <3>1. \A k \in Rules \X Sources : last[k] \in Nat \cup {Never} /\ last[k] <= clock
      BY <1>1 DEF CooldownInv, DecisionTypes, RateInv
    <3>2. \A k \in Rules \X Sources : last[k] \in 0..MaxClock \cup {Never}
      BY <2>2, <2>3, <3>1 DEF Never
    <3>3. QED
      BY <1>1, <3>2 DEF CooldownInv, DecisionTypes
  <2>5. \A t \in Evaluators :
          /\ ev[t].pc \in {"idle", "next", "decide"}
          /\ ev[t].todo \subseteq Rules /\ ev[t].defs \in RuleMaps
          /\ ev[t].pc = "decide" => Def(t) \in Defs
    BY <1>1 DEF CooldownInv, DecisionTypes, EvRecord
  <2>6. \A n \in DOMAIN alerts :
          /\ alerts[n].key \in Rules \X Sources /\ alerts[n].stamp \in 0..MaxClock
          /\ alerts[n].task \in {"queued", "busy", "done", "dropped"}
          /\ alerts[n].log \subseteq alerts[n].def.hooks
    <3> SUFFICES ASSUME NEW n \in DOMAIN alerts
                 PROVE  /\ alerts[n].key \in Rules \X Sources /\ alerts[n].stamp \in 0..MaxClock
                        /\ alerts[n].task \in {"queued", "busy", "done", "dropped"}
                        /\ alerts[n].log \subseteq alerts[n].def.hooks
      OBVIOUS
    <3>1. alerts[n].stamp <= clock /\ alerts[n].log \subseteq alerts[n].def.hooks
      BY <1>1 DEF RateInv
    <3>2. alerts[n].stamp \in 0..MaxClock
      BY <2>2, <2>3, <3>1
    <3>3. alerts[n].key \in Rules \X Sources /\ alerts[n].task \in {"queued", "busy", "done", "dropped"}
      BY <2>2 DEF AlertRecord
    <3>4. QED
      BY <3>1, <3>2, <3>3
  <2>7. QED
    BY <2>1, <2>3, <2>4, <2>5, <2>6 DEF AlertTypeOK
<1>2. QED
  BY <1>1, RateInvHolds, PTL
=============================================================================
