---------------------------- MODULE LogFileProofs ----------------------------
(***************************************************************************)
(* Proofs about what is read of a log file.  FileTail: for any number of   *)
(* lines, rotations, reloads and I/O errors and any chunk size, lines are  *)
(* handed on whole, once and in order, and nothing between is skipped.     *)
(* Retrieval: for any file, segment size, batch size and limits, a prompt  *)
(* is made of the job's own lines, and each vector is that of its text.    *)
(* LogSearch: for any lines, request and failure, an answer is sorted and  *)
(* complete within its limit, and every origin has its share of it.        *)
(* The first part says what cutting text at its newlines gives, for every  *)
(* text.                                                                   *)
(***************************************************************************)
EXTENDS FileTail, Retrieval, LogSearch, Integers, FiniteSetTheorems, SequenceTheorems,
        WellFoundedInduction, TLAPS

-----------------------------------------------------------------------------
(* Cutting text at its newlines. *)

\* A nonempty set of naturals has a least element.
LEMMA LeastExists ==
  ASSUME NEW S \in SUBSET Nat, S # {}
  PROVE  \E m \in S : \A x \in S : m <= x
<1> DEFINE R == {ss \in Nat \X Nat : ss[1] < ss[2]}
<1>1. IsWellFoundedOn(R, Nat)
  BY NatLessThanWellFounded DEF OpToRel
<1>2. \A x, m \in S : x < m => <<x, m>> \in R
  OBVIOUS
<1> HIDE DEF R
<1>3. \E m \in S : \A x \in S : ~(<<x, m>> \in R)
  BY <1>1, WFMin
<1>4. PICK m \in S : \A x \in S : ~(<<x, m>> \in R)
  BY <1>3
<1>5. \A x \in S : ~(x < m)
  BY <1>2, <1>4
<1>6. QED
  BY <1>5

\* How many elements of a set of positions are at most i.
UpTo(E, i) == {j \in E : j <= i}

\* That count is a natural number, grows with i, and grows by at most one.
LEMMA UpToSteps ==
  ASSUME NEW len \in Nat, NEW E \in SUBSET (1..len)
  PROVE  /\ IsFiniteSet(E) /\ Cardinality(E) \in Nat
         /\ \A i \in Nat : IsFiniteSet(UpTo(E, i)) /\ Cardinality(UpTo(E, i)) \in Nat
         /\ \A i, j \in Nat : i <= j => Cardinality(UpTo(E, i)) <= Cardinality(UpTo(E, j))
         /\ \A i, j \in Nat : i < j /\ j \in E =>
               Cardinality(UpTo(E, i)) < Cardinality(UpTo(E, j))
         /\ \A i \in Nat : i > 0 =>
               IF i \in E
               THEN Cardinality(UpTo(E, i)) = Cardinality(UpTo(E, i - 1)) + 1
               ELSE Cardinality(UpTo(E, i)) = Cardinality(UpTo(E, i - 1))
         /\ Cardinality(UpTo(E, 0)) = 0
         /\ UpTo(E, len) = E
<1>0. \A x \in E : x \in Nat /\ x >= 1 /\ x <= len
  OBVIOUS
<1>1. IsFiniteSet(E) /\ Cardinality(E) \in Nat
  <2>1. 1 \in Int /\ len \in Int
    OBVIOUS
  <2>2. IsFiniteSet(1..len)
    BY <2>1, FS_Interval
  <2>3. IsFiniteSet(E)
    BY <2>2, FS_Subset
  <2>4. QED
    BY <2>3, FS_CardinalityType
<1>2. \A i \in Nat : IsFiniteSet(UpTo(E, i)) /\ Cardinality(UpTo(E, i)) \in Nat
  <2> TAKE i \in Nat
  <2>1. UpTo(E, i) \in SUBSET E
    BY DEF UpTo
  <2>2. QED
    BY <1>1, <2>1, FS_Subset, FS_CardinalityType
<1>3. ASSUME NEW i \in Nat, NEW j \in Nat, i <= j
      PROVE  UpTo(E, i) \in SUBSET UpTo(E, j)
  <2>1. \A x \in E : x <= i => x <= j
    BY <1>0, <1>3
  <2>2. QED
    BY <2>1 DEF UpTo
<1>4. \A i, j \in Nat : i <= j => Cardinality(UpTo(E, i)) <= Cardinality(UpTo(E, j))
  BY <1>2, <1>3, FS_Subset
<1>5. ASSUME NEW i \in Nat, NEW j \in Nat, i < j, j \in E
      PROVE  Cardinality(UpTo(E, i)) < Cardinality(UpTo(E, j))
  <2>1. j \in UpTo(E, j) /\ j \notin UpTo(E, i)
    BY <1>5 DEF UpTo
  <2>2. Cardinality(UpTo(E, i)) # Cardinality(UpTo(E, j))
    BY <1>2, <1>3, <1>5, <2>1, FS_Subset
  <2>3. QED
    BY <1>2, <1>4, <1>5, <2>2
<1>6. ASSUME NEW i \in Nat, i > 0
      PROVE  IF i \in E
             THEN Cardinality(UpTo(E, i)) = Cardinality(UpTo(E, i - 1)) + 1
             ELSE Cardinality(UpTo(E, i)) = Cardinality(UpTo(E, i - 1))
  <2>1. i - 1 \in Nat
    BY <1>6
  <2>2. CASE i \in E
    <3>0. \A x \in E : x <= i <=> x <= i - 1 \/ x = i
      BY <1>0, <1>6
    <3>1. UpTo(E, i) = UpTo(E, i - 1) \cup {i} /\ i \notin UpTo(E, i - 1)
      <4>1. ~(i <= i - 1) /\ i <= i
        BY <1>6
      <4>2. QED
        BY <2>2, <3>0, <4>1, Zenon DEF UpTo
    <3>2. QED
      BY <1>2, <2>1, <2>2, <3>1, FS_AddElement
  <2>3. CASE i \notin E
    <3>0. \A x \in E : x <= i <=> x <= i - 1
      BY <1>0, <1>6, <2>3
    <3>1. UpTo(E, i) = UpTo(E, i - 1)
      BY <3>0, Zenon DEF UpTo
    <3>2. QED
      BY <2>3, <3>1
  <2>4. QED
    BY <2>2, <2>3
<1>7. UpTo(E, 0) = {} /\ UpTo(E, len) = E
  <2>1. \A x \in E : x <= len /\ ~(x <= 0)
    BY <1>0
  <2>2. QED
    BY <2>1, Zenon DEF UpTo
<1>8. QED
  BY <1>1, <1>2, <1>4, <1>5, <1>6, <1>7, FS_EmptySet

\* NthOf finds the n-th position.
LEMMA NthFound ==
  ASSUME NEW len \in Nat, NEW E \in SUBSET (1..len), NEW n \in 1..Cardinality(E)
  PROVE  NthOf(E, n) \in E /\ Cardinality(UpTo(E, NthOf(E, n))) = n
<1> DEFINE C(i) == Cardinality(UpTo(E, i))
           F == {i \in 0..len : C(i) >= n}
<1>1. Cardinality(E) \in Nat /\ n \in Nat /\ n > 0 /\ n <= Cardinality(E)
  BY UpToSteps
<1>0. /\ \A i \in Nat : C(i) \in Nat
      /\ C(0) = 0 /\ C(len) = Cardinality(E)
      /\ \A i \in Nat : i > 0 => IF i \in E THEN C(i) = C(i - 1) + 1 ELSE C(i) = C(i - 1)
  BY UpToSteps
<1> HIDE DEF C
<1>2. len \in F
  <2>1. len \in 0..len
    OBVIOUS
  <2>2. QED
    BY <1>0, <1>1, <2>1
<1>3. PICK m \in F : \A x \in F : m <= x
  <2>1. F \in SUBSET Nat /\ F # {}
    BY <1>2
  <2> HIDE DEF F
  <2>2. QED
    BY <2>1, LeastExists
<1>4. m \in Nat /\ m <= len /\ C(m) >= n /\ C(m) \in Nat /\ C(0) = 0
  BY <1>0, <1>3
<1>5. m > 0
  BY <1>1, <1>4
<1>6. m - 1 \in 0..len /\ ~(m - 1 \in F)
  BY <1>3, <1>4, <1>5
<1>7. C(m - 1) < n /\ C(m - 1) \in Nat
  <2>1. C(m - 1) \in Nat
    BY <1>0, <1>6
  <2>2. ~(C(m - 1) >= n)
    BY <1>6
  <2>3. QED
    BY <1>1, <2>1, <2>2
<1>8. IF m \in E THEN C(m) = C(m - 1) + 1 ELSE C(m) = C(m - 1)
  BY <1>0, <1>4, <1>5
<1> HIDE DEF F
<1>9. m \in E /\ C(m) = n
  <2>1. m \in E
    BY <1>1, <1>4, <1>7, <1>8
  <2>2. C(m) = C(m - 1) + 1
    BY <1>8, <2>1
  <2>3. QED
    BY <1>1, <1>4, <1>7, <2>1, <2>2
<1>10. \E i \in E : Cardinality({j \in E : j <= i}) = n
  BY <1>9 DEF UpTo, C
<1>11. QED
  BY <1>10 DEF NthOf, UpTo

\* Where the lines of s end: the n-th one at the n-th newline.
End(s, n) == IF n = 0 THEN 0 ELSE NthOf(Newlines(s), n)

\* The ends are newlines, in order, and every newline is one of them.
LEMMA EndsInOrder ==
  ASSUME NEW S \in SUBSET Nat, NEW s \in Seq(S)
  PROVE  LET k == Cardinality(Newlines(s)) IN
         /\ k \in Nat /\ Newlines(s) \in SUBSET (1..Len(s))
         /\ \A n \in 0..k : End(s, n) \in 0..Len(s)
         /\ \A n \in 1..k : End(s, n) \in Newlines(s)
         /\ \A m, n \in 0..k : m < n => End(s, m) < End(s, n)
         /\ \A n \in 1..k : \A i \in Newlines(s) :
               ~(End(s, n - 1) < i /\ i < End(s, n))
         /\ \A i \in Newlines(s) : i <= End(s, k)
         /\ \A i \in 1..Len(s) : i <= End(s, k) =>
               \E n \in 1..k : End(s, n - 1) < i /\ i <= End(s, n)
<1> DEFINE E == Newlines(s)
           k == Cardinality(E)
           C(i) == Cardinality(UpTo(E, i))
<1>1. Len(s) \in Nat /\ E \in SUBSET (1..Len(s))
  BY DEF Newlines
<1> HIDE DEF E
<1>2. k \in Nat
  BY <1>1, UpToSteps
<1>3. \A i \in Nat : C(i) \in Nat
  BY <1>1, UpToSteps
<1>4. C(0) = 0 /\ C(Len(s)) = k
  BY <1>1, UpToSteps
<1>5. \A i, j \in Nat : i <= j => C(i) <= C(j)
  BY <1>1, UpToSteps
<1>6. \A i, j \in Nat : i < j /\ j \in E => C(i) < C(j)
  BY <1>1, UpToSteps
<1>7. \A n \in 1..k : End(s, n) \in E /\ C(End(s, n)) = n
  <2> TAKE n \in 1..k
  <2>1. n # 0 /\ n \in 1..Cardinality(E)
    BY <1>2
  <2>2. NthOf(E, n) \in E /\ Cardinality(UpTo(E, NthOf(E, n))) = n
    BY <1>1, <2>1, NthFound
  <2>3. End(s, n) = NthOf(E, n)
    BY <2>1 DEF End, E
  <2>4. QED
    BY <2>2, <2>3
<1>8. \A n \in 0..k : End(s, n) \in 0..Len(s) /\ C(End(s, n)) = n
  <2> TAKE n \in 0..k
  <2>1. CASE n = 0
    BY <1>1, <1>4, <2>1 DEF End
  <2>2. CASE n # 0
    <3>1. n \in 1..k
      BY <1>2, <2>2
    <3>2. End(s, n) \in E /\ C(End(s, n)) = n
      BY <1>7, <3>1
    <3>3. End(s, n) \in 1..Len(s)
      BY <1>1, <3>2
    <3>4. QED
      BY <1>1, <3>2, <3>3
  <2>3. QED
    BY <2>1, <2>2
<1> HIDE DEF C
<1>9. \A m, n \in 0..k : m < n => End(s, m) < End(s, n)
  <2> TAKE m, n \in 0..k
  <2>1. End(s, m) \in Nat /\ End(s, n) \in Nat /\ C(End(s, m)) = m /\ C(End(s, n)) = n
    BY <1>1, <1>8
  <2>2. End(s, n) <= End(s, m) => n <= m
    BY <1>5, <2>1
  <2>3. m \in Int /\ n \in Int
    BY <1>2
  <2>4. QED
    BY <2>1, <2>2, <2>3
<1>10. \A n \in 1..k : \A i \in E : ~(End(s, n - 1) < i /\ i < End(s, n))
  <2> SUFFICES ASSUME NEW n \in 1..k, NEW i \in E, End(s, n - 1) < i, i < End(s, n)
               PROVE  FALSE
    OBVIOUS
  <2>1. n - 1 \in 0..k /\ n \in 0..k /\ n \in 1..k
    BY <1>2
  <2>2. /\ End(s, n - 1) \in Nat /\ C(End(s, n - 1)) = n - 1
        /\ End(s, n) \in Nat /\ C(End(s, n)) = n /\ End(s, n) \in E
    BY <1>1, <1>7, <1>8, <2>1
  <2>3. i \in Nat /\ C(i) \in Nat
    BY <1>1, <1>3
  <2>4. n - 1 < C(i)
    BY <1>6, <2>2, <2>3
  <2>5. C(i) < n
    BY <1>6, <2>2, <2>3
  <2>6. n \in Nat
    BY <1>2
  <2>7. QED
    BY <2>3, <2>4, <2>5, <2>6
<1>11. \A i \in E : i <= End(s, k)
  <2> SUFFICES ASSUME NEW i \in E, ~(i <= End(s, k)) PROVE FALSE
    OBVIOUS
  <2>1. k \in 0..k
    BY <1>2
  <2>2. End(s, k) \in Nat /\ C(End(s, k)) = k /\ i \in Nat /\ i <= Len(s) /\ C(i) \in Nat
    BY <1>1, <1>3, <1>8, <2>1
  <2>3. End(s, k) < i
    BY <2>2
  <2>4. k < C(i)
    BY <1>6, <2>2, <2>3
  <2>5. C(i) <= k
    BY <1>1, <1>4, <1>5, <2>2
  <2> HIDE DEF k
  <2>6. QED
    BY <1>2, <2>2, <2>4, <2>5
<1>12. \A i \in 1..Len(s) : i <= End(s, k) =>
          \E n \in 1..k : End(s, n - 1) < i /\ i <= End(s, n)
  <2> SUFFICES ASSUME NEW i \in 1..Len(s), i <= End(s, k)
               PROVE  \E n \in 1..k : End(s, n - 1) < i /\ i <= End(s, n)
    OBVIOUS
  <2> DEFINE F == {n \in 0..k : i <= End(s, n)}
  <2>1. k \in F
    BY <1>2
  <2>2. PICK m \in F : \A x \in F : m <= x
    <3>1. F \in SUBSET Nat /\ F # {}
      BY <2>1
    <3> HIDE DEF F
    <3>2. QED
      BY <3>1, LeastExists
  <2>3. m \in 0..k /\ i <= End(s, m)
    BY <2>2
  <2>4. m # 0
    BY <1>1, <2>3 DEF End
  <2>5. m \in 1..k /\ m - 1 \in 0..k
    BY <1>2, <2>3, <2>4
  <2>6. ~(m - 1 \in F)
    BY <2>2, <2>5
  <2>7. ~(i <= End(s, m - 1)) /\ End(s, m - 1) \in Nat
    BY <1>1, <1>8, <2>5, <2>6
  <2>8. i \in Nat
    OBVIOUS
  <2>9. End(s, m - 1) < i
    BY <2>7, <2>8
  <2>10. QED
    BY <2>3, <2>5, <2>9
<1>13. QED
  BY <1>1, <1>2, <1>7, <1>8, <1>9, <1>10, <1>11, <1>12 DEF E

\* The whole lines and the rest of s stand between its ends.
LEMMA CutUp ==
  ASSUME NEW S \in SUBSET Nat, NEW s \in Seq(S)
  PROVE  LET k == Cardinality(Newlines(s)) IN
         /\ Whole(s) \in Seq(Seq(S)) /\ Len(Whole(s)) = k
         /\ \A n \in 1..k :
              /\ Len(Whole(s)[n]) = End(s, n) - End(s, n - 1)
              /\ \A i \in 1..(End(s, n) - End(s, n - 1)) :
                    Whole(s)[n][i] = s[End(s, n - 1) + i]
         /\ Rest(s) \in Seq(S) /\ Len(Rest(s)) = Len(s) - End(s, k)
         /\ \A i \in 1..(Len(s) - End(s, k)) : Rest(s)[i] = s[End(s, k) + i]
<1> DEFINE E == Newlines(s)
           k == Cardinality(E)
<1>1. k \in Nat /\ Len(s) \in Nat
  BY EndsInOrder
<1>2. \A n \in 0..k : End(s, n) \in 0..Len(s)
  BY EndsInOrder
<1>3. \A m, n \in 0..k : m < n => End(s, m) < End(s, n)
  BY EndsInOrder
<1>4. \A i \in 1..Len(s) : s[i] \in S
  OBVIOUS
<1> HIDE DEF E
<1>5. /\ Whole(s) = [n \in 1..k |->
            SubSeq(s, IF n = 1 THEN 1 ELSE NthOf(E, n - 1) + 1, NthOf(E, n))]
      /\ Rest(s) = IF E = {} THEN s ELSE SubSeq(s, 1 + NthOf(E, k), Len(s))
  BY DEF Whole, LinesTo, Rest, AfterEnd, E
<1> HIDE DEF k
<1>6. ASSUME NEW n \in 1..k
      PROVE  /\ Whole(s)[n] \in Seq(S)
             /\ Len(Whole(s)[n]) = End(s, n) - End(s, n - 1)
             /\ \A i \in 1..(End(s, n) - End(s, n - 1)) :
                   Whole(s)[n][i] = s[End(s, n - 1) + i]
  <2>1. n - 1 \in 0..k /\ n \in 0..k /\ n # 0 /\ n - 1 < n
    BY <1>1
  <2>2. /\ End(s, n - 1) \in 0..Len(s) /\ End(s, n) \in 0..Len(s)
        /\ End(s, n - 1) < End(s, n)
    BY <1>2, <1>3, <2>1
  <2>3. End(s, n) = NthOf(E, n)
    BY <2>1 DEF End, E
  <2>4. End(s, n - 1) + 1 = IF n = 1 THEN 1 ELSE NthOf(E, n - 1) + 1
    <3>1. CASE n = 1
      BY <3>1 DEF End
    <3>2. CASE n # 1
      BY <2>1, <3>2 DEF End, E
    <3>3. QED
      BY <3>1, <3>2
  <2>5. Whole(s)[n] = SubSeq(s, End(s, n - 1) + 1, End(s, n))
    BY <1>5, <2>3, <2>4
  <2> DEFINE a == End(s, n - 1) + 1
             b == End(s, n)
  <2>6. a \in Int /\ b \in Int /\ a >= 1 /\ b <= Len(s) /\ a <= b
    BY <1>1, <2>2
  <2>7. \A i \in a..b : s[i] \in S
    BY <1>1, <1>4, <2>6
  <2> HIDE DEF a, b
  <2>8. /\ SubSeq(s, a, b) \in Seq(S) /\ Len(SubSeq(s, a, b)) = (b - a) + 1
        /\ \A i \in 1..((b - a) + 1) : SubSeq(s, a, b)[i] = s[(a + i) - 1]
    BY <2>6, <2>7, SubSeqProperties
  <2>9. (b - a) + 1 = End(s, n) - End(s, n - 1)
    BY <1>1, <2>2 DEF a, b
  <2>10. \A i \in Int : (a + i) - 1 = End(s, n - 1) + i
    BY <1>1, <2>2 DEF a
  <2>11. Whole(s)[n] = SubSeq(s, a, b)
    BY <2>5 DEF a, b
  <2>12. /\ Whole(s)[n] \in Seq(S) /\ Len(Whole(s)[n]) = End(s, n) - End(s, n - 1)
         /\ \A i \in 1..(End(s, n) - End(s, n - 1)) : Whole(s)[n][i] = s[(a + i) - 1]
    BY <2>8, <2>9, <2>11, Zenon
  <2>13. \A i \in 1..(End(s, n) - End(s, n - 1)) : (a + i) - 1 = End(s, n - 1) + i
    BY <2>10
  <2>14. QED
    BY <2>12, <2>13, Zenon
<1>7. Whole(s) \in Seq(Seq(S)) /\ Len(Whole(s)) = k
  <2>1. Whole(s) \in [1..k -> Seq(S)]
    <3>1. DOMAIN Whole(s) = 1..k /\ Whole(s) = [n \in 1..k |-> Whole(s)[n]]
      BY <1>5
    <3>2. \A n \in 1..k : Whole(s)[n] \in Seq(S)
      BY <1>6
    <3>3. QED
      BY <3>1, <3>2, Zenon
  <2>2. QED
    BY <1>1, <2>1
<1>8. k \in 0..k /\ End(s, k) \in 0..Len(s)
  BY <1>1, <1>2
<1>9. /\ Rest(s) \in Seq(S) /\ Len(Rest(s)) = Len(s) - End(s, k)
      /\ \A i \in 1..(Len(s) - End(s, k)) : Rest(s)[i] = s[End(s, k) + i]
  <2>1. CASE E = {}
    <3>1. k = 0
      BY <2>1, FS_EmptySet DEF k
    <3>2. End(s, k) = 0
      BY <3>1 DEF End
    <3>3. Rest(s) = s
      BY <1>5, <2>1
    <3>4. QED
      BY <1>1, <3>2, <3>3
  <2>2. CASE E # {}
    <3>1. k # 0
      <4>1. IsFiniteSet(E)
        <5>1. E \in SUBSET (1..Len(s))
          BY DEF E, Newlines
        <5>2. QED
          BY <1>1, <5>1, UpToSteps
      <4>2. QED
        BY <2>2, <4>1, FS_EmptySet DEF k
    <3>2. End(s, k) = NthOf(E, k)
      BY <3>1 DEF End, E
    <3> DEFINE a == 1 + End(s, k)
               b == Len(s)
    <3>3. Rest(s) = SubSeq(s, a, b)
      BY <1>5, <2>2, <3>2
    <3>4. a \in Int /\ b \in Int /\ a >= 1 /\ a <= b + 1
      BY <1>1, <1>8
    <3>5. \A i \in a..b : s[i] \in S
      BY <1>1, <1>4, <3>4
    <3> HIDE DEF a, b
    <3>6. /\ SubSeq(s, a, b) \in Seq(S)
          /\ Len(SubSeq(s, a, b)) = IF a <= b THEN (b - a) + 1 ELSE 0
          /\ \A i \in 1..((b - a) + 1) : SubSeq(s, a, b)[i] = s[(a + i) - 1]
      BY <3>4, <3>5, SubSeqProperties
    <3>7. Len(SubSeq(s, a, b)) = (b - a) + 1
      BY <3>4, <3>6
    <3>8. (b - a) + 1 = Len(s) - End(s, k)
      BY <1>1, <1>8 DEF a, b
    <3>9. \A i \in Int : (a + i) - 1 = End(s, k) + i
      BY <1>1, <1>8 DEF a
    <3>10. /\ Rest(s) \in Seq(S) /\ Len(Rest(s)) = Len(s) - End(s, k)
           /\ \A i \in 1..(Len(s) - End(s, k)) : Rest(s)[i] = s[(a + i) - 1]
      BY <3>3, <3>6, <3>7, <3>8, Zenon
    <3>11. \A i \in 1..(Len(s) - End(s, k)) : (a + i) - 1 = End(s, k) + i
      BY <3>9
    <3>12. QED
      BY <3>10, <3>11, Zenon
  <2>3. QED
    BY <2>1, <2>2
<1>10. QED
  BY <1>6, <1>7, <1>9 DEF k, E
-----------------------------------------------------------------------------
(* What that means for the pieces of the lines. *)

PiecesOf(s) == {s[i] : i \in DOMAIN s}
InLines(text) == UNION {PiecesOf(text[n]) : n \in DOMAIN text}
Before(S, T) == \A x \in S, y \in T : x < y
Rising(s) == \A i, j \in DOMAIN s : i < j => s[i] < s[j]
Run(s) == \A i, j \in DOMAIN s : s[i] + j = s[j] + i
OneLine(s) == \A i, j \in DOMAIN s : LineOf(s[i]) = LineOf(s[j])

\* Cutting loses no piece and adds none.
LEMMA CutCovers ==
  ASSUME NEW S \in SUBSET Nat, NEW s \in Seq(S)
  PROVE  InLines(Whole(s)) \cup PiecesOf(Rest(s)) = PiecesOf(s)
<1> DEFINE k == Cardinality(Newlines(s))
<1>1. k \in Nat /\ Len(s) \in Nat /\ DOMAIN s = 1..Len(s)
  BY EndsInOrder
<1>2. \A n \in 0..k : End(s, n) \in 0..Len(s)
  BY EndsInOrder
<1>3. \A i \in 1..Len(s) : i <= End(s, k) =>
         \E n \in 1..k : End(s, n - 1) < i /\ i <= End(s, n)
  BY EndsInOrder
<1>4. DOMAIN Whole(s) = 1..k
  BY CutUp
<1>5. \A n \in 1..k :
        /\ DOMAIN Whole(s)[n] = 1..(End(s, n) - End(s, n - 1))
        /\ \A i \in 1..(End(s, n) - End(s, n - 1)) :
              Whole(s)[n][i] = s[End(s, n - 1) + i]
  <2> TAKE n \in 1..k
  <2>1. Whole(s)[n] \in Seq(S)
    BY <1>4, CutUp, ElementOfSeq
  <2>2. /\ Len(Whole(s)[n]) = End(s, n) - End(s, n - 1)
        /\ \A i \in 1..(End(s, n) - End(s, n - 1)) :
              Whole(s)[n][i] = s[End(s, n - 1) + i]
    BY CutUp
  <2>3. DOMAIN Whole(s)[n] = 1..Len(Whole(s)[n])
    BY <2>1
  <2>4. QED
    BY <2>2, <2>3
<1>6. /\ DOMAIN Rest(s) = 1..(Len(s) - End(s, k))
      /\ \A i \in 1..(Len(s) - End(s, k)) : Rest(s)[i] = s[End(s, k) + i]
  <2>1. /\ Rest(s) \in Seq(S) /\ Len(Rest(s)) = Len(s) - End(s, k)
        /\ \A i \in 1..(Len(s) - End(s, k)) : Rest(s)[i] = s[End(s, k) + i]
    BY CutUp
  <2>2. DOMAIN Rest(s) = 1..Len(Rest(s))
    BY <2>1
  <2>3. QED
    BY <2>1, <2>2
<1> HIDE DEF k
<1>7. ASSUME NEW x \in InLines(Whole(s)) PROVE x \in PiecesOf(s)
  <2>1. PICK n \in 1..k : x \in PiecesOf(Whole(s)[n])
    BY <1>4 DEF InLines
  <2>2. PICK i \in 1..(End(s, n) - End(s, n - 1)) : x = Whole(s)[n][i]
    BY <1>5, <2>1 DEF PiecesOf
  <2>3. n - 1 \in 0..k /\ n \in 0..k
    BY <1>1
  <2>4. End(s, n - 1) \in 0..Len(s) /\ End(s, n) \in 0..Len(s)
    BY <1>2, <2>3
  <2>5. End(s, n - 1) + i \in DOMAIN s
    BY <1>1, <2>4
  <2>6. x = s[End(s, n - 1) + i]
    BY <1>5, <2>2
  <2>7. QED
    BY <2>5, <2>6 DEF PiecesOf
<1>8. ASSUME NEW x \in PiecesOf(Rest(s)) PROVE x \in PiecesOf(s)
  <2>1. PICK i \in 1..(Len(s) - End(s, k)) : x = Rest(s)[i]
    BY <1>6 DEF PiecesOf
  <2>2. k \in 0..k
    BY <1>1
  <2>3. End(s, k) \in 0..Len(s)
    BY <1>2, <2>2
  <2>4. End(s, k) + i \in DOMAIN s /\ x = s[End(s, k) + i]
    BY <1>1, <1>6, <2>1, <2>3
  <2>5. QED
    BY <2>4 DEF PiecesOf
<1>9. ASSUME NEW x \in PiecesOf(s)
      PROVE  x \in InLines(Whole(s)) \/ x \in PiecesOf(Rest(s))
  <2>1. PICK i \in 1..Len(s) : x = s[i]
    BY <1>1 DEF PiecesOf
  <2>2. k \in 0..k
    BY <1>1
  <2>3. End(s, k) \in 0..Len(s)
    BY <1>2, <2>2
  <2>4. CASE i <= End(s, k)
    <3>1. PICK n \in 1..k : End(s, n - 1) < i /\ i <= End(s, n)
      BY <1>3, <2>4
    <3>2. n - 1 \in 0..k /\ n \in 0..k
      BY <1>1
    <3>3. End(s, n - 1) \in 0..Len(s) /\ End(s, n) \in 0..Len(s)
      BY <1>2, <3>2
    <3>4. /\ i - End(s, n - 1) \in 1..(End(s, n) - End(s, n - 1))
          /\ End(s, n - 1) + (i - End(s, n - 1)) = i
      BY <1>1, <3>1, <3>3
    <3>5. x = Whole(s)[n][i - End(s, n - 1)]
      BY <1>5, <2>1, <3>4
    <3>6. x \in PiecesOf(Whole(s)[n])
      BY <1>5, <3>4, <3>5 DEF PiecesOf
    <3>7. QED
      BY <1>4, <3>6 DEF InLines
  <2>5. CASE ~(i <= End(s, k))
    <3>1. /\ i - End(s, k) \in 1..(Len(s) - End(s, k))
          /\ End(s, k) + (i - End(s, k)) = i
      BY <1>1, <2>3, <2>5
    <3>2. x = Rest(s)[i - End(s, k)]
      BY <1>6, <2>1, <3>1
    <3>3. QED
      BY <1>6, <3>1, <3>2 DEF PiecesOf
  <2>6. QED
    BY <2>4, <2>5
<1>10. QED
  BY <1>7, <1>8, <1>9

\* The i-th piece of the n-th line, and of the rest, by its place in the text.
LEMMA CutPlaces ==
  ASSUME NEW S \in SUBSET Nat, NEW s \in Seq(S)
  PROVE  LET k == Cardinality(Newlines(s)) IN
         /\ k \in Nat /\ DOMAIN Whole(s) = 1..k
         /\ \A n \in 1..k : \A i \in DOMAIN Whole(s)[n] :
              /\ i \in Nat /\ i >= 1 /\ End(s, n - 1) \in Nat /\ End(s, n) \in Nat
              /\ Whole(s)[n][i] = s[End(s, n - 1) + i]
              /\ End(s, n - 1) + i \in DOMAIN s /\ End(s, n - 1) + i <= End(s, n)
         /\ End(s, k) \in Nat
         /\ \A i \in DOMAIN Rest(s) :
              /\ i \in Nat /\ i >= 1 /\ Rest(s)[i] = s[End(s, k) + i]
              /\ End(s, k) + i \in DOMAIN s
<1> DEFINE k == Cardinality(Newlines(s))
<1>1. k \in Nat /\ Len(s) \in Nat /\ DOMAIN s = 1..Len(s)
  BY EndsInOrder
<1>2. \A n \in 0..k : End(s, n) \in 0..Len(s)
  BY EndsInOrder
<1>3. Whole(s) \in Seq(Seq(S)) /\ Len(Whole(s)) = k
  BY CutUp
<1>4. DOMAIN Whole(s) = 1..k
  BY <1>3
<1> HIDE DEF k
<1>5. ASSUME NEW n \in 1..k, NEW i \in DOMAIN Whole(s)[n]
      PROVE  /\ i \in Nat /\ i >= 1 /\ End(s, n - 1) \in Nat /\ End(s, n) \in Nat
             /\ Whole(s)[n][i] = s[End(s, n - 1) + i]
             /\ End(s, n - 1) + i \in DOMAIN s /\ End(s, n - 1) + i <= End(s, n)
  <2>1. Whole(s)[n] \in Seq(S)
    BY <1>3, <1>4, ElementOfSeq
  <2>2. /\ Len(Whole(s)[n]) = End(s, n) - End(s, n - 1)
        /\ \A j \in 1..(End(s, n) - End(s, n - 1)) :
              Whole(s)[n][j] = s[End(s, n - 1) + j]
    BY CutUp DEF k
  <2>3. i \in 1..(End(s, n) - End(s, n - 1))
    BY <2>1, <2>2
  <2>4. n - 1 \in 0..k /\ n \in 0..k
    BY <1>1
  <2>5. End(s, n - 1) \in 0..Len(s) /\ End(s, n) \in 0..Len(s)
    BY <1>2, <2>4
  <2>6. QED
    BY <1>1, <2>2, <2>3, <2>5
<1>6. k \in 0..k /\ End(s, k) \in 0..Len(s)
  BY <1>1, <1>2
<1>7. ASSUME NEW i \in DOMAIN Rest(s)
      PROVE  /\ i \in Nat /\ i >= 1 /\ Rest(s)[i] = s[End(s, k) + i]
             /\ End(s, k) + i \in DOMAIN s
  <2>1. /\ Rest(s) \in Seq(S) /\ Len(Rest(s)) = Len(s) - End(s, k)
        /\ \A j \in 1..(Len(s) - End(s, k)) : Rest(s)[j] = s[End(s, k) + j]
    BY CutUp DEF k
  <2>2. i \in 1..(Len(s) - End(s, k))
    BY <2>1
  <2>3. QED
    BY <1>1, <1>6, <2>1, <2>2
<1>8. QED
  BY <1>1, <1>4, <1>5, <1>6, <1>7 DEF k

\* Text whose pieces rise is cut into lines that follow one another, and a rest
\* that follows them.
LEMMA CutRises ==
  ASSUME NEW S \in SUBSET Nat, NEW s \in Seq(S), Rising(s)
  PROVE  /\ \A m, n \in DOMAIN Whole(s) :
              m < n => Before(PiecesOf(Whole(s)[m]), PiecesOf(Whole(s)[n]))
         /\ Before(InLines(Whole(s)), PiecesOf(Rest(s)))
<1> DEFINE k == Cardinality(Newlines(s))
<1>1. k \in Nat /\ DOMAIN Whole(s) = 1..k /\ End(s, k) \in Nat
  BY CutPlaces
<1>2. \A n \in 1..k : \A i \in DOMAIN Whole(s)[n] :
        /\ i \in Nat /\ i >= 1 /\ End(s, n - 1) \in Nat /\ End(s, n) \in Nat
        /\ Whole(s)[n][i] = s[End(s, n - 1) + i]
        /\ End(s, n - 1) + i \in DOMAIN s /\ End(s, n - 1) + i <= End(s, n)
  BY CutPlaces
<1>3. \A i \in DOMAIN Rest(s) :
        /\ i \in Nat /\ i >= 1 /\ Rest(s)[i] = s[End(s, k) + i]
        /\ End(s, k) + i \in DOMAIN s
  BY CutPlaces
<1>4. \A m, n \in 0..k : m <= n => End(s, m) <= End(s, n)
  <2>1. \A m, n \in 0..k : m < n => End(s, m) < End(s, n)
    BY EndsInOrder
  <2>2. \A n \in 0..k : End(s, n) \in 0..Len(s)
    BY EndsInOrder
  <2> HIDE DEF k
  <2> SUFFICES ASSUME NEW m \in 0..k, NEW n \in 0..k, m <= n
               PROVE  End(s, m) <= End(s, n)
    OBVIOUS
  <2>3. End(s, m) \in Int /\ End(s, n) \in Int
    BY <2>2
  <2>4. m = n \/ m < n
    BY <1>1
  <2>5. QED
    BY <2>1, <2>3, <2>4
<1> HIDE DEF k
<1>5. ASSUME NEW m \in 1..k, NEW n \in 1..k, m < n,
             NEW x \in PiecesOf(Whole(s)[m]), NEW y \in PiecesOf(Whole(s)[n])
      PROVE  x < y
  <2>1. PICK i \in DOMAIN Whole(s)[m] : x = Whole(s)[m][i]
    BY DEF PiecesOf
  <2>2. PICK j \in DOMAIN Whole(s)[n] : y = Whole(s)[n][j]
    BY DEF PiecesOf
  <2>3. /\ End(s, m - 1) + i \in DOMAIN s /\ x = s[End(s, m - 1) + i]
        /\ End(s, m - 1) + i <= End(s, m) /\ End(s, m) \in Nat
        /\ i \in Nat /\ End(s, m - 1) \in Nat
    BY <1>2, <2>1
  <2>4. /\ End(s, n - 1) + j \in DOMAIN s /\ y = s[End(s, n - 1) + j]
        /\ End(s, n - 1) \in Nat /\ j \in Nat /\ j >= 1
    BY <1>2, <2>2
  <2>5. m \in 0..k /\ n - 1 \in 0..k /\ m <= n - 1
    BY <1>1, <1>5
  <2>6. End(s, m) <= End(s, n - 1)
    BY <1>4, <2>5
  <2>7. End(s, m - 1) + i < End(s, n - 1) + j
    BY <2>3, <2>4, <2>6
  <2>8. QED
    BY <2>3, <2>4, <2>7 DEF Rising
<1>6. ASSUME NEW x \in InLines(Whole(s)), NEW y \in PiecesOf(Rest(s))
      PROVE  x < y
  <2>1. PICK n \in 1..k : x \in PiecesOf(Whole(s)[n])
    BY <1>1 DEF InLines
  <2>2. PICK i \in DOMAIN Whole(s)[n] : x = Whole(s)[n][i]
    BY <2>1 DEF PiecesOf
  <2>3. PICK j \in DOMAIN Rest(s) : y = Rest(s)[j]
    BY DEF PiecesOf
  <2>4. /\ End(s, n - 1) + i \in DOMAIN s /\ x = s[End(s, n - 1) + i]
        /\ End(s, n - 1) + i <= End(s, n) /\ End(s, n) \in Nat
        /\ i \in Nat /\ End(s, n - 1) \in Nat
    BY <1>2, <2>2
  <2>5. /\ End(s, k) + j \in DOMAIN s /\ y = s[End(s, k) + j] /\ j \in Nat /\ j >= 1
    BY <1>3, <2>3
  <2>6. n \in 0..k /\ k \in 0..k /\ n <= k
    BY <1>1
  <2>7. End(s, n) <= End(s, k)
    BY <1>4, <2>6
  <2>8. End(s, n - 1) + i < End(s, k) + j
    BY <1>1, <2>4, <2>5, <2>7
  <2>9. QED
    BY <2>4, <2>5, <2>8 DEF Rising
<1>7. QED
  BY <1>1, <1>5, <1>6 DEF Before

\* Two pieces after one another, of which the first does not end its line.
LEMMA SameLine ==
  ASSUME NEW a \in Nat, ~EndsLine(a)
  PROVE  LineOf(a) = LineOf(a + 1) /\ EndsLine(a + 1)
BY DEF LineOf, EndsLine

\* In a run, the piece after another one carries the next number.
LEMMA NextPiece ==
  ASSUME NEW a \in Nat, NEW x \in Nat, NEW y \in Nat, x + (a + 1) = y + a
  PROVE  y = x + 1
OBVIOUS

\* A run of pieces is cut into lines each of which is one line that was written,
\* and the rest is a run.
LEMMA CutLines ==
  ASSUME NEW S \in SUBSET Nat, NEW s \in Seq(S), Run(s)
  PROVE  (\A n \in DOMAIN Whole(s) : OneLine(Whole(s)[n])) /\ Run(Rest(s))
<1> DEFINE k == Cardinality(Newlines(s))
<1>1. k \in Nat /\ DOMAIN Whole(s) = 1..k /\ End(s, k) \in Nat
  BY CutPlaces
<1>2. \A n \in 1..k : \A i \in DOMAIN Whole(s)[n] :
        /\ i \in Nat /\ i >= 1 /\ End(s, n - 1) \in Nat /\ End(s, n) \in Nat
        /\ Whole(s)[n][i] = s[End(s, n - 1) + i]
        /\ End(s, n - 1) + i \in DOMAIN s /\ End(s, n - 1) + i <= End(s, n)
  BY CutPlaces
<1>3. \A i \in DOMAIN Rest(s) :
        /\ i \in Nat /\ i >= 1 /\ Rest(s)[i] = s[End(s, k) + i]
        /\ End(s, k) + i \in DOMAIN s
  BY CutPlaces
<1>4. \A n \in 1..k : \A i \in Newlines(s) : ~(End(s, n - 1) < i /\ i < End(s, n))
  BY EndsInOrder
<1>5. \A i \in DOMAIN s : i \in Nat /\ s[i] \in Nat
  <2>1. DOMAIN s = 1..Len(s) /\ Len(s) \in Nat
    OBVIOUS
  <2>2. \A i \in 1..Len(s) : s[i] \in S /\ i \in Nat
    BY <2>1
  <2>3. \A x \in S : x \in Nat
    OBVIOUS
  <2>4. QED
    BY <2>1, <2>2, <2>3, Zenon
<1> HIDE DEF k
<1>6. ASSUME NEW n \in 1..k, NEW i \in DOMAIN Whole(s)[n], NEW j \in DOMAIN Whole(s)[n],
             i < j
      PROVE  LineOf(Whole(s)[n][i]) = LineOf(Whole(s)[n][j])
  <2> DEFINE a == End(s, n - 1) + i
             b == End(s, n - 1) + j
  <2>1. /\ i \in Nat /\ i >= 1 /\ j \in Nat /\ j >= 1
        /\ End(s, n - 1) \in Nat /\ End(s, n) \in Nat
        /\ Whole(s)[n][i] = s[a] /\ Whole(s)[n][j] = s[b]
        /\ a \in DOMAIN s /\ b \in DOMAIN s /\ a <= End(s, n) /\ b <= End(s, n)
    BY <1>2
  <2>2. /\ a \in Nat /\ b \in Nat /\ End(s, n - 1) < a /\ a < b
    BY <1>6, <2>1
  <2> HIDE DEF a, b
  <2>3. s[a] \in Nat /\ s[b] \in Nat /\ s[a] + b = s[b] + a
    BY <1>5, <2>1 DEF Run
  <2>4. ~EndsLine(s[a])
    <3>1. a < End(s, n)
      BY <2>1, <2>2
    <3>2. a \notin Newlines(s)
      BY <1>4, <2>2, <3>1
    <3>3. QED
      BY <2>1, <3>2 DEF Newlines
  <2>5. LineOf(s[a]) = LineOf(s[a] + 1) /\ EndsLine(s[a] + 1)
    BY <2>3, <2>4, SameLine
  <2>6. CASE b = a + 1
    <3>1. s[b] = s[a] + 1
      BY <2>2, <2>3, <2>6
    <3>2. QED
      BY <2>1, <2>5, <3>1
  <2>7. CASE b # a + 1
    <3>1. a + 1 < b /\ a + 1 \in Nat /\ a + 1 >= 1
      BY <2>2, <2>7
    <3>2. a + 1 \in DOMAIN s
      BY <2>1, <2>2, <3>1
    <3>3. s[a] + (a + 1) = s[a + 1] + a /\ s[a + 1] \in Nat
      BY <1>5, <2>1, <3>2 DEF Run
    <3>4. s[a + 1] = s[a] + 1
      BY <2>2, <2>3, <3>3, NextPiece
    <3>5. a + 1 \in Newlines(s)
      BY <2>5, <3>2, <3>4 DEF Newlines
    <3>6. End(s, n - 1) < a + 1 /\ a + 1 < End(s, n)
      BY <2>1, <2>2, <3>1
    <3>7. QED
      BY <1>4, <3>5, <3>6
  <2>8. QED
    BY <2>6, <2>7
<1>7. \A n \in DOMAIN Whole(s) : OneLine(Whole(s)[n])
  <2> SUFFICES ASSUME NEW n \in 1..k,
                      NEW i \in DOMAIN Whole(s)[n], NEW j \in DOMAIN Whole(s)[n]
               PROVE  LineOf(Whole(s)[n][i]) = LineOf(Whole(s)[n][j])
    BY <1>1 DEF OneLine
  <2>1. i \in Nat /\ j \in Nat
    BY <1>2
  <2>2. i = j \/ i < j \/ j < i
    BY <2>1
  <2>3. QED
    BY <1>6, <2>2
<1>8. Run(Rest(s))
  <2> SUFFICES ASSUME NEW i \in DOMAIN Rest(s), NEW j \in DOMAIN Rest(s)
               PROVE  Rest(s)[i] + j = Rest(s)[j] + i
    BY DEF Run
  <2> DEFINE e == End(s, k)
  <2>1. /\ i \in Nat /\ j \in Nat /\ e \in Nat
        /\ Rest(s)[i] = s[e + i] /\ Rest(s)[j] = s[e + j]
        /\ e + i \in DOMAIN s /\ e + j \in DOMAIN s
    BY <1>1, <1>3
  <2> HIDE DEF e
  <2> DEFINE u == s[e + i]
             v == s[e + j]
  <2>2. u + (e + j) = v + (e + i) /\ u \in Nat /\ v \in Nat
    BY <1>5, <2>1 DEF Run
  <2>3. Rest(s)[i] = u /\ Rest(s)[j] = v
    BY <2>1
  <2> HIDE DEF u, v
  <2>4. u + j = v + i
    BY <2>1, <2>2
  <2>5. QED
    BY <2>3, <2>4
<1>9. QED
  BY <1>7, <1>8
-----------------------------------------------------------------------------
(* Types. *)

TailRecord == [pc : {"none", "start", "stat", "read", "emit", "dead"},
               fh : Inodes \cup {None}, off : Nat, part : Seq(Pieces),
               todo : Seq(Seq(Pieces)), wants : BOOLEAN]
HandedOn == [line : Seq(Pieces), sent : BOOLEAN, by : Nat]

\* The type invariant, with the types of the whole record and of the history.
TailTyped ==
  /\ TailTypeOK
  /\ tl \in TailRecord /\ delivered \in Seq(HandedOn)
  /\ from \in [off : Nat, count : Nat] /\ cut \in SUBSET Inodes
  /\ active \in BOOLEAN /\ wanted \in BOOLEAN /\ blind \in BOOLEAN /\ glitched \in BOOLEAN
  /\ tl.pc # "emit" => tl.todo = <<>>

\* A chunk is what stands between the offset and the next one.
LEMMA ChunkIs ==
  ASSUME TailTyped, tl.fh # None
  PROVE  /\ Chunk \in Seq(Pieces)
         /\ Len(Chunk) = IF tl.off < Len(content[tl.fh])
                         THEN Smaller(tl.off + ReadMax, Len(content[tl.fh])) - tl.off
                         ELSE 0
         /\ tl.off <= Len(content[tl.fh]) =>
              tl.off + Len(Chunk) <= Len(content[tl.fh])
         /\ \A i \in 1..Len(Chunk) :
              /\ tl.off + i \in DOMAIN content[tl.fh]
              /\ Chunk[i] = content[tl.fh][tl.off + i]
<1> DEFINE f == content[tl.fh]
           a == tl.off + 1
           b == Smaller(tl.off + ReadMax, Len(f))
<1>1. f \in Seq(Pieces) /\ tl.off \in Nat
  BY DEF TailTyped, TailTypeOK
<1>2. Len(f) \in Nat /\ ReadMax \in Nat /\ ReadMax > 0
  BY <1>1, TailAssumption DEF TailAssumption
<1>3. \A i \in 1..Len(f) : f[i] \in Pieces
  BY <1>1
<1>4. Chunk = SubSeq(f, a, b)
  BY DEF Chunk
<1> HIDE DEF f
<1>5. a \in Int /\ b \in Int /\ a >= 1 /\ b <= Len(f)
  BY <1>1, <1>2 DEF Smaller
<1>6. \A i \in a..b : f[i] \in Pieces
  BY <1>2, <1>3, <1>5
<1>7. tl.off < Len(f) <=> a <= b
  BY <1>1, <1>2 DEF Smaller
<1>8. a = tl.off + 1
  OBVIOUS
<1>9. b = Smaller(tl.off + ReadMax, Len(f))
  OBVIOUS
<1> HIDE DEF a, b
<1>10. /\ SubSeq(f, a, b) \in Seq(Pieces)
       /\ Len(SubSeq(f, a, b)) = IF a <= b THEN (b - a) + 1 ELSE 0
       /\ \A i \in 1..((b - a) + 1) : SubSeq(f, a, b)[i] = f[(a + i) - 1]
  BY <1>5, <1>6, SubSeqProperties
<1>11. CASE a <= b
  <2>0. Len(Chunk) = (b - a) + 1
    BY <1>4, <1>10, <1>11
  <2>1. Len(Chunk) = b - tl.off
    BY <1>1, <1>5, <1>8, <2>0
  <2>2. ASSUME NEW i \in 1..Len(Chunk)
        PROVE  tl.off + i \in 1..Len(f) /\ Chunk[i] = f[tl.off + i]
    <3>0. i \in Nat /\ 1 <= i /\ i <= b - tl.off
      BY <1>1, <1>5, <2>1
    <3>1. i \in 1..((b - a) + 1) /\ (a + i) - 1 = tl.off + i
      <4>1. b - tl.off = (b - a) + 1 /\ (b - a) + 1 \in Int
        <5> DEFINE o == tl.off
        <5>1. b \in Int
          BY <1>5
        <5>2. o \in Int
          BY <1>1
        <5>3. a = o + 1
          BY <1>8
        <5> HIDE DEF o, a, b
        <5>4. b - o = (b - a) + 1 /\ (b - a) + 1 \in Int
          BY <5>1, <5>2, <5>3
        <5>5. QED
          BY <5>4 DEF o
      <4>2. i <= (b - a) + 1
        BY <3>0, <4>1
      <4>3. (a + i) - 1 = tl.off + i
        BY <1>1, <1>8, <3>0
      <4>4. QED
        BY <3>0, <4>1, <4>2, <4>3
    <3>2. tl.off + i \in 1..Len(f)
      BY <1>1, <1>2, <1>5, <1>8, <1>11, <2>1
    <3>3. QED
      BY <1>4, <1>10, <3>1, <3>2
  <2>3. DOMAIN f = 1..Len(f)
    BY <1>1 DEF f
  <2>4. tl.off + Len(Chunk) <= Len(f)
    BY <1>1, <1>2, <1>5, <2>1
  <2>5. QED
    BY <1>4, <1>7, <1>9, <1>10, <1>11, <2>1, <2>2, <2>3, <2>4 DEF f
<1>12. CASE ~(a <= b)
  <2>1. Len(Chunk) = 0 /\ Chunk \in Seq(Pieces)
    BY <1>4, <1>10, <1>12
  <2>2. ~(tl.off < Len(f))
    BY <1>7, <1>12
  <2>3. tl.off + Len(Chunk) = tl.off
    BY <1>1, <2>1
  <2>4. 1..Len(Chunk) = {}
    BY <2>1
  <2>5. QED
    BY <2>1, <2>2, <2>3, <2>4 DEF f
<1>13. QED
  BY <1>11, <1>12

\* The text that a read cuts into lines.
Data == tl.part \o Chunk

LEMMA DataIs ==
  ASSUME TailTyped, tl.fh # None
  PROVE  /\ Data \in Seq(Pieces) /\ Pieces \in SUBSET Nat
         /\ Len(Data) = Len(tl.part) + Len(Chunk)
         /\ \A i \in 1..Len(Data) :
              Data[i] = IF i <= Len(tl.part) THEN tl.part[i] ELSE Chunk[i - Len(tl.part)]
         /\ Whole(Data) \in Seq(Seq(Pieces)) /\ Rest(Data) \in Seq(Pieces)
<1>1. tl.part \in Seq(Pieces) /\ Chunk \in Seq(Pieces)
  BY ChunkIs DEF TailTyped, TailTypeOK
<1>2. /\ Data \in Seq(Pieces) /\ Len(Data) = Len(tl.part) + Len(Chunk)
      /\ \A i \in 1..(Len(tl.part) + Len(Chunk)) :
            Data[i] = IF i <= Len(tl.part) THEN tl.part[i] ELSE Chunk[i - Len(tl.part)]
  BY <1>1, ConcatProperties DEF Data
<1>3. Pieces \in SUBSET Nat
  BY TailAssumption DEF Pieces, TailAssumption
<1>4. Whole(Data) \in Seq(Seq(Pieces)) /\ Rest(Data) \in Seq(Pieces)
  BY <1>2, <1>3, CutUp
<1>5. QED
  BY <1>2, <1>3, <1>4

\* The parts of the type invariant that the tailer's steps change.
TailerTyped ==
  /\ tl \in TailRecord
  /\ tl.pc = "read" => tl.fh # None
  /\ tl.pc = "emit" <=> tl.todo # <<>>

FilesTyped ==
  /\ content \in [Inodes -> Seq(Pieces)]
  /\ path \in Inodes \cup {None} /\ writer \in Inodes
  /\ written \in 0..(2 * MaxWritten)

HistoryTyped ==
  /\ delivered \in Seq(HandedOn)
  /\ late \in Seq(Seq(Seq(Pieces)))
  /\ \A n \in DOMAIN delivered : delivered[n].by \in 1..Present
  /\ from \in [off : Nat, count : Nat] /\ from.count <= Len(delivered)
  /\ cut \in SUBSET Inodes
  /\ active \in BOOLEAN /\ wanted \in BOOLEAN /\ blind \in BOOLEAN /\ glitched \in BOOLEAN

LEMMA TypedParts == TailTyped <=> TailerTyped /\ FilesTyped /\ HistoryTyped
<1>1. ASSUME TailTyped PROVE TailerTyped /\ FilesTyped /\ HistoryTyped
  BY <1>1 DEF TailTyped, TailTypeOK, TailerTyped, FilesTyped, HistoryTyped
<1>2. ASSUME TailerTyped, FilesTyped, HistoryTyped PROVE TailTyped
  <2>1. /\ tl.pc \in {"none", "start", "stat", "read", "emit", "dead"}
        /\ tl.fh \in Inodes \cup {None} /\ tl.off \in Nat /\ tl.wants \in BOOLEAN
        /\ tl.part \in Seq(Pieces) /\ tl.todo \in Seq(Seq(Pieces))
    BY <1>2 DEF TailerTyped, TailRecord
  <2>2. \A n \in DOMAIN delivered :
           delivered[n].line \in Seq(Pieces) /\ delivered[n].by \in 1..Present
    <3> SUFFICES ASSUME NEW n \in DOMAIN delivered
                 PROVE  delivered[n].line \in Seq(Pieces) /\ delivered[n].by \in 1..Present
      OBVIOUS
    <3>1. delivered[n] \in HandedOn
      BY <1>2 DEF HistoryTyped
    <3>2. delivered[n].by \in 1..Present
      BY <1>2 DEF HistoryTyped
    <3>3. QED
      BY <3>1, <3>2 DEF HandedOn
  <2>3. TailTypeOK
    BY <1>2, <2>1, <2>2 DEF TailTypeOK, TailerTyped, FilesTyped, HistoryTyped
  <2>4. QED
    BY <1>2, <2>3 DEF TailTyped, TailerTyped, HistoryTyped
<1>3. QED
  BY <1>1, <1>2

LEMMA FreshTyped ==
  /\ NoTailer \in TailRecord
  /\ NoTailer.pc = "none" /\ NoTailer.fh = None /\ NoTailer.off = 0
  /\ NoTailer.part = <<>> /\ NoTailer.todo = <<>>
BY DEF NoTailer, TailRecord

LEMMA TailTypedInit == TailInit => TailTyped
<1> SUFFICES ASSUME TailInit PROVE TailTyped
  OBVIOUS
<1>1. path \in Inodes /\ writer \in Inodes
  <2>1. \E i \in Inodes : TRUE
    <3>1. SUFFICES ASSUME Inodes = {} PROVE FALSE
      OBVIOUS
    <3>2. Cardinality(Inodes) = 0
      BY <3>1, FS_EmptySet
    <3>3. QED
      BY <3>2, TailAssumption DEF TailAssumption
  <2>2. QED
    BY <2>1 DEF TailInit
<1>2. <<>> \in Seq(Pieces) /\ <<>> \in Seq(Seq(Pieces)) /\ <<>> \in Seq(HandedOn)
  OBVIOUS
<1>3. tl \in TailRecord
  BY <1>2 DEF TailInit, NoTailer, TailRecord
<1>4. written \in 0..(2 * MaxWritten)
  BY TailAssumption DEF TailInit, TailAssumption
<1>5. /\ tl.pc = "none" /\ tl.fh = None /\ tl.off = 0 /\ tl.part = <<>>
      /\ tl.todo = <<>> /\ tl.wants = FALSE
  BY DEF TailInit, NoTailer
<1>6. content \in [Inodes -> Seq(Pieces)]
  BY <1>2 DEF TailInit
<1>7. delivered = <<>> /\ from \in [off : Nat, count : Nat] /\ from.count = 0
      /\ Len(delivered) = 0 /\ DOMAIN delivered = {}
  BY DEF TailInit
<1>8. TailerTyped /\ FilesTyped
  BY <1>1, <1>3, <1>4, <1>5, <1>6 DEF TailerTyped, FilesTyped
<1>9. HistoryTyped
  <2>1. from.count <= Len(delivered)
    BY <1>7
  <2>2. cut \in SUBSET Inodes /\ active \in BOOLEAN /\ wanted \in BOOLEAN
        /\ blind \in BOOLEAN /\ glitched \in BOOLEAN
    BY DEF TailInit
  <2>3. delivered \in Seq(HandedOn)
    BY <1>2, <1>7
  <2>4. late \in Seq(Seq(Seq(Pieces)))
    BY DEF TailInit
  <2>5. QED
    BY <1>7, <2>1, <2>2, <2>3, <2>4 DEF HistoryTyped
<1>10. QED
  BY <1>8, <1>9, TypedParts

-----------------------------------------------------------------------------
(* What the steps do to the tailer, and to those before it, by kind. *)

StillFiles ==
  content' = content /\ path' = path /\ writer' = writer /\ written' = written

\* It goes on with what it has.
GoesOn ==
  /\ StillFiles /\ delivered' = delivered /\ late' = late /\ from' = from /\ cut' = cut
  /\ blind' = blind /\ glitched' = glitched
  /\ tl'.fh = tl.fh /\ tl'.off = tl.off /\ tl'.part = tl.part /\ tl'.todo = tl.todo
  /\ tl'.pc = tl.pc \/ (tl.pc \in {"stat", "read"} /\ tl'.pc \in {"stat", "read"})

\* It lets go of its file and of what it has of it; its thread may keep the
\* lines it has in hand.
LetsGo ==
  /\ late' = late \/ \E left \in {<<>>, tl.todo} : late' = Append(late, left)
  /\ StillFiles /\ delivered' = delivered /\ from' = from /\ cut' = cut /\ blind' = blind
  /\ ~glitched' => ~glitched
  /\ tl'.fh = None /\ tl'.part = <<>> /\ tl'.todo = <<>> /\ tl'.pc # "emit"
  /\ tl'.pc \in {"stat", "read", "emit"} => path = None \/ glitched'

\* It opens the file under the path: at its end, or at its start when what it
\* has open is another file, or that one cut short.
Opens ==
  /\ StillFiles /\ delivered' = delivered /\ late' = late /\ blind' = blind /\ glitched' = glitched
  /\ path # None /\ tl'.fh = path /\ tl'.part = <<>> /\ tl'.todo = <<>>
  /\ tl'.pc \in {"stat", "read"}
  /\ from' = [off |-> tl'.off, count |-> Len(delivered)] /\ cut' = cut \ {path}
  /\ \/ tl'.off = Len(content[path])
     \/ /\ tl'.off = 0 /\ tl.pc = "stat"
        /\ tl.fh # path \/ Len(content[path]) < tl.off

\* It reads a chunk.
ReadsOn ==
  /\ StillFiles /\ delivered' = delivered /\ late' = late /\ from' = from /\ cut' = cut
  /\ glitched' = glitched /\ blind' = (blind \/ tl.fh \in cut)
  /\ tl.pc = "read" /\ tl.fh # None /\ Chunk # <<>>
  /\ tl'.fh = tl.fh /\ tl'.off = tl.off + Len(Chunk)
  /\ tl'.part = Rest(Data) /\ tl'.todo = Whole(Data)
  /\ tl'.pc \in {"stat", "emit"}

\* It hands on a line.
HandsOn ==
  /\ StillFiles /\ late' = late /\ from' = from /\ cut' = cut /\ blind' = blind /\ glitched' = glitched
  /\ tl.pc = "emit" /\ tl'.pc \in {"stat", "emit"}
  /\ \E b \in BOOLEAN :
       delivered' = Append(delivered, [line |-> Head(tl.todo), sent |-> b, by |-> Present])
  /\ tl'.fh = tl.fh /\ tl'.off = tl.off /\ tl'.part = tl.part /\ tl'.todo = Tail(tl.todo)

\* The thread of a stopped tailer hands on a line, or drops those it has.
Beside == StillFiles /\ tl' = tl /\ from' = from /\ cut' = cut /\ blind' = blind /\ glitched' = glitched
LateOn(g) ==
  /\ Beside /\ late[g] # <<>> /\ late' = [late EXCEPT ![g] = Tail(late[g])]
  /\ delivered' = Append(delivered, [line |-> Head(late[g]), sent |-> TRUE, by |-> g])
LateDrops(g) ==
  Beside /\ late' = [late EXCEPT ![g] = <<>>] /\ delivered' = delivered
LateStep == \E g \in DOMAIN late : LateOn(g) \/ LateDrops(g)

LEMMA OpenAtEndKind ==
  ASSUME TailTyped, OpenAtEnd PROVE TailerTyped' /\ HistoryTyped' /\ (LetsGo \/ Opens)
<1>1. FilesTyped /\ HistoryTyped
  BY TypedParts
<1>2. CASE path # None /\ Opened(Len(content[path]), "stat")
  <2>1. path \in Inodes /\ Len(content[path]) \in Nat
    <3>1. path \in Inodes
      BY <1>1, <1>2 DEF FilesTyped
    <3>2. content[path] \in Seq(Pieces)
      BY <1>1, <3>1 DEF FilesTyped
    <3>3. QED
      BY <3>1, <3>2
  <2>2. tl' = [NoTailer EXCEPT !.pc = "stat", !.fh = path, !.off = Len(content[path])]
    BY <1>2 DEF Opened
  <2>3. /\ tl' \in TailRecord /\ tl'.pc = "stat" /\ tl'.fh = path
        /\ tl'.off = Len(content[path]) /\ tl'.part = <<>> /\ tl'.todo = <<>>
    BY <2>1, <2>2, FreshTyped DEF NoTailer, TailRecord
  <2>4. TailerTyped'
    BY <2>3 DEF TailerTyped
  <2>5. /\ from' = [off |-> tl'.off, count |-> Len(delivered)] /\ cut' = cut \ {path}
        /\ StillFiles /\ delivered' = delivered /\ blind' = blind /\ glitched' = glitched
        /\ active' = active /\ wanted' = wanted /\ late' = late
    BY <1>2, <2>3 DEF OpenAtEnd, Opened, fsVars, StillFiles
  <2>6. HistoryTyped'
    <3>1. Len(delivered) \in Nat
      BY <1>1 DEF HistoryTyped
    <3>2. from' \in [off : Nat, count : Nat] /\ from'.count = Len(delivered)
      BY <2>1, <2>3, <2>5, <3>1
    <3>3. QED
      BY <1>1, <2>5, <3>1, <3>2 DEF HistoryTyped, Present
  <2>7. QED
    BY <1>2, <2>3, <2>4, <2>5, <2>6 DEF Opens
<1>3. CASE /\ tl' = [NoTailer EXCEPT !.pc = "dead"] /\ UNCHANGED <<from, cut>>
  <2>1. /\ tl' \in TailRecord /\ tl'.pc = "dead" /\ tl'.fh = None
        /\ tl'.part = <<>> /\ tl'.todo = <<>>
    BY <1>3, FreshTyped DEF NoTailer, TailRecord
  <2>2. /\ StillFiles /\ delivered' = delivered /\ blind' = blind /\ glitched' = glitched
        /\ active' = active /\ wanted' = wanted /\ late' = late
    BY DEF OpenAtEnd, fsVars, StillFiles
  <2>3. TailerTyped' /\ HistoryTyped'
    BY <1>1, <1>3, <2>1, <2>2 DEF TailerTyped, HistoryTyped, Present
  <2>4. QED
    BY <1>3, <2>1, <2>2, <2>3 DEF LetsGo
<1>4. QED
  BY <1>2, <1>3 DEF OpenAtEnd

LEMMA StatKind ==
  ASSUME TailTyped, Stat
  PROVE  TailerTyped' /\ HistoryTyped' /\ (GoesOn \/ LetsGo \/ Opens)
<1>1. FilesTyped /\ HistoryTyped /\ TailerTyped /\ tl.pc = "stat"
  BY TypedParts DEF Stat
<1>2. /\ StillFiles /\ delivered' = delivered /\ blind' = blind /\ glitched' = glitched
      /\ active' = active /\ wanted' = wanted /\ late' = late
  BY DEF Stat, fsVars, StillFiles
<1>3. CASE path = None
  <2>1. tl' = [NoTailer EXCEPT !.pc = "stat"] /\ from' = from /\ cut' = cut
    BY <1>3 DEF Stat
  <2>2. /\ tl' \in TailRecord /\ tl'.pc = "stat" /\ tl'.fh = None
        /\ tl'.part = <<>> /\ tl'.todo = <<>>
    BY <2>1, FreshTyped DEF NoTailer, TailRecord
  <2>3. TailerTyped' /\ HistoryTyped'
    BY <1>1, <1>2, <2>1, <2>2 DEF TailerTyped, HistoryTyped, Present
  <2>4. QED
    BY <1>2, <1>3, <2>1, <2>2, <2>3 DEF LetsGo
<1>4. CASE path # None /\ (tl.fh # path \/ Len(content[path]) < tl.off)
  <2>1. tl' = [NoTailer EXCEPT !.pc = "read", !.fh = path, !.off = 0]
    BY <1>4 DEF Stat, Opened
  <2>2. path \in Inodes
    BY <1>1, <1>4 DEF FilesTyped
  <2>3. /\ tl' \in TailRecord /\ tl'.pc = "read" /\ tl'.fh = path
        /\ tl'.off = 0 /\ tl'.part = <<>> /\ tl'.todo = <<>>
    BY <2>1, <2>2, FreshTyped DEF NoTailer, TailRecord
  <2>4. TailerTyped'
    BY <1>4, <2>3 DEF TailerTyped
  <2>5. from' = [off |-> 0, count |-> Len(delivered)] /\ cut' = cut \ {path}
    BY <1>4 DEF Stat, Opened
  <2>6. HistoryTyped'
    <3>1. Len(delivered) \in Nat
      BY <1>1 DEF HistoryTyped
    <3>2. from' \in [off : Nat, count : Nat] /\ from'.count = Len(delivered)
      BY <2>5, <3>1
    <3>3. QED
      BY <1>1, <1>2, <2>5, <3>1, <3>2 DEF HistoryTyped, Present
  <2>7. QED
    BY <1>1, <1>2, <1>4, <2>3, <2>4, <2>5, <2>6 DEF Opens
<1>5. CASE path # None /\ ~(tl.fh # path \/ Len(content[path]) < tl.off)
  <2>1. tl' = [tl EXCEPT !.pc = "read"] /\ from' = from /\ cut' = cut
    BY <1>5 DEF Stat
  <2>2. /\ tl' \in TailRecord /\ tl'.pc = "read" /\ tl'.fh = tl.fh /\ tl'.off = tl.off
        /\ tl'.part = tl.part /\ tl'.todo = tl.todo
    BY <1>1, <2>1 DEF TailerTyped, TailRecord
  <2>3. TailerTyped' /\ HistoryTyped'
    BY <1>1, <1>2, <1>5, <2>1, <2>2 DEF TailerTyped, HistoryTyped, Present
  <2>4. QED
    BY <1>1, <1>2, <2>1, <2>2, <2>3 DEF GoesOn
<1>6. QED
  BY <1>3, <1>4, <1>5

LEMMA ReadKind ==
  ASSUME TailTyped, Read
  PROVE  TailerTyped' /\ HistoryTyped' /\ (GoesOn \/ ReadsOn)
<1>1. FilesTyped /\ HistoryTyped /\ TailerTyped /\ tl.pc = "read" /\ tl.fh # None
  BY TypedParts DEF Read, TailerTyped
<1>2. /\ StillFiles /\ delivered' = delivered /\ from' = from /\ cut' = cut
      /\ glitched' = glitched /\ active' = active /\ wanted' = wanted /\ late' = late
  BY DEF Read, fsVars, StillFiles
<1>3. /\ tl' = IF Chunk = <<>> THEN [tl EXCEPT !.pc = "stat"]
               ELSE [tl EXCEPT !.pc = IF Whole(Data) = <<>> THEN "stat" ELSE "emit",
                               !.off = tl.off + Len(Chunk), !.part = Rest(Data),
                               !.todo = Whole(Data), !.wants = wanted]
      /\ blind' = (blind \/ (Chunk # <<>> /\ tl.fh \in cut))
  BY DEF Read, Data
<1>4. HistoryTyped'
  <2>1. blind' \in BOOLEAN
    BY <1>3
  <2>2. QED
    BY <1>1, <1>2, <2>1 DEF HistoryTyped, Present
<1>5. CASE Chunk = <<>>
  <2>1. tl' = [tl EXCEPT !.pc = "stat"] /\ blind' = blind
    BY <1>1, <1>3, <1>5 DEF HistoryTyped
  <2>2. /\ tl' \in TailRecord /\ tl'.pc = "stat" /\ tl'.fh = tl.fh /\ tl'.off = tl.off
        /\ tl'.part = tl.part /\ tl'.todo = tl.todo
    BY <1>1, <2>1 DEF TailerTyped, TailRecord
  <2>3. TailerTyped'
    BY <1>1, <2>2 DEF TailerTyped
  <2>4. QED
    BY <1>1, <1>2, <1>4, <2>1, <2>2, <2>3 DEF GoesOn
<1>6. CASE Chunk # <<>>
  <2>1. /\ Whole(Data) \in Seq(Seq(Pieces)) /\ Rest(Data) \in Seq(Pieces)
        /\ Len(Chunk) \in Nat
    <3>1. Chunk \in Seq(Pieces)
      BY <1>1, ChunkIs
    <3>2. QED
      BY <1>1, <3>1, DataIs
  <2>2. PICK p \in {"stat", "emit"} : p = IF Whole(Data) = <<>> THEN "stat" ELSE "emit"
    BY Zenon
  <2>3. tl' = [tl EXCEPT !.pc = p, !.off = tl.off + Len(Chunk), !.part = Rest(Data),
                         !.todo = Whole(Data), !.wants = wanted]
    BY <1>3, <1>6, <2>2
  <2>4. wanted \in BOOLEAN /\ tl \in TailRecord /\ tl.off \in Nat
    BY <1>1 DEF HistoryTyped, TailerTyped, TailRecord
  <2>5. tl.off + Len(Chunk) \in Nat
    BY <2>1, <2>4
  <2> DEFINE o == tl.off + Len(Chunk)
             w == Whole(Data)
             r == Rest(Data)
  <2> HIDE DEF o, w, r
  <2>6. o \in Nat /\ w \in Seq(Seq(Pieces)) /\ r \in Seq(Pieces)
    BY <2>1, <2>5 DEF o, w, r
  <2>7. tl' = [tl EXCEPT !.pc = p, !.off = o, !.part = r, !.todo = w, !.wants = wanted]
    BY <2>3 DEF o, w, r
  <2>8. /\ tl' \in TailRecord /\ tl'.pc = p /\ tl'.fh = tl.fh /\ tl'.off = o
        /\ tl'.part = r /\ tl'.todo = w
    BY <2>4, <2>6, <2>7 DEF TailRecord
  <2>9. p = "emit" <=> w # <<>>
    BY <2>2 DEF w
  <2>10. TailerTyped'
    BY <2>8, <2>9 DEF TailerTyped
  <2>11. blind' = (blind \/ tl.fh \in cut)
    BY <1>3, <1>6
  <2>12. ReadsOn
    BY <1>1, <1>2, <1>6, <2>8, <2>11 DEF ReadsOn, o, w, r
  <2>13. QED
    BY <1>4, <2>10, <2>12
<1>7. QED
  BY <1>5, <1>6

LEMMA EmitKind ==
  ASSUME TailTyped, Emit PROVE TailerTyped' /\ HistoryTyped' /\ HandsOn
<1>1. HistoryTyped /\ TailerTyped /\ tl.pc = "emit" /\ tl.todo # <<>> /\ tl \in TailRecord
  BY TypedParts DEF Emit, TailerTyped
<1>2. /\ StillFiles /\ from' = from /\ cut' = cut /\ blind' = blind
      /\ glitched' = glitched /\ active' = active /\ wanted' = wanted /\ late' = late
  BY DEF Emit, fsVars, StillFiles
<1>3. tl.todo \in Seq(Seq(Pieces)) /\ tl.wants \in BOOLEAN
  BY <1>1 DEF TailRecord
<1>4. /\ Head(tl.todo) \in Seq(Pieces) /\ Tail(tl.todo) \in Seq(Seq(Pieces))
      /\ Len(Tail(tl.todo)) = Len(tl.todo) - 1 /\ Len(tl.todo) \in Nat
  BY <1>1, <1>3, HeadTailProperties
<1>5. PICK p \in {"stat", "emit"} : p = IF Len(tl.todo) = 1 THEN "stat" ELSE "emit"
  BY Zenon
<1>6. tl' = [tl EXCEPT !.todo = Tail(tl.todo), !.pc = p]
  BY <1>5 DEF Emit
<1> DEFINE rest == Tail(tl.todo)
<1> HIDE DEF rest
<1>7. rest \in Seq(Seq(Pieces)) /\ tl' = [tl EXCEPT !.todo = rest, !.pc = p]
  BY <1>4, <1>6 DEF rest
<1>8. /\ tl' \in TailRecord /\ tl'.pc = p /\ tl'.fh = tl.fh /\ tl'.off = tl.off
      /\ tl'.part = tl.part /\ tl'.todo = rest
  BY <1>1, <1>7 DEF TailRecord
<1>9. p = "emit" <=> rest # <<>>
  <2>1. rest = <<>> <=> Len(rest) = 0
    BY <1>7
  <2>2. QED
    BY <1>4, <1>5, <2>1 DEF rest
<1>10. TailerTyped'
  BY <1>8, <1>9 DEF TailerTyped
<1> DEFINE h == [line |-> Head(tl.todo), sent |-> tl.wants, by |-> Present]
<1>11. delivered' = Append(delivered, h)
  BY DEF Emit
<1>12. h \in HandedOn /\ h.by = Present /\ Present \in Nat /\ Present >= 1
  <2>1. Len(late) \in Nat
    BY <1>1 DEF HistoryTyped
  <2>2. Present \in Nat /\ Present >= 1
    BY <2>1 DEF Present
  <2>3. QED
    BY <1>3, <1>4, <2>2 DEF HandedOn
<1> HIDE DEF h
<1>13. HistoryTyped'
  <2>1. delivered \in Seq(HandedOn) /\ Len(delivered) \in Nat /\ from.count <= Len(delivered)
        /\ from.count \in Nat
    BY <1>1 DEF HistoryTyped
  <2>2. delivered' \in Seq(HandedOn) /\ Len(delivered') = Len(delivered) + 1
    BY <1>11, <1>12, <2>1, AppendProperties
  <2>3. from.count <= Len(delivered')
    BY <2>1, <2>2
  <2>4. Present' = Present
    BY <1>2 DEF Present
  <2>5. \A n \in DOMAIN delivered' : delivered'[n].by \in 1..Present
    <3>1. \A n \in DOMAIN delivered : delivered[n].by \in 1..Present
      BY <1>1 DEF HistoryTyped
    <3>2. /\ DOMAIN delivered' = 1..(Len(delivered) + 1) /\ DOMAIN delivered = 1..Len(delivered)
          /\ \A n \in 1..Len(delivered) : delivered'[n] = delivered[n]
          /\ delivered'[Len(delivered) + 1] = h
      BY <1>11, <1>12, <2>1, <2>2, AppendProperties
    <3>3. h.by \in 1..Present
      BY <1>12
    <3> HIDE DEF Present
    <3>4. \A n \in 1..(Len(delivered) + 1) : n \in 1..Len(delivered) \/ n = Len(delivered) + 1
      BY <2>1
    <3>5. QED
      BY <3>1, <3>2, <3>3, <3>4
  <2>6. QED
    BY <1>1, <1>2, <2>2, <2>3, <2>4, <2>5 DEF HistoryTyped
<1>14. HandsOn
  BY <1>1, <1>2, <1>3, <1>8, <1>11 DEF HandsOn, rest, h
<1>15. QED
  BY <1>10, <1>13, <1>14

\* A stopped tailer's thread keeps the lines it was handing on, if any.
LEMMA StopLetsGo ==
  ASSUME TailerTyped, HistoryTyped, Stop, StillFiles, delivered' = delivered, from' = from,
         cut' = cut, blind' = blind, glitched' = glitched, active' \in BOOLEAN, wanted' = wanted
  PROVE  TailerTyped' /\ HistoryTyped' /\ LetsGo
<1>1. PICK left \in {<<>>, tl.todo} : late' = Append(late, left)
  BY DEF Stop
<1>2. tl.todo \in Seq(Seq(Pieces)) /\ <<>> \in Seq(Seq(Pieces))
  BY DEF TailerTyped, TailRecord
<1>3. left \in Seq(Seq(Pieces)) /\ late \in Seq(Seq(Seq(Pieces)))
  BY <1>2 DEF HistoryTyped
<1>4. late' \in Seq(Seq(Seq(Pieces))) /\ Len(late') = Len(late) + 1 /\ Len(late) \in Nat
  BY <1>1, <1>3, AppendProperties
<1>5. \A k \in 1..Present : k \in 1..Present'
  BY <1>4 DEF Present
<1>6. HistoryTyped'
  <2>1. \A n \in DOMAIN delivered' : delivered'[n].by \in 1..Present'
    BY <1>5 DEF HistoryTyped
  <2>2. QED
    BY <1>4, <2>1 DEF HistoryTyped
<1>7. tl' = NoTailer
  BY DEF Stop
<1>8. QED
  BY <1>1, <1>6, <1>7, FreshTyped DEF LetsGo, TailerTyped

LEMMA StopKinds ==
  ASSUME TailTyped, TailGlitch \/ EmitFails \/ Reload
  PROVE  TailerTyped' /\ HistoryTyped' /\ LetsGo
<1>1. HistoryTyped /\ TailerTyped
  BY TypedParts
<1>2. CASE TailGlitch
  <2>1. /\ StillFiles /\ delivered' = delivered /\ from' = from /\ cut' = cut
        /\ blind' = blind /\ glitched' = TRUE /\ active' = active /\ wanted' = wanted
        /\ late' = late /\ tl' = [NoTailer EXCEPT !.pc = "stat"]
    BY <1>2 DEF TailGlitch, fsVars, StillFiles
  <2>2. /\ tl' \in TailRecord /\ tl'.pc = "stat" /\ tl'.fh = None
        /\ tl'.part = <<>> /\ tl'.todo = <<>>
    BY <2>1, FreshTyped DEF NoTailer, TailRecord
  <2>3. QED
    BY <1>1, <2>1, <2>2 DEF LetsGo, TailerTyped, HistoryTyped, Present
<1>3. CASE EmitFails
  <2>1. /\ StillFiles /\ delivered' = delivered /\ from' = from /\ cut' = cut
        /\ blind' = blind /\ glitched' = glitched /\ active' = active /\ wanted' = wanted
        /\ late' = late /\ tl' = [NoTailer EXCEPT !.pc = "dead"]
    BY <1>3 DEF EmitFails, fsVars, history, StillFiles
  <2>2. /\ tl' \in TailRecord /\ tl'.pc = "dead" /\ tl'.fh = None
        /\ tl'.part = <<>> /\ tl'.todo = <<>>
    BY <2>1, FreshTyped DEF NoTailer, TailRecord
  <2>3. QED
    BY <1>1, <2>1, <2>2 DEF LetsGo, TailerTyped, HistoryTyped, Present
<1>4. CASE Reload
  <2>1. /\ StillFiles /\ delivered' = delivered /\ from' = from /\ cut' = cut
        /\ blind' = blind /\ glitched' = glitched /\ active' = FALSE /\ wanted' = wanted
        /\ Stop
    BY <1>4 DEF Reload, fsVars, history, StillFiles
  <2>2. QED
    BY <1>1, <2>1, StopLetsGo
<1>5. QED
  BY <1>2, <1>3, <1>4

LEMMA ScanKind ==
  ASSUME TailTyped, Scan PROVE TailerTyped' /\ HistoryTyped' /\ (GoesOn \/ LetsGo)
<1>1. HistoryTyped /\ TailerTyped
  BY TypedParts
<1>2. /\ StillFiles /\ delivered' = delivered /\ from' = from /\ cut' = cut
      /\ blind' = blind /\ glitched' = glitched /\ active' = (path # None)
      /\ wanted' = wanted
  BY DEF Scan, fsVars, history, StillFiles
<1>3. late' = late => HistoryTyped'
  BY <1>1, <1>2 DEF HistoryTyped, Present
<1>4. CASE path # None /\ tl.pc = "none"
  <2>1. tl' = [NoTailer EXCEPT !.pc = "start"] /\ late' = late
    BY <1>4 DEF Scan
  <2>2. /\ tl' \in TailRecord /\ tl'.pc = "start" /\ tl'.fh = None
        /\ tl'.part = <<>> /\ tl'.todo = <<>>
    BY <2>1, FreshTyped DEF NoTailer, TailRecord
  <2>3. QED
    BY <1>2, <1>3, <2>1, <2>2 DEF LetsGo, TailerTyped
<1>5. CASE path # None /\ tl.pc # "none"
  <2>1. tl' = tl /\ late' = late
    BY <1>5 DEF Scan
  <2>2. QED
    BY <1>1, <1>2, <1>3, <2>1 DEF GoesOn, TailerTyped
<1>6. CASE path = None
  <2>1. Stop
    BY <1>6 DEF Scan
  <2>2. active' \in BOOLEAN
    BY <1>2
  <2>3. QED
    BY <1>1, <1>2, <2>1, <2>2, StopLetsGo
<1>7. QED
  BY <1>4, <1>5, <1>6

LEMMA InterestKind ==
  ASSUME TailTyped, ChangeInterest PROVE TailerTyped' /\ HistoryTyped' /\ GoesOn
<1>1. HistoryTyped /\ TailerTyped
  BY TypedParts
<1>2. /\ StillFiles /\ delivered' = delivered /\ from' = from /\ cut' = cut
      /\ blind' = blind /\ glitched' = glitched /\ active' = active
      /\ wanted' = ~wanted /\ tl' = tl /\ late' = late
  BY DEF ChangeInterest, fsVars, history, StillFiles
<1>3. QED
  BY <1>1, <1>2 DEF GoesOn, TailerTyped, HistoryTyped, Present

\* Taking the head of a late thread's lines, or all of them.
LEMMA LateIs ==
  ASSUME TailTyped, NEW g \in DOMAIN late, LateOn(g) \/ LateDrops(g)
  PROVE  /\ late \in Seq(Seq(Seq(Pieces))) /\ late' \in Seq(Seq(Seq(Pieces)))
         /\ Len(late') = Len(late) /\ Present' = Present /\ DOMAIN late' = DOMAIN late
         /\ Len(late) \in Nat /\ DOMAIN late = 1..Len(late) /\ g \in 1..Present /\ g # Present
         /\ late[g] \in Seq(Seq(Pieces))
         /\ \A k \in DOMAIN late \ {g} : late'[k] = late[k]
<1>1. late \in Seq(Seq(Seq(Pieces)))
  BY TypedParts DEF HistoryTyped
<1>2. /\ Len(late) \in Nat /\ DOMAIN late = 1..Len(late) /\ late[g] \in Seq(Seq(Pieces))
  BY <1>1
<1>3. g \in 1..Present /\ g # Present
  BY <1>2 DEF Present
<1>4. PICK rest : late' = [late EXCEPT ![g] = rest] /\ rest \in Seq(Seq(Pieces))
  <2>1. CASE LateOn(g)
    BY <1>2, <2>1, HeadTailProperties DEF LateOn
  <2>2. CASE LateDrops(g)
    <3>1. <<>> \in Seq(Seq(Pieces))
      OBVIOUS
    <3>2. QED
      BY <2>2, <3>1 DEF LateDrops
  <2>3. QED
    BY <2>1, <2>2
<1>5. late' \in Seq(Seq(Seq(Pieces))) /\ Len(late') = Len(late)
  BY <1>1, <1>4, ExceptSeq
<1>6. Present' = Present
  BY <1>5 DEF Present
<1>7. DOMAIN late' = DOMAIN late /\ \A k \in DOMAIN late \ {g} : late'[k] = late[k]
  BY <1>4
<1>8. QED
  BY <1>1, <1>2, <1>3, <1>5, <1>6, <1>7

LEMMA LateKind ==
  ASSUME TailTyped, \E g \in DOMAIN late : EmitLate(g) \/ LateFails(g)
  PROVE  TailerTyped' /\ HistoryTyped' /\ LateStep
<1>1. PICK g \in DOMAIN late : EmitLate(g) \/ LateFails(g)
  OBVIOUS
<1>2. HistoryTyped /\ TailerTyped
  BY TypedParts
<1>3. Beside /\ active' = active /\ wanted' = wanted
  BY <1>1 DEF EmitLate, LateFails, fsVars, history, StillFiles, Beside
<1>4. LateOn(g) \/ LateDrops(g)
  BY <1>1, <1>3 DEF EmitLate, LateFails, LateOn, LateDrops, history
<1>5. /\ late' \in Seq(Seq(Seq(Pieces))) /\ Present' = Present
      /\ g \in 1..Present /\ late[g] \in Seq(Seq(Pieces))
  BY <1>4, LateIs
<1>6. TailerTyped' /\ from' = from /\ cut' = cut /\ blind' = blind /\ glitched' = glitched
  BY <1>2, <1>3 DEF TailerTyped, Beside
<1>7. CASE LateDrops(g)
  BY <1>2, <1>3, <1>4, <1>5, <1>6, <1>7 DEF HistoryTyped, LateDrops, LateStep
<1>8. CASE LateOn(g)
  <2> DEFINE h == [line |-> Head(late[g]), sent |-> TRUE, by |-> g]
  <2>1. Head(late[g]) \in Seq(Pieces)
    BY <1>5, <1>8, HeadTailProperties DEF LateOn
  <2>2. h \in HandedOn /\ h.by = g
    BY <1>5, <2>1 DEF HandedOn
  <2>3. delivered' = Append(delivered, h)
    BY <1>8 DEF LateOn
  <2> HIDE DEF h
  <2>4. /\ delivered \in Seq(HandedOn) /\ Len(delivered) \in Nat /\ from.count \in Nat
        /\ from.count <= Len(delivered) /\ DOMAIN delivered = 1..Len(delivered)
        /\ \A n \in DOMAIN delivered : delivered[n].by \in 1..Present
    BY <1>2 DEF HistoryTyped
  <2>5. /\ delivered' \in Seq(HandedOn) /\ Len(delivered') = Len(delivered) + 1
        /\ DOMAIN delivered' = 1..(Len(delivered) + 1)
        /\ \A n \in 1..Len(delivered) : delivered'[n] = delivered[n]
        /\ delivered'[Len(delivered) + 1] = h
    BY <2>2, <2>3, <2>4, AppendProperties
  <2>6. \A n \in 1..(Len(delivered) + 1) : n \in 1..Len(delivered) \/ n = Len(delivered) + 1
    BY <2>4
  <2>7. from.count <= Len(delivered')
    BY <2>4, <2>5
  <2>8. \A n \in DOMAIN delivered' : delivered'[n].by \in 1..Present'
    BY <1>5, <2>2, <2>4, <2>5, <2>6
  <2>9. QED
    BY <1>2, <1>3, <1>4, <1>5, <1>6, <2>5, <2>7, <2>8 DEF HistoryTyped, LateStep
<1>9. QED
  BY <1>4, <1>7, <1>8
-----------------------------------------------------------------------------
(* The files. *)

\* A file is a run of pieces, what is written goes to the end of the writer's,
\* and the writer's is the newest; the path leads to it or nowhere.
FilesOK ==
  /\ \A i \in Inodes : Run(content[i])
  /\ \A i \in Inodes : \A x \in PiecesOf(content[i]) : x <= written
  /\ \A j \in DOMAIN content[writer] :
        content[writer][j] + Len(content[writer]) = written + j
  /\ \A i \in Inodes \ {writer} : Before(PiecesOf(content[i]), PiecesOf(content[writer]))
  /\ path # None => path = writer

\* What a step of the program or of the rotation means to the tailer.
FilesMove ==
  /\ tl' = tl /\ late' = late /\ delivered' = delivered /\ from' = from /\ blind' = blind
  /\ glitched' = glitched /\ written <= written'
  /\ tl.fh # None /\ tl.fh \notin cut' =>
       /\ tl.fh \notin cut
       /\ \/ content'[tl.fh] = content[tl.fh]
          \/ content'[tl.fh] = Append(content[tl.fh], written + 1)
  /\ path' # None =>
       \/ content'[path'] = <<>>
       \/ /\ path' = path /\ cut' = cut
          /\ \/ content'[path] = content[path]
             \/ content'[path] = Append(content[path], written + 1)

\* A piece put at the end of a file.
LEMMA AppendIs ==
  ASSUME NEW s \in Seq(Pieces), NEW x \in Pieces
  PROVE  /\ Append(s, x) \in Seq(Pieces) /\ Len(Append(s, x)) = Len(s) + 1
         /\ Len(s) \in Nat /\ DOMAIN s = 1..Len(s)
         /\ DOMAIN Append(s, x) = 1..(Len(s) + 1)
         /\ \A i \in DOMAIN s : Append(s, x)[i] = s[i]
         /\ Append(s, x)[Len(s) + 1] = x
         /\ PiecesOf(Append(s, x)) = PiecesOf(s) \cup {x}
<1>1. /\ Append(s, x) \in Seq(Pieces) /\ Len(Append(s, x)) = Len(s) + 1
      /\ Len(s) \in Nat /\ DOMAIN s = 1..Len(s)
      /\ \A i \in 1..Len(s) : Append(s, x)[i] = s[i]
      /\ Append(s, x)[Len(s) + 1] = x
  BY AppendProperties
<1>2. DOMAIN Append(s, x) = 1..(Len(s) + 1)
  BY <1>1
<1>3. 1..(Len(s) + 1) = 1..Len(s) \cup {Len(s) + 1}
  BY <1>1
<1>4. PiecesOf(Append(s, x)) = PiecesOf(s) \cup {x}
  <2> DEFINE t == Append(s, x)
  <2>1. DOMAIN t = DOMAIN s \cup {Len(s) + 1}
    BY <1>1, <1>2, <1>3
  <2>2. (\A i \in DOMAIN s : t[i] = s[i]) /\ t[Len(s) + 1] = x
    BY <1>1
  <2> HIDE DEF t
  <2>3. PiecesOf(t) = PiecesOf(s) \cup {x}
    BY <2>1, <2>2 DEF PiecesOf
  <2>4. QED
    BY <2>3 DEF t
<1>5. QED
  BY <1>1, <1>2, <1>4

LEMMA PiecesAreNumbers ==
  /\ Pieces \in SUBSET Nat
  /\ \A x \in Pieces : x \in Nat
BY TailAssumption DEF Pieces, TailAssumption

LEMMA NoPieces ==
  PiecesOf(<<>>) = {} /\ Run(<<>>) /\ DOMAIN <<>> = {} /\ InLines(<<>>) = {}
BY DEF PiecesOf, Run, InLines

LEMMA FilesInit == TailTyped /\ TailInit => FilesOK
<1> SUFFICES ASSUME TailTyped, TailInit PROVE FilesOK
  OBVIOUS
<1>1. \A i \in Inodes : content[i] = <<>>
  BY DEF TailInit
<1>2. writer \in Inodes /\ path = writer
  BY DEF TailTyped, TailTypeOK, TailInit
<1>3. QED
  BY <1>1, <1>2, NoPieces DEF FilesOK, Before

\* Arithmetic about a piece, its place, the length of its file and what is written.
LEMMA MoveOne ==
  ASSUME NEW x \in Nat, NEW j \in Nat, NEW len \in Nat, NEW w \in Nat, x + len = w + j
  PROVE  x \in Nat /\ x + (len + 1) = (w + 1) + j
OBVIOUS

LEMMA SameSlope ==
  ASSUME NEW x \in Nat, NEW y \in Nat, NEW i \in Nat, NEW j \in Nat,
         NEW len \in Nat, NEW w \in Nat, x + len = w + i, y + len = w + j
  PROVE  x + j = y + i
OBVIOUS

LEMMA WriteStep ==
  ASSUME TailTyped, FilesOK, Write PROVE FilesTyped' /\ FilesOK' /\ FilesMove
<1>1. FilesTyped
  BY TypedParts
<1>2. /\ written < 2 * MaxWritten /\ written' = written + 1 /\ path' = path
      /\ writer' = writer /\ tl' = tl /\ late' = late /\ cut' = cut /\ delivered' = delivered
      /\ from' = from /\ blind' = blind /\ glitched' = glitched
      /\ content' = [content EXCEPT ![writer] = Append(content[writer], written + 1)]
  BY DEF Write, history
<1>3. written \in Nat /\ written + 1 \in Pieces
  BY <1>1, <1>2, TailAssumption DEF FilesTyped, Pieces, TailAssumption
<1>4. written' \in 0..(2 * MaxWritten) /\ written <= written'
  BY <1>1, <1>2, <1>3, TailAssumption DEF FilesTyped, TailAssumption
<1> DEFINE old == content[writer]
           new == Append(old, written + 1)
<1>5. writer \in Inodes /\ old \in Seq(Pieces) /\ content \in [Inodes -> Seq(Pieces)]
  BY <1>1 DEF FilesTyped
<1>6. /\ new \in Seq(Pieces) /\ Len(new) = Len(old) + 1
      /\ Len(old) \in Nat /\ DOMAIN old = 1..Len(old)
      /\ DOMAIN new = 1..(Len(old) + 1)
      /\ \A i \in DOMAIN old : new[i] = old[i]
      /\ new[Len(old) + 1] = written + 1
      /\ PiecesOf(new) = PiecesOf(old) \cup {written + 1}
  BY <1>3, <1>5, AppendIs
<1> HIDE DEF new
<1>7. /\ content'[writer] = new /\ content' \in [Inodes -> Seq(Pieces)]
      /\ \A i \in Inodes \ {writer} : content'[i] = content[i]
  BY <1>2, <1>5, <1>6 DEF new
<1>8. FilesTyped'
  BY <1>1, <1>2, <1>4, <1>7 DEF FilesTyped
<1>9. \A j \in DOMAIN old : old[j] \in Nat /\ old[j] + Len(old) = written + j
  <2>1. \A j \in 1..Len(old) : old[j] \in Pieces
    BY <1>5
  <2>2. QED
    BY <1>6, <2>1, PiecesAreNumbers DEF FilesOK
<1> HIDE DEF old
<1>10. \A j \in DOMAIN new : j \in Nat /\ new[j] \in Nat /\ new[j] + Len(new) = (written + 1) + j
  <2> TAKE j \in DOMAIN new
  <2>1. CASE j \in DOMAIN old
    <3>1. j \in Nat /\ old[j] \in Nat /\ old[j] + Len(old) = written + j /\ new[j] = old[j]
      BY <1>6, <1>9, <2>1
    <3>2. Len(new) = Len(old) + 1 /\ Len(old) \in Nat /\ written \in Nat
      BY <1>3, <1>6
    <3> DEFINE x == old[j]
               len == Len(old)
               w == written
    <3>3. x \in Nat /\ j \in Nat /\ len \in Nat /\ w \in Nat /\ x + len = w + j
      BY <3>1, <3>2
    <3> HIDE DEF x, len, w
    <3>4. x + (len + 1) = (w + 1) + j
      BY <3>3, MoveOne
    <3>5. QED
      BY <3>1, <3>2, <3>4 DEF x, len, w
  <2>2. CASE j = Len(old) + 1
    <3>1. j \in Nat /\ new[j] = written + 1 /\ Len(new) = j
      BY <1>6, <2>2
    <3>2. written + 1 \in Nat
      BY <1>3
    <3>3. QED
      BY <3>1, <3>2
  <2>3. QED
    BY <1>6, <2>1, <2>2
<1>11. Run(new)
  <2> SUFFICES ASSUME NEW i \in DOMAIN new, NEW j \in DOMAIN new
               PROVE  new[i] + j = new[j] + i
    BY DEF Run
  <2>1. /\ i \in Nat /\ new[i] \in Nat /\ new[i] + Len(new) = (written + 1) + i
        /\ j \in Nat /\ new[j] \in Nat /\ new[j] + Len(new) = (written + 1) + j
    BY <1>10
  <2>2. Len(new) \in Nat /\ written + 1 \in Nat
    BY <1>3, <1>6
  <2> DEFINE x == new[i]
             y == new[j]
             len == Len(new)
             w == written + 1
  <2>3. x \in Nat /\ y \in Nat /\ len \in Nat /\ w \in Nat /\ i \in Nat /\ j \in Nat
    BY <2>1, <2>2
  <2>4. x + len = w + i /\ y + len = w + j
    BY <2>1
  <2> HIDE DEF x, y, len, w
  <2>5. x + j = y + i
    BY <2>3, <2>4, SameSlope
  <2>6. QED
    BY <2>5 DEF x, y
<1>12. \A i \in Inodes : \A x \in PiecesOf(content[i]) : x <= written /\ x \in Nat
  <2> TAKE i \in Inodes
  <2> TAKE x \in PiecesOf(content[i])
  <2>1. content[i] \in Seq(Pieces)
    BY <1>5
  <2>2. PICK j \in DOMAIN content[i] : x = content[i][j]
    BY DEF PiecesOf
  <2>3. x \in Pieces
    BY <2>1, <2>2
  <2>4. QED
    BY <2>3, PiecesAreNumbers DEF FilesOK
<1>13. FilesOK'
  <2>1. \A i \in Inodes : Run(content'[i])
    BY <1>7, <1>11 DEF FilesOK
  <2>2. \A i \in Inodes : \A x \in PiecesOf(content'[i]) : x <= written'
    <3> TAKE i \in Inodes
    <3> TAKE x \in PiecesOf(content'[i])
    <3>1. CASE x \in PiecesOf(content[i])
      <4>1. x <= written /\ x \in Nat
        BY <1>12, <3>1
      <4>2. QED
        BY <1>2, <1>3, <4>1
    <3>2. CASE x = written + 1
      BY <1>2, <1>3, <3>2
    <3>3. x \in PiecesOf(content[i]) \/ x = written + 1
      BY <1>6, <1>7 DEF old
    <3>4. QED
      BY <3>1, <3>2, <3>3
  <2>3. \A j \in DOMAIN content'[writer'] :
           content'[writer'][j] + Len(content'[writer']) = written' + j
    BY <1>2, <1>7, <1>10
  <2>4. \A i \in Inodes \ {writer'} : Before(PiecesOf(content'[i]), PiecesOf(content'[writer']))
    <3> SUFFICES ASSUME NEW i \in Inodes \ {writer},
                        NEW x \in PiecesOf(content[i]), NEW y \in PiecesOf(new)
                 PROVE  x < y
      BY <1>2, <1>7 DEF Before
    <3>1. CASE y \in PiecesOf(old)
      BY <3>1 DEF FilesOK, Before, old
    <3>2. CASE y = written + 1
      BY <1>3, <1>12, <3>2
    <3>3. QED
      BY <1>6, <3>1, <3>2
  <2>5. QED
    BY <1>2, <2>1, <2>2, <2>3, <2>4 DEF FilesOK
<1>14. FilesMove
  <2>1. \A i \in Inodes : \/ content'[i] = content[i]
                          \/ content'[i] = Append(content[i], written + 1)
    BY <1>7 DEF new, old
  <2>2. tl.fh \in Inodes \cup {None} /\ path \in Inodes \cup {None}
    BY DEF TailTyped, TailTypeOK
  <2>3. QED
    BY <1>2, <1>4, <2>1, <2>2 DEF FilesMove
<1>15. QED
  BY <1>8, <1>13, <1>14

LEMMA RenameStep ==
  ASSUME TailTyped, FilesOK, RenameAway PROVE FilesTyped' /\ FilesOK' /\ FilesMove
<1>1. FilesTyped
  BY TypedParts
<1>2. /\ path' = None /\ content' = content /\ writer' = writer /\ written' = written
      /\ tl' = tl /\ late' = late /\ cut' = cut /\ delivered' = delivered
      /\ from' = from /\ blind' = blind /\ glitched' = glitched
  BY DEF RenameAway, history
<1>3. written <= written'
  BY <1>1, <1>2, TailAssumption DEF FilesTyped, TailAssumption
<1>4. QED
  BY <1>1, <1>2, <1>3 DEF FilesTyped, FilesOK, FilesMove

LEMMA CreateStep ==
  ASSUME TailTyped, FilesOK, CreateNew PROVE FilesTyped' /\ FilesOK' /\ FilesMove
<1>1. FilesTyped
  BY TypedParts
<1>2. PICK i \in Inodes \ {tl.fh, writer} :
        /\ path' = i /\ writer' = i /\ content' = [content EXCEPT ![i] = <<>>]
        /\ cut' = cut \ {i}
  BY DEF CreateNew
<1>3. /\ written' = written /\ tl' = tl /\ late' = late /\ delivered' = delivered
      /\ from' = from /\ blind' = blind /\ glitched' = glitched
  BY DEF CreateNew
<1>4. written <= written'
  BY <1>1, <1>3, TailAssumption DEF FilesTyped, TailAssumption
<1>5. <<>> \in Seq(Pieces)
  OBVIOUS
<1>6. /\ content'[i] = <<>> /\ content' \in [Inodes -> Seq(Pieces)]
      /\ \A k \in Inodes \ {i} : content'[k] = content[k]
  BY <1>1, <1>2, <1>5 DEF FilesTyped
<1>7. FilesTyped'
  BY <1>1, <1>2, <1>3, <1>6 DEF FilesTyped
<1>8. FilesOK'
  <2>1. \A k \in Inodes : content'[k] = content[k] \/ content'[k] = <<>>
    BY <1>6
  <2>2. (\A k \in Inodes : Run(content'[k]))
        /\ (\A k \in Inodes : \A x \in PiecesOf(content'[k]) : x <= written')
    BY <1>3, <2>1, NoPieces DEF FilesOK
  <2>3. content'[writer'] = <<>>
    BY <1>2, <1>6
  <2>4. QED
    BY <1>2, <2>2, <2>3, NoPieces DEF FilesOK, Before
<1>9. FilesMove
  <2>1. tl.fh \in Inodes \cup {None} /\ tl.fh # i
    BY <1>2 DEF TailTyped, TailTypeOK
  <2>2. QED
    BY <1>2, <1>3, <1>4, <1>6, <2>1 DEF FilesMove
<1>10. QED
  BY <1>7, <1>8, <1>9

LEMMA CutStep ==
  ASSUME TailTyped, FilesOK, CutShort PROVE FilesTyped' /\ FilesOK' /\ FilesMove
<1>1. FilesTyped
  BY TypedParts
<1>2. /\ path # None /\ path' = path /\ writer' = writer /\ written' = written
      /\ content' = [content EXCEPT ![path] = <<>>] /\ cut' = cut \cup {path}
      /\ tl' = tl /\ late' = late /\ delivered' = delivered
      /\ from' = from /\ blind' = blind /\ glitched' = glitched
  BY DEF CutShort
<1>3. written <= written'
  BY <1>1, <1>2, TailAssumption DEF FilesTyped, TailAssumption
<1>4. <<>> \in Seq(Pieces) /\ path \in Inodes
  BY <1>1, <1>2 DEF FilesTyped
<1>5. /\ content'[path] = <<>> /\ content' \in [Inodes -> Seq(Pieces)]
      /\ \A k \in Inodes \ {path} : content'[k] = content[k]
  BY <1>1, <1>2, <1>4 DEF FilesTyped
<1>6. FilesTyped'
  BY <1>1, <1>2, <1>5 DEF FilesTyped
<1>7. FilesOK'
  <2>1. \A k \in Inodes : content'[k] = content[k] \/ content'[k] = <<>>
    BY <1>5
  <2>2. (\A k \in Inodes : Run(content'[k]))
        /\ (\A k \in Inodes : \A x \in PiecesOf(content'[k]) : x <= written')
    BY <1>2, <2>1, NoPieces DEF FilesOK
  <2>3. content'[writer'] = <<>> /\ path = writer
    BY <1>2, <1>5 DEF FilesOK
  <2>4. QED
    BY <1>2, <2>2, <2>3, NoPieces DEF FilesOK, Before
<1>8. FilesMove
  <2>1. tl.fh \in Inodes \cup {None}
    BY DEF TailTyped, TailTypeOK
  <2>2. QED
    BY <1>2, <1>3, <1>5, <2>1 DEF FilesMove
<1>9. QED
  BY <1>6, <1>7, <1>8
-----------------------------------------------------------------------------
(* What waits for its newline. *)

\* While the open file is not cut short, what waits for its newline is what
\* stands there before the offset.
PartOK ==
  tl.fh # None /\ tl.fh \notin cut =>
    /\ tl.off <= Len(content[tl.fh]) /\ from.off <= tl.off
    /\ Len(tl.part) <= tl.off
    /\ \A i \in DOMAIN tl.part :
          tl.part[i] = content[tl.fh][(tl.off - Len(tl.part)) + i]

LEMMA TailerFields ==
  ASSUME TailTyped
  PROVE  /\ tl.fh \in Inodes \cup {None} /\ tl.off \in Nat /\ from.off \in Nat
         /\ from.count \in Nat /\ from.count <= Len(delivered) /\ Len(delivered) \in Nat
         /\ tl.part \in Seq(Pieces) /\ Len(tl.part) \in Nat
         /\ DOMAIN tl.part = 1..Len(tl.part)
         /\ tl.todo \in Seq(Seq(Pieces)) /\ path \in Inodes \cup {None}
         /\ content \in [Inodes -> Seq(Pieces)]
         /\ delivered \in Seq(HandedOn)
         /\ written \in Nat /\ None \notin Inodes
<1>1. TailerTyped /\ FilesTyped /\ HistoryTyped
  BY TypedParts
<1>2. written \in Nat
  BY <1>1, TailAssumption DEF FilesTyped, TailAssumption
<1>3. tl.part \in Seq(Pieces)
  BY <1>1 DEF TailerTyped, TailRecord
<1>4. delivered \in Seq(HandedOn)
  BY <1>1 DEF HistoryTyped
<1>5. Len(tl.part) \in Nat /\ DOMAIN tl.part = 1..Len(tl.part) /\ Len(delivered) \in Nat
  BY <1>3, <1>4
<1>6. None \notin Inodes
  BY TailAssumption DEF TailAssumption
<1>7. QED
  BY <1>1, <1>2, <1>3, <1>4, <1>5, <1>6 DEF TailerTyped, TailRecord, FilesTyped, HistoryTyped

\* The pieces that a read cuts up stand in the file one after the other.
LEMMA DataInFile ==
  ASSUME TailTyped, PartOK, tl.fh # None, tl.fh \notin cut
  PROVE  /\ tl.off - Len(tl.part) \in Nat
         /\ Len(Data) \in Nat /\ DOMAIN Data = 1..Len(Data)
         /\ Len(Data) = Len(tl.part) + Len(Chunk)
         /\ (tl.off - Len(tl.part)) + Len(Data) <= Len(content[tl.fh])
         /\ \A m \in 1..Len(Data) :
              Data[m] = content[tl.fh][(tl.off - Len(tl.part)) + m]
<1>1. /\ tl.off \in Nat /\ Len(tl.part) \in Nat /\ DOMAIN tl.part = 1..Len(tl.part)
      /\ tl.fh \in Inodes /\ content \in [Inodes -> Seq(Pieces)]
  BY TailerFields
<1>2. /\ tl.off <= Len(content[tl.fh]) /\ Len(tl.part) <= tl.off
      /\ \A i \in DOMAIN tl.part :
            tl.part[i] = content[tl.fh][(tl.off - Len(tl.part)) + i]
  BY DEF PartOK
<1>3. /\ Data \in Seq(Pieces) /\ Len(Data) = Len(tl.part) + Len(Chunk)
      /\ \A i \in 1..Len(Data) :
           Data[i] = IF i <= Len(tl.part) THEN tl.part[i] ELSE Chunk[i - Len(tl.part)]
  BY DataIs
<1>4. /\ Chunk \in Seq(Pieces)
      /\ tl.off + Len(Chunk) <= Len(content[tl.fh])
      /\ \A i \in 1..Len(Chunk) : Chunk[i] = content[tl.fh][tl.off + i]
  BY <1>2, ChunkIs
<1>5. Len(Chunk) \in Nat /\ Len(content[tl.fh]) \in Nat
  <2>1. content[tl.fh] \in Seq(Pieces)
    BY <1>1
  <2>2. QED
    BY <1>4, <2>1
<1>6. tl.off - Len(tl.part) \in Nat /\ Len(Data) \in Nat /\ DOMAIN Data = 1..Len(Data)
  BY <1>1, <1>2, <1>3
<1>7. (tl.off - Len(tl.part)) + Len(Data) <= Len(content[tl.fh])
  BY <1>1, <1>3, <1>4, <1>5
<1>8. ASSUME NEW m \in 1..Len(Data)
      PROVE  Data[m] = content[tl.fh][(tl.off - Len(tl.part)) + m]
  <2>1. CASE m <= Len(tl.part)
    <3>1. m \in DOMAIN tl.part
      BY <1>1, <2>1
    <3>2. Data[m] = tl.part[m]
      BY <1>3, <2>1
    <3>3. QED
      BY <1>2, <3>1, <3>2
  <2>2. CASE ~(m <= Len(tl.part))
    <3>1. m - Len(tl.part) \in 1..Len(Chunk)
      BY <1>1, <1>3, <1>5, <2>2
    <3>2. Data[m] = Chunk[m - Len(tl.part)]
      BY <1>3, <2>2
    <3>3. tl.off + (m - Len(tl.part)) = (tl.off - Len(tl.part)) + m
      BY <1>1
    <3>4. QED
      BY <1>4, <3>1, <3>2, <3>3
  <2>3. QED
    BY <2>1, <2>2
<1>9. QED
  BY <1>3, <1>6, <1>7, <1>8

LEMMA PartRead ==
  ASSUME TailTyped, PartOK, ReadsOn PROVE PartOK'
<1> SUFFICES ASSUME tl.fh # None, tl.fh \notin cut
             PROVE  /\ tl'.off <= Len(content[tl.fh]) /\ from.off <= tl'.off
                    /\ Len(tl'.part) <= tl'.off
                    /\ \A i \in DOMAIN tl'.part :
                         tl'.part[i] = content[tl.fh][(tl'.off - Len(tl'.part)) + i]
  BY DEF PartOK, ReadsOn, StillFiles
<1> DEFINE p == tl.off - Len(tl.part)
           e == End(Data, Cardinality(Newlines(Data)))
           f == content[tl.fh]
<1>1. /\ p \in Nat /\ Len(Data) \in Nat /\ DOMAIN Data = 1..Len(Data)
      /\ Len(Data) = Len(tl.part) + Len(Chunk)
      /\ p + Len(Data) <= Len(f)
      /\ \A m \in 1..Len(Data) : Data[m] = f[p + m]
  BY DataInFile
<1>2. tl.off \in Nat /\ Len(tl.part) \in Nat /\ from.off \in Nat /\ from.off <= tl.off
  BY TailerFields DEF PartOK
<1>3. Len(Chunk) \in Nat
  <2>1. Chunk \in Seq(Pieces)
    BY ChunkIs
  <2>2. QED
    BY <2>1
<1>4. tl'.off = tl.off + Len(Chunk) /\ tl'.part = Rest(Data)
  BY DEF ReadsOn
<1>5. tl'.off = p + Len(Data)
  BY <1>1, <1>2, <1>3, <1>4
<1>6. Data \in Seq(Pieces) /\ Pieces \in SUBSET Nat
  BY DataIs
<1>7. /\ e \in Nat /\ Rest(Data) \in Seq(Pieces) /\ Len(Rest(Data)) = Len(Data) - e
      /\ \A i \in 1..(Len(Data) - e) : Rest(Data)[i] = Data[e + i]
  BY <1>6, CutUp, CutPlaces
<1>8. Len(Rest(Data)) \in Nat /\ DOMAIN Rest(Data) = 1..Len(Rest(Data))
  BY <1>7
<1> HIDE DEF e, f
<1>9. \A i \in DOMAIN tl'.part : tl'.part[i] = f[(tl'.off - Len(tl'.part)) + i]
  <2> SUFFICES ASSUME NEW i \in 1..(Len(Data) - e)
               PROVE  Rest(Data)[i] = f[(tl'.off - Len(Rest(Data))) + i]
    BY <1>4, <1>7, <1>8
  <2>1. Rest(Data)[i] = Data[e + i] /\ e + i \in 1..Len(Data)
    BY <1>1, <1>7
  <2>2. Data[e + i] = f[p + (e + i)]
    BY <1>1, <2>1
  <2>3. (tl'.off - Len(Rest(Data))) + i = p + (e + i)
    BY <1>1, <1>5, <1>7
  <2>4. QED
    BY <2>1, <2>2, <2>3
<1>10. tl'.off <= Len(f) /\ from.off <= tl'.off /\ Len(tl'.part) <= tl'.off
  <2>1. tl'.off <= Len(f)
    BY <1>1, <1>5
  <2>2. from.off <= tl'.off
    BY <1>2, <1>3, <1>4
  <2>3. Len(tl'.part) <= tl'.off
    BY <1>1, <1>4, <1>5, <1>7, <1>8
  <2>4. QED
    BY <2>1, <2>2, <2>3
<1>11. QED
  BY <1>9, <1>10 DEF f

LEMMA PartStep ==
  ASSUME TailTyped, PartOK,
         FilesMove \/ GoesOn \/ LetsGo \/ Opens \/ ReadsOn \/ HandsOn \/ LateStep
  PROVE  PartOK'
<1>1. CASE FilesMove
  <2> SUFFICES ASSUME tl.fh # None, tl.fh \notin cut'
               PROVE  /\ tl.off <= Len(content'[tl.fh]) /\ from.off <= tl.off
                      /\ Len(tl.part) <= tl.off
                      /\ \A i \in DOMAIN tl.part :
                           tl.part[i] = content'[tl.fh][(tl.off - Len(tl.part)) + i]
    BY <1>1 DEF PartOK, FilesMove
  <2>1. /\ tl.fh \notin cut
        /\ \/ content'[tl.fh] = content[tl.fh]
           \/ content'[tl.fh] = Append(content[tl.fh], written + 1)
    BY <1>1 DEF FilesMove
  <2>2. /\ tl.off <= Len(content[tl.fh]) /\ from.off <= tl.off
        /\ Len(tl.part) <= tl.off
        /\ \A i \in DOMAIN tl.part :
             tl.part[i] = content[tl.fh][(tl.off - Len(tl.part)) + i]
    BY <2>1 DEF PartOK
  <2>3. CASE content'[tl.fh] = content[tl.fh]
    BY <2>2, <2>3
  <2>4. CASE content'[tl.fh] = Append(content[tl.fh], written + 1)
    <3> DEFINE f == content[tl.fh]
    <3>1. /\ tl.off \in Nat /\ Len(tl.part) \in Nat /\ DOMAIN tl.part = 1..Len(tl.part)
          /\ f \in Seq(Pieces) /\ written \in Nat
      BY TailerFields
    <3>2. /\ Len(f) \in Nat /\ Len(Append(f, written + 1)) = Len(f) + 1
          /\ \A j \in 1..Len(f) : Append(f, written + 1)[j] = f[j]
      BY <3>1
    <3>3. \A i \in DOMAIN tl.part : (tl.off - Len(tl.part)) + i \in 1..Len(f)
      BY <2>2, <3>1, <3>2
    <3>4. tl.off <= Len(f) + 1
      BY <2>2, <3>1, <3>2
    <3>5. QED
      BY <2>2, <2>4, <3>2, <3>3, <3>4
  <2>5. QED
    BY <2>1, <2>3, <2>4
<1>2. CASE GoesOn \/ HandsOn \/ LateStep
  <2>1. /\ tl'.fh = tl.fh /\ tl'.off = tl.off /\ tl'.part = tl.part
        /\ cut' = cut /\ from' = from /\ content' = content
    BY <1>2 DEF GoesOn, HandsOn, LateStep, LateOn, LateDrops, Beside, StillFiles
  <2>2. QED
    BY <2>1 DEF PartOK
<1>3. CASE LetsGo
  BY <1>3 DEF PartOK, LetsGo
<1>4. CASE Opens
  <2>1. /\ tl'.fh = path /\ tl'.part = <<>> /\ path # None /\ content' = content
        /\ from' = [off |-> tl'.off, count |-> Len(delivered)]
        /\ tl'.off = Len(content[path]) \/ tl'.off = 0
    BY <1>4 DEF Opens, StillFiles
  <2>2. path \in Inodes
    BY <2>1, TailerFields
  <2>3. content[path] \in Seq(Pieces)
    BY <2>2, TailerFields
  <2>4. Len(content[path]) \in Nat
    BY <2>3
  <2>5. tl'.off <= Len(content'[path]) /\ from'.off <= tl'.off /\ tl'.off \in Nat
    BY <2>1, <2>4
  <2>6. Len(tl'.part) = 0 /\ DOMAIN tl'.part = {}
    BY <2>1
  <2>7. Len(tl'.part) <= tl'.off
    BY <2>5, <2>6
  <2>8. QED
    BY <2>1, <2>5, <2>6, <2>7 DEF PartOK
<1>5. CASE ReadsOn
  BY <1>5, PartRead
<1>6. QED
  BY <1>1, <1>2, <1>3, <1>4, <1>5
-----------------------------------------------------------------------------
(* Every line in hand, and every line handed on, is one that was written. *)

HandOK ==
  ~blind =>
    /\ Run(tl.part)
    /\ \A n \in DOMAIN tl.todo : OneLine(tl.todo[n])
    /\ \A n \in DOMAIN delivered : OneLine(delivered[n].line)
    /\ \A g \in DOMAIN late : \A n \in DOMAIN late[g] : OneLine(late[g][n])

\* Part of a file is a run.
LEMMA DataRuns ==
  ASSUME TailTyped, FilesOK, PartOK, tl.fh # None, tl.fh \notin cut PROVE Run(Data)
<1> DEFINE p == tl.off - Len(tl.part)
           f == content[tl.fh]
<1>1. /\ p \in Nat /\ Len(Data) \in Nat /\ DOMAIN Data = 1..Len(Data)
      /\ p + Len(Data) <= Len(f)
      /\ \A m \in 1..Len(Data) : Data[m] = f[p + m]
  BY DataInFile
<1>2. tl.fh \in Inodes
  BY TailerFields
<1>3. f \in Seq(Pieces) /\ Run(f)
  BY <1>2, TailerFields DEF FilesOK
<1> HIDE DEF p, f
<1>4. Len(f) \in Nat /\ DOMAIN f = 1..Len(f)
  BY <1>3
<1> SUFFICES ASSUME NEW i \in 1..Len(Data), NEW j \in 1..Len(Data)
             PROVE  Data[i] + j = Data[j] + i
  BY <1>1 DEF Run
<1>5. p + i \in DOMAIN f /\ p + j \in DOMAIN f
  BY <1>1, <1>4
<1> DEFINE x == f[p + i]
           y == f[p + j]
<1>6. x + (p + j) = y + (p + i) /\ x \in Pieces /\ y \in Pieces
  BY <1>3, <1>4, <1>5 DEF Run
<1>7. Data[i] = x /\ Data[j] = y
  BY <1>1
<1> HIDE DEF x, y
<1>8. x \in Nat /\ y \in Nat
  BY <1>6, PiecesAreNumbers
<1>9. x + j = y + i
  <2>1. i \in Nat /\ j \in Nat /\ p \in Nat /\ x + (p + j) = y + (p + i)
    BY <1>1, <1>6
  <2>2. QED
    BY <1>8, <2>1
<1>10. QED
  BY <1>7, <1>9

\* The line that is handed on, the line history after it, and what is left.
LEMMA HandedLine ==
  ASSUME TailTyped, HandsOn
  PROVE  /\ Len(tl.todo) \in Nat /\ Len(tl.todo) > 0 /\ DOMAIN tl.todo = 1..Len(tl.todo)
         /\ Head(tl.todo) = tl.todo[1]
         /\ DOMAIN tl'.todo = 1..(Len(tl.todo) - 1)
         /\ \A n \in 1..(Len(tl.todo) - 1) : tl'.todo[n] = tl.todo[n + 1]
         /\ DOMAIN delivered = 1..Len(delivered)
         /\ DOMAIN delivered' = 1..(Len(delivered) + 1)
         /\ Len(delivered') = Len(delivered) + 1
         /\ \A n \in 1..Len(delivered) : delivered'[n] = delivered[n]
         /\ delivered'[Len(delivered) + 1].line = tl.todo[1]
         /\ delivered'[Len(delivered) + 1].by = Present
<1>1. tl.todo \in Seq(Seq(Pieces)) /\ tl.todo # <<>> /\ delivered \in Seq(HandedOn)
  BY TypedParts, TailerFields DEF HandsOn, TailerTyped
<1>2. Len(tl.todo) \in Nat /\ Len(tl.todo) > 0 /\ DOMAIN tl.todo = 1..Len(tl.todo)
      /\ Head(tl.todo) = tl.todo[1]
  BY <1>1
<1>3. tl.todo[1] \in Seq(Pieces)
  BY <1>1, <1>2, ElementOfSeq
<1>4. /\ Tail(tl.todo) \in Seq(Seq(Pieces)) /\ Len(Tail(tl.todo)) = Len(tl.todo) - 1
      /\ \A n \in 1..Len(Tail(tl.todo)) : Tail(tl.todo)[n] = tl.todo[n + 1]
  BY <1>1, HeadTailProperties
<1>5. DOMAIN Tail(tl.todo) = 1..(Len(tl.todo) - 1)
  BY <1>4
<1>6. tl'.todo = Tail(tl.todo)
  BY DEF HandsOn
<1>7. PICK b \in BOOLEAN :
        delivered' = Append(delivered, [line |-> tl.todo[1], sent |-> b, by |-> Present])
  BY <1>2 DEF HandsOn
<1> DEFINE h == [line |-> tl.todo[1], sent |-> b, by |-> Present]
<1>8. h \in HandedOn /\ h.line = tl.todo[1] /\ h.by = Present
  <2>1. late \in Seq(Seq(Seq(Pieces)))
    BY TypedParts DEF HistoryTyped
  <2>2. Present \in Nat
    BY <2>1 DEF Present
  <2>3. QED
    BY <1>3, <2>2 DEF HandedOn
<1> HIDE DEF h
<1>9. delivered' = Append(delivered, h)
  BY <1>7 DEF h
<1>10. /\ delivered' \in Seq(HandedOn) /\ Len(delivered') = Len(delivered) + 1
       /\ \A n \in 1..Len(delivered) : delivered'[n] = delivered[n]
       /\ delivered'[Len(delivered) + 1] = h
  BY <1>1, <1>8, <1>9, AppendProperties
<1>11. DOMAIN delivered = 1..Len(delivered) /\ DOMAIN delivered' = 1..(Len(delivered) + 1)
  BY <1>1, <1>10
<1>12. QED
  BY <1>2, <1>4, <1>5, <1>6, <1>8, <1>10, <1>11

\* The lines of a late thread, its next one, and the line history after a step of it.
LEMMA LateLine ==
  ASSUME TailTyped, NEW g \in DOMAIN late, LateOn(g)
  PROVE  /\ Len(late[g]) \in Nat /\ Len(late[g]) > 0 /\ DOMAIN late[g] = 1..Len(late[g])
         /\ late[g] \in Seq(Seq(Pieces))
         /\ DOMAIN late'[g] = 1..(Len(late[g]) - 1)
         /\ \A n \in 1..(Len(late[g]) - 1) : late'[g][n] = late[g][n + 1]
         /\ Len(delivered) \in Nat /\ DOMAIN delivered = 1..Len(delivered)
         /\ DOMAIN delivered' = 1..(Len(delivered) + 1)
         /\ Len(delivered') = Len(delivered) + 1
         /\ \A n \in 1..Len(delivered) : delivered'[n] = delivered[n]
         /\ delivered'[Len(delivered) + 1].line = late[g][1]
         /\ delivered'[Len(delivered) + 1].by = g
<1> DEFINE q == late[g]
<1>1. q \in Seq(Seq(Pieces)) /\ q # <<>> /\ delivered \in Seq(HandedOn) /\ g \in Nat
  <2>1. late[g] \in Seq(Seq(Pieces)) /\ g \in 1..Present
    BY LateIs
  <2>2. QED
    BY <2>1, TailerFields DEF LateOn
<1>2. late'[g] = Tail(q)
  BY DEF LateOn
<1>3. late[g] = q
  OBVIOUS
<1>4. delivered' = Append(delivered, [line |-> Head(q), sent |-> TRUE, by |-> g])
  BY DEF LateOn
<1> HIDE DEF q
<1>5. Len(q) \in Nat /\ Len(q) > 0 /\ DOMAIN q = 1..Len(q) /\ Head(q) = q[1]
  BY <1>1
<1>6. q[1] \in Seq(Pieces)
  BY <1>1, <1>5, ElementOfSeq
<1>7. /\ Tail(q) \in Seq(Seq(Pieces)) /\ Len(Tail(q)) = Len(q) - 1
      /\ \A n \in 1..Len(Tail(q)) : Tail(q)[n] = q[n + 1]
  BY <1>1, HeadTailProperties
<1>8. DOMAIN Tail(q) = 1..(Len(q) - 1)
  BY <1>7
<1> DEFINE h == [line |-> q[1], sent |-> TRUE, by |-> g]
<1>9. h \in HandedOn /\ h.line = q[1] /\ h.by = g
  BY <1>1, <1>6 DEF HandedOn
<1>10. delivered' = Append(delivered, h)
  BY <1>4, <1>5
<1> HIDE DEF h
<1>11. /\ delivered' \in Seq(HandedOn) /\ Len(delivered') = Len(delivered) + 1
       /\ \A n \in 1..Len(delivered) : delivered'[n] = delivered[n]
       /\ delivered'[Len(delivered) + 1] = h
  BY <1>1, <1>9, <1>10, AppendProperties
<1>12. DOMAIN delivered = 1..Len(delivered) /\ DOMAIN delivered' = 1..(Len(delivered) + 1)
       /\ Len(delivered) \in Nat
  BY <1>1, <1>11
<1>13. QED
  BY <1>1, <1>2, <1>3, <1>5, <1>7, <1>8, <1>9, <1>11, <1>12

LEMMA HandLate ==
  ASSUME TailTyped, HandOK, LateStep PROVE HandOK'
<1> SUFFICES ASSUME ~blind
             PROVE  /\ \A n \in DOMAIN delivered' : OneLine(delivered'[n].line)
                    /\ \A k \in DOMAIN late' : \A n \in DOMAIN late'[k] : OneLine(late'[k][n])
  BY DEF HandOK, LateStep, LateOn, LateDrops, Beside
<1>1. PICK g \in DOMAIN late : LateOn(g) \/ LateDrops(g)
  BY DEF LateStep
<1>2. DOMAIN late' = DOMAIN late /\ \A k \in DOMAIN late \ {g} : late'[k] = late[k]
  BY <1>1, LateIs
<1>3. /\ \A n \in DOMAIN delivered : OneLine(delivered[n].line)
      /\ \A k \in DOMAIN late : \A n \in DOMAIN late[k] : OneLine(late[k][n])
  BY DEF HandOK
<1>4. CASE LateDrops(g)
  <2>1. delivered' = delivered /\ late'[g] = <<>>
    BY <1>4 DEF LateDrops
  <2>2. \A n \in DOMAIN late'[g] : OneLine(late'[g][n])
    BY <2>1
  <2>3. QED
    BY <1>2, <1>3, <2>1, <2>2
<1>5. CASE LateOn(g)
  <2>1. /\ Len(late[g]) \in Nat /\ Len(late[g]) > 0 /\ DOMAIN late[g] = 1..Len(late[g])
        /\ DOMAIN late'[g] = 1..(Len(late[g]) - 1)
        /\ \A n \in 1..(Len(late[g]) - 1) : late'[g][n] = late[g][n + 1]
        /\ Len(delivered) \in Nat /\ DOMAIN delivered = 1..Len(delivered)
        /\ DOMAIN delivered' = 1..(Len(delivered) + 1)
        /\ \A n \in 1..Len(delivered) : delivered'[n] = delivered[n]
        /\ delivered'[Len(delivered) + 1].line = late[g][1]
    BY <1>5, LateLine
  <2>2. \A n \in 1..(Len(late[g]) - 1) : n + 1 \in DOMAIN late[g]
    BY <2>1
  <2>3. \A n \in DOMAIN late'[g] : OneLine(late'[g][n])
    BY <1>3, <2>1, <2>2
  <2>4. 1 \in DOMAIN late[g]
    BY <2>1
  <2>5. \A n \in 1..(Len(delivered) + 1) : n \in 1..Len(delivered) \/ n = Len(delivered) + 1
    BY <2>1
  <2>6. \A n \in DOMAIN delivered' : OneLine(delivered'[n].line)
    BY <1>3, <2>1, <2>4, <2>5
  <2>7. QED
    BY <1>2, <1>3, <2>3, <2>6
<1>6. QED
  BY <1>1, <1>4, <1>5

\* What a stopped thread keeps is put behind what those before it keep.
LEMMA LateKept ==
  ASSUME TailTyped, LetsGo, late' # late
  PROVE  \E left \in {<<>>, tl.todo} :
           /\ DOMAIN late = 1..Len(late) /\ Len(late) \in Nat
           /\ DOMAIN late' = 1..(Len(late) + 1)
           /\ \A g \in 1..Len(late) : late'[g] = late[g]
           /\ late'[Len(late) + 1] = left
<1>1. PICK left \in {<<>>, tl.todo} : late' = Append(late, left)
  BY DEF LetsGo
<1>2. late \in Seq(Seq(Seq(Pieces))) /\ tl.todo \in Seq(Seq(Pieces))
  BY TypedParts, TailerFields DEF HistoryTyped
<1>3. <<>> \in Seq(Seq(Pieces))
  OBVIOUS
<1>4. left \in Seq(Seq(Pieces))
  BY <1>1, <1>2, <1>3
<1>5. /\ late' \in Seq(Seq(Seq(Pieces))) /\ Len(late') = Len(late) + 1
      /\ \A g \in 1..Len(late) : late'[g] = late[g]
      /\ late'[Len(late) + 1] = left
  BY <1>1, <1>2, <1>4, AppendProperties
<1>6. DOMAIN late = 1..Len(late) /\ Len(late) \in Nat /\ DOMAIN late' = 1..(Len(late) + 1)
  BY <1>2, <1>5
<1>7. QED
  BY <1>5, <1>6

LEMMA HandLetsGo ==
  ASSUME TailTyped, HandOK, LetsGo PROVE HandOK'
<1> SUFFICES ASSUME ~blind
             PROVE  \A k \in DOMAIN late' : \A n \in DOMAIN late'[k] : OneLine(late'[k][n])
  BY NoPieces DEF HandOK, LetsGo
<1>1. /\ \A n \in DOMAIN tl.todo : OneLine(tl.todo[n])
      /\ \A k \in DOMAIN late : \A n \in DOMAIN late[k] : OneLine(late[k][n])
  BY DEF HandOK
<1>2. CASE late' = late
  BY <1>1, <1>2
<1>3. CASE late' # late
  <2>1. PICK left \in {<<>>, tl.todo} :
          /\ DOMAIN late = 1..Len(late) /\ Len(late) \in Nat
          /\ DOMAIN late' = 1..(Len(late) + 1)
          /\ \A g \in 1..Len(late) : late'[g] = late[g]
          /\ late'[Len(late) + 1] = left
    BY <1>3, LateKept
  <2>2. \A n \in DOMAIN left : OneLine(left[n])
    BY <1>1, NoPieces
  <2>3. \A k \in 1..(Len(late) + 1) : k \in 1..Len(late) \/ k = Len(late) + 1
    BY <2>1
  <2>4. QED
    BY <1>1, <2>1, <2>2, <2>3
<1>4. QED
  BY <1>2, <1>3

LEMMA HandStep ==
  ASSUME TailTyped, FilesOK, PartOK, HandOK,
         FilesMove \/ GoesOn \/ LetsGo \/ Opens \/ ReadsOn \/ HandsOn \/ LateStep
  PROVE  HandOK'
<1>1. CASE FilesMove \/ GoesOn
  BY <1>1 DEF HandOK, FilesMove, GoesOn
<1>2. CASE LetsGo \/ Opens
  BY <1>2, NoPieces, HandLetsGo DEF HandOK, Opens
<1>3. CASE ReadsOn
  <2> SUFFICES ASSUME ~blind'
               PROVE  /\ Run(tl'.part)
                      /\ \A n \in DOMAIN tl'.todo : OneLine(tl'.todo[n])
                      /\ \A n \in DOMAIN delivered' : OneLine(delivered'[n].line)
    BY <1>3 DEF HandOK, ReadsOn
  <2>1. ~blind /\ tl.fh \notin cut /\ tl.fh # None
    BY <1>3 DEF ReadsOn
  <2>2. Run(Data) /\ Data \in Seq(Pieces) /\ Pieces \in SUBSET Nat
    BY <2>1, DataRuns, DataIs
  <2>3. (\A n \in DOMAIN Whole(Data) : OneLine(Whole(Data)[n])) /\ Run(Rest(Data))
    BY <2>2, CutLines
  <2>4. QED
    BY <1>3, <2>1, <2>3 DEF ReadsOn, HandOK
<1>4. CASE HandsOn
  <2> SUFFICES ASSUME ~blind'
               PROVE  /\ Run(tl'.part)
                      /\ \A n \in DOMAIN tl'.todo : OneLine(tl'.todo[n])
                      /\ \A n \in DOMAIN delivered' : OneLine(delivered'[n].line)
    BY <1>4 DEF HandOK, HandsOn
  <2>1. ~blind /\ tl'.part = tl.part
    BY <1>4 DEF HandsOn
  <2>2. \A n \in DOMAIN tl'.todo : OneLine(tl'.todo[n])
    <3> SUFFICES ASSUME NEW n \in DOMAIN tl'.todo PROVE OneLine(tl'.todo[n])
      OBVIOUS
    <3>1. /\ Len(tl.todo) \in Nat /\ DOMAIN tl.todo = 1..Len(tl.todo)
          /\ DOMAIN tl'.todo = 1..(Len(tl.todo) - 1)
          /\ \A k \in 1..(Len(tl.todo) - 1) : tl'.todo[k] = tl.todo[k + 1]
      BY <1>4, HandedLine
    <3>2. tl'.todo[n] = tl.todo[n + 1] /\ n + 1 \in DOMAIN tl.todo
      BY <3>1
    <3>3. QED
      BY <2>1, <3>2 DEF HandOK
  <2>3. \A n \in DOMAIN delivered' : OneLine(delivered'[n].line)
    <3> SUFFICES ASSUME NEW n \in DOMAIN delivered' PROVE OneLine(delivered'[n].line)
      OBVIOUS
    <3>1. Len(delivered) \in Nat
      BY TailerFields
    <3>2. n \in DOMAIN delivered \/ n = Len(delivered) + 1
      BY <1>4, <3>1, HandedLine
    <3>3. CASE n \in DOMAIN delivered
      BY <1>4, <2>1, <3>3, HandedLine DEF HandOK
    <3>4. CASE n = Len(delivered) + 1
      BY <1>4, <2>1, <3>4, HandedLine DEF HandOK
    <3>5. QED
      BY <3>2, <3>3, <3>4
  <2>4. QED
    BY <2>1, <2>2, <2>3 DEF HandOK
<1>5. CASE LateStep
  BY <1>5, HandLate
<1>6. QED
  BY <1>1, <1>2, <1>3, <1>4, <1>5
-----------------------------------------------------------------------------
(* Nothing is skipped. *)

\* The pieces of a stretch of a file.
Stretch(f, a, b) == {f[i] : i \in (a + 1)..b}

\* Stretches put end to end.
LEMMA StretchJoins ==
  ASSUME NEW f, NEW a \in Nat, NEW b \in Nat, NEW c \in Nat, a <= b, b <= c
  PROVE  Stretch(f, a, c) = Stretch(f, a, b) \cup Stretch(f, b, c)
<1>1. (a + 1)..c = ((a + 1)..b) \cup ((b + 1)..c)
  OBVIOUS
<1>2. QED
  BY <1>1 DEF Stretch

\* NothingSkipped in these terms.
SkipOK ==
  tl.fh # None /\ tl.fh \notin cut =>
    Stretch(content[tl.fh], from.off, tl.off) = Handed \cup InLines(tl.todo) \cup PiecesOf(tl.part)

LEMMA SkipIs == SkipOK <=> NothingSkipped
BY DEF SkipOK, NothingSkipped, InTodo, InLines, PiecesOf, Stretch

\* The data of a read is what waited and the chunk.
LEMMA DataParts ==
  ASSUME TailTyped, tl.fh # None
  PROVE  PiecesOf(Data) = PiecesOf(tl.part) \cup PiecesOf(Chunk)
<1>0. Len(Chunk) \in Nat /\ DOMAIN Chunk = 1..Len(Chunk)
  <2>1. Chunk \in Seq(Pieces)
    BY ChunkIs
  <2>2. QED
    BY <2>1
<1>1. /\ Len(tl.part) \in Nat /\ DOMAIN tl.part = 1..Len(tl.part)
  BY TailerFields
<1>2. /\ Data \in Seq(Pieces) /\ Len(Data) = Len(tl.part) + Len(Chunk)
      /\ \A i \in 1..Len(Data) :
           Data[i] = IF i <= Len(tl.part) THEN tl.part[i] ELSE Chunk[i - Len(tl.part)]
  BY DataIs
<1>3. DOMAIN Data = 1..Len(Data)
  BY <1>2
<1>4. ASSUME NEW x \in PiecesOf(Data)
      PROVE  x \in PiecesOf(tl.part) \/ x \in PiecesOf(Chunk)
  <2>1. PICK i \in 1..Len(Data) : x = Data[i]
    BY <1>3 DEF PiecesOf
  <2>2. CASE i <= Len(tl.part)
    <3>1. i \in DOMAIN tl.part /\ x = tl.part[i]
      BY <1>1, <1>2, <2>1, <2>2
    <3>2. QED
      BY <3>1 DEF PiecesOf
  <2>3. CASE ~(i <= Len(tl.part))
    <3>1. i - Len(tl.part) \in DOMAIN Chunk /\ x = Chunk[i - Len(tl.part)]
      BY <1>0, <1>1, <1>2, <2>1, <2>3
    <3>2. QED
      BY <3>1 DEF PiecesOf
  <2>4. QED
    BY <2>2, <2>3
<1>5. ASSUME NEW x \in PiecesOf(tl.part) PROVE x \in PiecesOf(Data)
  <2>1. PICK i \in 1..Len(tl.part) : x = tl.part[i]
    BY <1>1 DEF PiecesOf
  <2>2. i \in 1..Len(Data) /\ i <= Len(tl.part)
    BY <1>0, <1>1, <1>2
  <2>3. x = Data[i]
    BY <1>2, <2>1, <2>2
  <2>4. QED
    BY <1>3, <2>2, <2>3 DEF PiecesOf
<1>6. ASSUME NEW x \in PiecesOf(Chunk) PROVE x \in PiecesOf(Data)
  <2>1. PICK i \in 1..Len(Chunk) : x = Chunk[i]
    BY <1>0 DEF PiecesOf
  <2>2. /\ Len(tl.part) + i \in 1..Len(Data) /\ ~(Len(tl.part) + i <= Len(tl.part))
        /\ (Len(tl.part) + i) - Len(tl.part) = i
    BY <1>0, <1>1, <1>2
  <2>3. x = Data[Len(tl.part) + i]
    BY <1>2, <2>1, <2>2
  <2>4. QED
    BY <1>3, <2>2, <2>3 DEF PiecesOf
<1>7. QED
  BY <1>4, <1>5, <1>6

\* A read moves pieces from the file into what is in hand.
LEMMA SkipRead ==
  ASSUME TailTyped, PartOK, SkipOK, ReadsOn PROVE SkipOK'
<1> SUFFICES ASSUME tl.fh # None, tl.fh \notin cut
             PROVE  Stretch(content[tl.fh], from.off, tl'.off)
                      = Handed' \cup InLines(tl'.todo) \cup PiecesOf(tl'.part)
  BY DEF SkipOK, ReadsOn, StillFiles
<1> DEFINE f == content[tl.fh]
<1>1. Handed' = Handed
  BY DEF Handed, ReadsOn, Present
<1>2. tl.todo = <<>> /\ InLines(tl.todo) = {}
  BY NoPieces DEF TailTyped, ReadsOn
<1>3. /\ tl.off \in Nat /\ from.off \in Nat /\ from.off <= tl.off
      /\ tl.off <= Len(f)
  BY TailerFields DEF PartOK
<1>4. /\ Chunk \in Seq(Pieces)
      /\ \A i \in 1..Len(Chunk) : Chunk[i] = f[tl.off + i]
  BY ChunkIs
<1>5. Len(Chunk) \in Nat /\ DOMAIN Chunk = 1..Len(Chunk) /\ tl'.off = tl.off + Len(Chunk)
  BY <1>4 DEF ReadsOn
<1> HIDE DEF f
<1>6. Stretch(f, tl.off, tl'.off) = PiecesOf(Chunk)
  <2>1. ASSUME NEW i \in (tl.off + 1)..tl'.off
        PROVE  i - tl.off \in 1..Len(Chunk) /\ f[i] = Chunk[i - tl.off]
    <3>1. i - tl.off \in 1..Len(Chunk) /\ tl.off + (i - tl.off) = i
      BY <1>3, <1>5
    <3>2. QED
      BY <1>4, <3>1
  <2>2. ASSUME NEW j \in 1..Len(Chunk)
        PROVE  tl.off + j \in (tl.off + 1)..tl'.off
    BY <1>3, <1>5
  <2>3. \A x \in Stretch(f, tl.off, tl'.off) : x \in PiecesOf(Chunk)
    BY <1>5, <2>1 DEF Stretch, PiecesOf
  <2>4. \A x \in PiecesOf(Chunk) : x \in Stretch(f, tl.off, tl'.off)
    BY <1>4, <1>5, <2>2 DEF Stretch, PiecesOf
  <2>5. QED
    BY <2>3, <2>4
<1>7. PiecesOf(Data) = PiecesOf(tl.part) \cup PiecesOf(Chunk)
  BY DataParts
<1>8. InLines(Whole(Data)) \cup PiecesOf(Rest(Data)) = PiecesOf(Data)
  BY DataIs, CutCovers
<1>9. Stretch(f, from.off, tl'.off) = Stretch(f, from.off, tl.off) \cup Stretch(f, tl.off, tl'.off)
  <2>1. tl'.off \in Nat /\ tl.off <= tl'.off
    BY <1>3, <1>5
  <2>2. from.off \in Nat /\ tl.off \in Nat /\ from.off <= tl.off
    BY <1>3
  <2> DEFINE a == from.off
             b == tl.off
             c == tl'.off
  <2>3. a \in Nat /\ b \in Nat /\ c \in Nat /\ a <= b /\ b <= c
    BY <2>1, <2>2
  <2> HIDE DEF a, b, c
  <2>4. Stretch(f, a, c) = Stretch(f, a, b) \cup Stretch(f, b, c)
    BY <2>3, StretchJoins
  <2>5. QED
    BY <2>4 DEF a, b, c
<1>10. Stretch(f, from.off, tl.off) = Handed \cup InLines(tl.todo) \cup PiecesOf(tl.part)
  BY DEF SkipOK, f
<1>11. tl'.todo = Whole(Data) /\ tl'.part = Rest(Data)
  BY DEF ReadsOn
<1>12. QED
  BY <1>1, <1>2, <1>6, <1>7, <1>8, <1>9, <1>10, <1>11 DEF f

\* Handing on moves the pieces of a line from what is in hand to what was handed on.
LEMMA HandMoves ==
  ASSUME TailTyped, HandsOn
  PROVE  /\ Handed' = Handed \cup PiecesOf(tl.todo[1])
         /\ InLines(tl.todo) = PiecesOf(tl.todo[1]) \cup InLines(tl'.todo)
<1>1. /\ Len(tl.todo) \in Nat /\ Len(tl.todo) > 0 /\ DOMAIN tl.todo = 1..Len(tl.todo)
      /\ DOMAIN tl'.todo = 1..(Len(tl.todo) - 1)
      /\ \A n \in 1..(Len(tl.todo) - 1) : tl'.todo[n] = tl.todo[n + 1]
  BY HandedLine
<1>2. /\ Len(delivered') = Len(delivered) + 1
      /\ \A n \in 1..Len(delivered) : delivered'[n] = delivered[n]
      /\ delivered'[Len(delivered) + 1].line = tl.todo[1]
      /\ delivered'[Len(delivered) + 1].by = Present
  BY HandedLine
<1>3. /\ from.count \in Nat /\ from.count <= Len(delivered) /\ Len(delivered) \in Nat
      /\ from' = from /\ Present' = Present
  BY TailerFields DEF HandsOn, Present
<1>4. Handed' = Handed \cup PiecesOf(tl.todo[1])
  <2> DEFINE D(n) == PiecesOf(delivered[n].line)
             E(n) == PiecesOf(delivered'[n].line)
             old == (from.count + 1)..Len(delivered)
             own == {n \in old : delivered[n].by = Present}
  <2>1. Handed = UNION {D(n) : n \in own}
    BY DEF Handed, PiecesOf
  <2>2. Handed' = UNION {E(n) : n \in {k \in (from.count + 1)..(Len(delivered) + 1) :
                                           delivered'[k].by = Present}}
    BY <1>2, <1>3 DEF Handed, PiecesOf
  <2>3. (from.count + 1)..(Len(delivered) + 1)
          = old \cup {Len(delivered) + 1}
    BY <1>3
  <2>4. \A n \in old : E(n) = D(n) /\ delivered'[n].by = delivered[n].by
    BY <1>2, <1>3
  <2>5. E(Len(delivered) + 1) = PiecesOf(tl.todo[1])
    BY <1>2
  <2>6. {k \in (from.count + 1)..(Len(delivered) + 1) : delivered'[k].by = Present}
          = own \cup {Len(delivered) + 1}
    BY <1>2, <2>3, <2>4
  <2>7. \A n \in own : E(n) = D(n)
    BY <2>4
  <2> HIDE DEF D, E, own
  <2>8. QED
    BY <2>1, <2>2, <2>5, <2>6, <2>7
<1>5. InLines(tl.todo) = PiecesOf(tl.todo[1]) \cup InLines(tl'.todo)
  <2>1. ASSUME NEW n \in DOMAIN tl.todo, n # 1
        PROVE  n - 1 \in DOMAIN tl'.todo /\ tl'.todo[n - 1] = tl.todo[n]
    <3>1. n - 1 \in 1..(Len(tl.todo) - 1) /\ (n - 1) + 1 = n
      BY <1>1, <2>1
    <3>2. QED
      BY <1>1, <3>1
  <2>2. ASSUME NEW n \in DOMAIN tl'.todo
        PROVE  n + 1 \in DOMAIN tl.todo /\ tl'.todo[n] = tl.todo[n + 1]
    BY <1>1
  <2>3. 1 \in DOMAIN tl.todo
    BY <1>1
  <2>4. ASSUME NEW x \in InLines(tl.todo)
        PROVE  x \in PiecesOf(tl.todo[1]) \/ x \in InLines(tl'.todo)
    <3>1. PICK n \in DOMAIN tl.todo : x \in PiecesOf(tl.todo[n])
      BY DEF InLines
    <3>2. QED
      BY <2>1, <3>1 DEF InLines
  <2>5. ASSUME NEW x \in InLines(tl'.todo) PROVE x \in InLines(tl.todo)
    BY <2>2 DEF InLines
  <2>6. PiecesOf(tl.todo[1]) \subseteq InLines(tl.todo)
    BY <2>3 DEF InLines
  <2>7. QED
    BY <2>4, <2>5, <2>6
<1>6. QED
  BY <1>4, <1>5

\* What a late thread hands on is none of the present tailer's.
LEMMA SkipLate ==
  ASSUME TailTyped, LateStep PROVE Handed' = Handed
<1>1. PICK g \in DOMAIN late : LateOn(g) \/ LateDrops(g)
  BY DEF LateStep
<1>2. Present' = Present /\ g # Present
  BY <1>1, LateIs
<1>3. CASE LateDrops(g)
  BY <1>2, <1>3 DEF LateDrops, Beside, Handed
<1>4. CASE LateOn(g)
  <2>1. /\ Len(delivered) \in Nat /\ Len(delivered') = Len(delivered) + 1
        /\ \A n \in 1..Len(delivered) : delivered'[n] = delivered[n]
        /\ delivered'[Len(delivered) + 1].by = g
    BY <1>4, LateLine
  <2>2. from' = from /\ from.count \in Nat
    BY <1>4, TailerFields DEF LateOn, Beside
  <2> DEFINE own == {k \in (from.count + 1)..Len(delivered) : delivered[k].by = Present}
             own2 == {k \in (from.count + 1)..Len(delivered') : delivered'[k].by = Present}
  <2>3. own2 = own
    <3>1. (from.count + 1)..Len(delivered') \subseteq
            ((from.count + 1)..Len(delivered)) \cup {Len(delivered) + 1}
      BY <2>1, <2>2
    <3>2. (from.count + 1)..Len(delivered) \subseteq (from.count + 1)..Len(delivered')
      BY <2>1, <2>2
    <3>3. \A k \in (from.count + 1)..Len(delivered) : delivered'[k] = delivered[k]
      BY <2>1, <2>2
    <3>4. QED
      BY <1>2, <2>1, <3>1, <3>2, <3>3
  <2>4. \A k \in own : delivered'[k] = delivered[k]
    BY <2>1, <2>2
  <2>5. Handed = UNION {PiecesOf(delivered[n].line) : n \in own}
    BY DEF Handed, PiecesOf
  <2>6. Handed' = UNION {PiecesOf(delivered'[n].line) : n \in own2}
    BY <1>2, <2>2 DEF Handed, PiecesOf
  <2> HIDE DEF own, own2
  <2>7. QED
    BY <2>3, <2>4, <2>5, <2>6
<1>5. QED
  BY <1>1, <1>3, <1>4

LEMMA SkipStep ==
  ASSUME TailTyped, PartOK, SkipOK,
         FilesMove \/ GoesOn \/ LetsGo \/ Opens \/ ReadsOn \/ HandsOn \/ LateStep
  PROVE  SkipOK'
<1>1. CASE FilesMove
  <2> SUFFICES ASSUME tl.fh # None, tl.fh \notin cut'
               PROVE  Stretch(content'[tl.fh], from.off, tl.off)
                        = Handed' \cup InLines(tl.todo) \cup PiecesOf(tl.part)
    BY <1>1 DEF SkipOK, FilesMove
  <2>1. Handed' = Handed
    BY <1>1 DEF Handed, FilesMove, Present
  <2>2. /\ tl.fh \notin cut
        /\ \/ content'[tl.fh] = content[tl.fh]
           \/ content'[tl.fh] = Append(content[tl.fh], written + 1)
    BY <1>1 DEF FilesMove
  <2>3. Stretch(content[tl.fh], from.off, tl.off)
          = Handed \cup InLines(tl.todo) \cup PiecesOf(tl.part)
    BY <2>2 DEF SkipOK
  <2>4. CASE content'[tl.fh] = content[tl.fh]
    BY <2>1, <2>3, <2>4
  <2>5. CASE content'[tl.fh] = Append(content[tl.fh], written + 1)
    <3> DEFINE f == content[tl.fh]
    <3>1. f \in Seq(Pieces) /\ tl.off <= Len(f) /\ from.off \in Nat /\ tl.off \in Nat
      BY <2>2, TailerFields DEF PartOK
    <3>2. Len(f) \in Nat /\ \A j \in 1..Len(f) : Append(f, written + 1)[j] = f[j]
      BY <3>1
    <3>3. \A i \in (from.off + 1)..tl.off : Append(f, written + 1)[i] = f[i]
      <4> TAKE i \in (from.off + 1)..tl.off
      <4>1. i \in 1..Len(f)
        BY <3>1, <3>2
      <4>2. QED
        BY <3>2, <4>1
    <3>4. Stretch(Append(f, written + 1), from.off, tl.off) = Stretch(f, from.off, tl.off)
      BY <3>3 DEF Stretch
    <3>5. QED
      BY <2>1, <2>3, <2>5, <3>4
  <2>6. QED
    BY <2>2, <2>4, <2>5
<1>2. CASE GoesOn
  BY <1>2 DEF SkipOK, GoesOn, StillFiles, Handed, Present
<1>3. CASE LetsGo
  BY <1>3 DEF SkipOK, LetsGo
<1>4. CASE Opens
  <2>1. /\ tl'.part = <<>> /\ tl'.todo = <<>> /\ delivered' = delivered
        /\ from' = [off |-> tl'.off, count |-> Len(delivered)]
    BY <1>4 DEF Opens
  <2>2. from'.off = tl'.off /\ from'.count = Len(delivered) /\ Len(delivered) \in Nat
    BY <2>1, TailerFields
  <2>3. tl'.off \in Nat
    <3>1. path \in Inodes
      BY <1>4, TailerFields DEF Opens
    <3>2. content[path] \in Seq(Pieces)
      BY <3>1, TailerFields
    <3>3. Len(content[path]) \in Nat
      BY <3>2
    <3>4. QED
      BY <1>4, <3>3 DEF Opens
  <2>4. Handed' = {}
    <3>1. (from'.count + 1)..Len(delivered') = {}
      BY <2>1, <2>2
    <3>2. QED
      BY <3>1 DEF Handed
  <2>5. Stretch(content'[tl'.fh], from'.off, tl'.off) = {}
    <3>1. (from'.off + 1)..tl'.off = {}
      BY <2>2, <2>3
    <3>2. QED
      BY <3>1 DEF Stretch
  <2>6. QED
    BY <2>1, <2>4, <2>5, NoPieces DEF SkipOK
<1>5. CASE ReadsOn
  BY <1>5, SkipRead
<1>6. CASE HandsOn
  <2>1. /\ Handed' = Handed \cup PiecesOf(tl.todo[1])
        /\ InLines(tl.todo) = PiecesOf(tl.todo[1]) \cup InLines(tl'.todo)
    BY <1>6, HandMoves
  <2>2. /\ tl'.fh = tl.fh /\ tl'.off = tl.off /\ tl'.part = tl.part /\ cut' = cut
        /\ content' = content /\ from' = from
    BY <1>6 DEF HandsOn, StillFiles
  <2>3. QED
    BY <2>1, <2>2 DEF SkipOK
<1>7. CASE LateStep
  <2>1. Handed' = Handed
    BY <1>7, SkipLate
  <2>2. tl' = tl /\ cut' = cut /\ content' = content /\ from' = from
    BY <1>7 DEF LateStep, LateOn, LateDrops, Beside, StillFiles
  <2>3. QED
    BY <2>1, <2>2 DEF SkipOK
<1>8. QED
  BY <1>1, <1>2, <1>3, <1>4, <1>5, <1>6, <1>7
-----------------------------------------------------------------------------
(* Order. *)

\* What was handed on, what late threads keep, and both.
Said == UNION {PiecesOf(delivered[n].line) : n \in DOMAIN delivered}
InLate == UNION {InLines(late[g]) : g \in DOMAIN late}
Gone == Said \cup InLate
Taken == Gone \cup InLines(tl.todo) \cup PiecesOf(tl.part)

SaidRises ==
  \A m, n \in DOMAIN delivered :
     Sooner(m, n) => Before(PiecesOf(delivered[m].line), PiecesOf(delivered[n].line))

\* What a late thread keeps comes after what its tailer and those before it
\* handed on, and before what their successors hand on or keep.
LateRises ==
  /\ \A n \in DOMAIN delivered, g \in DOMAIN late :
        /\ delivered[n].by <= g => Before(PiecesOf(delivered[n].line), InLines(late[g]))
        /\ g < delivered[n].by => Before(InLines(late[g]), PiecesOf(delivered[n].line))
  /\ \A g, k \in DOMAIN late : g < k => Before(InLines(late[g]), InLines(late[k]))
  /\ \A g \in DOMAIN late : \A m, n \in DOMAIN late[g] :
        m < n => Before(PiecesOf(late[g][m]), PiecesOf(late[g][n]))

HandedRises == SaidRises /\ LateRises

\* What was handed on or left behind comes before what is in hand, and that before what waits.
HandRises ==
  /\ \A m, n \in DOMAIN tl.todo : m < n => Before(PiecesOf(tl.todo[m]), PiecesOf(tl.todo[n]))
  /\ Before(Gone, InLines(tl.todo)) /\ Before(Gone, PiecesOf(tl.part))
  /\ Before(InLines(tl.todo), PiecesOf(tl.part))

\* What the tailer will read next comes after all it has taken: the rest of its
\* open file, or all of the file under the path when that is another one, or its
\* own cut short.
FileAhead ==
  tl.fh # None /\ tl.fh \notin cut =>
    Before(Taken, Stretch(content[tl.fh], tl.off, Len(content[tl.fh])))
PathAhead ==
  path # None /\ tl.pc \in {"stat", "read", "emit"} /\ (tl.fh # path \/ tl.fh \in cut) =>
    Before(Taken, PiecesOf(content[path]))

TailOrder ==
  /\ \A x \in Taken : x <= written
  /\ ~blind /\ ~glitched => HandedRises /\ HandRises /\ FileAhead /\ PathAhead

LEMMA TakenNumbers ==
  ASSUME TailTyped
  PROVE  /\ Gone \in SUBSET Nat /\ Taken \in SUBSET Nat
         /\ \A i \in Inodes : PiecesOf(content[i]) \in SUBSET Nat
<1>1. \A s \in Seq(Pieces) : PiecesOf(s) \in SUBSET Nat
  <2> SUFFICES ASSUME NEW s \in Seq(Pieces), NEW i \in DOMAIN s PROVE s[i] \in Nat
    BY DEF PiecesOf
  <2>1. s[i] \in Pieces
    OBVIOUS
  <2>2. QED
    BY <2>1, PiecesAreNumbers
<1>2. \A n \in DOMAIN delivered : delivered[n].line \in Seq(Pieces)
  BY DEF TailTyped, TailTypeOK
<1>3. \A n \in DOMAIN tl.todo : tl.todo[n] \in Seq(Pieces)
  BY TailerFields, ElementOfSeq
<1>4. Gone \in SUBSET Nat
  <2>1. \A g \in DOMAIN late : \A n \in DOMAIN late[g] : late[g][n] \in Seq(Pieces)
    <3>1. late \in Seq(Seq(Seq(Pieces)))
      BY TypedParts DEF HistoryTyped
    <3>2. \A g \in DOMAIN late : late[g] \in Seq(Seq(Pieces))
      BY <3>1, ElementOfSeq
    <3>3. \A q \in Seq(Seq(Pieces)) : \A n \in DOMAIN q : q[n] \in Seq(Pieces)
      BY ElementOfSeq
    <3>4. QED
      BY <3>2, <3>3
  <2>2. InLate \in SUBSET Nat
    BY <1>1, <2>1 DEF InLate, InLines
  <2>3. QED
    BY <1>1, <1>2, <2>2 DEF Gone, Said
<1>5. InLines(tl.todo) \in SUBSET Nat
  BY <1>1, <1>3 DEF InLines
<1>6. PiecesOf(tl.part) \in SUBSET Nat /\ \A i \in Inodes : PiecesOf(content[i]) \in SUBSET Nat
  BY <1>1, TailerFields
<1>7. QED
  BY <1>4, <1>5, <1>6 DEF Taken

\* A stretch holds pieces of its file, a later one less of them, and the one
\* from the start to the end all of them.
LEMMA StretchIs ==
  ASSUME NEW f \in Seq(Pieces), NEW a \in Nat
  PROVE  /\ Len(f) \in Nat /\ DOMAIN f = 1..Len(f)
         /\ Stretch(f, a, Len(f)) \subseteq PiecesOf(f)
         /\ Stretch(f, 0, Len(f)) = PiecesOf(f)
         /\ Stretch(f, Len(f), Len(f)) = {}
         /\ \A b \in Nat : a <= b => Stretch(f, b, Len(f)) \subseteq Stretch(f, a, Len(f))
<1>1. Len(f) \in Nat /\ DOMAIN f = 1..Len(f)
  OBVIOUS
<1>2. (a + 1)..Len(f) \subseteq 1..Len(f) /\ (0 + 1)..Len(f) = 1..Len(f)
      /\ (Len(f) + 1)..Len(f) = {}
  BY <1>1
<1>3. \A b \in Nat : a <= b => (b + 1)..Len(f) \subseteq (a + 1)..Len(f)
  BY <1>1
<1>4. QED
  BY <1>1, <1>2, <1>3 DEF Stretch, PiecesOf

\* What appending a piece adds to the file and to what lies beyond the offset.
LEMMA StretchGrows ==
  ASSUME NEW f \in Seq(Pieces), NEW x, NEW a \in Nat, NEW g, g = f \/ g = Append(f, x)
  PROVE  /\ PiecesOf(g) \subseteq PiecesOf(f) \cup {x}
         /\ Stretch(g, a, Len(g)) \subseteq Stretch(f, a, Len(f)) \cup {x}
<1>1. CASE g = f
  BY <1>1
<1>2. CASE g = Append(f, x)
  <2>1. /\ Len(f) \in Nat /\ Len(g) = Len(f) + 1 /\ DOMAIN f = 1..Len(f)
        /\ DOMAIN g = 1..(Len(f) + 1)
        /\ \A i \in 1..Len(f) : g[i] = f[i]
        /\ g[Len(f) + 1] = x
    BY <1>2
  <2>2. \A i \in 1..(Len(f) + 1) : i \in 1..Len(f) \/ i = Len(f) + 1
    BY <2>1
  <2>3. PiecesOf(g) \subseteq PiecesOf(f) \cup {x}
    BY <2>1, <2>2 DEF PiecesOf
  <2>4. \A i \in (a + 1)..(Len(f) + 1) : g[i] \in Stretch(f, a, Len(f)) \cup {x}
    <3> TAKE i \in (a + 1)..(Len(f) + 1)
    <3>1. CASE i = Len(f) + 1
      BY <2>1, <3>1
    <3>2. CASE i # Len(f) + 1
      <4>1. i \in (a + 1)..Len(f) /\ i \in 1..Len(f)
        BY <2>1, <3>2
      <4>2. QED
        BY <2>1, <4>1 DEF Stretch
    <3>3. QED
      BY <3>1, <3>2
  <2>5. QED
    BY <2>1, <2>3, <2>4 DEF Stretch
<1>3. QED
  BY <1>1, <1>2

LEMMA OrderMove ==
  ASSUME TailTyped, FilesTyped', TailOrder, FilesMove PROVE TailOrder'
<1>1. /\ tl' = tl /\ late' = late /\ delivered' = delivered
      /\ blind' = blind /\ glitched' = glitched
      /\ Taken' = Taken /\ Gone' = Gone /\ written <= written'
  BY DEF FilesMove, Taken, Gone, Said, InLate
<1>2. /\ Taken \in SUBSET Nat /\ written \in Nat /\ tl.off \in Nat
      /\ tl.fh \in Inodes \cup {None} /\ path \in Inodes \cup {None}
      /\ \A i \in Inodes : content[i] \in Seq(Pieces)
  BY TakenNumbers, TailerFields
<1>3. written' \in Nat
  BY TailAssumption DEF FilesTyped, TailAssumption
<1>4. \A x \in Taken' : x <= written'
  <2> TAKE x \in Taken'
  <2>1. x \in Nat /\ x <= written
    BY <1>1, <1>2 DEF TailOrder
  <2>2. QED
    BY <1>1, <1>2, <1>3, <2>1
<1>5. Before(Taken, {written + 1})
  <2> SUFFICES ASSUME NEW x \in Taken PROVE x < written + 1
    BY DEF Before
  <2>1. x \in Nat /\ x <= written /\ written \in Nat
    BY <1>2 DEF TailOrder
  <2>2. QED
    BY <2>1
<1>6. ASSUME ~blind', ~glitched' PROVE HandedRises' /\ HandRises' /\ FileAhead' /\ PathAhead'
  <2>1. HandedRises /\ HandRises /\ FileAhead /\ PathAhead
    BY <1>1, <1>6 DEF TailOrder
  <2>2. HandedRises' /\ HandRises'
    BY <1>1, <2>1 DEF HandedRises, SaidRises, LateRises, Sooner, HandRises
  <2>3. FileAhead'
    <3> SUFFICES ASSUME tl.fh # None, tl.fh \notin cut'
                 PROVE  Before(Taken, Stretch(content'[tl.fh], tl.off, Len(content'[tl.fh])))
      BY <1>1 DEF FileAhead
    <3>1. /\ tl.fh \notin cut
          /\ \/ content'[tl.fh] = content[tl.fh]
             \/ content'[tl.fh] = Append(content[tl.fh], written + 1)
      BY DEF FilesMove
    <3>2. Before(Taken, Stretch(content[tl.fh], tl.off, Len(content[tl.fh])))
      BY <2>1, <3>1 DEF FileAhead
    <3>3. Stretch(content'[tl.fh], tl.off, Len(content'[tl.fh]))
            \subseteq Stretch(content[tl.fh], tl.off, Len(content[tl.fh])) \cup {written + 1}
      BY <1>2, <3>1, StretchGrows
    <3>4. QED
      BY <1>5, <3>2, <3>3 DEF Before
  <2>4. PathAhead'
    <3> SUFFICES ASSUME path' # None, tl.pc \in {"stat", "read", "emit"},
                        tl.fh # path' \/ tl.fh \in cut'
                 PROVE  Before(Taken, PiecesOf(content'[path']))
      BY <1>1 DEF PathAhead
    <3>1. CASE content'[path'] = <<>>
      BY <3>1, NoPieces DEF Before
    <3>2. CASE /\ path' = path /\ cut' = cut
               /\ \/ content'[path] = content[path]
                  \/ content'[path] = Append(content[path], written + 1)
      <4>1. Before(Taken, PiecesOf(content[path]))
        BY <2>1, <3>2 DEF PathAhead
      <4>2. path \in Inodes
        BY <1>2, <3>2
      <4>3. PiecesOf(content'[path]) \subseteq PiecesOf(content[path]) \cup {written + 1}
        BY <1>2, <3>2, <4>2, StretchGrows
      <4>4. QED
        BY <1>5, <3>2, <4>1, <4>3 DEF Before
    <3>3. QED
      BY <3>1, <3>2 DEF FilesMove
  <2>5. QED
    BY <2>2, <2>3, <2>4
<1>7. QED
  BY <1>4, <1>6 DEF TailOrder

LEMMA OrderGoesOn ==
  ASSUME TailOrder, GoesOn PROVE TailOrder'
<1>1. /\ Gone' = Gone /\ Taken' = Taken /\ StillFiles /\ blind' = blind
      /\ glitched' = glitched /\ delivered' = delivered /\ cut' = cut /\ late' = late
      /\ tl'.fh = tl.fh /\ tl'.off = tl.off /\ tl'.part = tl.part /\ tl'.todo = tl.todo
  BY DEF GoesOn, Gone, Said, InLate, Taken
<1>2. tl'.pc \in {"stat", "read", "emit"} => tl.pc \in {"stat", "read", "emit"}
  BY DEF GoesOn
<1>3. HandedRises => HandedRises'
  BY <1>1 DEF HandedRises, SaidRises, LateRises, Sooner
<1>4. HandRises => HandRises'
  BY <1>1 DEF HandRises
<1>5. FileAhead => FileAhead'
  BY <1>1 DEF FileAhead, StillFiles
<1>6. PathAhead => PathAhead'
  BY <1>1, <1>2 DEF PathAhead, StillFiles
<1>7. QED
  BY <1>1, <1>3, <1>4, <1>5, <1>6 DEF TailOrder, StillFiles

\* A tailer with no piece of its file in hand.
LEMMA OrderEmpty ==
  ASSUME TailOrder, delivered' = delivered, late' = late, written' = written,
         tl'.part = <<>>, tl'.todo = <<>>
  PROVE  /\ Taken' \subseteq Taken
         /\ \A x \in Taken' : x <= written'
         /\ HandedRises => HandedRises'
         /\ HandRises'
<1>1. Gone' = Gone /\ Gone \subseteq Taken
  BY DEF Gone, Said, InLate, Taken
<1>2. Taken' = Gone
  BY <1>1, NoPieces DEF Taken
<1>3. HandRises'
  BY NoPieces DEF HandRises, Before
<1>4. QED
  BY <1>1, <1>2, <1>3 DEF TailOrder, HandedRises, SaidRises, LateRises, Sooner

\* The number of a tailer that handed a line on.
LEMMA ByWhom ==
  ASSUME TailTyped
  PROVE  /\ Len(late) \in Nat /\ Present = Len(late) + 1 /\ DOMAIN late = 1..Len(late)
         /\ \A n \in DOMAIN delivered : delivered[n].by \in 1..Present
<1>1. late \in Seq(Seq(Seq(Pieces))) /\ \A n \in DOMAIN delivered : delivered[n].by \in 1..Present
  BY TypedParts DEF HistoryTyped
<1>2. QED
  BY <1>1 DEF Present

\* A thread that is stopped keeps lines that come after all that went before.
LEMMA OrderKept ==
  ASSUME TailTyped, TailOrder, LetsGo, late' # late
  PROVE  /\ Gone' \subseteq Taken
         /\ HandedRises /\ HandRises => HandedRises'
<1>1. delivered' = delivered
  BY DEF LetsGo
<1>2. PICK left \in {<<>>, tl.todo} :
        /\ DOMAIN late = 1..Len(late) /\ Len(late) \in Nat
        /\ DOMAIN late' = 1..(Len(late) + 1)
        /\ \A g \in 1..Len(late) : late'[g] = late[g]
        /\ late'[Len(late) + 1] = left
  BY LateKept
<1>3. InLines(left) \subseteq InLines(tl.todo)
  BY NoPieces
<1>4. /\ Present = Len(late) + 1
      /\ \A n \in DOMAIN delivered : delivered[n].by \in 1..Present
  BY ByWhom
<1> DEFINE len == Len(late)
<1> HIDE DEF len
<1>5. \A g \in 1..(len + 1) : g \in 1..len \/ g = len + 1
  BY <1>2 DEF len
<1>6. Gone' \subseteq Taken
  <2>1. Said' = Said
    BY <1>1 DEF Said
  <2>2. \A g \in DOMAIN late' : InLines(late'[g]) \subseteq InLate \cup InLines(tl.todo)
    BY <1>2, <1>3, <1>5 DEF InLate, len
  <2>3. InLate' \subseteq InLate \cup InLines(tl.todo)
    BY <2>2 DEF InLate
  <2>4. QED
    BY <2>1, <2>3 DEF Gone, Taken
<1>7. ASSUME HandedRises, HandRises PROVE HandedRises'
  <2>1. SaidRises'
    BY <1>1, <1>7 DEF HandedRises, SaidRises, Sooner
  <2>2. Before(Said, InLines(left)) /\ Before(InLate, InLines(left))
    <3>1. Before(Gone, InLines(tl.todo))
      BY <1>7 DEF HandRises
    <3>2. QED
      BY <1>3, <3>1 DEF Gone, Before
  <2>3. ASSUME NEW n \in DOMAIN delivered, NEW g \in 1..(len + 1)
        PROVE  /\ delivered[n].by <= g => Before(PiecesOf(delivered[n].line), InLines(late'[g]))
               /\ g < delivered[n].by => Before(InLines(late'[g]), PiecesOf(delivered[n].line))
    <3>1. CASE g \in 1..len
      BY <1>2, <1>7, <3>1 DEF HandedRises, LateRises, len
    <3>2. CASE g = len + 1
      <4>1. PiecesOf(delivered[n].line) \subseteq Said
        BY DEF Said
      <4>2. Before(PiecesOf(delivered[n].line), InLines(late'[g]))
        BY <1>2, <2>2, <3>2, <4>1 DEF Before, len
      <4>3. ~(g < delivered[n].by)
        BY <1>2, <1>4, <3>2 DEF len
      <4>4. QED
        BY <4>2, <4>3
    <3>3. QED
      BY <1>5, <3>1, <3>2
  <2>4. ASSUME NEW g \in 1..(len + 1), NEW k \in 1..(len + 1), g < k
        PROVE  Before(InLines(late'[g]), InLines(late'[k]))
    <3>1. g \in 1..len
      BY <1>2, <2>4 DEF len
    <3>2. CASE k \in 1..len
      BY <1>2, <1>7, <2>4, <3>1, <3>2 DEF HandedRises, LateRises, len
    <3>3. CASE k = len + 1
      <4>1. InLines(late'[g]) \subseteq InLate
        BY <1>2, <3>1 DEF InLate, len
      <4>2. QED
        BY <1>2, <2>2, <3>3, <4>1 DEF Before, len
    <3>4. QED
      BY <1>5, <3>2, <3>3
  <2>5. ASSUME NEW g \in 1..(len + 1), NEW m \in DOMAIN late'[g], NEW n \in DOMAIN late'[g], m < n
        PROVE  Before(PiecesOf(late'[g][m]), PiecesOf(late'[g][n]))
    <3>1. CASE g \in 1..len
      BY <1>2, <1>7, <2>5, <3>1 DEF HandedRises, LateRises, len
    <3>2. CASE g = len + 1
      <4>1. late'[g] = left /\ left # <<>>
        BY <1>2, <2>5, <3>2, NoPieces DEF len
      <4>2. QED
        BY <1>7, <2>5, <4>1 DEF HandRises
    <3>3. QED
      BY <1>5, <3>1, <3>2
  <2>6. LateRises'
    BY <1>1, <1>2, <2>3, <2>4, <2>5 DEF LateRises, len
  <2>7. QED
    BY <2>1, <2>6 DEF HandedRises
<1>8. QED
  BY <1>6, <1>7

LEMMA OrderLetsGo ==
  ASSUME TailTyped, TailOrder, LetsGo PROVE TailOrder'
<1>1. /\ delivered' = delivered /\ written' = written /\ tl'.part = <<>> /\ tl'.todo = <<>>
      /\ tl'.fh = None /\ blind' = blind /\ (~glitched' => ~glitched) /\ path' = path
      /\ (tl'.pc \in {"stat", "read", "emit"} => path = None \/ glitched')
  BY DEF LetsGo, StillFiles
<1>2. /\ \A x \in Taken' : x <= written'
      /\ HandedRises /\ HandRises => HandedRises'
      /\ HandRises'
  <2>1. CASE late' = late
    BY <1>1, <2>1, OrderEmpty
  <2>2. CASE late' # late
    <3>1. Gone' \subseteq Taken /\ (HandedRises /\ HandRises => HandedRises')
      BY <2>2, OrderKept
    <3>2. Taken' = Gone'
      BY <1>1, NoPieces DEF Taken
    <3>3. HandRises'
      BY <1>1, NoPieces DEF HandRises, Before
    <3>4. QED
      BY <1>1, <3>1, <3>2, <3>3 DEF TailOrder
  <2>3. QED
    BY <2>1, <2>2
<1>3. FileAhead'
  BY <1>1 DEF FileAhead
<1>4. ~glitched' => PathAhead'
  BY <1>1 DEF PathAhead
<1>5. QED
  BY <1>1, <1>2, <1>3, <1>4 DEF TailOrder

LEMMA OrderOpens ==
  ASSUME TailTyped, PartOK, TailOrder, Opens PROVE TailOrder'
<1>1. /\ StillFiles /\ delivered' = delivered /\ late' = late /\ written' = written
      /\ tl'.part = <<>> /\ tl'.todo = <<>> /\ blind' = blind /\ glitched' = glitched
      /\ path # None /\ tl'.fh = path /\ path' = path /\ content' = content
      /\ cut' = cut \ {path}
  BY DEF Opens, StillFiles
<1>2. /\ Taken' \subseteq Taken
      /\ \A x \in Taken' : x <= written'
      /\ HandedRises => HandedRises'
      /\ HandRises'
  BY <1>1, OrderEmpty
<1>3. path \in Inodes /\ content[path] \in Seq(Pieces)
  <2>1. path \in Inodes
    BY <1>1, TailerFields
  <2>2. QED
    BY <2>1, TailerFields
<1>4. PathAhead'
  BY <1>1 DEF PathAhead
<1>5. PathAhead => FileAhead'
  <2> SUFFICES ASSUME PathAhead
               PROVE  Before(Taken, Stretch(content[path], tl'.off, Len(content[path])))
    BY <1>1, <1>2 DEF FileAhead, Before
  <2>1. CASE tl'.off = Len(content[path])
    <3>1. Stretch(content[path], tl'.off, Len(content[path])) = {}
      BY <1>3, <2>1, StretchIs
    <3>2. QED
      BY <3>1 DEF Before
  <2>2. CASE /\ tl'.off = 0 /\ tl.pc = "stat"
             /\ tl.fh # path \/ Len(content[path]) < tl.off
    <3>1. tl.fh # path \/ tl.fh \in cut
      <4> SUFFICES ASSUME tl.fh = path, tl.fh \notin cut PROVE FALSE
        OBVIOUS
      <4>1. tl.off <= Len(content[path])
        BY <1>1 DEF PartOK
      <4>2. tl.off \in Nat /\ Len(content[path]) \in Nat
        BY <1>3, TailerFields
      <4>3. Len(content[path]) < tl.off
        BY <2>2
      <4>4. QED
        BY <4>1, <4>2, <4>3
    <3>2. Before(Taken, PiecesOf(content[path]))
      BY <1>1, <2>2, <3>1 DEF PathAhead
    <3>3. Stretch(content[path], tl'.off, Len(content[path])) = PiecesOf(content[path])
      BY <1>3, <2>2, StretchIs
    <3>4. QED
      BY <3>2, <3>3
  <2>3. QED
    BY <2>1, <2>2 DEF Opens
<1>6. QED
  BY <1>1, <1>2, <1>4, <1>5 DEF TailOrder

\* Before is kept by smaller sets, and taken apart by unions.
LEMMA BeforeParts ==
  ASSUME NEW A, NEW B, NEW C
  PROVE  /\ Before(A \cup B, C) <=> Before(A, C) /\ Before(B, C)
         /\ Before(C, A \cup B) <=> Before(C, A) /\ Before(C, B)
         /\ \A X, Y : X \subseteq A /\ Y \subseteq B /\ Before(A, B) => Before(X, Y)
BY DEF Before

\* A run rises.
LEMMA RunRises ==
  ASSUME NEW s \in Seq(Pieces), Run(s)
  PROVE  Rising(s)
<1> SUFFICES ASSUME NEW i \in DOMAIN s, NEW j \in DOMAIN s, i < j PROVE s[i] < s[j]
  BY DEF Rising
<1>1. s[i] \in Pieces /\ s[j] \in Pieces /\ i \in Nat /\ j \in Nat
  OBVIOUS
<1>2. s[i] + j = s[j] + i
  BY DEF Run
<1> DEFINE x == s[i]
           y == s[j]
<1>3. x \in Nat /\ y \in Nat /\ x + j = y + i
  BY <1>1, <1>2, PiecesAreNumbers
<1> HIDE DEF x, y
<1>4. x < y
  BY <1>1, <1>3
<1>5. QED
  BY <1>4 DEF x, y

\* The pieces that a read takes stand in the open file, at or after those that
\* waited, and before those it leaves.
LEMMA ReadPlaces ==
  ASSUME TailTyped, FilesOK, PartOK, ReadsOn, tl.fh \notin cut
  PROVE  LET f == content[tl.fh] IN
         /\ PiecesOf(Data) = PiecesOf(tl.part) \cup PiecesOf(Chunk)
         /\ PiecesOf(Chunk) \subseteq Stretch(f, tl.off, Len(f))
         /\ PiecesOf(Data) \subseteq PiecesOf(f)
         /\ Before(PiecesOf(Data), Stretch(f, tl'.off, Len(f)))
         /\ Stretch(f, tl'.off, Len(f)) \subseteq Stretch(f, tl.off, Len(f))
<1> DEFINE f == content[tl.fh]
           p == tl.off - Len(tl.part)
<1>1. tl.fh # None
  BY DEF ReadsOn
<1>2. /\ p \in Nat /\ Len(Data) \in Nat /\ DOMAIN Data = 1..Len(Data)
      /\ Len(Data) = Len(tl.part) + Len(Chunk)
      /\ p + Len(Data) <= Len(f)
      /\ \A m \in 1..Len(Data) : Data[m] = f[p + m]
  BY <1>1, DataInFile
<1>3. tl.fh \in Inodes
  BY <1>1, TailerFields
<1>4. f \in Seq(Pieces) /\ Run(f) /\ tl.off \in Nat /\ Len(tl.part) \in Nat
  BY <1>3, TailerFields DEF FilesOK
<1>5. Rising(f)
  BY <1>4, RunRises
<1>6. Len(f) \in Nat /\ DOMAIN f = 1..Len(f)
  BY <1>4
<1>7. /\ Chunk \in Seq(Pieces)
      /\ \A i \in 1..Len(Chunk) : tl.off + i \in DOMAIN f /\ Chunk[i] = f[tl.off + i]
  BY <1>1, ChunkIs
<1>8. Len(Chunk) \in Nat /\ DOMAIN Chunk = 1..Len(Chunk) /\ tl'.off = tl.off + Len(Chunk)
  BY <1>7 DEF ReadsOn
<1>9. tl'.off = p + Len(Data) /\ tl'.off \in Nat /\ tl.off <= tl'.off
  <2>1. /\ tl.off \in Nat /\ Len(tl.part) \in Nat /\ Len(Chunk) \in Nat
        /\ tl'.off = tl.off + Len(Chunk) /\ Len(Data) = Len(tl.part) + Len(Chunk)
    BY <1>2, <1>4, <1>8
  <2>2. QED
    BY <2>1
<1>10. PiecesOf(Data) = PiecesOf(tl.part) \cup PiecesOf(Chunk)
  BY <1>1, DataParts
<1> HIDE DEF f
<1>11. PiecesOf(Chunk) \subseteq Stretch(f, tl.off, Len(f))
  <2>1. \A i \in 1..Len(Chunk) : tl.off + i \in (tl.off + 1)..Len(f)
    BY <1>4, <1>6, <1>7, <1>8
  <2>2. QED
    BY <1>7, <1>8, <2>1 DEF PiecesOf, Stretch
<1> HIDE DEF p
<1>12. \A m \in 1..Len(Data) : p + m \in DOMAIN f
  BY <1>2, <1>6
<1>13. PiecesOf(Data) \subseteq PiecesOf(f)
  BY <1>2, <1>12 DEF PiecesOf
<1>14. Before(PiecesOf(Data), Stretch(f, tl'.off, Len(f)))
  <2> SUFFICES ASSUME NEW m \in 1..Len(Data), NEW j \in (tl'.off + 1)..Len(f)
               PROVE  Data[m] < f[j]
    BY <1>2 DEF Before, PiecesOf, Stretch
  <2>1. p + m < j /\ j \in DOMAIN f
    BY <1>2, <1>6, <1>9
  <2>2. f[p + m] < f[j]
    BY <1>5, <1>12, <2>1 DEF Rising
  <2>3. QED
    BY <1>2, <2>2
<1>15. Stretch(f, tl'.off, Len(f)) \subseteq Stretch(f, tl.off, Len(f))
  BY <1>4, <1>9, StretchIs
<1>16. QED
  BY <1>10, <1>11, <1>13, <1>14, <1>15 DEF f

LEMMA OrderRead ==
  ASSUME TailTyped, FilesOK, PartOK, TailOrder, ReadsOn PROVE TailOrder'
<1> DEFINE f == content[tl.fh]
<1>1. /\ StillFiles /\ delivered' = delivered /\ cut' = cut /\ glitched' = glitched
      /\ blind' = (blind \/ tl.fh \in cut) /\ tl.pc = "read" /\ tl.fh # None
      /\ tl'.fh = tl.fh /\ tl'.part = Rest(Data) /\ tl'.todo = Whole(Data)
      /\ Gone' = Gone /\ tl.todo = <<>> /\ late' = late
  BY DEF ReadsOn, Gone, Said, InLate, TailTyped
<1>2. /\ content' = content /\ path' = path /\ written' = written /\ writer' = writer
  BY <1>1 DEF StillFiles
<1>3. tl.fh \in Inodes
  BY <1>1, TailerFields
<1>4. InLines(Whole(Data)) \cup PiecesOf(Rest(Data)) = PiecesOf(Data)
  BY <1>1, DataIs, CutCovers
<1>5. Taken' = Gone \cup PiecesOf(Data)
  BY <1>1, <1>4 DEF Taken
<1>6. Taken = Gone \cup PiecesOf(tl.part)
  BY <1>1, NoPieces DEF Taken
<1>7. PiecesOf(Data) = PiecesOf(tl.part) \cup PiecesOf(Chunk)
  BY <1>1, DataParts
<1>8. \A x \in Taken' : x <= written'
  <2>1. PiecesOf(Chunk) \subseteq PiecesOf(f)
    <3>1. /\ Chunk \in Seq(Pieces)
          /\ \A i \in 1..Len(Chunk) : tl.off + i \in DOMAIN f /\ Chunk[i] = f[tl.off + i]
      BY <1>1, ChunkIs
    <3>2. DOMAIN Chunk = 1..Len(Chunk)
      BY <3>1
    <3>3. QED
      BY <3>1, <3>2 DEF PiecesOf
  <2>2. \A x \in PiecesOf(f) : x <= written
    BY <1>3 DEF FilesOK
  <2>3. QED
    BY <1>2, <1>5, <1>6, <1>7, <2>1, <2>2 DEF TailOrder
<1>9. ASSUME ~blind', ~glitched' PROVE HandedRises' /\ HandRises' /\ FileAhead' /\ PathAhead'
  <2>1. tl.fh \notin cut /\ ~blind /\ ~glitched
    BY <1>1, <1>9
  <2>2. HandedRises /\ HandRises /\ FileAhead /\ PathAhead
    BY <2>1 DEF TailOrder
  <2>3. /\ PiecesOf(Chunk) \subseteq Stretch(f, tl.off, Len(f))
        /\ PiecesOf(Data) \subseteq PiecesOf(f)
        /\ Before(PiecesOf(Data), Stretch(f, tl'.off, Len(f)))
        /\ Stretch(f, tl'.off, Len(f)) \subseteq Stretch(f, tl.off, Len(f))
    BY <2>1, ReadPlaces
  <2>4. Before(Gone, Stretch(f, tl.off, Len(f))) /\ Before(Gone, PiecesOf(tl.part))
    BY <1>1, <1>6, <2>1, <2>2, BeforeParts DEF FileAhead, HandRises
  <2>5. Before(Gone, PiecesOf(Data))
    <3>1. Before(Gone, PiecesOf(Chunk))
      BY <2>3, <2>4 DEF Before
    <3>2. QED
      BY <1>7, <2>4, <3>1 DEF Before
  <2>6. HandedRises'
    BY <1>1, <2>2 DEF HandedRises, SaidRises, LateRises, Sooner
  <2>7. HandRises'
    <3>1. Rising(Data) /\ Data \in Seq(Pieces) /\ Pieces \in SUBSET Nat
      BY <1>1, <2>1, DataRuns, DataIs, RunRises
    <3>2. /\ \A m, n \in DOMAIN Whole(Data) :
                m < n => Before(PiecesOf(Whole(Data)[m]), PiecesOf(Whole(Data)[n]))
          /\ Before(InLines(Whole(Data)), PiecesOf(Rest(Data)))
      BY <3>1, CutRises
    <3>3. Before(Gone, InLines(Whole(Data))) /\ Before(Gone, PiecesOf(Rest(Data)))
      BY <1>4, <2>5, BeforeParts
    <3>4. QED
      BY <1>1, <3>2, <3>3 DEF HandRises
  <2>8. FileAhead'
    <3>1. Before(Gone, Stretch(f, tl'.off, Len(f)))
      BY <2>3, <2>4 DEF Before
    <3>2. Before(Taken', Stretch(f, tl'.off, Len(f)))
      BY <1>5, <2>3, <3>1, BeforeParts
    <3>3. QED
      BY <1>1, <1>2, <3>2 DEF FileAhead
  <2>9. PathAhead'
    <3> SUFFICES ASSUME path # None, tl.fh # path
                 PROVE  Before(Taken', PiecesOf(content[path]))
      BY <1>1, <1>2, <2>1 DEF PathAhead
    <3>1. Before(Taken, PiecesOf(content[path]))
      BY <1>1, <2>2 DEF PathAhead
    <3>2. path = writer
      BY DEF FilesOK
    <3>3. Before(PiecesOf(f), PiecesOf(content[path]))
      BY <1>3, <3>2 DEF FilesOK
    <3>4. Before(Gone, PiecesOf(content[path])) /\ Before(PiecesOf(Data), PiecesOf(content[path]))
      BY <1>6, <2>3, <3>1, <3>3 DEF Before
    <3>5. QED
      BY <1>5, <3>4, BeforeParts
  <2>10. QED
    BY <2>6, <2>7, <2>8, <2>9
<1>10. QED
  BY <1>8, <1>9 DEF TailOrder

LEMMA OrderHandsOn ==
  ASSUME TailTyped, TailOrder, HandsOn PROVE TailOrder'
<1> DEFINE h == PiecesOf(tl.todo[1])
           len == Len(delivered)
<1>1. /\ StillFiles /\ cut' = cut /\ glitched' = glitched /\ blind' = blind
      /\ tl.pc = "emit" /\ tl'.fh = tl.fh /\ tl'.off = tl.off /\ tl'.part = tl.part
      /\ late' = late
  BY DEF HandsOn
<1>2. InLines(tl.todo) = h \cup InLines(tl'.todo)
  BY HandMoves
<1>3. /\ Len(tl.todo) \in Nat /\ Len(tl.todo) > 0 /\ DOMAIN tl.todo = 1..Len(tl.todo)
      /\ DOMAIN tl'.todo = 1..(Len(tl.todo) - 1)
      /\ \A n \in 1..(Len(tl.todo) - 1) : tl'.todo[n] = tl.todo[n + 1]
  BY HandedLine
<1>4. /\ len \in Nat /\ DOMAIN delivered = 1..len /\ DOMAIN delivered' = 1..(len + 1)
      /\ \A n \in 1..len : delivered'[n] = delivered[n]
      /\ PiecesOf(delivered'[len + 1].line) = h /\ delivered'[len + 1].by = Present
  BY HandedLine, TailerFields
<1> HIDE DEF h, len
<1>5. Gone' = Gone \cup h
  <2>1. 1..(len + 1) = 1..len \cup {len + 1}
    BY <1>4
  <2>2. Said' = UNION {PiecesOf(delivered'[n].line) : n \in 1..len \cup {len + 1}}
    BY <1>4, <2>1 DEF Said
  <2>3. Said = UNION {PiecesOf(delivered[n].line) : n \in 1..len}
    BY <1>4 DEF Said
  <2>4. Said' = Said \cup h
    BY <1>4, <2>2, <2>3
  <2>5. InLate' = InLate
    BY <1>1 DEF InLate
  <2>6. QED
    BY <2>4, <2>5 DEF Gone
<1>6. Taken' = Taken
  BY <1>1, <1>2, <1>5 DEF Taken
<1>7. ASSUME HandedRises, HandRises PROVE HandedRises'
  <2>1. Before(Said, h) /\ Before(InLate, h)
    <3>1. Before(Gone, h)
      BY <1>2, <1>7 DEF HandRises, Before
    <3>2. QED
      BY <3>1 DEF Gone, Before
  <2>2. /\ Len(late) \in Nat /\ Present = Len(late) + 1 /\ DOMAIN late = 1..Len(late)
        /\ \A n \in 1..len : delivered[n].by \in 1..Present
    BY <1>4, ByWhom
  <2>3. \A n \in 1..(len + 1) : n \in 1..len \/ n = len + 1
    BY <1>4
  <2>4. ASSUME NEW m \in 1..(len + 1), NEW n \in 1..(len + 1), Sooner(m, n)'
        PROVE  Before(PiecesOf(delivered'[m].line), PiecesOf(delivered'[n].line))
    <3>1. CASE m \in 1..len /\ n \in 1..len
      BY <1>4, <1>7, <2>4, <3>1 DEF HandedRises, SaidRises, Sooner
    <3>2. CASE m \in 1..len /\ n = len + 1
      <4>1. PiecesOf(delivered[m].line) \subseteq Said
        BY <1>4, <3>2 DEF Said
      <4>2. QED
        BY <1>4, <2>1, <3>2, <4>1 DEF Before
    <3>3. CASE m = len + 1
      <4>1. delivered'[n].by \in 1..Present
        BY <1>4, <2>2, <2>3
      <4>2. ~(delivered'[m].by < delivered'[n].by) /\ ~(m < n)
        BY <1>4, <2>2, <3>3, <4>1
      <4>3. QED
        BY <2>4, <4>2 DEF Sooner
    <3>4. QED
      BY <2>3, <3>1, <3>2, <3>3
  <2>5. SaidRises'
    BY <1>4, <2>4 DEF SaidRises
  <2>6. ASSUME NEW n \in 1..(len + 1), NEW g \in DOMAIN late
        PROVE  /\ delivered'[n].by <= g => Before(PiecesOf(delivered'[n].line), InLines(late[g]))
               /\ g < delivered'[n].by => Before(InLines(late[g]), PiecesOf(delivered'[n].line))
    <3>1. CASE n \in 1..len
      BY <1>4, <1>7, <3>1 DEF HandedRises, LateRises
    <3>2. CASE n = len + 1
      <4>1. ~(delivered'[n].by <= g)
        BY <1>4, <2>2, <3>2
      <4>2. InLines(late[g]) \subseteq InLate
        BY DEF InLate
      <4>3. Before(InLines(late[g]), PiecesOf(delivered'[n].line))
        BY <1>4, <2>1, <3>2, <4>2 DEF Before
      <4>4. QED
        BY <4>1, <4>3
    <3>3. QED
      BY <2>3, <3>1, <3>2
  <2>7. LateRises'
    BY <1>1, <1>4, <1>7, <2>6 DEF HandedRises, LateRises
  <2>8. QED
    BY <2>5, <2>7 DEF HandedRises
<1>8. ASSUME HandRises PROVE HandRises'
  <2>1. \A m, n \in DOMAIN tl'.todo :
           m < n => Before(PiecesOf(tl'.todo[m]), PiecesOf(tl'.todo[n]))
    <3> SUFFICES ASSUME NEW m \in 1..(Len(tl.todo) - 1), NEW n \in 1..(Len(tl.todo) - 1),
                        m < n
                 PROVE  Before(PiecesOf(tl'.todo[m]), PiecesOf(tl'.todo[n]))
      BY <1>3
    <3>1. m + 1 \in DOMAIN tl.todo /\ n + 1 \in DOMAIN tl.todo /\ m + 1 < n + 1
      BY <1>3
    <3>2. Before(PiecesOf(tl.todo[m + 1]), PiecesOf(tl.todo[n + 1]))
      BY <1>8, <3>1 DEF HandRises
    <3>3. QED
      BY <1>3, <3>2
  <2>2. Before(h, InLines(tl'.todo))
    <3> SUFFICES ASSUME NEW x \in h, NEW y \in InLines(tl'.todo) PROVE x < y
      BY DEF Before
    <3>1. PICK n \in 1..(Len(tl.todo) - 1) : y \in PiecesOf(tl'.todo[n])
      BY <1>3 DEF InLines
    <3>2. 1 \in DOMAIN tl.todo /\ n + 1 \in DOMAIN tl.todo /\ 1 < n + 1
      BY <1>3
    <3>3. Before(PiecesOf(tl.todo[1]), PiecesOf(tl.todo[n + 1]))
      BY <1>8, <3>2 DEF HandRises
    <3>4. y \in PiecesOf(tl.todo[n + 1])
      BY <1>3, <3>1
    <3>5. QED
      BY <3>3, <3>4 DEF Before, h
  <2>3. Before(Gone, InLines(tl'.todo)) /\ Before(h, PiecesOf(tl.part))
        /\ Before(InLines(tl'.todo), PiecesOf(tl.part)) /\ Before(Gone, PiecesOf(tl.part))
    <3>1. /\ Before(Gone, InLines(tl.todo)) /\ Before(InLines(tl.todo), PiecesOf(tl.part))
          /\ Before(Gone, PiecesOf(tl.part))
      BY <1>8 DEF HandRises
    <3>2. h \subseteq InLines(tl.todo) /\ InLines(tl'.todo) \subseteq InLines(tl.todo)
      BY <1>2
    <3>3. QED
      BY <3>1, <3>2 DEF Before
  <2>4. QED
    BY <1>1, <1>5, <2>1, <2>2, <2>3, BeforeParts DEF HandRises
<1>9. FileAhead => FileAhead'
  BY <1>1, <1>6 DEF FileAhead, StillFiles
<1>10. PathAhead => PathAhead'
  BY <1>1, <1>6 DEF PathAhead, StillFiles
<1>11. QED
  BY <1>1, <1>6, <1>7, <1>8, <1>9, <1>10 DEF TailOrder, StillFiles

\* A late thread hands on its next line, which comes before those it keeps, or
\* drops them all.
LEMMA OrderLate ==
  ASSUME TailTyped, TailOrder, LateStep PROVE TailOrder'
<1>1. PICK g \in DOMAIN late : LateOn(g) \/ LateDrops(g)
  BY DEF LateStep
<1>2. /\ DOMAIN late' = DOMAIN late /\ DOMAIN late = 1..Len(late) /\ Len(late) \in Nat
      /\ \A k \in DOMAIN late \ {g} : late'[k] = late[k]
  BY <1>1, LateIs
<1>3. /\ StillFiles /\ tl' = tl /\ cut' = cut /\ blind' = blind /\ glitched' = glitched
  BY <1>1 DEF LateOn, LateDrops, Beside
<1>4. InLines(late'[g]) \subseteq InLines(late[g])
  <2>1. CASE LateDrops(g)
    BY <2>1, NoPieces DEF LateDrops
  <2>2. CASE LateOn(g)
    <3>1. /\ Len(late[g]) \in Nat /\ DOMAIN late[g] = 1..Len(late[g])
          /\ DOMAIN late'[g] = 1..(Len(late[g]) - 1)
          /\ \A n \in 1..(Len(late[g]) - 1) : late'[g][n] = late[g][n + 1]
      BY <2>2, LateLine
    <3>2. \A n \in 1..(Len(late[g]) - 1) : n + 1 \in DOMAIN late[g]
      BY <3>1
    <3>3. QED
      BY <3>1, <3>2 DEF InLines
  <2>3. QED
    BY <1>1, <2>1, <2>2
<1>5. \A k \in DOMAIN late : InLines(late'[k]) \subseteq InLines(late[k])
  BY <1>2, <1>4
<1>6. InLate' \subseteq InLate
  BY <1>2, <1>5 DEF InLate
<1>7. Gone' \subseteq Gone /\ (HandedRises => HandedRises')
  <2>1. CASE LateDrops(g)
    <3>1. delivered' = delivered /\ late'[g] = <<>>
      BY <2>1 DEF LateDrops
    <3>2. Said' = Said
      BY <3>1 DEF Said
    <3>3. SaidRises => SaidRises'
      BY <3>1 DEF SaidRises, Sooner
    <3>4. ASSUME LateRises PROVE LateRises'
      <4>1. \A n \in DOMAIN delivered, k \in DOMAIN late :
              /\ delivered[n].by <= k => Before(PiecesOf(delivered[n].line), InLines(late'[k]))
              /\ k < delivered[n].by => Before(InLines(late'[k]), PiecesOf(delivered[n].line))
        BY <1>5, <3>4 DEF LateRises, Before
      <4>2. \A j, k \in DOMAIN late : j < k => Before(InLines(late'[j]), InLines(late'[k]))
        BY <1>5, <3>4 DEF LateRises, Before
      <4>3. \A k \in DOMAIN late : \A m, n \in DOMAIN late'[k] :
              m < n => Before(PiecesOf(late'[k][m]), PiecesOf(late'[k][n]))
        BY <1>2, <3>1, <3>4, NoPieces DEF LateRises
      <4>4. QED
        BY <1>2, <3>1, <4>1, <4>2, <4>3 DEF LateRises
    <3>5. QED
      BY <1>6, <3>2, <3>3, <3>4 DEF Gone, HandedRises
  <2>2. CASE LateOn(g)
    <3> DEFINE h == PiecesOf(late[g][1])
               len == Len(delivered)
    <3>1. /\ Len(late[g]) \in Nat /\ Len(late[g]) > 0 /\ DOMAIN late[g] = 1..Len(late[g])
          /\ DOMAIN late'[g] = 1..(Len(late[g]) - 1)
          /\ \A n \in 1..(Len(late[g]) - 1) : late'[g][n] = late[g][n + 1]
          /\ len \in Nat /\ DOMAIN delivered = 1..len
          /\ DOMAIN delivered' = 1..(len + 1)
          /\ \A n \in 1..len : delivered'[n] = delivered[n]
          /\ PiecesOf(delivered'[len + 1].line) = h
          /\ delivered'[len + 1].by = g
      BY <2>2, LateLine
    <3>2. h \subseteq InLines(late[g])
      <4>1. 1 \in DOMAIN late[g]
        BY <3>1
      <4>2. QED
        BY <4>1 DEF InLines
    <3> HIDE DEF h, len
    <3>3. \A n \in 1..(len + 1) : n \in 1..len \/ n = len + 1
      BY <3>1
    <3>4. Gone' \subseteq Gone
      <4>1. Said' \subseteq Said \cup h
        BY <3>1, <3>3 DEF Said
      <4>2. h \subseteq InLate
        BY <3>2 DEF InLate
      <4>3. QED
        BY <1>6, <4>1, <4>2 DEF Gone
    <3>5. \A n \in 1..len : delivered[n].by \in Nat
      BY <3>1, ByWhom
    <3>6. ASSUME HandedRises PROVE SaidRises'
      <4> SUFFICES ASSUME NEW m \in 1..(len + 1), NEW n \in 1..(len + 1), Sooner(m, n)'
                   PROVE  Before(PiecesOf(delivered'[m].line), PiecesOf(delivered'[n].line))
        BY <3>1 DEF SaidRises
      <4>1. CASE m \in 1..len /\ n \in 1..len
        BY <3>1, <3>6, <4>1 DEF HandedRises, SaidRises, Sooner
      <4>2. CASE m \in 1..len /\ n = len + 1
        <5>1. delivered[m].by <= g
          BY <1>2, <3>1, <3>5, <4>2 DEF Sooner
        <5>2. Before(PiecesOf(delivered[m].line), InLines(late[g]))
          BY <3>1, <3>6, <4>2, <5>1 DEF HandedRises, LateRises
        <5>3. QED
          BY <3>1, <3>2, <4>2, <5>2 DEF Before
      <4>3. CASE m = len + 1 /\ n \in 1..len
        <5>1. g < delivered[n].by
          BY <1>2, <3>1, <3>5, <4>3 DEF Sooner
        <5>2. Before(InLines(late[g]), PiecesOf(delivered[n].line))
          BY <3>1, <3>6, <4>3, <5>1 DEF HandedRises, LateRises
        <5>3. QED
          BY <3>1, <3>2, <4>3, <5>2 DEF Before
      <4>4. CASE m = len + 1 /\ n = len + 1
        BY <1>2, <3>1, <4>4 DEF Sooner
      <4>5. QED
        BY <3>3, <4>1, <4>2, <4>3, <4>4
    <3>7. ASSUME LateRises PROVE LateRises'
      <4>1. Before(h, InLines(late'[g]))
        <5> SUFFICES ASSUME NEW x \in h, NEW y \in InLines(late'[g]) PROVE x < y
          BY DEF Before
        <5>1. PICK n \in 1..(Len(late[g]) - 1) : y \in PiecesOf(late'[g][n])
          BY <3>1 DEF InLines
        <5>2. 1 \in DOMAIN late[g] /\ n + 1 \in DOMAIN late[g] /\ 1 < n + 1
          BY <3>1
        <5>3. Before(PiecesOf(late[g][1]), PiecesOf(late[g][n + 1]))
          BY <3>7, <5>2 DEF LateRises
        <5>4. y \in PiecesOf(late[g][n + 1])
          BY <3>1, <5>1
        <5>5. QED
          BY <5>3, <5>4 DEF Before, h
      <4>2. ASSUME NEW n \in 1..(len + 1), NEW k \in DOMAIN late
            PROVE  /\ delivered'[n].by <= k =>
                        Before(PiecesOf(delivered'[n].line), InLines(late'[k]))
                   /\ k < delivered'[n].by =>
                        Before(InLines(late'[k]), PiecesOf(delivered'[n].line))
        <5>1. CASE n \in 1..len
          <6>1. /\ delivered[n].by <= k => Before(PiecesOf(delivered[n].line), InLines(late[k]))
                /\ k < delivered[n].by => Before(InLines(late[k]), PiecesOf(delivered[n].line))
            BY <3>1, <3>7, <5>1 DEF LateRises
          <6>2. InLines(late'[k]) \subseteq InLines(late[k]) /\ delivered'[n] = delivered[n]
            BY <1>5, <3>1, <5>1
          <6>3. QED
            BY <6>1, <6>2 DEF Before
        <5>2. CASE n = len + 1
          <6>1. PiecesOf(delivered'[n].line) = h /\ delivered'[n].by = g
            BY <3>1, <5>2
          <6>2. CASE k = g
            BY <1>2, <4>1, <6>1, <6>2
          <6>3. CASE k # g
            <7>1. late'[k] = late[k] /\ k \in Nat /\ g \in Nat
              BY <1>2, <6>3
            <7>2. /\ g < k => Before(InLines(late[g]), InLines(late[k]))
                  /\ k < g => Before(InLines(late[k]), InLines(late[g]))
              BY <3>7 DEF LateRises
            <7>3. /\ g < k => Before(h, InLines(late[k]))
                  /\ k < g => Before(InLines(late[k]), h)
              BY <3>2, <7>2 DEF Before
            <7>4. g <= k => g < k
              BY <6>3, <7>1
            <7>5. QED
              BY <6>1, <7>1, <7>3, <7>4
          <6>4. QED
            BY <6>2, <6>3
        <5>3. QED
          BY <3>3, <5>1, <5>2
      <4>3. \A j, k \in DOMAIN late : j < k => Before(InLines(late'[j]), InLines(late'[k]))
        BY <1>5, <3>7 DEF LateRises, Before
      <4>4. ASSUME NEW k \in DOMAIN late, NEW m \in DOMAIN late'[k], NEW n \in DOMAIN late'[k], m < n
            PROVE  Before(PiecesOf(late'[k][m]), PiecesOf(late'[k][n]))
        <5>1. CASE k # g
          BY <1>2, <3>7, <4>4, <5>1 DEF LateRises
        <5>2. CASE k = g
          <6>1. /\ m + 1 \in DOMAIN late[g] /\ n + 1 \in DOMAIN late[g] /\ m + 1 < n + 1
                /\ late'[k][m] = late[g][m + 1] /\ late'[k][n] = late[g][n + 1]
            BY <3>1, <4>4, <5>2
          <6>2. QED
            BY <3>7, <6>1 DEF LateRises
        <5>3. QED
          BY <5>1, <5>2
      <4>5. QED
        BY <1>2, <3>1, <4>2, <4>3, <4>4 DEF LateRises
    <3>8. QED
      BY <3>4, <3>6, <3>7 DEF HandedRises
  <2>3. QED
    BY <1>1, <2>1, <2>2
<1>8. Taken' \subseteq Taken
  BY <1>3, <1>7 DEF Taken
<1>9. /\ HandRises => HandRises'
      /\ FileAhead => FileAhead'
      /\ PathAhead => PathAhead'
  BY <1>3, <1>7, <1>8 DEF HandRises, FileAhead, PathAhead, StillFiles, Before
<1>10. QED
  BY <1>3, <1>7, <1>8, <1>9 DEF TailOrder, StillFiles
-----------------------------------------------------------------------------
(* The theorem. *)

TailInv == TailTyped /\ FilesOK /\ PartOK /\ HandOK /\ SkipOK /\ TailOrder

LEMMA TailInvInit == TailInit => TailInv
<1> SUFFICES ASSUME TailInit PROVE TailInv
  OBVIOUS
<1>1. TailTyped /\ FilesOK
  BY TailTypedInit, FilesInit
<1>2. /\ tl.fh = None /\ tl.part = <<>> /\ tl.todo = <<>> /\ tl.pc = "none"
  BY DEF TailInit, NoTailer
<1>3. delivered = <<>> /\ DOMAIN delivered = {} /\ late = <<>> /\ DOMAIN late = {}
  BY DEF TailInit
<1>4. PartOK /\ SkipOK
  BY <1>2 DEF PartOK, SkipOK
<1>5. HandOK
  BY <1>2, <1>3, NoPieces DEF HandOK
<1>6. Gone = {} /\ Taken = {}
  BY <1>2, <1>3, NoPieces DEF Gone, Said, InLate, Taken
<1>7. TailOrder
  BY <1>2, <1>3, <1>6, NoPieces
     DEF TailOrder, HandedRises, SaidRises, LateRises, HandRises, FileAhead, PathAhead, Before
<1>8. QED
  BY <1>1, <1>4, <1>5, <1>7 DEF TailInv

\* Every step is of one of these kinds, and keeps the types and the files.
LEMMA EveryKind ==
  ASSUME TailInv, [TailNext]_tailVars
  PROVE  /\ TailerTyped' /\ FilesTyped' /\ HistoryTyped' /\ FilesOK'
         /\ FilesMove \/ GoesOn \/ LetsGo \/ Opens \/ ReadsOn \/ HandsOn \/ LateStep
<1>1. TailTyped /\ FilesOK /\ TailerTyped /\ FilesTyped /\ HistoryTyped
  BY TypedParts DEF TailInv
<1>2. CASE Write \/ RenameAway \/ CreateNew \/ CutShort
  <2>1. FilesTyped' /\ FilesOK' /\ FilesMove
    BY <1>1, <1>2, WriteStep, RenameStep, CreateStep, CutStep
  <2>2. /\ tl' = tl /\ late' = late /\ delivered' = delivered /\ from' = from
        /\ blind' = blind /\ glitched' = glitched
    BY <2>1 DEF FilesMove
  <2>3. active' = active /\ wanted' = wanted
    BY <1>2 DEF Write, RenameAway, CreateNew, CutShort
  <2>4. cut' \in SUBSET Inodes
    <3>1. CASE Write \/ RenameAway
      BY <1>1, <3>1 DEF Write, RenameAway, history, HistoryTyped
    <3>2. CASE CreateNew
      BY <1>1, <3>2 DEF CreateNew, HistoryTyped
    <3>3. CASE CutShort
      BY <1>1, <3>3 DEF CutShort, HistoryTyped, FilesTyped
    <3>4. QED
      BY <1>2, <3>1, <3>2, <3>3
  <2>5. TailerTyped' /\ HistoryTyped'
    BY <1>1, <2>2, <2>3, <2>4 DEF TailerTyped, HistoryTyped, Present
  <2>6. QED
    BY <2>1, <2>5
<1>3. ASSUME StillFiles, TailerTyped', HistoryTyped'
      PROVE  TailerTyped' /\ FilesTyped' /\ HistoryTyped' /\ FilesOK'
  BY <1>1, <1>3 DEF StillFiles, FilesTyped, FilesOK
<1>4. CASE OpenAtEnd
  BY <1>1, <1>3, <1>4, OpenAtEndKind DEF LetsGo, Opens
<1>5. CASE Stat
  BY <1>1, <1>3, <1>5, StatKind DEF GoesOn, LetsGo, Opens
<1>6. CASE Read
  BY <1>1, <1>3, <1>6, ReadKind DEF GoesOn, ReadsOn
<1>7. CASE Emit
  BY <1>1, <1>3, <1>7, EmitKind DEF HandsOn
<1>8. CASE TailGlitch \/ EmitFails \/ Reload
  BY <1>1, <1>3, <1>8, StopKinds DEF LetsGo
<1>9. CASE Scan
  BY <1>1, <1>3, <1>9, ScanKind DEF GoesOn, LetsGo
<1>10. CASE ChangeInterest
  BY <1>1, <1>3, <1>10, InterestKind DEF GoesOn
<1>11. CASE UNCHANGED tailVars
  <2>1. StillFiles /\ GoesOn
    BY <1>11 DEF tailVars, fsVars, history, StillFiles, GoesOn
  <2>2. TailerTyped' /\ HistoryTyped'
    BY <1>1, <1>11 DEF tailVars, fsVars, history, TailerTyped, HistoryTyped, Present
  <2>3. QED
    BY <1>3, <2>1, <2>2
<1>12. CASE \E g \in DOMAIN late : EmitLate(g) \/ LateFails(g)
  BY <1>1, <1>3, <1>12, LateKind DEF LateStep, LateOn, LateDrops, Beside
<1>13. QED
  BY <1>2, <1>4, <1>5, <1>6, <1>7, <1>8, <1>9, <1>10, <1>11, <1>12 DEF TailNext, Follow

LEMMA TailInvStep == TailInv /\ [TailNext]_tailVars => TailInv'
<1> SUFFICES ASSUME TailInv, [TailNext]_tailVars PROVE TailInv'
  OBVIOUS
<1>1. TailTyped /\ FilesOK /\ PartOK /\ HandOK /\ SkipOK /\ TailOrder
  BY DEF TailInv
<1>2. /\ TailerTyped' /\ FilesTyped' /\ HistoryTyped' /\ FilesOK'
      /\ FilesMove \/ GoesOn \/ LetsGo \/ Opens \/ ReadsOn \/ HandsOn \/ LateStep
  BY EveryKind
<1>3. TailTyped'
  BY <1>2, TypedParts, PTL
<1>4. PartOK' /\ HandOK' /\ SkipOK'
  BY <1>1, <1>2, PartStep, HandStep, SkipStep
<1>5. TailOrder'
  BY <1>1, <1>2, OrderMove, OrderGoesOn, OrderLetsGo, OrderOpens, OrderRead, OrderHandsOn,
     OrderLate
<1>6. QED
  BY <1>2, <1>3, <1>4, <1>5 DEF TailInv

\* Whatever the writes, renames, truncations, errors and restarts, a line is
\* handed on whole and once, each tailer hands its lines on in order and after
\* those that went to the tailers before it, though a thread that was given up
\* may still hand on its last ones, and nothing that was read is lost
\* (FileTailer._run, _maybe_reopen, stop).
THEOREM LinesHold == TailSpec => []LinesSound
<1>1. TailInv => LinesSound
  <2> SUFFICES ASSUME TailInv PROVE LinesSound
    OBVIOUS
  <2>1. NothingSkipped
    BY SkipIs DEF TailInv
  <2>2. ~blind => \A n \in DOMAIN delivered : OneLine(delivered[n].line)
    BY DEF TailInv, HandOK
  <2>3. ~blind /\ ~glitched => HandedRises
    BY DEF TailInv, TailOrder
  <2>4. LinesWhole
    <3>1. ~blind => \A n \in DOMAIN delivered :
              \A i, j \in DOMAIN delivered[n].line :
                LineOf(delivered[n].line[i]) = LineOf(delivered[n].line[j])
      BY <2>2 DEF OneLine
    <3>2. ~blind /\ ~glitched => \A m, n \in DOMAIN delivered :
              Sooner(m, n) => \A i \in DOMAIN delivered[m].line, j \in DOMAIN delivered[n].line :
                                delivered[m].line[i] < delivered[n].line[j]
      BY <2>3 DEF HandedRises, SaidRises, Before, PiecesOf
    <3>3. QED
      BY <3>1, <3>2 DEF LinesWhole
  <2>5. QED
    BY <2>1, <2>4 DEF LinesSound
<1>2. QED
  BY <1>1, TailInvInit, TailInvStep, PTL DEF TailSpec

\* The tailer and the files keep their types.
THEOREM TailTypeHolds == TailSpec => []TailTypeOK
<1>1. TailInv => TailTypeOK
  BY DEF TailInv, TailTyped
<1>2. QED
  BY <1>1, TailInvInit, TailInvStep, PTL DEF TailSpec

-----------------------------------------------------------------------------
(* Retrieval: pieces of text and where they come from. *)

\* The elements of a sequence after place m, up to place n.
LEMMA CutIs ==
  ASSUME NEW S, NEW s \in Seq(S), NEW m \in Nat, NEW n \in Nat, m <= n, n <= Len(s)
  PROVE  LET t == SubSeq(s, m + 1, n) IN
         /\ t \in Seq(S) /\ Len(t) = n - m /\ DOMAIN t = 1..(n - m)
         /\ \A i \in 1..(n - m) : m + i \in 1..Len(s) /\ t[i] = s[m + i]
<1>1. Len(s) \in Nat /\ DOMAIN s = 1..Len(s) /\ \A i \in 1..Len(s) : s[i] \in S
  BY LenProperties, ElementOfSeq
<1>2. m + 1 \in 1..(Len(s) + 1) /\ n \in m..Len(s)
  BY <1>1
<1>3. /\ SubSeq(s, m + 1, n) \in Seq(S) /\ Len(SubSeq(s, m + 1, n)) = n - m
      /\ DOMAIN SubSeq(s, m + 1, n) = 1..(n - m)
  BY <1>1, <1>2
<1>4. ASSUME NEW i \in 1..(n - m)
      PROVE  m + i \in 1..Len(s) /\ SubSeq(s, m + 1, n)[i] = s[m + i]
  <2>1. m + i \in 1..Len(s)
    BY <1>1
  <2>2. SubSeq(s, m + 1, n)[i] = s[m + i]
    BY <1>1, <1>2
  <2>3. QED
    BY <2>1, <2>2
<1>5. QED
  BY <1>3, <1>4, Zenon

\* A set of numbers put in order.
LEMMA InOrderIs ==
  ASSUME NEW len \in Nat, NEW E \in SUBSET (1..len)
  PROVE  /\ Cardinality(E) \in Nat
         /\ \A n \in 1..Cardinality(E) : NthOf(E, n) \in E
         /\ \A m, n \in 1..Cardinality(E) : m < n => NthOf(E, m) < NthOf(E, n)
         /\ InOrder(E) \in Seq(Nat) /\ DOMAIN InOrder(E) = 1..Cardinality(E)
         /\ Rising(InOrder(E))
<1>0. E \in SUBSET Nat
  OBVIOUS
<1>1. /\ Cardinality(E) \in Nat
      /\ \A i, j \in Nat : i <= j => Cardinality(UpTo(E, i)) <= Cardinality(UpTo(E, j))
  BY UpToSteps
<1>2. \A n \in 1..Cardinality(E) : NthOf(E, n) \in E /\ Cardinality(UpTo(E, NthOf(E, n))) = n
  BY NthFound
<1>3. ASSUME NEW m \in 1..Cardinality(E), NEW n \in 1..Cardinality(E), m < n
      PROVE  NthOf(E, m) < NthOf(E, n)
  <2> DEFINE a == NthOf(E, m)
             b == NthOf(E, n)
  <2>1. a \in Nat /\ b \in Nat
    BY <1>0, <1>2
  <2>2. Cardinality(UpTo(E, a)) = m /\ Cardinality(UpTo(E, b)) = n
    BY <1>2
  <2>3. m \in Nat /\ n \in Nat /\ ~(n <= m)
    BY <1>1, <1>3
  <2>4. ~(b <= a)
    BY <1>1, <2>1, <2>2, <2>3
  <2>5. QED
    BY <2>1, <2>4
<1>4. InOrder(E) = [n \in 1..Cardinality(E) |-> NthOf(E, n)]
  BY DEF InOrder
<1>5. InOrder(E) \in [1..Cardinality(E) -> Nat]
  BY <1>0, <1>2, <1>4
<1>6. InOrder(E) \in Seq(Nat)
  BY <1>1, <1>5, IsASeq
<1>7. Rising(InOrder(E))
  BY <1>3, <1>4 DEF Rising
<1>8. QED
  BY <1>1, <1>2, <1>3, <1>4, <1>6, <1>7

\* The last elements of a sequence, and where they stand in it.
LEMMA LastOfIs ==
  ASSUME NEW S, NEW s \in Seq(S), NEW n \in Nat
  PROVE  LET t == LastOf(s, n)
             d == IF Len(s) > n THEN Len(s) - n ELSE 0
         IN  /\ t \in Seq(S) /\ d \in Nat /\ Len(t) = Len(s) - d
             /\ Len(t) <= n
             /\ \A i \in 1..Len(t) : d + i \in 1..Len(s) /\ t[i] = s[d + i]
<1> DEFINE d == IF Len(s) > n THEN Len(s) - n ELSE 0
           t == SubSeq(s, d + 1, Len(s))
<1>1. Len(s) \in Nat /\ d \in Nat /\ d <= Len(s) /\ Len(s) - d <= n
  OBVIOUS
<1>2. LastOf(s, n) = t
  BY DEF LastOf
<1> HIDE DEF d
<1>3. t \in Seq(S) /\ Len(t) = Len(s) - d /\ \A i \in 1..Len(t) : t[i] = s[d + i]
  <2>1. d + 1 \in 1..(Len(s) + 1) /\ Len(s) \in d..Len(s)
    BY <1>1
  <2>2. \A i \in (d + 1)..Len(s) : s[i] \in S
    BY <1>1, ElementOfSeq
  <2>3. t \in Seq(S) /\ Len(t) = Len(s) - d
    BY <1>1, <2>1
  <2>4. \A i \in 1..Len(t) : t[i] = s[d + i]
    BY <1>1, <2>1, <2>3
  <2>5. QED
    BY <2>3, <2>4
<1>4. \A i \in 1..Len(t) : d + i \in 1..Len(s)
  BY <1>1, <1>3
<1> HIDE DEF t
<1>5. Len(t) <= n
  BY <1>1, <1>3
<1>6. QED
  BY <1>1, <1>2, <1>3, <1>4, <1>5 DEF d

\* How far a segment is from the next one.
Stride == ChunkSize - Lesser(Overlap, ChunkSize - 1)

LEMMA StrideIs ==
  /\ Stride \in Nat /\ Stride > 0 /\ Stride <= ChunkSize /\ ChunkSize \in Nat
  /\ Lesser(Overlap, ChunkSize) \in Nat
  /\ ChunkSize <= Stride + Lesser(Overlap, ChunkSize)
<1>1. ChunkSize \in Nat /\ ChunkSize > 0 /\ Overlap \in Nat
  BY RetrievalAssumption
<1>2. QED
  BY <1>1 DEF Stride, Lesser

\* Division, rounded up and down.
LEMMA DivIs ==
  ASSUME NEW a \in Nat, NEW b \in Nat, b > 0
  PROVE  LET q == a \div b IN
         q \in Nat /\ q * b \in Nat /\ q * b <= a /\ a < q * b + b /\ (q + 1) * b = q * b + b
OBVIOUS

LEMMA MoreTimes ==
  ASSUME NEW a \in Nat, NEW b \in Nat, NEW w \in Nat, a <= b
  PROVE  a * w <= b * w /\ a * w \in Nat /\ b * w \in Nat
OBVIOUS

\* What a segment holds, and that the segments leave no line out.
LEMMA ChunksAre ==
  ASSUME NEW ls \in Seq(Nat)
  PROVE  LET cs == Chunks(ls) IN
         /\ cs \in Seq(Seq(Nat))
         /\ \A k \in 1..Len(cs) :
              /\ Len(cs[k]) <= ChunkSize
              /\ \A j \in 1..Len(cs[k]) :
                   (k - 1) * Stride + j \in 1..Len(ls) /\ cs[k][j] = ls[(k - 1) * Stride + j]
         /\ \A p \in 1..Len(ls) : \E k \in 1..Len(cs) : \E j \in 1..Len(cs[k]) :
              j <= Stride /\ p = (k - 1) * Stride + j
<1> DEFINE n == Len(ls)
           w == Stride
           count == (n + w - 1) \div w
           to(k) == Lesser((k - 1) * w + ChunkSize, n)
           c(k) == SubSeq(ls, (k - 1) * w + 1, to(k))
           cs == [k \in 1..count |-> c(k)]
<1>1. Chunks(ls) = cs
  BY DEF Chunks, Stride
<1>2. n \in Nat /\ w \in Nat /\ w > 0 /\ w <= ChunkSize /\ ChunkSize \in Nat
  BY StrideIs
<1> HIDE DEF n, w
<1>3. count \in Nat /\ count * w <= n + w - 1 /\ n + w - 1 < count * w + w /\ count * w \in Nat
  BY <1>2, DivIs
<1> HIDE DEF count
\* Where a segment begins and ends.
<1>4. ASSUME NEW k \in 1..count
      PROVE  /\ (k - 1) * w \in Nat /\ (k - 1) * w < n
             /\ to(k) \in Nat /\ (k - 1) * w < to(k) /\ to(k) <= n
             /\ to(k) <= (k - 1) * w + ChunkSize
             /\ \A p \in Nat : p <= n /\ p <= (k - 1) * w + ChunkSize => p <= to(k)
  <2>1. k \in Nat /\ k - 1 \in Nat /\ k <= count /\ k * w = (k - 1) * w + w
    BY <1>2, <1>3
  <2>2. k * w <= count * w /\ k * w \in Nat /\ (k - 1) * w \in Nat
    BY <1>2, <1>3, <2>1, MoreTimes
  <2>3. (k - 1) * w < n
    BY <1>2, <1>3, <2>1, <2>2
  <2> DEFINE b == (k - 1) * w
  <2> HIDE DEF b
  <2>4. b \in Nat /\ b < n
    BY <2>2, <2>3 DEF b
  <2>5. to(k) = Lesser(b + ChunkSize, n)
    BY DEF b
  <2> HIDE DEF to
  <2>6. /\ to(k) \in Nat /\ b < to(k) /\ to(k) <= n /\ to(k) <= b + ChunkSize
        /\ \A p \in Nat : p <= n /\ p <= b + ChunkSize => p <= to(k)
    BY <1>2, <2>4, <2>5 DEF Lesser
  <2>7. QED
    BY <2>4, <2>6 DEF b
<1>5. ASSUME NEW k \in 1..count
      PROVE  /\ c(k) \in Seq(Nat) /\ Len(c(k)) = to(k) - (k - 1) * w
             /\ \A j \in 1..Len(c(k)) : c(k)[j] = ls[(k - 1) * w + j]
  <2> DEFINE b == (k - 1) * w
             e == to(k)
  <2>1. b \in Nat /\ e \in Nat /\ b < e /\ e <= n
    BY <1>4
  <2>2. c(k) = SubSeq(ls, b + 1, e)
    OBVIOUS
  <2> HIDE DEF b, e, c
  <2>3. b <= e /\ e <= Len(ls)
    BY <2>1 DEF n
  <2>4. /\ c(k) \in Seq(Nat) /\ Len(c(k)) = e - b
        /\ \A j \in 1..(e - b) : c(k)[j] = ls[b + j]
    BY <2>1, <2>2, <2>3, CutIs
  <2>5. QED
    BY <2>4 DEF b, e
<1> HIDE DEF c
<1>6. cs \in Seq(Seq(Nat)) /\ Len(cs) = count /\ \A k \in 1..count : cs[k] = c(k)
  <2>1. cs \in [1..count -> Seq(Nat)]
    BY <1>5
  <2>2. QED
    BY <1>3, <2>1, IsASeq, LenProperties
<1> HIDE DEF cs
<1>7. ASSUME NEW k \in 1..count, NEW j \in 1..Len(c(k))
      PROVE  (k - 1) * w + j \in 1..n
  <2> DEFINE b == (k - 1) * w
             e == to(k)
  <2>1. b \in Nat /\ e \in Nat /\ e <= n /\ n \in Nat /\ Len(c(k)) = e - b
    BY <1>2, <1>4, <1>5
  <2> HIDE DEF b, e
  <2>2. b + j \in 1..n
    BY <2>1
  <2>3. QED
    BY <2>2 DEF b
<1>8. ASSUME NEW k \in 1..count
      PROVE  Len(c(k)) <= ChunkSize
  <2> DEFINE b == (k - 1) * w
             e == to(k)
  <2>1. b \in Nat /\ e \in Nat /\ e <= b + ChunkSize /\ Len(c(k)) = e - b
    BY <1>4, <1>5
  <2> HIDE DEF b, e
  <2>2. QED
    BY <1>2, <2>1
<1>9. ASSUME NEW p \in 1..n
      PROVE  \E k \in 1..count : \E j \in 1..Len(c(k)) : j <= w /\ p = (k - 1) * w + j
  <2> DEFINE q == (p - 1) \div w
  <2>1. p \in Nat /\ p - 1 \in Nat /\ p <= n
    BY <1>2
  <2>2. q \in Nat /\ q * w \in Nat /\ q * w <= p - 1 /\ p - 1 < q * w + w
    BY <1>2, <2>1, DivIs
  <2> HIDE DEF q
  <2>3. q < count
    <3>1. CASE count <= q
      <4>1. count * w <= q * w
        BY <1>2, <1>3, <2>2, <3>1, MoreTimes
      <4>2. QED
        BY <1>2, <1>3, <2>1, <2>2, <4>1
    <3>2. QED
      BY <1>3, <2>2, <3>1
  <2>4. q + 1 \in 1..count /\ (q + 1) - 1 = q
    BY <1>3, <2>2, <2>3
  <2>5. /\ to(q + 1) \in Nat /\ Len(c(q + 1)) = to(q + 1) - q * w
        /\ (p <= n /\ p <= q * w + ChunkSize => p <= to(q + 1))
    BY <1>4, <1>5, <2>1, <2>4
  <2> DEFINE b == q * w
             j == p - b
             e == to(q + 1)
  <2>6. b \in Nat /\ b <= p - 1 /\ p - 1 < b + w /\ e \in Nat /\ Len(c(q + 1)) = e - b
        /\ (p <= n /\ p <= b + ChunkSize => p <= e)
    BY <2>2, <2>5
  <2> HIDE DEF b, e
  <2>7. j \in 1..Len(c(q + 1)) /\ j <= w /\ p = b + j
    BY <1>2, <2>1, <2>6
  <2>8. p = ((q + 1) - 1) * w + j
    BY <2>4, <2>7 DEF b
  <2> HIDE DEF j
  <2>9. QED
    BY <2>4, <2>7, <2>8
<1>10. \A k \in 1..Len(cs) :
        /\ Len(cs[k]) <= ChunkSize
        /\ \A j \in 1..Len(cs[k]) : (k - 1) * w + j \in 1..n /\ cs[k][j] = ls[(k - 1) * w + j]
  <2> TAKE k \in 1..Len(cs)
  <2>1. k \in 1..count /\ cs[k] = c(k)
    BY <1>6
  <2>2. Len(cs[k]) <= ChunkSize
    BY <1>8, <2>1
  <2>3. \A j \in 1..Len(cs[k]) : (k - 1) * w + j \in 1..n /\ cs[k][j] = ls[(k - 1) * w + j]
    BY <1>5, <1>7, <2>1
  <2>4. QED
    BY <2>2, <2>3
<1>11. \A p \in 1..n : \E k \in 1..Len(cs) : \E j \in 1..Len(cs[k]) : j <= w /\ p = (k - 1) * w + j
  <2> TAKE p \in 1..n
  <2>1. PICK k \in 1..count : \E j \in 1..Len(c(k)) : j <= w /\ p = (k - 1) * w + j
    BY <1>9
  <2>2. k \in 1..Len(cs) /\ cs[k] = c(k)
    BY <1>6, <2>1
  <2>3. QED
    BY <2>1, <2>2, Zenon
<1>12. QED
  BY <1>1, <1>6, <1>10, <1>11, Zenon DEF n, w

\* Where line j of segment k stands, when a lines and d segments are cut off in front.
Spot(a, d, k, j) == a + (k + d - 1) * Stride + j

\* What the segments cs hold of the lines ls, a lines and d segments cut off in
\* front, and which lines they leave out.
Spread(ls, cs, a, d) ==
  /\ a > 0 => a = Len(ls) - RagMax
  /\ \A k \in 1..Len(cs) : \A j \in 1..Len(cs[k]) :
       Spot(a, d, k, j) \in 1..Len(ls) /\ cs[k][j] = ls[Spot(a, d, k, j)]
  /\ \A p \in 1..Len(ls) :
       \/ p <= a
       \/ \E k \in 1..Len(cs) : \E j \in 1..Len(cs[k]) : p = Spot(a, d, k, j)
       \/ \A k \in 1..Len(cs) : \A j \in 1..Len(cs[k]) : p < Spot(a, d, k, j)

\* The segments that are embedded.
LEMMA RagChunksAre ==
  ASSUME NEW ls \in Seq(Nat), NEW cs, cs = RagChunks(ls)
  PROVE  /\ cs \in Seq(Seq(Nat))
         /\ \A k \in 1..Len(cs) : Len(cs[k]) <= ChunkSize
         /\ \E a, d \in Nat : Spread(ls, cs, a, d)
<1> DEFINE kept == LastOf(ls, RagMax)
           a == IF Len(ls) > RagMax THEN Len(ls) - RagMax ELSE 0
           all == Chunks(kept)
           d == IF Len(all) > ChunksMax THEN Len(all) - ChunksMax ELSE 0
<1>1. RagMax \in Nat /\ ChunksMax \in Nat /\ Stride \in Nat /\ Stride > 0
  BY RetrievalAssumption, StrideIs
<1>2. /\ kept \in Seq(Nat) /\ a \in Nat /\ Len(kept) = Len(ls) - a
      /\ \A i \in 1..Len(kept) : a + i \in 1..Len(ls) /\ kept[i] = ls[a + i]
  BY <1>1, LastOfIs
<1>3. a > 0 => a = Len(ls) - RagMax
  OBVIOUS
<1>4. cs = LastOf(all, ChunksMax)
  BY DEF RagChunks
<1> HIDE DEF kept
<1>5. /\ all \in Seq(Seq(Nat))
      /\ \A k \in 1..Len(all) :
           /\ Len(all[k]) <= ChunkSize
           /\ \A j \in 1..Len(all[k]) :
                (k - 1) * Stride + j \in 1..Len(kept) /\ all[k][j] = kept[(k - 1) * Stride + j]
      /\ \A p \in 1..Len(kept) : \E k \in 1..Len(all) : \E j \in 1..Len(all[k]) :
           j <= Stride /\ p = (k - 1) * Stride + j
  BY <1>2, ChunksAre
<1> HIDE DEF all
<1>6. /\ cs \in Seq(Seq(Nat)) /\ d \in Nat /\ Len(cs) = Len(all) - d
      /\ \A k \in 1..Len(cs) : d + k \in 1..Len(all) /\ cs[k] = all[d + k]
  <2> DEFINE rest == LastOf(all, ChunksMax)
  <2>1. /\ rest \in Seq(Seq(Nat)) /\ d \in Nat /\ Len(rest) = Len(all) - d
        /\ \A k \in 1..Len(rest) : d + k \in 1..Len(all) /\ rest[k] = all[d + k]
    BY <1>1, <1>5, LastOfIs
  <2>2. QED
    BY <1>4, <2>1
<1> HIDE DEF d
<1>0. Len(all) \in Nat /\ Len(cs) \in Nat /\ d \in Nat /\ Len(cs) = Len(all) - d
  BY <1>5, <1>6, LenProperties
<1> HIDE DEF a
<1>7. ASSUME NEW k \in 1..Len(cs)
      PROVE  /\ Len(cs[k]) <= ChunkSize
             /\ \A j \in 1..Len(cs[k]) :
                  Spot(a, d, k, j) \in 1..Len(ls) /\ cs[k][j] = ls[Spot(a, d, k, j)]
  <2>1. d + k \in 1..Len(all) /\ cs[k] = all[d + k] /\ Len(cs) \in Nat
    <3>1. d + k \in 1..Len(all) /\ cs[k] = all[d + k]
      BY <1>6
    <3>2. QED
      BY <1>0, <3>1
  <2>2. Len(cs[k]) <= ChunkSize
    BY <1>5, <2>1
  <2>3. ASSUME NEW j \in 1..Len(cs[k])
        PROVE  Spot(a, d, k, j) \in 1..Len(ls) /\ cs[k][j] = ls[Spot(a, d, k, j)]
    <3> DEFINE i == ((d + k) - 1) * Stride + j
    <3>1. i \in 1..Len(kept) /\ cs[k][j] = kept[i]
      BY <1>5, <2>1
    <3>2. a + i \in 1..Len(ls) /\ kept[i] = ls[a + i]
      BY <1>2, <3>1
    <3>3. (d + k) - 1 = k + d - 1
      BY <1>6, <2>1
    <3>4. Spot(a, d, k, j) = a + ((d + k) - 1) * Stride + j
      BY <3>3 DEF Spot
    <3> DEFINE b == ((d + k) - 1) * Stride
    <3>5. b \in Nat /\ j \in Nat
      <4>1. (d + k) - 1 \in Nat
        BY <1>0, <2>1
      <4>2. Len(cs[k]) \in Nat
        BY <1>6, LenProperties
      <4>3. b \in Nat
        BY <1>1, <4>1, MoreTimes
      <4>4. QED
        BY <4>2, <4>3
    <3> HIDE DEF b
    <3>6. a + b + j = a + (b + j)
      BY <1>2, <3>5
    <3>7. Spot(a, d, k, j) = a + i
      BY <3>4, <3>6 DEF b
    <3>8. QED
      BY <3>1, <3>2, <3>7
  <2>4. QED
    BY <2>2, <2>3
<1>8. ASSUME NEW p \in 1..Len(ls), ~(p <= a)
      PROVE  \/ \E k \in 1..Len(cs) : \E j \in 1..Len(cs[k]) : p = Spot(a, d, k, j)
             \/ \A k \in 1..Len(cs) : \A j \in 1..Len(cs[k]) : p < Spot(a, d, k, j)
  <2>1. p \in Nat /\ p - a \in 1..Len(kept) /\ Len(kept) \in Nat
    BY <1>2, <1>8
  <2>2. PICK m \in 1..Len(all) : \E j \in 1..Len(all[m]) :
               j <= Stride /\ p - a = (m - 1) * Stride + j
    BY <1>5, <2>1
  <2>3. PICK j \in 1..Len(all[m]) : j <= Stride /\ p - a = (m - 1) * Stride + j
    BY <2>2
  <2>4. m \in Nat /\ m - 1 \in Nat /\ (m - 1) * Stride \in Nat /\ j \in Nat
    <3>1. m \in Nat /\ m - 1 \in Nat /\ j \in Nat
      BY <1>0
    <3>2. QED
      BY <1>1, <3>1, MoreTimes
  <2>5. CASE m > d
    <3>1. m - d \in 1..Len(cs) /\ d + (m - d) = m /\ (m - d) + d - 1 = m - 1
      BY <1>0, <2>4, <2>5
    <3>2. cs[m - d] = all[m]
      BY <1>6, <3>1
    <3>3. Spot(a, d, m - d, j) = a + (m - 1) * Stride + j
      BY <3>1 DEF Spot
    <3> DEFINE b == (m - 1) * Stride
    <3>4. b \in Nat /\ p - a = b + j
      BY <2>3, <2>4
    <3> HIDE DEF b
    <3>5. p = a + b + j
      BY <1>2, <2>1, <2>4, <3>4
    <3>6. p = Spot(a, d, m - d, j) /\ j \in 1..Len(cs[m - d])
      BY <3>2, <3>3, <3>5 DEF b
    <3>7. QED
      BY <3>1, <3>6
  <2>6. CASE m <= d
    <3>1. ASSUME NEW k \in 1..Len(cs), NEW i \in 1..Len(cs[k])
          PROVE  p < Spot(a, d, k, i)
      <4>1. k \in Nat /\ k > 0 /\ k + d - 1 \in Nat /\ m - 1 + 1 <= k + d - 1 /\ i \in Nat /\ i > 0
        BY <1>0, <2>4, <2>6
      <4>2. /\ (m - 1 + 1) * Stride <= (k + d - 1) * Stride
            /\ (k + d - 1) * Stride \in Nat
        <5>1. m - 1 + 1 \in Nat
          BY <2>4
        <5>2. QED
          BY <1>1, <4>1, <5>1, MoreTimes
      <4>3. (m - 1 + 1) * Stride = (m - 1) * Stride + Stride
        BY <1>1, <2>4
      <4> DEFINE b == (m - 1) * Stride
                 e == (k + d - 1) * Stride
      <4>4. b \in Nat /\ e \in Nat /\ b + Stride <= e /\ p - a = b + j
        BY <2>3, <2>4, <4>2, <4>3
      <4>5. Spot(a, d, k, i) = a + e + i
        BY DEF Spot
      <4> HIDE DEF b, e
      <4>6. p < a + e + i
        BY <1>1, <1>2, <2>1, <2>3, <2>4, <4>1, <4>4
      <4>7. QED
        BY <4>5, <4>6
    <3>2. QED
      BY <3>1
  <2>7. QED
    BY <1>0, <2>4, <2>5, <2>6
<1>9. Spread(ls, cs, a, d)
  BY <1>3, <1>7, <1>8 DEF Spread
<1>10. QED
  BY <1>2, <1>6, <1>7, <1>9

-----------------------------------------------------------------------------
(* Segments joined into one text. *)

\* A text is made of elements of the first m segments, in their order.
Traced(s, segments, m) ==
  \E p, q \in [1..Len(s) -> Nat] :
    /\ \A i \in 1..Len(s) :
         p[i] \in 1..m /\ q[i] \in 1..Len(segments[p[i]]) /\ s[i] = segments[p[i]][q[i]]
    /\ \A i, j \in 1..Len(s) : i < j => p[i] < p[j] \/ (p[i] = p[j] /\ q[i] < q[j])

\* It is no longer than m segments of the greatest length.
Short(s, segments, m) ==
  \A w \in Nat : (\A k \in 1..m : Len(segments[k]) <= w) => Len(s) <= m * w

LEMMA ShortOne ==
  ASSUME NEW S, NEW segments \in Seq(Seq(S)), 1 \in 1..Len(segments)
  PROVE  Short(segments[1], segments, 1)
<1> SUFFICES ASSUME NEW w \in Nat, \A k \in 1..1 : Len(segments[k]) <= w
             PROVE  Len(segments[1]) <= 1 * w
  BY DEF Short
<1>1. 1 \in 1..1 /\ 1 * w = w
  OBVIOUS
<1>2. QED
  BY <1>1

LEMMA ShortMore ==
  ASSUME NEW S, NEW segments \in Seq(Seq(S)), NEW s \in Seq(S),
         NEW m \in Nat, m + 1 \in 1..Len(segments), Short(s, segments, m)
  PROVE  Short(s \o segments[m + 1], segments, m + 1)
<1> SUFFICES ASSUME NEW w \in Nat, \A k \in 1..(m + 1) : Len(segments[k]) <= w
             PROVE  Len(s \o segments[m + 1]) <= (m + 1) * w
  BY DEF Short
<1>1. /\ segments[m + 1] \in Seq(S) /\ Len(s) \in Nat /\ Len(segments[m + 1]) \in Nat
      /\ Len(s \o segments[m + 1]) = Len(s) + Len(segments[m + 1])
  BY ElementOfSeq, LenProperties, ConcatProperties
<1>2. (\A k \in 1..m : k \in 1..(m + 1)) /\ m + 1 \in 1..(m + 1)
  OBVIOUS
<1>3. Len(s) <= m * w /\ Len(segments[m + 1]) <= w
  BY <1>2 DEF Short
<1>4. m * w \in Nat /\ (m + 1) * w = m * w + w
  OBVIOUS
<1>5. QED
  BY <1>1, <1>3, <1>4

\* One segment.
LEMMA TracedOne ==
  ASSUME NEW S, NEW segments \in Seq(Seq(S)), 1 \in 1..Len(segments)
  PROVE  segments[1] \in Seq(S) /\ Traced(segments[1], segments, 1)
<1> DEFINE s == segments[1]
           p == [i \in 1..Len(s) |-> 1]
           q == [i \in 1..Len(s) |-> i]
<1>1. s \in Seq(S) /\ Len(s) \in Nat
  BY ElementOfSeq, LenProperties
<1>2. p \in [1..Len(s) -> Nat] /\ q \in [1..Len(s) -> Nat]
  BY <1>1
<1>3. \A i \in 1..Len(s) :
         p[i] \in 1..1 /\ q[i] \in 1..Len(segments[p[i]]) /\ s[i] = segments[p[i]][q[i]]
  OBVIOUS
<1>4. \A i, j \in 1..Len(s) : i < j => p[i] < p[j] \/ (p[i] = p[j] /\ q[i] < q[j])
  OBVIOUS
<1> HIDE DEF p, q
<1>5. QED
  BY <1>1, <1>2, <1>3, <1>4 DEF Traced

\* One segment more.
LEMMA TracedMore ==
  ASSUME NEW S, NEW segments \in Seq(Seq(S)), NEW s \in Seq(S),
         NEW m \in Nat, m + 1 \in 1..Len(segments), Traced(s, segments, m)
  PROVE  s \o segments[m + 1] \in Seq(S) /\ Traced(s \o segments[m + 1], segments, m + 1)
<1> DEFINE e == segments[m + 1]
           n == Len(s)
           t == s \o e
<1>1. /\ e \in Seq(S) /\ n \in Nat /\ Len(e) \in Nat
      /\ t \in Seq(S) /\ Len(t) = n + Len(e)
      /\ \A i \in 1..Len(t) : t[i] = IF i <= n THEN s[i] ELSE e[i - n]
  BY ElementOfSeq, LenProperties, ConcatProperties
<1>2. PICK p, q \in [1..n -> Nat] :
        /\ \A i \in 1..n :
             p[i] \in 1..m /\ q[i] \in 1..Len(segments[p[i]]) /\ s[i] = segments[p[i]][q[i]]
        /\ \A i, j \in 1..n : i < j => p[i] < p[j] \/ (p[i] = p[j] /\ q[i] < q[j])
  BY DEF Traced
<1> DEFINE pp == [i \in 1..Len(t) |-> IF i <= n THEN p[i] ELSE m + 1]
           qq == [i \in 1..Len(t) |-> IF i <= n THEN q[i] ELSE i - n]
<1> HIDE DEF t, n
<1>3. \A i \in 1..Len(t) : /\ i <= n => i \in 1..n
                           /\ ~(i <= n) => i - n \in 1..Len(e) /\ i - n \in Nat
  <2> TAKE i \in 1..Len(t)
  <2>1. n \in Nat /\ Len(e) \in Nat /\ i \in 1..(n + Len(e))
    BY <1>1
  <2>2. QED
    BY <2>1
<1>4. pp \in [1..Len(t) -> Nat] /\ qq \in [1..Len(t) -> Nat]
  BY <1>2, <1>3
<1>5. ASSUME NEW i \in 1..Len(t)
      PROVE  /\ pp[i] \in 1..(m + 1) /\ qq[i] \in 1..Len(segments[pp[i]])
             /\ t[i] = segments[pp[i]][qq[i]]
  <2>1. CASE i <= n
    <3>1. pp[i] = p[i] /\ qq[i] = q[i] /\ t[i] = s[i] /\ i \in 1..n
      BY <1>1, <1>3, <2>1
    <3>2. p[i] \in 1..m => p[i] \in 1..(m + 1)
      OBVIOUS
    <3>3. QED
      BY <1>2, <3>1, <3>2
  <2>2. CASE ~(i <= n)
    <3>1. pp[i] = m + 1 /\ qq[i] = i - n /\ t[i] = e[i - n] /\ i - n \in 1..Len(e)
      BY <1>1, <1>3, <2>2
    <3>2. m + 1 \in 1..(m + 1)
      OBVIOUS
    <3>3. QED
      BY <3>1, <3>2
  <2>3. QED
    BY <2>1, <2>2
<1>6. ASSUME NEW i \in 1..Len(t), NEW j \in 1..Len(t), i < j
      PROVE  pp[i] < pp[j] \/ (pp[i] = pp[j] /\ qq[i] < qq[j])
  <2>1. CASE j <= n
    <3>1. i <= n /\ i \in 1..n /\ j \in 1..n
      BY <1>1, <1>3, <1>6, <2>1
    <3>2. QED
      BY <1>2, <1>6, <2>1, <3>1
  <2>2. CASE ~(j <= n) /\ i <= n
    <3>1. p[i] \in 1..m /\ pp[i] = p[i] /\ pp[j] = m + 1
      BY <1>2, <1>3, <2>2
    <3>2. QED
      BY <3>1
  <2>3. CASE ~(j <= n) /\ ~(i <= n)
    <3>1. pp[i] = m + 1 /\ pp[j] = m + 1 /\ qq[i] = i - n /\ qq[j] = j - n
      BY <2>3
    <3>2. i - n < j - n
      BY <1>1, <1>6
    <3>3. QED
      BY <3>1, <3>2
  <2>4. QED
    BY <2>1, <2>2, <2>3
<1> HIDE DEF pp, qq
<1>7. Traced(t, segments, m + 1)
  BY <1>4, <1>5, <1>6, ZenonT(60) DEF Traced
<1>8. QED
  BY <1>1, <1>7 DEF t

\* Joining exists, segment by segment.
Joining(g, segments, n) ==
  g = [i \in 1..n |-> IF i = 1 THEN segments[i] ELSE g[i - 1] \o segments[i]]

LEMMA JoiningExists ==
  ASSUME NEW segments, NEW n \in Nat
  PROVE  \E g : Joining(g, segments, n)
<1> DEFINE Odd == {m \in Nat : ~(\E g : Joining(g, segments, m))}
<1>1. SUFFICES ASSUME Odd # {} PROVE FALSE
  OBVIOUS
<1>2. PICK m \in Odd : \A x \in Odd : m <= x
  <2>1. Odd \in SUBSET Nat
    OBVIOUS
  <2> HIDE DEF Odd
  <2>2. QED
    BY <1>1, <2>1, LeastExists
<1>3. m \in Nat /\ ~(\E g : Joining(g, segments, m))
  OBVIOUS
<1>4. CASE m = 0
  <2> DEFINE g == [i \in 1..0 |-> 0]
  <2>1. g = [i \in 1..0 |-> IF i = 1 THEN segments[i] ELSE g[i - 1] \o segments[i]]
    OBVIOUS
  <2> HIDE DEF g
  <2>2. Joining(g, segments, 0)
    BY <2>1 DEF Joining
  <2>3. QED
    BY <1>3, <1>4, <2>2
<1>5. CASE m # 0
  <2>1. m - 1 \in Nat /\ ~(m <= m - 1)
    BY <1>3, <1>5
  <2>2. ~(m - 1 \in Odd)
    BY <1>2, <2>1
  <2>3. PICK g : Joining(g, segments, m - 1)
    BY <2>1, <2>2
  <2> DEFINE h == [i \in 1..m |-> IF i = m THEN IF i = 1 THEN segments[i] ELSE g[i - 1] \o segments[i]
                                           ELSE g[i]]
  <2>4. ASSUME NEW i \in 1..m
        PROVE  h[i] = IF i = 1 THEN segments[i] ELSE h[i - 1] \o segments[i]
    <3>1. i # 1 => i - 1 \in 1..m /\ i - 1 # m
      BY <1>3
    <3>2. i # 1 => h[i - 1] = g[i - 1]
      BY <3>1
    <3>3. CASE i = m
      BY <3>2, <3>3
    <3>4. CASE i # m
      <4>1. i \in 1..(m - 1)
        BY <1>3, <3>4
      <4>2. g[i] = IF i = 1 THEN segments[i] ELSE g[i - 1] \o segments[i]
        BY <2>3, <4>1 DEF Joining
      <4>3. h[i] = g[i]
        BY <3>4
      <4>4. QED
        BY <3>2, <4>2, <4>3
    <3>5. QED
      BY <3>3, <3>4
  <2>5. h = [i \in 1..m |-> h[i]]
    OBVIOUS
  <2> HIDE DEF h
  <2>6. h = [i \in 1..m |-> IF i = 1 THEN segments[i] ELSE h[i - 1] \o segments[i]]
    BY <2>4, <2>5
  <2>7. Joining(h, segments, m)
    BY <2>6 DEF Joining
  <2>8. QED
    BY <1>3, <2>7
<1>6. QED
  BY <1>4, <1>5

\* What joining gives.
LEMMA FlattenIs ==
  ASSUME NEW S, NEW segments \in Seq(Seq(S))
  PROVE  /\ FlattenSeq(segments) \in Seq(S)
         /\ Traced(FlattenSeq(segments), segments, Len(segments))
         /\ Short(FlattenSeq(segments), segments, Len(segments))
<1> DEFINE n == Len(segments)
           f == CHOOSE g : Joining(g, segments, n)
<1>1. n \in Nat
  OBVIOUS
<1>2. CASE n = 0
  <2>1. segments = <<>>
    BY <1>2
  <2>2. FlattenSeq(segments) = <<>>
    BY <2>1 DEF FlattenSeq
  <2>3. <<>> \in Seq(S) /\ Len(<<>>) = 0
    OBVIOUS
  <2> DEFINE p == [i \in 1..0 |-> 0]
  <2>4. p \in [1..0 -> Nat]
    OBVIOUS
  <2> HIDE DEF p
  <2>5. \A i \in 1..0 : FALSE
    OBVIOUS
  <2>6. Traced(<<>>, segments, n)
    BY <2>3, <2>4, <2>5 DEF Traced
  <2>7. Short(<<>>, segments, n)
    BY <1>1, <2>3 DEF Short
  <2>8. QED
    BY <2>2, <2>3, <2>6, <2>7
<1>3. CASE n # 0
  <2>1. FlattenSeq(segments) = f[n]
    BY <1>3 DEF FlattenSeq, Joining
  <2>2. Joining(f, segments, n)
    BY <1>1, JoiningExists
  <2> HIDE DEF f
  <2> DEFINE Fine(m) == f[m] \in Seq(S) /\ Traced(f[m], segments, m) /\ Short(f[m], segments, m)
             Odd == {m \in 1..n : ~Fine(m)}
  <2>3. SUFFICES ASSUME Odd # {} PROVE FALSE
    <3>1. n \in 1..n
      BY <1>1, <1>3
    <3>2. QED
      BY <2>1, <3>1
  <2>4. PICK m \in Odd : \A x \in Odd : m <= x
    <3>1. Odd \in SUBSET Nat
      BY <1>1
    <3> HIDE DEF Odd
    <3>2. QED
      BY <2>3, <3>1, LeastExists
  <2>5. m \in 1..n /\ ~Fine(m)
    OBVIOUS
  <2>6. f[m] = IF m = 1 THEN segments[m] ELSE f[m - 1] \o segments[m]
    BY <2>2, <2>5 DEF Joining
  <2>7. CASE m = 1
    BY <2>5, <2>6, <2>7, TracedOne, ShortOne
  <2>8. CASE m # 1
    <3>1. m - 1 \in 1..n /\ m - 1 \in Nat /\ (m - 1) + 1 = m /\ ~(m <= m - 1)
      BY <1>1, <2>5, <2>8
    <3>2. Fine(m - 1)
      BY <2>4, <3>1
    <3> DEFINE t == f[m - 1] \o segments[m]
    <3>3. t \in Seq(S) /\ Traced(t, segments, m) /\ Short(t, segments, m)
      BY <2>5, <3>1, <3>2, TracedMore, ShortMore
    <3>4. QED
      BY <2>5, <2>6, <2>8, <3>3
  <2>9. QED
    BY <2>7, <2>8
<1>4. QED
  BY <1>2, <1>3

-----------------------------------------------------------------------------
(* Prompts. *)

\* Lines of ls, in their order but for the overlap of two segments.
Placed(s, ls) ==
  \E q \in [1..Len(s) -> 1..Len(ls)] :
    /\ \A i \in 1..Len(s) : s[i] = ls[q[i]]
    /\ \A i, j \in 1..Len(s) : i < j => q[i] < q[j] + Lesser(Overlap, ChunkSize)

\* All lines are in their places, and so are the last of what is.
LEMMA AllPlaced ==
  ASSUME NEW ls \in Seq(Nat)
  PROVE  Placed(ls, ls)
<1> DEFINE q == [i \in 1..Len(ls) |-> i]
<1>1. Lesser(Overlap, ChunkSize) \in Nat
  BY StrideIs
<1>2. q \in [1..Len(ls) -> 1..Len(ls)] /\ \A i \in 1..Len(ls) : ls[i] = ls[q[i]]
  OBVIOUS
<1>3. \A i, j \in 1..Len(ls) : i < j => q[i] < q[j] + Lesser(Overlap, ChunkSize)
  BY <1>1
<1> HIDE DEF q
<1>4. QED
  BY <1>2, <1>3 DEF Placed

LEMMA LastPlaced ==
  ASSUME NEW s \in Seq(Nat), NEW ls \in Seq(Nat), NEW n \in Nat, Placed(s, ls)
  PROVE  /\ LastOf(s, n) \in Seq(Nat) /\ Len(LastOf(s, n)) <= n
         /\ Placed(LastOf(s, n), ls)
<1> DEFINE t == LastOf(s, n)
           d == IF Len(s) > n THEN Len(s) - n ELSE 0
<1>1. /\ t \in Seq(Nat) /\ d \in Nat /\ Len(t) = Len(s) - d /\ Len(t) <= n
      /\ \A i \in 1..Len(t) : d + i \in 1..Len(s) /\ t[i] = s[d + i]
  BY LastOfIs
<1> HIDE DEF t, d
<1>2. PICK q \in [1..Len(s) -> 1..Len(ls)] :
        /\ \A i \in 1..Len(s) : s[i] = ls[q[i]]
        /\ \A i, j \in 1..Len(s) : i < j => q[i] < q[j] + Lesser(Overlap, ChunkSize)
  BY DEF Placed
<1> DEFINE qq == [i \in 1..Len(t) |-> q[d + i]]
<1>3. qq \in [1..Len(t) -> 1..Len(ls)] /\ \A i \in 1..Len(t) : t[i] = ls[qq[i]]
  BY <1>1, <1>2
<1>4. \A i, j \in 1..Len(t) : i < j => qq[i] < qq[j] + Lesser(Overlap, ChunkSize)
  <2> TAKE i, j \in 1..Len(t)
  <2> HAVE i < j
  <2>1. d + i \in 1..Len(s) /\ d + j \in 1..Len(s) /\ d + i < d + j
    BY <1>1
  <2>2. q[d + i] < q[d + j] + Lesser(Overlap, ChunkSize)
    BY <1>2, <2>1
  <2>3. QED
    BY <2>2
<1> HIDE DEF qq
<1>5. Placed(t, ls)
  BY <1>3, <1>4 DEF Placed
<1>6. QED
  BY <1>1, <1>5 DEF t

\* Where two lines of a joined text stand.
LEMMA SpotsApart ==
  ASSUME NEW a \in Nat, NEW d \in Nat, NEW k \in Nat, NEW l \in Nat, k > 0, l > 0,
         NEW i \in Nat, NEW j \in Nat, i > 0, j > 0, i <= ChunkSize,
         k < l \/ (k = l /\ i < j)
  PROVE  Spot(a, d, k, i) < Spot(a, d, l, j) + Lesser(Overlap, ChunkSize)
<1> DEFINE o == Lesser(Overlap, ChunkSize)
           b == (k + d - 1) * Stride
           e == (l + d - 1) * Stride
<1>1. o \in Nat /\ Stride \in Nat /\ ChunkSize \in Nat /\ ChunkSize <= Stride + o
  BY StrideIs
<1>2. Spot(a, d, k, i) = a + b + i /\ Spot(a, d, l, j) = a + e + j
  BY DEF Spot
<1>3. k + d - 1 \in Nat /\ l + d - 1 \in Nat
  OBVIOUS
<1>4. b \in Nat /\ e \in Nat
  BY <1>1, <1>3, MoreTimes
<1>5. CASE k = l
  <2>1. b = e /\ i < j
    BY <1>5
  <2> HIDE DEF b, e, o
  <2>2. a + b + i < (a + e + j) + o
    BY <1>1, <1>4, <2>1
  <2>3. QED
    BY <1>2, <2>2 DEF o
<1>6. CASE k < l
  <2>1. (k + d - 1) + 1 \in Nat /\ (k + d - 1) + 1 <= l + d - 1
    BY <1>6
  <2>2. ((k + d - 1) + 1) * Stride <= e
    BY <1>1, <1>3, <2>1, MoreTimes
  <2>3. ((k + d - 1) + 1) * Stride = b + Stride
    BY <1>1, <1>3
  <2>4. b + Stride <= e
    BY <2>2, <2>3
  <2> HIDE DEF b, e, o
  <2>5. a + b + i < (a + e + j) + o
    BY <1>1, <1>4, <2>4
  <2>6. QED
    BY <1>2, <2>5 DEF o
<1>7. QED
  BY <1>5, <1>6

\* Segments chosen and joined in their order.
LEMMA ChosenPlaced ==
  ASSUME NEW ls \in Seq(Nat), NEW cs, cs = RagChunks(ls), NEW E \in SUBSET (1..Len(cs))
  PROVE  LET t == FlattenSeq([n \in 1..Cardinality(E) |-> cs[NthOf(E, n)]])
         IN  t \in Seq(Nat) /\ Placed(t, ls) /\ Len(t) <= Cardinality(E) * ChunkSize
<1> DEFINE c == Cardinality(E)
           segments == [n \in 1..c |-> cs[NthOf(E, n)]]
           t == FlattenSeq(segments)
<1>1. /\ cs \in Seq(Seq(Nat)) /\ Len(cs) \in Nat
      /\ \A k \in 1..Len(cs) : Len(cs[k]) <= ChunkSize
      /\ \E a, d \in Nat : Spread(ls, cs, a, d)
  BY RagChunksAre, LenProperties
<1>a. PICK a, d \in Nat : Spread(ls, cs, a, d)
  BY <1>1
<1>2. \A k \in 1..Len(cs) : \A j \in 1..Len(cs[k]) :
        Spot(a, d, k, j) \in 1..Len(ls) /\ cs[k][j] = ls[Spot(a, d, k, j)]
  BY <1>a DEF Spread
<1>3. /\ c \in Nat /\ \A n \in 1..c : NthOf(E, n) \in 1..Len(cs)
      /\ \A m, n \in 1..c : m < n => NthOf(E, m) < NthOf(E, n)
  BY <1>1, InOrderIs
<1> HIDE DEF c
<1>4. segments \in Seq(Seq(Nat)) /\ Len(segments) = c /\ \A n \in 1..c : segments[n] = cs[NthOf(E, n)]
  <2>1. segments \in [1..c -> Seq(Nat)]
    BY <1>1, <1>3, ElementOfSeq
  <2>2. QED
    BY <1>3, <2>1, IsASeq, LenProperties
<1> HIDE DEF segments
<1>5. t \in Seq(Nat) /\ Traced(t, segments, c) /\ Short(t, segments, c)
  BY <1>4, FlattenIs
<1>b. Len(t) <= c * ChunkSize
  <2>1. \A n \in 1..c : Len(segments[n]) <= ChunkSize
    BY <1>1, <1>3, <1>4
  <2>2. ChunkSize \in Nat
    BY StrideIs
  <2>3. QED
    BY <1>5, <2>1, <2>2 DEF Short
<1> HIDE DEF t
<1>6. PICK p, q \in [1..Len(t) -> Nat] :
        /\ \A i \in 1..Len(t) :
             p[i] \in 1..c /\ q[i] \in 1..Len(segments[p[i]]) /\ t[i] = segments[p[i]][q[i]]
        /\ \A i, j \in 1..Len(t) : i < j => p[i] < p[j] \/ (p[i] = p[j] /\ q[i] < q[j])
  BY <1>5 DEF Traced
<1> DEFINE k(i) == NthOf(E, p[i])
           qq == [i \in 1..Len(t) |-> Spot(a, d, k(i), q[i])]
<1>7. ASSUME NEW i \in 1..Len(t)
      PROVE  /\ k(i) \in 1..Len(cs) /\ k(i) \in Nat /\ k(i) > 0
             /\ q[i] \in Nat /\ q[i] > 0 /\ q[i] <= ChunkSize
             /\ Spot(a, d, k(i), q[i]) \in 1..Len(ls)
             /\ t[i] = ls[Spot(a, d, k(i), q[i])]
  <2>1. p[i] \in 1..c /\ q[i] \in 1..Len(segments[p[i]]) /\ t[i] = segments[p[i]][q[i]]
    BY <1>6
  <2>2. k(i) \in 1..Len(cs) /\ segments[p[i]] = cs[k(i)]
    BY <1>3, <1>4, <2>1
  <2> HIDE DEF k
  <2>3. Len(cs[k(i)]) <= ChunkSize /\ Len(cs[k(i)]) \in Nat /\ ChunkSize \in Nat
    BY <1>1, <2>2, ElementOfSeq, LenProperties, StrideIs
  <2>4. q[i] \in 1..Len(cs[k(i)]) /\ t[i] = cs[k(i)][q[i]]
    BY <2>1, <2>2
  <2>5. Spot(a, d, k(i), q[i]) \in 1..Len(ls) /\ t[i] = ls[Spot(a, d, k(i), q[i])]
    BY <1>2, <2>2, <2>4
  <2>6. k(i) \in Nat /\ k(i) > 0
    BY <1>1, <2>2
  <2>7. q[i] \in Nat /\ q[i] > 0 /\ q[i] <= ChunkSize
    BY <2>3, <2>4
  <2>8. QED
    BY <2>2, <2>5, <2>6, <2>7
<1>8. qq \in [1..Len(t) -> 1..Len(ls)] /\ \A i \in 1..Len(t) : t[i] = ls[qq[i]]
  <2> HIDE DEF k
  <2>1. QED
    BY <1>7
<1>9. ASSUME NEW i \in 1..Len(t), NEW j \in 1..Len(t), i < j
      PROVE  qq[i] < qq[j] + Lesser(Overlap, ChunkSize)
  <2>1. p[i] < p[j] \/ (p[i] = p[j] /\ q[i] < q[j])
    BY <1>6, <1>9
  <2>2. p[i] \in 1..c /\ p[j] \in 1..c
    BY <1>6
  <2>3. k(i) < k(j) \/ (k(i) = k(j) /\ q[i] < q[j])
    BY <1>3, <2>1, <2>2
  <2> HIDE DEF k
  <2>4. Spot(a, d, k(i), q[i]) < Spot(a, d, k(j), q[j]) + Lesser(Overlap, ChunkSize)
    BY <1>7, <2>3, SpotsApart
  <2>5. QED
    BY <2>4
<1> HIDE DEF qq
<1>10. Placed(t, ls)
  BY <1>8, <1>9 DEF Placed
<1>11. QED
  BY <1>5, <1>10, <1>b DEF t, segments, c

-----------------------------------------------------------------------------
(* Requests. *)

\* What a vector is: the text it was made of, and the model that made it.
Vector == [of : Seq(Nat), by : Models \cup {NoneYet}]
Request == [from : Nat, to : Nat]

Statuses == {"none", "running", "done", "failed", "cancelled"}
Places == {"idle", "read", "embed", "request", "index", "query", "ask", "call"}
Modes == {"none", "direct", "rag"}
Job == [status : Statuses, at : Places, lines : Seq(Nat), chunks : Seq(Seq(Nat)), mode : Modes,
        skips : BOOLEAN]
Call == [model : Models \cup {NoneYet}, left : Seq(Request), got : Seq(Vector)]

JobTyped ==
  /\ job \in Job
  /\ batch \in Nat /\ vectors \in Seq(Vector) /\ prompt \in Seq(Nat)
  /\ call \in Call

LEMMA JobIs ==
  ASSUME JobTyped
  PROVE  /\ job.lines \in Seq(Nat) /\ Len(job.lines) \in Nat
         /\ job.chunks \in Seq(Seq(Nat)) /\ Len(job.chunks) \in Nat
<1>1. job.lines \in Seq(Nat) /\ job.chunks \in Seq(Seq(Nat))
  BY DEF JobTyped, Job
<1>2. QED
  BY <1>1, LenProperties

\* Requests that follow one another, from text n + 1 on, within len texts.
InTurn(requests, n, len) ==
  /\ 1 \in 1..Len(requests) => requests[1].from = n
  /\ \A k \in 1..Len(requests) :
       /\ requests[k].from < requests[k].to /\ requests[k].to <= len
       /\ k + 1 \in 1..Len(requests) => requests[k + 1].from = requests[k].to

\* The texts of a batch, and where they stand among the segments.
LEMMA BatchIs ==
  ASSUME JobTyped, batch * BatchSize < Len(job.chunks)
  PROVE  LET b == batch * BatchSize IN
         /\ b \in Nat /\ BatchSize \in Nat /\ Len(job.chunks) \in Nat
         /\ (batch + 1) * BatchSize = b + BatchSize
         /\ BatchTexts \in Seq(Seq(Nat))
         /\ Len(BatchTexts) \in Nat
         /\ Len(BatchTexts) = Lesser(b + BatchSize, Len(job.chunks)) - b
         /\ \A i \in 1..Len(BatchTexts) :
              b + i \in 1..Len(job.chunks) /\ BatchTexts[i] = job.chunks[b + i]
<1> DEFINE b == batch * BatchSize
           cs == job.chunks
           e == Lesser(b + BatchSize, Len(cs))
<1>1. BatchSize \in Nat /\ BatchSize > 0 /\ batch \in Nat /\ cs \in Seq(Seq(Nat)) /\ Len(cs) \in Nat
  <2>1. BatchSize \in Nat /\ BatchSize > 0
    BY RetrievalAssumption
  <2>2. batch \in Nat /\ job \in Job
    BY DEF JobTyped
  <2>3. cs \in Seq(Seq(Nat))
    BY <2>2 DEF Job
  <2>4. Len(cs) \in Nat
    BY <2>3, LenProperties
  <2>5. QED
    BY <2>1, <2>2, <2>3, <2>4
<1>2. b \in Nat /\ (batch + 1) * BatchSize = b + BatchSize /\ b < Len(cs)
  BY <1>1
<1>3. BatchTexts = SubSeq(cs, b + 1, e)
  BY <1>2 DEF BatchTexts
<1> HIDE DEF b, cs
<1>4. e \in Nat /\ b < e /\ e <= Len(cs)
  BY <1>1, <1>2 DEF Lesser
<1> HIDE DEF e
<1>5. /\ BatchTexts \in Seq(Seq(Nat)) /\ Len(BatchTexts) = e - b
      /\ \A i \in 1..(e - b) : b + i \in 1..Len(cs) /\ BatchTexts[i] = cs[b + i]
  <2>1. b \in Nat /\ e \in Nat /\ b <= e /\ e <= Len(cs) /\ cs \in Seq(Seq(Nat))
    BY <1>1, <1>2, <1>4
  <2>2. /\ SubSeq(cs, b + 1, e) \in Seq(Seq(Nat)) /\ Len(SubSeq(cs, b + 1, e)) = e - b
        /\ \A i \in 1..(e - b) :
             b + i \in 1..Len(cs) /\ SubSeq(cs, b + 1, e)[i] = cs[b + i]
    BY <2>1, CutIs
  <2>3. QED
    BY <1>3, <2>2
<1>6. Len(BatchTexts) \in Nat
  BY <1>5, LenProperties
<1>7. /\ b \in Nat /\ BatchSize \in Nat /\ Len(cs) \in Nat
      /\ (batch + 1) * BatchSize = b + BatchSize
      /\ BatchTexts \in Seq(Seq(Nat)) /\ Len(BatchTexts) \in Nat
      /\ Len(BatchTexts) = Lesser(b + BatchSize, Len(cs)) - b
      /\ \A i \in 1..Len(BatchTexts) : b + i \in 1..Len(cs) /\ BatchTexts[i] = cs[b + i]
  BY <1>1, <1>2, <1>5, <1>6 DEF e
<1>8. QED
  BY <1>7 DEF b, cs

\* Some texts are packed, from the given one on.
LEMMA PackedIs ==
  ASSUME BatchTexts \in Seq(Seq(Nat)), NEW start \in Nat, start < Len(BatchTexts)
  PROVE  /\ Packed(start) \in Request /\ Packed(start).from = start
         /\ start < Packed(start).to /\ Packed(start).to <= Len(BatchTexts)
<1> DEFINE len == Len(BatchTexts)
           upTo == {n \in (start + 1)..len :
                      \/ provider = "ollama" \/ RequestMax = 0 \/ n = start + 1
                      \/ Sizes(TextsOf([from |-> start, to |-> n])) <= RequestMax}
           Over == {len - n : n \in upTo}
<1>1. len \in Nat
  BY LenProperties
<1>2. start + 1 \in upTo
  BY <1>1
<1>3. upTo \in SUBSET ((start + 1)..len)
  OBVIOUS
<1>4. Packed(start) = [from |-> start, to |-> CHOOSE n \in upTo : \A m \in upTo : m <= n]
  BY DEF Packed
<1> HIDE DEF upTo, len
<1>5. Over \in SUBSET Nat /\ Over # {}
  BY <1>1, <1>2, <1>3
<1>6. PICK o \in Over : \A x \in Over : o <= x
  <2> HIDE DEF Over
  <2>1. QED
    BY <1>5, LeastExists
<1>7. PICK n \in upTo : o = len - n
  OBVIOUS
<1>8. \A m \in upTo : m <= n
  <2> TAKE m \in upTo
  <2>1. len - n <= len - m
    BY <1>6, <1>7
  <2>2. m \in Nat /\ n \in Nat
    BY <1>1, <1>3
  <2>3. QED
    BY <1>1, <2>1, <2>2
<1>9. (CHOOSE x \in upTo : \A m \in upTo : m <= x) \in upTo
  BY <1>8
<1> DEFINE top == CHOOSE x \in upTo : \A m \in upTo : m <= x
<1>10. Packed(start) = [from |-> start, to |-> top] /\ top \in (start + 1)..len
  BY <1>3, <1>4, <1>9
<1> HIDE DEF top
<1>11. top \in Nat /\ start < top /\ top <= len
  BY <1>1, <1>10
<1>12. QED
  BY <1>10, <1>11 DEF len, Request

\* The attempt has the vectors of the first texts of its batch, and the requests
\* that it has left begin where they end.
CallOK ==
  job.at = "request" =>
    /\ Len(call.got) <= Len(BatchTexts)
    /\ \A i \in 1..Len(call.got) : call.got[i].of = BatchTexts[i]
    /\ InTurn(call.left, Len(call.got), Len(BatchTexts))

\* The next request begins where the vectors end, and the others follow it.
LEMMA CurrentIs ==
  ASSUME JobTyped, CallOK, Asking, BatchTexts \in Seq(Seq(Nat))
  PROVE  /\ Current \in Request /\ Current.from = Len(call.got)
         /\ Current.from < Current.to /\ Current.to <= Len(BatchTexts)
         /\ Others \in Seq(Request) /\ InTurn(Others, Current.to, Len(BatchTexts))
<1> DEFINE left == call.left
           n == Len(call.got)
           len == Len(BatchTexts)
<1>1. left \in Seq(Request) /\ n \in Nat /\ len \in Nat /\ n < len
  BY LenProperties DEF JobTyped, Job, Call, Asking
<1>2. InTurn(left, n, len)
  BY DEF CallOK, Asking, At
<1>3. CASE left = <<>>
  <2>1. Current = Packed(n) /\ Others = <<>>
    BY <1>3 DEF Current, Others
  <2>2. Others \in Seq(Request) /\ \A k \in 1..Len(Others) : FALSE
    BY <2>1
  <2>3. InTurn(Others, Current.to, len)
    BY <2>2 DEF InTurn
  <2>4. QED
    BY <1>1, <2>1, <2>2, <2>3, PackedIs
<1>4. CASE left # <<>>
  <2>1. Current = left[1] /\ Others = Tail(left)
    BY <1>4 DEF Current, Others
  <2>2. /\ Len(left) \in Nat /\ 1 \in 1..Len(left) /\ left[1] \in Request
        /\ Others \in Seq(Request) /\ Len(Others) = Len(left) - 1
        /\ \A k \in 1..Len(Others) : k + 1 \in 1..Len(left) /\ Others[k] = left[k + 1]
    <3>1. Len(left) \in Nat /\ 1 \in 1..Len(left)
      BY <1>1, <1>4
    <3>2. left[1] \in Request /\ Others \in Seq(Request) /\ Len(Others) = Len(left) - 1
      BY <1>1, <1>4, <2>1, <3>1
    <3>3. \A k \in 1..Len(Others) : k + 1 \in 1..Len(left) /\ Others[k] = left[k + 1]
      BY <1>1, <1>4, <2>1, <3>1, <3>2
    <3>4. QED
      BY <3>1, <3>2, <3>3
  <2> HIDE DEF left, n, len
  <2>3. left[1].from = n /\ left[1].from < left[1].to /\ left[1].to <= len
    BY <1>2, <2>2 DEF InTurn
  <2>4. 1 \in 1..Len(Others) => Others[1].from = left[1].to
    <3> HAVE 1 \in 1..Len(Others)
    <3>1. 1 + 1 \in 1..Len(left) /\ Others[1] = left[1 + 1]
      BY <2>2
    <3>2. left[1 + 1].from = left[1].to
      BY <1>2, <2>2, <3>1 DEF InTurn
    <3>3. QED
      BY <3>1, <3>2
  <2>5. ASSUME NEW k \in 1..Len(Others)
        PROVE  /\ Others[k].from < Others[k].to /\ Others[k].to <= len
               /\ k + 1 \in 1..Len(Others) => Others[k + 1].from = Others[k].to
    <3>1. k + 1 \in 1..Len(left) /\ Others[k] = left[k + 1]
      BY <2>2
    <3>2. left[k + 1].from < left[k + 1].to /\ left[k + 1].to <= len
      BY <1>2, <3>1 DEF InTurn
    <3>3. ASSUME k + 1 \in 1..Len(Others)
          PROVE  Others[k + 1].from = Others[k].to
      <4>1. (k + 1) + 1 \in 1..Len(left) /\ Others[k + 1] = left[(k + 1) + 1]
        BY <2>2, <3>3
      <4>2. left[(k + 1) + 1].from = left[k + 1].to
        BY <1>2, <3>1, <4>1 DEF InTurn
      <4>3. QED
        BY <3>1, <4>1, <4>2
    <3>4. QED
      BY <3>1, <3>2, <3>3
  <2>6. InTurn(Others, left[1].to, len)
    BY <2>4, <2>5 DEF InTurn
  <2>7. QED
    BY <2>1, <2>2, <2>3, <2>6 DEF left, n, len
<1>5. QED
  BY <1>3, <1>4

\* A request that is split leaves two that follow one another.
LEMMA SplitInTurn ==
  ASSUME NEW c \in Request, c.from < c.to, c.to # c.from + 1,
         NEW others \in Seq(Request), NEW len \in Nat, c.to <= len, InTurn(others, c.to, len)
  PROVE  Halves(c) \o others \in Seq(Request) /\ InTurn(Halves(c) \o others, c.from, len)
<1> DEFINE m == Middle(c)
           t == Halves(c) \o others
<1>1. c.from \in Nat /\ c.to \in Nat
  BY DEF Request
<1>2. m \in Nat /\ c.from < m /\ m < c.to
  <2> DEFINE h == (c.to - c.from) \div 2
  <2>1. c.to - c.from \in Nat /\ c.to - c.from >= 2
    BY <1>1
  <2>2. h \in Nat /\ h > 0 /\ h < c.to - c.from
    BY <2>1
  <2> HIDE DEF h
  <2>3. m = c.from + h
    BY DEF h, Middle
  <2>4. QED
    BY <1>1, <2>2, <2>3
<1> DEFINE l == [from |-> c.from, to |-> m]
           r == [from |-> m, to |-> c.to]
<1>3. Halves(c) = <<l, r>>
  BY DEF Halves, Request
<1>4. l \in Request /\ r \in Request
  BY <1>1, <1>2 DEF Request
<1>5. l.from = c.from /\ l.to = m /\ r.from = m /\ r.to = c.to
  OBVIOUS
<1> HIDE DEF m, l, r
<1>6. /\ t \in Seq(Request) /\ Len(others) \in Nat /\ Len(t) = Len(others) + 2
      /\ t[1] = l /\ t[2] = r
      /\ \A k \in 1..Len(others) : t[k + 2] = others[k]
  <2>1. <<l, r>> \in Seq(Request) /\ Len(<<l, r>>) = 2 /\ <<l, r>>[1] = l /\ <<l, r>>[2] = r
    BY <1>4
  <2> DEFINE hh == <<l, r>>
  <2>2. t = hh \o others
    BY <1>3
  <2> HIDE DEF hh, t
  <2>3. hh \in Seq(Request) /\ Len(hh) = 2 /\ hh[1] = l /\ hh[2] = r
    BY <2>1 DEF hh
  <2>4. /\ t \in Seq(Request) /\ Len(t) = Len(hh) + Len(others) /\ Len(others) \in Nat
        /\ \A k \in 1..(Len(hh) + Len(others)) : t[k] = IF k <= Len(hh) THEN hh[k] ELSE others[k - Len(hh)]
    BY <2>2, <2>3, ConcatProperties, LenProperties
  <2>5. t[1] = l /\ t[2] = r
    BY <2>3, <2>4
  <2>6. ASSUME NEW k \in 1..Len(others)
        PROVE  t[k + 2] = others[k]
    <3>1. k + 2 \in 1..(2 + Len(others)) /\ ~(k + 2 <= 2) /\ (k + 2) - 2 = k
      BY <2>4
    <3>2. QED
      BY <2>3, <2>4, <3>1
  <2>7. QED
    BY <2>3, <2>4, <2>5, <2>6
<1> HIDE DEF t
<1>7. ASSUME NEW k \in 1..Len(t)
      PROVE  /\ t[k].from < t[k].to /\ t[k].to <= len
             /\ k + 1 \in 1..Len(t) => t[k + 1].from = t[k].to
  <2>1. CASE k = 1
    BY <1>1, <1>2, <1>5, <1>6, <2>1
  <2>2. CASE k = 2
    <3>1. t[k].from < t[k].to /\ t[k].to = c.to /\ t[k].to <= len
      BY <1>1, <1>2, <1>5, <1>6, <2>2
    <3>2. ASSUME k + 1 \in 1..Len(t) PROVE t[k + 1].from = t[k].to
      <4>1. 1 \in 1..Len(others) /\ k + 1 = 1 + 2
        BY <1>6, <2>2, <3>2
      <4>2. t[k + 1] = others[1] /\ others[1].from = c.to
        BY <1>6, <4>1 DEF InTurn
      <4>3. QED
        BY <3>1, <4>2
    <3>3. QED
      BY <3>1, <3>2
  <2>3. CASE k > 2
    <3> DEFINE i == k - 2
    <3>1. i \in 1..Len(others) /\ k = i + 2 /\ k + 1 = (i + 1) + 2
      BY <1>6, <2>3
    <3> HIDE DEF i
    <3>2. t[k] = others[i] /\ others[i].from < others[i].to /\ others[i].to <= len
      BY <1>6, <3>1 DEF InTurn
    <3>3. ASSUME k + 1 \in 1..Len(t) PROVE t[k + 1].from = t[k].to
      <4>1. i + 1 \in 1..Len(others)
        BY <1>6, <3>1, <3>3
      <4>2. t[k + 1] = others[i + 1] /\ others[i + 1].from = others[i].to
        BY <1>6, <3>1, <4>1 DEF InTurn
      <4>3. QED
        BY <3>2, <4>2
    <3>4. QED
      BY <3>2, <3>3
  <2>4. QED
    BY <1>6, <2>1, <2>2, <2>3
<1>8. t[1].from = c.from
  BY <1>5, <1>6
<1>9. QED
  BY <1>6, <1>7, <1>8 DEF InTurn, t

\* The vectors of a request that was answered go behind those there are.
LEMMA AnswerGoesOn ==
  ASSUME JobTyped, CallOK, Asking, BatchTexts \in Seq(Seq(Nat)),
         NEW by \in Models \cup {NoneYet}
  PROVE  LET texts == TextsOf(Current)
             new == call.got \o [i \in DOMAIN texts |-> [of |-> texts[i], by |-> by]]
         IN  /\ new \in Seq(Vector) /\ Len(new) = Current.to /\ Len(new) <= Len(BatchTexts)
             /\ \A i \in 1..Len(new) : new[i].of = BatchTexts[i]
<1> DEFINE a == Current.from
           e == Current.to
           len == Len(BatchTexts)
           texts == TextsOf(Current)
           vs == [i \in DOMAIN texts |-> [of |-> texts[i], by |-> by]]
           got == call.got
           new == got \o vs
<1>1. /\ a \in Nat /\ e \in Nat /\ a < e /\ e <= len /\ a = Len(got) /\ len \in Nat
      /\ got \in Seq(Vector)
  BY CurrentIs, LenProperties DEF Request, JobTyped, Job, Call
<1>2. texts = SubSeq(BatchTexts, a + 1, e)
  BY DEF TextsOf
<1>3. \A i \in 1..Len(got) : got[i].of = BatchTexts[i]
  BY DEF CallOK, Asking, At
<1> HIDE DEF a, e, texts, got
<1>4. texts \in Seq(Seq(Nat)) /\ Len(texts) = e - a /\ \A i \in 1..(e - a) : texts[i] = BatchTexts[a + i]
  <2>1. a \in Nat /\ e \in Nat /\ a <= e /\ e <= Len(BatchTexts)
    BY <1>1
  <2>2. BatchTexts \in Seq(Seq(Nat))
    OBVIOUS
  <2> DEFINE S == Seq(Nat)
             b == BatchTexts
  <2>3. b \in Seq(S) /\ e <= Len(b)
    BY <2>1, <2>2
  <2> HIDE DEF len, S, b
  <2>4. LET t == SubSeq(b, a + 1, e) IN
        /\ t \in Seq(S) /\ Len(t) = e - a /\ DOMAIN t = 1..(e - a)
        /\ \A i \in 1..(e - a) : a + i \in 1..Len(b) /\ t[i] = b[a + i]
    BY <2>1, <2>3, CutIs, SMTT(60)
  <2>5. SubSeq(b, a + 1, e) \in Seq(S) /\ Len(SubSeq(b, a + 1, e)) = e - a
    BY <2>4, Zenon
  <2>6. \A i \in 1..(e - a) : SubSeq(b, a + 1, e)[i] = b[a + i]
    BY <2>4, Zenon
  <2>7. QED
    BY <1>2, <2>5, <2>6 DEF S, b
<1> DEFINE d == e - a
<1>5. d \in Nat /\ e = a + d
  BY <1>1
<1> HIDE DEF len
<1>6. vs \in Seq(Vector) /\ Len(vs) = d /\ \A i \in 1..d : vs[i].of = BatchTexts[a + i]
  <2>1. DOMAIN texts = 1..d /\ \A i \in 1..d : texts[i] \in Seq(Nat)
    BY <1>4, <1>5
  <2> HIDE DEF d
  <2>2. vs \in [1..d -> Vector]
    BY <2>1 DEF Vector
  <2>3. vs \in Seq(Vector) /\ Len(vs) = d
    BY <1>5, <2>2, IsASeq, LenProperties
  <2>4. \A i \in 1..d : vs[i].of = BatchTexts[a + i]
    BY <1>4, <2>1 DEF d
  <2>5. QED
    BY <2>3, <2>4
<1> HIDE DEF vs, d
<1>7. /\ new \in Seq(Vector) /\ Len(new) = a + d
      /\ \A i \in 1..(a + d) : new[i] = IF i <= a THEN got[i] ELSE vs[i - a]
  BY <1>1, <1>6, ConcatProperties
<1> HIDE DEF new
<1>8. ASSUME NEW i \in 1..Len(new)
      PROVE  new[i].of = BatchTexts[i]
  <2>1. CASE i <= a
    <3>1. i \in 1..Len(got) /\ new[i] = got[i]
      BY <1>1, <1>5, <1>7, <2>1
    <3>2. QED
      BY <1>3, <3>1
  <2>2. CASE ~(i <= a)
    <3>1. i - a \in 1..d /\ new[i] = vs[i - a] /\ a + (i - a) = i
      BY <1>1, <1>5, <1>7, <2>2
    <3>2. QED
      BY <1>6, <3>1
  <2>3. QED
    BY <2>1, <2>2
<1>9. QED
  BY <1>1, <1>5, <1>7, <1>8 DEF new, got, vs, texts, e, len

-----------------------------------------------------------------------------
(* What holds of a job while it goes on. *)

WorldTyped ==
  /\ file \in Seq(BOOLEAN) /\ Len(file) <= MaxFile
  /\ setting \in Models /\ cached \in Models \cup {NoneYet}
  /\ index = [k \in 0..MaxFile |-> index[k]]
  /\ \A k \in 0..MaxFile : index[k] = NoneYet \/ k <= Len(file)

\* The job's lines are lines of the file, in order, none of level INFO or DEBUG
\* if it skips those.
LinesOK ==
  /\ Rising(job.lines)
  /\ \A i \in 1..Len(job.lines) :
       job.lines[i] \in 1..Len(file) /\ ~(job.skips /\ file[job.lines[i]])

\* From the first batch to the query, the chunks are those of the job's lines.
ChunksOK ==
  job.at \in {"embed", "request", "index", "query"} =>
    job.mode = "rag" /\ job.chunks = RagChunks(job.lines)

\* The vectors are those of the first n chunks, in order.
Embedded(n) ==
  Len(vectors) = n /\ \A i \in 1..n : i \in 1..Len(job.chunks) /\ vectors[i].of = job.chunks[i]

VectorsOK ==
  /\ job.at = "read" => batch = 0 /\ vectors = <<>>
  /\ job.at \in {"embed", "request"} =>
       batch * BatchSize < Len(job.chunks) /\ (slipped \/ Embedded(batch * BatchSize))
  /\ job.at \in {"index", "query"} => slipped \/ Embedded(Len(job.chunks))

\* The job's collection is complete, and none has the name of a longer file.
IndexOK ==
  job.at = "query" =>
    \E k \in 0..Len(file) :
      index[k] = Entries /\ \A l \in 0..MaxFile : l > k => index[l] = NoneYet

PromptOK ==
  /\ job.at = "call" \/ (job.at = "ask" /\ job.mode = "rag") => Placed(prompt, job.lines)
  /\ job.at = "call" => Len(prompt) <= DirectMax

JobInv ==
  JobTyped /\ LinesOK /\ ChunksOK /\ VectorsOK /\ CallOK /\ IndexOK /\ PromptOK

RetrievalInv == WorldTyped /\ JobInv

\* Lines are only added to the file.
FileGrows == Len(file) <= Len(file') /\ \A i \in 1..Len(file) : file'[i] = file[i]

LEMMA ResolvedIs == WorldTyped => Resolved \in Models
BY DEF WorldTyped, Resolved, NoneYet

LEMMA WorldStep ==
  ASSUME WorldTyped, [RetrievalNext]_retrievalVars
  PROVE  WorldTyped' /\ FileGrows
<1>1. Len(file) \in Nat /\ MaxFile \in Nat /\ Len(file) \in 0..MaxFile
  BY RetrievalAssumption, LenProperties DEF WorldTyped
<1>2. CASE Grow
  <2>1. PICK low \in BOOLEAN : file' = Append(file, low)
    BY <1>2 DEF Grow
  <2>2. /\ file' \in Seq(BOOLEAN) /\ Len(file') = Len(file) + 1
        /\ \A i \in 1..Len(file) : file'[i] = file[i]
    BY <2>1, AppendProperties DEF WorldTyped
  <2>3. Len(file) < MaxFile /\ UNCHANGED <<setting, cached, index>>
    BY <1>2 DEF Grow, jobVars
  <2>4. \A k \in 0..MaxFile : k <= Len(file) => k <= Len(file')
    BY <1>1, <2>2
  <2>5. Len(file') <= MaxFile /\ Len(file) <= Len(file')
    BY <1>1, <2>2, <2>3
  <2>6. QED
    BY <2>2, <2>3, <2>4, <2>5 DEF WorldTyped, FileGrows
<1>3. CASE IndexChunks
  <2>1. UNCHANGED <<file, setting, cached>>
    BY <1>3 DEF IndexChunks, world
  <2>2. index' = index \/ index' = Ingest(Len(file))
    BY <1>3 DEF IndexChunks, Key
  <2>3. /\ index' = [k \in 0..MaxFile |-> index'[k]]
        /\ \A k \in 0..MaxFile : k # Len(file) => index'[k] = index[k]
    BY <1>1, <2>2 DEF Ingest, WorldTyped
  <2>4. \A k \in 0..MaxFile : index'[k] = NoneYet \/ k <= Len(file)
    BY <1>1, <2>3 DEF WorldTyped
  <2>5. QED
    BY <1>1, <2>1, <2>3, <2>4 DEF WorldTyped, FileGrows
<1>4. CASE \/ ChangeModel \/ Expire \/ CancelJob \/ StartJob \/ ReadFile \/ BeginBatch \/ RequestDone
           \/ RequestSplit \/ EmbedFails \/ EmbedSucceeds \/ Query \/ AskModel \/ Finish \/ Break
           \/ UNCHANGED retrievalVars
  <2>1. UNCHANGED <<file, index>>
    BY <1>4 DEF ChangeModel, Expire, CancelJob, StartJob, ReadFile, BeginBatch, RequestDone,
      RequestSplit, EmbedFails, EmbedSucceeds, Query, AskModel, Finish, Break, retrievalVars, world, jobVars
  <2>2. setting' \in Models
    BY <1>4 DEF ChangeModel, Expire, CancelJob, StartJob, ReadFile, BeginBatch, RequestDone,
      RequestSplit, EmbedFails, EmbedSucceeds, Query, AskModel, Finish, Break, retrievalVars, world,
      jobVars, WorldTyped
  <2>3. cached' = cached \/ cached' = NoneYet \/ Remember
    BY <1>4 DEF ChangeModel, Expire, CancelJob, StartJob, ReadFile, BeginBatch, RequestDone,
      RequestSplit, EmbedFails, EmbedSucceeds, Query, AskModel, Finish, Break, retrievalVars, world
  <2>4. cached' \in Models \cup {NoneYet}
    BY <2>3, ResolvedIs DEF Remember, WorldTyped
  <2>5. QED
    BY <1>1, <2>1, <2>2, <2>4 DEF WorldTyped, FileGrows
<1>5. QED
  BY <1>2, <1>3, <1>4 DEF RetrievalNext

\* The job's lines stay what they were while the file grows.
LEMMA LinesStay ==
  ASSUME WorldTyped, JobTyped, LinesOK, FileGrows, job'.lines = job.lines /\ job'.skips = job.skips, Len(file') \in Nat
  PROVE  LinesOK'
<1>1. Len(file) \in Nat
  BY DEF WorldTyped
<1>2. ASSUME NEW i \in 1..Len(job.lines)
      PROVE  job.lines[i] \in 1..Len(file') /\ ~(job.skips /\ file'[job.lines[i]])
  <2>1. job.lines[i] \in 1..Len(file) /\ ~(job.skips /\ file[job.lines[i]])
    BY DEF LinesOK
  <2>2. 1..Len(file) \subseteq 1..Len(file')
    BY <1>1 DEF FileGrows
  <2>3. QED
    BY <2>1, <2>2 DEF FileGrows
<1>3. QED
  BY <1>2 DEF LinesOK, Rising

\* A job that is at its end, however it ended.
LEMMA JobRests ==
  ASSUME RetrievalInv, WorldTyped', FileGrows, JobTyped', job'.lines = job.lines /\ job'.skips = job.skips, job'.at = "idle"
  PROVE  JobInv'
<1>1. LinesOK'
  BY LinesStay DEF RetrievalInv, JobInv, WorldTyped
<1>2. ChunksOK' /\ VectorsOK' /\ CallOK' /\ IndexOK' /\ PromptOK'
  BY DEF ChunksOK, VectorsOK, CallOK, IndexOK, PromptOK
<1>3. QED
  BY <1>1, <1>2 DEF JobInv

\* A job while something else happens.
LEMMA JobStays ==
  ASSUME RetrievalInv, WorldTyped', FileGrows, UNCHANGED <<batch, call, vectors, index, prompt, slipped>>,
         \/ job' = job
         \/ \E status \in Statuses : job' = [job EXCEPT !.status = status]
  PROVE  JobInv'
<1>1. /\ job' \in Job
      /\ job'.at = job.at /\ job'.lines = job.lines /\ job'.skips = job.skips /\ job'.chunks = job.chunks /\ job'.mode = job.mode
  BY DEF RetrievalInv, JobInv, JobTyped, Job, Call
<1>2. JobTyped'
  BY <1>1 DEF RetrievalInv, JobInv, JobTyped, Job, Call
<1>3. LinesOK'
  BY <1>1, LinesStay DEF RetrievalInv, JobInv, WorldTyped
<1>4. BatchTexts' = BatchTexts /\ Entries' = Entries
  BY <1>1 DEF BatchTexts, Entries
<1>5. ChunksOK' /\ VectorsOK' /\ CallOK'
  BY <1>1, <1>4 DEF RetrievalInv, JobInv, ChunksOK, VectorsOK, CallOK, Embedded
<1>6. PromptOK'
  BY <1>1 DEF RetrievalInv, JobInv, PromptOK
<1>7. IndexOK'
  <2>1. Len(file) \in Nat /\ Len(file') \in Nat /\ Len(file) <= Len(file')
    BY DEF RetrievalInv, WorldTyped, FileGrows
  <2>2. \A k \in 0..Len(file) : k \in 0..Len(file')
    BY <2>1
  <2>3. QED
    BY <1>1, <1>4, <2>2 DEF RetrievalInv, JobInv, IndexOK
<1>8. QED
  BY <1>2, <1>3, <1>5, <1>6, <1>7 DEF JobInv

-----------------------------------------------------------------------------
(* The steps. *)

LEMMA NoCallIs == NoCall \in Call
<1>1. <<>> \in Seq(Request) /\ <<>> \in Seq(Vector)
  OBVIOUS
<1>2. QED
  BY <1>1 DEF NoCall, Call

LEMMA OutsideStep ==
  ASSUME RetrievalInv, WorldTyped', FileGrows,
         Grow \/ ChangeModel \/ Expire \/ CancelJob \/ UNCHANGED retrievalVars
  PROVE  JobInv'
<1>1. UNCHANGED <<batch, call, vectors, index, prompt, slipped>>
  BY DEF Grow, ChangeModel, Expire, CancelJob, retrievalVars, jobVars
<1>2. job' = job \/ job' = [job EXCEPT !.status = "cancelled"]
  BY DEF Grow, ChangeModel, Expire, CancelJob, retrievalVars, jobVars
<1>3. "cancelled" \in Statuses
  BY DEF Statuses
<1>4. QED
  BY <1>1, <1>2, <1>3, JobStays

\* A job ends, whatever the reason: the rest of it is left as it is.
LEMMA JobEnds ==
  ASSUME RetrievalInv, WorldTyped', FileGrows,
         \/ job' = [job EXCEPT !.at = "idle"]
         \/ \E status \in Statuses : job' = [job EXCEPT !.at = "idle", !.status = status],
         UNCHANGED <<batch, vectors, prompt>>, call' = call \/ call' = NoCall
  PROVE  JobInv'
<1>1. /\ job' \in Job
      /\ job'.at = "idle" /\ job'.lines = job.lines /\ job'.skips = job.skips
  BY DEF RetrievalInv, JobInv, JobTyped, Job, Places
<1>2. NoCall \in Call
  BY NoCallIs
<1>3. JobTyped'
  BY <1>1, <1>2 DEF RetrievalInv, JobInv, JobTyped, Job, Call
<1>4. QED
  BY <1>1, <1>3, JobRests

LEMMA EndStep ==
  ASSUME RetrievalInv, WorldTyped', FileGrows, Finish \/ Break
  PROVE  JobInv'
<1>0. "done" \in Statuses /\ "failed" \in Statuses
  BY DEF Statuses
<1>1. CASE Finish
  <2>1. job.status \in Statuses
    BY DEF RetrievalInv, JobInv, JobTyped, Job, Call
  <2>2. job' = [job EXCEPT !.at = "idle", !.status = "done"] \/ job' = [job EXCEPT !.at = "idle", !.status = job.status]
    BY <1>1 DEF Finish
  <2>3. QED
    BY <1>0, <1>1, <2>1, <2>2, JobEnds DEF Finish, world
<1>2. CASE Break
  <2>1. job' = [job EXCEPT !.at = "idle", !.status = "failed"]
    BY <1>2 DEF Break, EndFailed
  <2>2. QED
    BY <1>0, <1>2, <2>1, JobEnds DEF Break, world
<1>3. QED
  BY <1>1, <1>2

LEMMA StartStep ==
  ASSUME RetrievalInv, WorldTyped', FileGrows, StartJob
  PROVE  JobInv'
<1>1. job' = [status |-> "running", at |-> "read", lines |-> <<>>, chunks |-> <<>>, mode |-> "none",
              skips |-> FALSE]
  BY DEF StartJob, NoJob
<1>2. prompt' = <<>> /\ vectors' = <<>> /\ call' = NoCall /\ batch' = 0
  BY DEF StartJob
<1>3. JobTyped'
  <2>1. NoCall \in Call
    BY NoCallIs
  <2>2. QED
    BY <1>1, <1>2, <2>1 DEF JobTyped, Job, Statuses, Places, Modes
<1>4. LinesOK'
  BY <1>1 DEF LinesOK, Rising
<1>5. ChunksOK' /\ VectorsOK' /\ CallOK' /\ IndexOK' /\ PromptOK'
  BY <1>1, <1>2 DEF ChunksOK, VectorsOK, CallOK, IndexOK, PromptOK
<1>6. QED
  BY <1>3, <1>4, <1>5 DEF JobInv

\* The lines that are kept.
LEMMA KeptIs ==
  ASSUME WorldTyped, NEW start \in Nat, start > 0, NEW to \in Nat, NEW skips \in BOOLEAN
  PROVE  LET ls == Kept(start, to, skips) IN
         /\ ls \in Seq(Nat) /\ Rising(ls)
         /\ \A i \in 1..Len(ls) : ls[i] \in 1..Len(file) /\ ~(skips /\ file[ls[i]])
<1> DEFINE E == {n \in start..Lesser(to, Len(file)) : ~(skips /\ file[n])}
           ls == InOrder(E)
<1>1. Kept(start, to, skips) = ls
  BY DEF Kept
<1>2. Len(file) \in Nat
  BY DEF WorldTyped
<1>3. E \in SUBSET (1..Len(file)) /\ \A n \in E : ~(skips /\ file[n])
  BY <1>2 DEF Lesser
<1> HIDE DEF E
<1>4. /\ ls \in Seq(Nat) /\ DOMAIN ls = 1..Cardinality(E) /\ Rising(ls)
      /\ \A n \in 1..Cardinality(E) : NthOf(E, n) \in E
  BY <1>2, <1>3, InOrderIs
<1>5. \A i \in DOMAIN ls : ls[i] = NthOf(E, i)
  BY <1>4 DEF InOrder
<1>6. \A i \in 1..Len(ls) : ls[i] \in E
  <2>1. 1..Len(ls) = DOMAIN ls
    BY <1>4
  <2>2. QED
    BY <1>4, <1>5, <2>1
<1>7. QED
  BY <1>1, <1>3, <1>4, <1>6

\* What a job reads.
LEMMA ReadEffect ==
  ASSUME ReadFile, ~EndCancelled
  PROVE  \E ls : \E size : \E skips \in BOOLEAN : \E start \in 1..(Len(file) + 1) : \E to \in {Len(file), LoadMax} :
           ls = Kept(start, to, skips) /\ job' = Loaded(ls, size, skips)
<1>1. PICK window \in BOOLEAN, skips \in BOOLEAN, start \in 1..(Len(file) + 1) :
        LET ls == Kept(start, IF window THEN Len(file) ELSE LoadMax, skips)
            size == IF window THEN Len(ls) ELSE Len(file)
        IN  job' = Loaded(ls, size, skips)
  BY DEF ReadFile
<1> DEFINE to == IF window THEN Len(file) ELSE LoadMax
           ls == Kept(start, to, skips)
           size == IF window THEN Len(ls) ELSE Len(file)
<1>2. to \in {Len(file), LoadMax} /\ job' = Loaded(ls, size, skips)
  BY <1>1
<1> HIDE DEF to, size
<1>3. QED
  BY <1>2

LEMMA LoadedIs ==
  ASSUME JobTyped, NEW ls \in Seq(Nat), NEW size, NEW skips \in BOOLEAN, job' = Loaded(ls, size, skips)
  PROVE  /\ job' \in Job /\ job'.lines = ls /\ job'.skips = skips
         /\ \/ job'.at = "ask" /\ job'.mode = "direct" /\ job'.chunks = <<>>
            \/ /\ job'.at = "embed" /\ job'.mode = "rag" /\ job'.chunks # <<>>
               /\ job'.chunks = RagChunks(ls)
<1> DEFINE cs == IF size <= DirectMax THEN <<>> ELSE RagChunks(ls)
<1>1. RagChunks(ls) \in Seq(Seq(Nat))
  BY RagChunksAre
<1>2. cs \in Seq(Seq(Nat)) /\ (cs = <<>> \/ cs = RagChunks(ls))
  BY <1>1
<1>3. job' = [job EXCEPT !.lines = ls, !.skips = skips, !.chunks = cs,
                         !.mode = IF cs = <<>> THEN "direct" ELSE "rag",
                         !.at = IF cs = <<>> THEN "ask" ELSE "embed"]
  BY DEF Loaded
<1> HIDE DEF cs
<1>4. CASE cs = <<>>
  <2>1. job' = [job EXCEPT !.lines = ls, !.skips = skips, !.chunks = cs, !.mode = "direct", !.at = "ask"]
    BY <1>3, <1>4
  <2>2. QED
    BY <1>2, <1>4, <2>1 DEF JobTyped, Job, Places, Modes
<1>5. CASE cs # <<>>
  <2>1. job' = [job EXCEPT !.lines = ls, !.skips = skips, !.chunks = cs, !.mode = "rag", !.at = "embed"]
    BY <1>3, <1>5
  <2>2. QED
    BY <1>2, <1>5, <2>1 DEF JobTyped, Job, Places, Modes
<1>6. QED
  BY <1>4, <1>5

LEMMA ReadStep ==
  ASSUME RetrievalInv, WorldTyped', FileGrows, ReadFile
  PROVE  JobInv'
<1>0. UNCHANGED <<file, batch, call, vectors, index, prompt, slipped>> /\ job.at = "read"
  BY DEF ReadFile, world, At
<1>1. CASE EndCancelled
  BY <1>0, <1>1, JobEnds DEF EndCancelled
<1>2. CASE ~EndCancelled
  <2>1. PICK ls : \E size : \E skips \in BOOLEAN : \E start \in 1..(Len(file) + 1) : \E to \in {Len(file), LoadMax} :
           ls = Kept(start, to, skips) /\ job' = Loaded(ls, size, skips)
    BY <1>2, ReadEffect
  <2>2. PICK size : \E skips \in BOOLEAN : \E start \in 1..(Len(file) + 1) : \E to \in {Len(file), LoadMax} :
           ls = Kept(start, to, skips) /\ job' = Loaded(ls, size, skips)
    BY <2>1
  <2>3. PICK skips \in BOOLEAN, start \in 1..(Len(file) + 1), to \in {Len(file), LoadMax} :
           ls = Kept(start, to, skips) /\ job' = Loaded(ls, size, skips)
    BY <2>2
  <2>4. start \in Nat /\ start > 0 /\ to \in Nat
    BY RetrievalAssumption DEF RetrievalInv, WorldTyped
  <2>5. /\ ls \in Seq(Nat) /\ Rising(ls)
        /\ \A i \in 1..Len(ls) : ls[i] \in 1..Len(file) /\ ~(skips /\ file[ls[i]])
    BY <2>3, <2>4, KeptIs DEF RetrievalInv
  <2>6. /\ job' \in Job /\ job'.lines = ls /\ job'.skips = skips
        /\ \/ job'.at = "ask" /\ job'.mode = "direct" /\ job'.chunks = <<>>
           \/ /\ job'.at = "embed" /\ job'.mode = "rag" /\ job'.chunks # <<>>
              /\ job'.chunks = RagChunks(ls)
    BY <2>3, <2>5, LoadedIs DEF RetrievalInv, JobInv
  <2>7. JobTyped'
    BY <1>0, <2>6 DEF RetrievalInv, JobInv, JobTyped, Job, Call
  <2>8. LinesOK'
    BY <1>0, <2>5, <2>6 DEF LinesOK
  <2>9. batch = 0 /\ vectors = <<>>
    BY <1>0 DEF RetrievalInv, JobInv, VectorsOK
  <2>10. CASE job'.at = "ask"
    BY <2>6, <2>7, <2>8, <2>10 DEF JobInv, ChunksOK, VectorsOK, CallOK, IndexOK, PromptOK
  <2>11. CASE job'.at = "embed"
    <3>1. job'.mode = "rag" /\ job'.chunks = RagChunks(job'.lines) /\ job'.chunks # <<>>
      BY <2>6, <2>11
    <3>2. ChunksOK'
      BY <3>1 DEF ChunksOK
    <3>3. Len(job'.chunks) > 0 /\ 0 * BatchSize = 0 /\ Len(<<>>) = 0
      <4>1. job'.chunks \in Seq(Seq(Nat))
        BY <2>6 DEF Job
      <4>2. Len(job'.chunks) \in Nat /\ Len(job'.chunks) # 0
        BY <3>1, <4>1, EmptySeq, LenProperties
      <4>3. BatchSize \in Nat /\ Len(<<>>) = 0
        BY RetrievalAssumption
      <4>4. QED
        BY <4>2, <4>3
    <3>4. Embedded(0)'
      BY <1>0, <2>9, <3>3 DEF Embedded
    <3>5. VectorsOK'
      BY <1>0, <2>9, <2>11, <3>3, <3>4 DEF VectorsOK
    <3>6. CallOK' /\ IndexOK' /\ PromptOK'
      BY <2>11, <3>1 DEF CallOK, IndexOK, PromptOK
    <3>7. QED
      BY <2>7, <2>8, <3>2, <3>5, <3>6 DEF JobInv
  <2>12. QED
    BY <2>6, <2>10, <2>11
<1>3. QED
  BY <1>1, <1>2

LEMMA BeginStep ==
  ASSUME RetrievalInv, WorldTyped', FileGrows, BeginBatch
  PROVE  JobInv'
<1>0. /\ UNCHANGED <<file, batch, vectors, index, prompt, slipped>> /\ job.at = "embed"
      /\ job' = [job EXCEPT !.at = "request"] /\ call' = [NoCall EXCEPT !.model = Resolved]
  BY DEF BeginBatch, world, At
<1>1. call' = [model |-> Resolved, left |-> <<>>, got |-> <<>>] /\ Resolved \in Models
  BY <1>0, ResolvedIs DEF NoCall, RetrievalInv
<1>2. /\ job'.at = "request" /\ job'.lines = job.lines /\ job'.skips = job.skips /\ job'.chunks = job.chunks /\ job'.mode = job.mode
      /\ job' \in Job
  BY <1>0 DEF RetrievalInv, JobInv, JobTyped, Job, Places
<1>3. JobTyped'
  <2>1. <<>> \in Seq(Request) /\ <<>> \in Seq(Vector)
    OBVIOUS
  <2>2. call' \in Call
    BY <1>1, <2>1 DEF Call
  <2>3. QED
    BY <1>0, <1>2, <2>2 DEF RetrievalInv, JobInv, JobTyped
<1>4. LinesOK'
  BY <1>2, LinesStay DEF RetrievalInv, JobInv, WorldTyped
<1>5. ChunksOK' /\ VectorsOK' /\ IndexOK' /\ PromptOK'
  BY <1>0, <1>2 DEF RetrievalInv, JobInv, ChunksOK, VectorsOK, IndexOK, PromptOK, Embedded
<1>6. CallOK'
  <2>1. BatchTexts' = BatchTexts
    BY <1>0, <1>2 DEF BatchTexts
  <2>2. BatchTexts \in Seq(Seq(Nat)) /\ Len(BatchTexts) \in Nat
    BY <1>0, BatchIs DEF RetrievalInv, JobInv, VectorsOK
  <2>3. call'.left = <<>> /\ call'.got = <<>> /\ Len(<<>>) = 0
    BY <1>1
  <2>4. 0 <= Len(BatchTexts)
    BY <2>2
  <2>5. QED
    BY <2>1, <2>3, <2>4 DEF CallOK, InTurn
<1>7. QED
  BY <1>3, <1>4, <1>5, <1>6 DEF JobInv

\* The texts of the batch while it is asked for.
LEMMA TextsKnown ==
  ASSUME RetrievalInv, job.at \in {"embed", "request"}
  PROVE  BatchTexts \in Seq(Seq(Nat)) /\ Len(BatchTexts) \in Nat
BY BatchIs DEF RetrievalInv, JobInv, VectorsOK

LEMMA DoneStep ==
  ASSUME RetrievalInv, WorldTyped', FileGrows, RequestDone
  PROVE  JobInv'
<1> DEFINE by == IF provider = "ollama" THEN call.model ELSE setting
           texts == TextsOf(Current)
           new == call.got \o [i \in DOMAIN texts |-> [of |-> texts[i], by |-> by]]
<1>0. /\ UNCHANGED <<file, job, batch, vectors, index, prompt, slipped>> /\ job.at = "request" /\ Asking
      /\ call' = [call EXCEPT !.left = Others, !.got = new]
  BY DEF RequestDone, world, At, Asking
<1>1. BatchTexts \in Seq(Seq(Nat)) /\ JobTyped /\ CallOK
  BY <1>0, TextsKnown DEF RetrievalInv, JobInv
<1>2. by \in Models \cup {NoneYet}
  BY DEF RetrievalInv, WorldTyped, JobInv, JobTyped, Job, Call
<1>3. /\ new \in Seq(Vector) /\ Len(new) = Current.to /\ Len(new) <= Len(BatchTexts)
      /\ \A i \in 1..Len(new) : new[i].of = BatchTexts[i]
  <2> HIDE DEF by
  <2>1. QED
    BY <1>0, <1>1, <1>2, AnswerGoesOn
<1>4. Others \in Seq(Request) /\ InTurn(Others, Current.to, Len(BatchTexts))
  BY <1>0, <1>1, CurrentIs
<1> HIDE DEF new
<1>5. /\ call' \in Call
      /\ call'.left = Others /\ call'.got = new
  BY <1>0, <1>1, <1>3, <1>4 DEF JobTyped, Job, Call
<1>6. JobTyped'
  BY <1>0, <1>1, <1>5 DEF JobTyped, Job, Call
<1>7. LinesOK'
  BY <1>0 DEF RetrievalInv, JobInv, LinesOK
<1>8. ChunksOK' /\ VectorsOK' /\ IndexOK' /\ PromptOK'
  BY <1>0 DEF RetrievalInv, JobInv, ChunksOK, VectorsOK, IndexOK, PromptOK, Embedded
<1>9. CallOK'
  <2>1. BatchTexts' = BatchTexts
    BY <1>0 DEF BatchTexts
  <2>2. QED
    BY <1>3, <1>4, <1>5, <2>1 DEF CallOK
<1>10. QED
  BY <1>6, <1>7, <1>8, <1>9 DEF JobInv

LEMMA SplitStep ==
  ASSUME RetrievalInv, WorldTyped', FileGrows, RequestSplit
  PROVE  JobInv'
<1>0. /\ UNCHANGED <<file, job, batch, vectors, index, prompt, slipped>> /\ job.at = "request" /\ Asking
      /\ call' = [call EXCEPT !.left = Halves(Current) \o Others] /\ ~Single
  BY DEF RequestSplit, world, At, Asking
<1>1. BatchTexts \in Seq(Seq(Nat)) /\ Len(BatchTexts) \in Nat /\ JobTyped /\ CallOK
  BY <1>0, TextsKnown DEF RetrievalInv, JobInv
<1>2. /\ Current \in Request /\ Current.from = Len(call.got)
      /\ Current.from < Current.to /\ Current.to <= Len(BatchTexts)
      /\ Others \in Seq(Request) /\ InTurn(Others, Current.to, Len(BatchTexts))
  BY <1>0, <1>1, CurrentIs
<1> DEFINE left == Halves(Current) \o Others
<1>3. left \in Seq(Request) /\ InTurn(left, Len(call.got), Len(BatchTexts))
  BY <1>0, <1>1, <1>2, SplitInTurn DEF Single
<1> HIDE DEF left
<1>4. call' = [call EXCEPT !.left = left]
  BY <1>0 DEF left
<1>5. /\ call' \in Call
      /\ call'.left = left /\ call'.got = call.got
  BY <1>1, <1>3, <1>4 DEF JobTyped, Job, Call
<1>6. JobTyped'
  BY <1>0, <1>1, <1>5 DEF JobTyped, Job, Call
<1>7. LinesOK'
  BY <1>0 DEF RetrievalInv, JobInv, LinesOK
<1>8. ChunksOK' /\ VectorsOK' /\ IndexOK' /\ PromptOK'
  BY <1>0 DEF RetrievalInv, JobInv, ChunksOK, VectorsOK, IndexOK, PromptOK, Embedded
<1>9. CallOK'
  <2>1. BatchTexts' = BatchTexts
    BY <1>0 DEF BatchTexts
  <2>2. QED
    BY <1>0, <1>1, <1>3, <1>5, <2>1 DEF CallOK
<1>10. QED
  BY <1>6, <1>7, <1>8, <1>9 DEF JobInv

\* The batch is tried again, or given up.
LEMMA TryAgainStep ==
  ASSUME RetrievalInv, WorldTyped', FileGrows, TryAgain, job.at \in {"embed", "request"},
         UNCHANGED <<batch, index, prompt>>, vectors' \in Seq(Vector),
         slipped' = TRUE \/ (slipped' = slipped /\ vectors' = vectors)
  PROVE  JobInv'
<1>0. JobTyped
  BY DEF RetrievalInv, JobInv
<1>1. call' = NoCall /\ call' \in Call
  BY NoCallIs DEF TryAgain
<1>2. CASE job' = [job EXCEPT !.at = "embed"]
  <2>1. /\ job' \in Job /\ job'.at = "embed" /\ job'.lines = job.lines /\ job'.skips = job.skips /\ job'.chunks = job.chunks
        /\ job'.mode = job.mode
    BY <1>0, <1>2 DEF JobTyped, Job, Places
  <2>2. JobTyped'
    BY <1>0, <1>1, <2>1 DEF JobTyped
  <2>3. LinesOK'
    BY <2>1, LinesStay DEF RetrievalInv, JobInv, WorldTyped
  <2>4. ChunksOK' /\ CallOK' /\ IndexOK' /\ PromptOK'
    BY <2>1 DEF RetrievalInv, JobInv, ChunksOK, CallOK, IndexOK, PromptOK
  <2>5. batch * BatchSize < Len(job.chunks) /\ (slipped \/ Embedded(batch * BatchSize))
    BY DEF RetrievalInv, JobInv, VectorsOK
  <2>6. VectorsOK'
    <3>1. CASE slipped' = TRUE
      BY <2>1, <2>5, <3>1 DEF VectorsOK
    <3>2. CASE slipped' = slipped /\ vectors' = vectors
      BY <2>1, <2>5, <3>2 DEF VectorsOK, Embedded
    <3>3. QED
      BY <3>1, <3>2
  <2>7. QED
    BY <2>2, <2>3, <2>4, <2>6 DEF JobInv
<1>3. CASE EndFailed
  <2>1. job' \in Job /\ job'.at = "idle" /\ job'.lines = job.lines /\ job'.skips = job.skips
    BY <1>0, <1>3 DEF EndFailed, JobTyped, Job, Places, Statuses
  <2>2. JobTyped'
    BY <1>0, <1>1, <2>1 DEF JobTyped
  <2>3. QED
    BY <2>1, <2>2, JobRests
<1>4. QED
  BY <1>2, <1>3 DEF TryAgain

LEMMA FailStep ==
  ASSUME RetrievalInv, WorldTyped', FileGrows, EmbedFails
  PROVE  JobInv'
<1>1. job.at \in {"embed", "request"}
  BY DEF EmbedFails, Asking, At
<1>2. vectors \in Seq(Vector)
  BY DEF RetrievalInv, JobInv, JobTyped
<1>3. QED
  BY <1>1, <1>2, TryAgainStep DEF EmbedFails

\* The vectors of a batch go behind those of the batches before.
LEMMA BatchGoesOn ==
  ASSUME RetrievalInv, job.at = "request", ~Asking
  PROVE  LET b == batch * BatchSize
             n == Len(call.got)
             new == vectors \o call.got
         IN  /\ new \in Seq(Vector) /\ b \in Nat /\ n \in Nat
             /\ slipped \/ Len(new) = b + n
             /\ slipped \/ \A i \in 1..(b + n) : i \in 1..Len(job.chunks) /\ new[i].of = job.chunks[i]
             /\ IF LastBatch THEN b + n = Len(job.chunks)
                             ELSE b + n = (batch + 1) * BatchSize /\ b + n < Len(job.chunks)
<1> DEFINE b == batch * BatchSize
           got == call.got
           n == Len(got)
           len == Len(job.chunks)
           new == vectors \o got
           vs == vectors
<1>0. JobTyped /\ CallOK /\ b < len /\ (slipped \/ Embedded(b))
  BY DEF RetrievalInv, JobInv, VectorsOK
<1>1. /\ b \in Nat /\ BatchSize \in Nat /\ len \in Nat /\ (batch + 1) * BatchSize = b + BatchSize
      /\ Len(BatchTexts) \in Nat /\ Len(BatchTexts) = Lesser(b + BatchSize, len) - b
      /\ \A i \in 1..Len(BatchTexts) : b + i \in 1..len /\ BatchTexts[i] = job.chunks[b + i]
  BY <1>0, BatchIs
<1>2. vs \in Seq(Vector) /\ got \in Seq(Vector) /\ n \in Nat
  BY <1>0, LenProperties DEF JobTyped, Call
<1>3. n = Len(BatchTexts)
  <2>1. n <= Len(BatchTexts)
    BY <1>0 DEF CallOK
  <2>2. ~(n < Len(BatchTexts))
    BY DEF Asking, At
  <2>3. QED
    BY <1>1, <1>2, <2>1, <2>2
<1>4. \A i \in 1..n : got[i].of = job.chunks[b + i] /\ b + i \in 1..len
  <2>1. \A i \in 1..n : got[i].of = BatchTexts[i]
    BY <1>0 DEF CallOK
  <2>2. QED
    BY <1>1, <1>3, <2>1
<1>5. ~slipped => Len(vs) = b /\ \A i \in 1..b : i \in 1..len /\ vs[i].of = job.chunks[i]
  BY <1>0 DEF Embedded
<1>6. IF LastBatch THEN b + n = len ELSE b + n = b + BatchSize /\ b + n < len
  <2>1. LastBatch <=> b + BatchSize >= len
    BY <1>1 DEF LastBatch
  <2> HIDE DEF b, n, len
  <2>2. CASE b + BatchSize >= len
    <3>1. Lesser(b + BatchSize, len) = len
      BY <1>0, <1>1, <2>2 DEF Lesser
    <3>2. QED
      BY <1>1, <1>2, <1>3, <2>1, <2>2, <3>1
  <2>3. CASE ~(b + BatchSize >= len)
    <3>1. Lesser(b + BatchSize, len) = b + BatchSize
      BY <1>0, <1>1, <2>3 DEF Lesser
    <3>2. n = (b + BatchSize) - b
      BY <1>1, <1>3, <3>1
    <3>3. b + n = b + BatchSize
      BY <1>1, <3>2
    <3>4. b + n < len
      BY <1>1, <2>3, <3>3
    <3>5. QED
      BY <2>1, <2>3, <3>3, <3>4
  <2>4. QED
    BY <2>2, <2>3
<1> HIDE DEF b, got, len, vs
<1>7. /\ new \in Seq(Vector) /\ Len(new) = Len(vs) + n
      /\ \A i \in 1..(Len(vs) + n) : new[i] = IF i <= Len(vs) THEN vs[i] ELSE got[i - Len(vs)]
  BY <1>2, ConcatProperties DEF vs
<1> HIDE DEF new, n
<1>8. ASSUME ~slipped
      PROVE  Len(new) = b + n /\ \A i \in 1..(b + n) : i \in 1..len /\ new[i].of = job.chunks[i]
  <2>1. Len(vs) = b
    BY <1>5, <1>8
  <2>2. ASSUME NEW i \in 1..(b + n) PROVE i \in 1..len /\ new[i].of = job.chunks[i]
    <3>1. CASE i <= b
      <4>1. i \in 1..b /\ new[i] = vs[i]
        BY <1>1, <1>2, <1>7, <2>1, <3>1
      <4>2. QED
        BY <1>5, <1>8, <4>1
    <3>2. CASE ~(i <= b)
      <4>1. i - b \in 1..n /\ b + (i - b) = i
        BY <1>1, <1>2, <3>2
      <4>2. new[i] = got[i - b]
        BY <1>7, <2>1, <3>2
      <4>3. QED
        BY <1>4, <4>1, <4>2
    <3>3. QED
      BY <3>1, <3>2
  <2>3. QED
    BY <1>7, <2>1, <2>2
<1>9. QED
  BY <1>1, <1>2, <1>6, <1>7, <1>8 DEF b, n, len, got, new, vs

LEMMA SucceedStep ==
  ASSUME RetrievalInv, WorldTyped', FileGrows, EmbedSucceeds
  PROVE  JobInv'
<1> DEFINE b == batch * BatchSize
           n == Len(call.got)
           new == vectors \o call.got
<1>0. JobTyped /\ job.at = "request" /\ ~Asking /\ UNCHANGED <<file, index, prompt>> /\ vectors' = new
  BY DEF RetrievalInv, JobInv, EmbedSucceeds, At, world
<1>1. /\ new \in Seq(Vector) /\ b \in Nat /\ n \in Nat
      /\ slipped \/ Len(new) = b + n
      /\ slipped \/ \A i \in 1..(b + n) : i \in 1..Len(job.chunks) /\ new[i].of = job.chunks[i]
      /\ IF LastBatch THEN b + n = Len(job.chunks)
                      ELSE b + n = (batch + 1) * BatchSize /\ b + n < Len(job.chunks)
  BY <1>0, BatchGoesOn
<1> HIDE DEF b, n, new
<1>2. CASE TryAgain /\ slipped' = TRUE /\ UNCHANGED batch
  BY <1>0, <1>1, <1>2, TryAgainStep
<1>3. CASE /\ batch' = batch + 1 /\ call' = NoCall
           /\ job' = [job EXCEPT !.at = IF LastBatch THEN "index" ELSE "embed"]
           /\ UNCHANGED slipped
  <2>1. /\ job' \in Job /\ job'.lines = job.lines /\ job'.skips = job.skips /\ job'.chunks = job.chunks /\ job'.mode = job.mode
        /\ job'.at = IF LastBatch THEN "index" ELSE "embed"
    BY <1>0, <1>3 DEF JobTyped, Job, Places
  <2>2. JobTyped'
    <3>1. batch' \in Nat
      BY <1>0, <1>3 DEF JobTyped
    <3>2. QED
      BY <1>0, <1>1, <1>3, <2>1, <3>1, NoCallIs DEF JobTyped
  <2>3. LinesOK'
    BY <2>1, LinesStay DEF RetrievalInv, JobInv, WorldTyped
  <2>4. ChunksOK' /\ CallOK' /\ IndexOK' /\ PromptOK'
    BY <1>0, <2>1 DEF RetrievalInv, JobInv, ChunksOK, CallOK, IndexOK, PromptOK
  <2>5. slipped \/ (Len(vectors') = b + n
                    /\ \A i \in 1..(b + n) : i \in 1..Len(job'.chunks) /\ vectors'[i].of = job'.chunks[i])
    BY <1>0, <1>1, <2>1
  <2>6. CASE LastBatch
    <3>1. job'.at = "index" /\ b + n = Len(job'.chunks)
      BY <1>1, <2>1, <2>6
    <3>2. slipped' \/ Embedded(Len(job.chunks))'
      BY <1>3, <2>5, <3>1 DEF Embedded
    <3>3. VectorsOK'
      BY <3>1, <3>2 DEF VectorsOK
    <3>4. QED
      BY <2>2, <2>3, <2>4, <3>3 DEF JobInv
  <2>7. CASE ~LastBatch
    <3>1. job'.at = "embed" /\ b + n = batch' * BatchSize /\ b + n < Len(job'.chunks)
      BY <1>1, <1>3, <2>1, <2>7
    <3>2. slipped' \/ Embedded(batch * BatchSize)'
      BY <1>3, <2>5, <3>1 DEF Embedded
    <3>3. VectorsOK'
      BY <3>1, <3>2 DEF VectorsOK
    <3>4. QED
      BY <2>2, <2>3, <2>4, <3>3 DEF JobInv
  <2>8. QED
    BY <2>6, <2>7
<1>4. QED
  BY <1>2, <1>3 DEF EmbedSucceeds

\* All slices hold all entries.
LEMMA SlicesCover ==
  ASSUME JobTyped, \A k \in Slices : Fits(k), NEW key \in 0..MaxFile, WorldTyped
  PROVE  /\ Ingest(key)[key] = Entries
         /\ \A l \in 0..MaxFile : l # key => Ingest(key)[l] = index[l]
<1> DEFINE len == Len(job.chunks)
           m == (len + AddBatch - 1) \div AddBatch
           added == {k \in Slices : \A l \in 1..k : Fits(l)}
           T == {Entries[i] : i \in 1..len}
<1>1. len \in Nat /\ AddBatch \in Nat /\ AddBatch > 0 /\ job.chunks \in Seq(Seq(Nat))
  BY RetrievalAssumption, JobIs
<1>2. Entries = [i \in 1..len |-> [text |-> job.chunks[i], vector |-> vectors[i]]]
  BY <1>1 DEF Entries
<1>3. Entries \in Seq(T) /\ Len(Entries) = len
  <2>1. Entries \in [1..len -> T]
    BY <1>2
  <2> HIDE DEF T, len
  <2>2. QED
    BY <1>1, <2>1, IsASeq, LenProperties
<1>4. Slices = 1..m
  BY DEF Slices
<1> HIDE DEF len, T
<1>5. m \in Nat /\ m * AddBatch \in Nat /\ len + AddBatch - 1 < m * AddBatch + AddBatch
  <2>1. len + AddBatch - 1 \in Nat
    BY <1>1
  <2>2. QED
    BY <1>1, <2>1, DivIs
<1> HIDE DEF m
<1>6. added = 1..m
  <2>1. ASSUME NEW k \in 1..m, NEW l \in 1..k PROVE l \in 1..m
    BY <1>5
  <2>2. \A k \in 1..m : \A l \in 1..k : Fits(l)
    BY <1>4, <2>1
  <2>3. QED
    BY <1>4, <2>2
<1>7. Cardinality(added) = m
  <2>1. 1 \in Int /\ m \in Int
    BY <1>5
  <2>2. Cardinality(1..m) = m
    BY <1>5, <2>1, FS_Interval
  <2>3. QED
    BY <1>6, <2>2
<1> HIDE DEF added
<1>8. len <= m * AddBatch
  BY <1>1, <1>5
<1>9. Lesser(m * AddBatch, len) = len
  BY <1>1, <1>5, <1>8 DEF Lesser
<1>10. SubSeq(Entries, 1, len) = Entries
  BY <1>3, SubSeqFull
<1>11. Ingest(key) = [index EXCEPT ![key] = Entries]
  BY <1>3, <1>7, <1>9, <1>10 DEF Ingest, added
<1>12. index = [k \in 0..MaxFile |-> index[k]]
  BY DEF WorldTyped
<1>13. QED
  BY <1>11, <1>12

LEMMA IndexStep ==
  ASSUME RetrievalInv, WorldTyped', FileGrows, IndexChunks
  PROVE  JobInv'
<1>0. JobTyped /\ WorldTyped /\ job.at = "index"
      /\ UNCHANGED <<file, batch, call, vectors, prompt, slipped>>
  BY DEF RetrievalInv, JobInv, IndexChunks, At, world
<1>1. CASE EndCancelled
  BY <1>0, <1>1, JobEnds DEF EndCancelled
<1>2. CASE EndFailed
  <2>1. "failed" \in Statuses
    BY DEF Statuses
  <2>2. QED
    BY <1>0, <1>2, <2>1, JobEnds DEF EndFailed
<1>3. CASE /\ index' = Ingest(Key) /\ \A k \in Slices : Fits(k)
           /\ job' = [job EXCEPT !.at = "query"]
  <2>1. /\ job' \in Job /\ job'.at = "query" /\ job'.lines = job.lines /\ job'.skips = job.skips /\ job'.chunks = job.chunks
        /\ job'.mode = job.mode
    BY <1>0, <1>3 DEF JobTyped, Job, Places
  <2>2. JobTyped'
    BY <1>0, <2>1 DEF JobTyped
  <2>3. LinesOK'
    BY <2>1, LinesStay DEF RetrievalInv, JobInv, WorldTyped
  <2>4. ChunksOK' /\ VectorsOK' /\ CallOK' /\ PromptOK'
    BY <1>0, <2>1 DEF RetrievalInv, JobInv, ChunksOK, VectorsOK, CallOK, PromptOK, Embedded
  <2>5. Len(file) \in Nat /\ Len(file) \in 0..MaxFile /\ MaxFile \in Nat
    BY <1>0, RetrievalAssumption, LenProperties DEF WorldTyped
  <2>6. /\ index'[Len(file)] = Entries
        /\ \A l \in 0..MaxFile : l # Len(file) => index'[l] = index[l]
    BY <1>0, <1>3, <2>5, SlicesCover DEF Key
  <2>7. \A l \in 0..MaxFile : l > Len(file) => index'[l] = NoneYet
    <3>1. ASSUME NEW l \in 0..MaxFile, l > Len(file) PROVE index'[l] = NoneYet
      <4>1. l # Len(file) /\ ~(l <= Len(file))
        BY <2>5, <3>1
      <4>2. QED
        BY <1>0, <2>6, <4>1 DEF WorldTyped
    <3>2. QED
      BY <3>1
  <2>8. Entries' = Entries
    BY <1>0, <2>1 DEF Entries
  <2>9. IndexOK'
    <3>1. Len(file) \in 0..Len(file)
      BY <2>5
    <3>2. QED
      BY <1>0, <2>6, <2>7, <2>8, <3>1 DEF IndexOK
  <2>10. QED
    BY <2>2, <2>3, <2>4, <2>9 DEF JobInv
<1>4. QED
  BY <1>1, <1>2, <1>3 DEF IndexChunks

\* A collection that is found is that of the job.
LEMMA FoundIs ==
  ASSUME RetrievalInv, job.at = "query", index[Key] # NoneYet
  PROVE  /\ index[Key] = Entries
         /\ DOMAIN Entries = 1..Len(job.chunks)
         /\ \A i \in 1..Len(job.chunks) :
              Entries[i].text = job.chunks[i] /\ Entries[i].vector = vectors[i]
<1>1. Len(file) \in Nat /\ Len(file) \in 0..MaxFile /\ MaxFile \in Nat
  BY RetrievalAssumption, LenProperties DEF RetrievalInv, WorldTyped
<1>2. PICK k \in 0..Len(file) :
        index[k] = Entries /\ \A l \in 0..MaxFile : l > k => index[l] = NoneYet
  BY DEF RetrievalInv, JobInv, IndexOK
<1>3. ~(Len(file) > k)
  BY <1>1, <1>2 DEF Key
<1>4. k = Len(file)
  BY <1>1, <1>3
<1>5. job.chunks \in Seq(Seq(Nat))
  BY DEF RetrievalInv, JobInv, JobTyped, Job
<1>6. Entries = [i \in 1..Len(job.chunks) |-> [text |-> job.chunks[i], vector |-> vectors[i]]]
  BY <1>5 DEF Entries
<1>7. QED
  BY <1>2, <1>4, <1>6 DEF Key

LEMMA QueryStep ==
  ASSUME RetrievalInv, WorldTyped', FileGrows, Query
  PROVE  JobInv'
<1>0. JobTyped /\ job.at = "query" /\ UNCHANGED <<file, batch, call, vectors, index, slipped>>
  BY DEF RetrievalInv, JobInv, Query, At, world
<1>1. CASE EndCancelled /\ UNCHANGED prompt
  BY <1>0, <1>1, JobEnds DEF EndCancelled
<1>2. CASE EndFailed /\ UNCHANGED prompt
  <2>1. "failed" \in Statuses
    BY DEF Statuses
  <2>2. QED
    BY <1>0, <1>2, <2>1, JobEnds DEF EndFailed
<1>3. CASE /\ index[Key] # NoneYet
           /\ \E E \in SUBSET DOMAIN index[Key] :
                prompt' = FlattenSeq([n \in 1..Cardinality(E) |-> index[Key][NthOf(E, n)].text])
           /\ job' = [job EXCEPT !.at = "ask"]
  <2>1. /\ index[Key] = Entries /\ DOMAIN Entries = 1..Len(job.chunks)
        /\ \A i \in 1..Len(job.chunks) : Entries[i].text = job.chunks[i]
    BY <1>0, <1>3, FoundIs
  <2>2. PICK E \in SUBSET (1..Len(job.chunks)) :
          prompt' = FlattenSeq([n \in 1..Cardinality(E) |-> Entries[NthOf(E, n)].text])
    BY <1>3, <2>1
  <2>3. job.chunks \in Seq(Seq(Nat)) /\ job.lines \in Seq(Nat) /\ Len(job.chunks) \in Nat
    BY <1>0, JobIs
  <2>4. \A n \in 1..Cardinality(E) : NthOf(E, n) \in 1..Len(job.chunks)
    BY <2>3, InOrderIs
  <2>5. [n \in 1..Cardinality(E) |-> Entries[NthOf(E, n)].text]
          = [n \in 1..Cardinality(E) |-> job.chunks[NthOf(E, n)]]
    BY <2>1, <2>4
  <2>6. job.chunks = RagChunks(job.lines)
    BY <1>0 DEF RetrievalInv, JobInv, ChunksOK
  <2>7. prompt' \in Seq(Nat) /\ Placed(prompt', job.lines)
    <3> DEFINE text == FlattenSeq([n \in 1..Cardinality(E) |-> job.chunks[NthOf(E, n)]])
    <3>1. text \in Seq(Nat) /\ Placed(text, job.lines)
      BY <2>3, <2>6, ChosenPlaced
    <3>2. prompt' = text
      BY <2>2, <2>5
    <3> HIDE DEF text
    <3>3. QED
      BY <3>1, <3>2
  <2>8. job' \in Job /\ job'.at = "ask" /\ job'.lines = job.lines /\ job'.skips = job.skips
    BY <1>0, <1>3 DEF JobTyped, Job, Places
  <2>9. JobTyped'
    BY <1>0, <2>7, <2>8 DEF JobTyped
  <2>10. LinesOK'
    BY <2>8, LinesStay DEF RetrievalInv, JobInv, WorldTyped
  <2>11. PromptOK'
    BY <2>7, <2>8 DEF PromptOK
  <2>12. ChunksOK' /\ VectorsOK' /\ CallOK' /\ IndexOK'
    BY <2>8 DEF ChunksOK, VectorsOK, CallOK, IndexOK
  <2>13. QED
    BY <2>9, <2>10, <2>11, <2>12 DEF JobInv
<1>4. QED
  BY <1>1, <1>2, <1>3 DEF Query

LEMMA AskStep ==
  ASSUME RetrievalInv, WorldTyped', FileGrows, AskModel
  PROVE  JobInv'
<1>0. JobTyped /\ job.at = "ask" /\ UNCHANGED <<file, batch, call, vectors, index, slipped>>
  BY DEF RetrievalInv, JobInv, AskModel, At, world
<1>1. CASE EndCancelled /\ UNCHANGED prompt
  BY <1>0, <1>1, JobEnds DEF EndCancelled
<1>2. CASE /\ job' = [job EXCEPT !.at = "call"]
           /\ prompt' = LastOf(IF job.mode = "rag" THEN prompt ELSE job.lines, DirectMax)
  <2> DEFINE s == IF job.mode = "rag" THEN prompt ELSE job.lines
  <2>1. job.lines \in Seq(Nat) /\ prompt \in Seq(Nat) /\ DirectMax \in Nat
    BY <1>0, RetrievalAssumption DEF JobTyped, Job
  <2>2. s \in Seq(Nat) /\ Placed(s, job.lines)
    <3>1. CASE job.mode = "rag"
      BY <1>0, <2>1, <3>1 DEF RetrievalInv, JobInv, PromptOK
    <3>2. CASE job.mode # "rag"
      BY <2>1, <3>2, AllPlaced
    <3>3. QED
      BY <3>1, <3>2
  <2> HIDE DEF s
  <2>3. prompt' \in Seq(Nat) /\ Placed(prompt', job.lines) /\ Len(prompt') <= DirectMax
    BY <1>2, <2>1, <2>2, LastPlaced DEF s
  <2>4. job' \in Job /\ job'.at = "call" /\ job'.lines = job.lines /\ job'.skips = job.skips
    BY <1>0, <1>2 DEF JobTyped, Job, Places
  <2>5. JobTyped'
    BY <1>0, <2>3, <2>4 DEF JobTyped
  <2>6. LinesOK'
    BY <2>4, LinesStay DEF RetrievalInv, JobInv, WorldTyped
  <2>7. PromptOK'
    BY <2>3, <2>4 DEF PromptOK
  <2>8. ChunksOK' /\ VectorsOK' /\ CallOK' /\ IndexOK'
    BY <2>4 DEF ChunksOK, VectorsOK, CallOK, IndexOK
  <2>9. QED
    BY <2>5, <2>6, <2>7, <2>8 DEF JobInv
<1>3. QED
  BY <1>1, <1>2 DEF AskModel

LEMMA RetrievalInvInit == RetrievalInit => RetrievalInv
<1> SUFFICES ASSUME RetrievalInit PROVE RetrievalInv
  OBVIOUS
<1>1. job = [status |-> "none", at |-> "idle", lines |-> <<>>, chunks |-> <<>>, mode |-> "none",
             skips |-> FALSE]
  BY DEF RetrievalInit, NoJob
<1>2. WorldTyped
  <2>1. MaxFile \in Nat
    BY RetrievalAssumption
  <2>2. <<>> \in Seq(BOOLEAN) /\ Len(<<>>) = 0
    OBVIOUS
  <2>3. QED
    BY <2>1, <2>2 DEF RetrievalInit, WorldTyped
<1>3. JobTyped
  BY <1>1, NoCallIs DEF RetrievalInit, JobTyped, Job, Statuses, Places, Modes
<1>4. LinesOK
  BY <1>1 DEF LinesOK, Rising
<1>5. ChunksOK /\ VectorsOK /\ CallOK /\ IndexOK /\ PromptOK
  BY <1>1 DEF ChunksOK, VectorsOK, CallOK, IndexOK, PromptOK
<1>6. QED
  BY <1>2, <1>3, <1>4, <1>5 DEF RetrievalInv, JobInv

LEMMA RetrievalInvStep == RetrievalInv /\ [RetrievalNext]_retrievalVars => RetrievalInv'
<1> SUFFICES ASSUME RetrievalInv, [RetrievalNext]_retrievalVars PROVE RetrievalInv'
  OBVIOUS
<1>1. WorldTyped' /\ FileGrows
  BY WorldStep DEF RetrievalInv
<1>2. CASE Grow \/ ChangeModel \/ Expire \/ CancelJob \/ UNCHANGED retrievalVars
  BY <1>1, <1>2, OutsideStep DEF RetrievalInv
<1>3. CASE Finish \/ Break
  BY <1>1, <1>3, EndStep DEF RetrievalInv
<1>4. CASE StartJob
  BY <1>1, <1>4, StartStep DEF RetrievalInv
<1>5. CASE ReadFile
  BY <1>1, <1>5, ReadStep DEF RetrievalInv
<1>6. CASE BeginBatch
  BY <1>1, <1>6, BeginStep DEF RetrievalInv
<1>7. CASE RequestDone
  BY <1>1, <1>7, DoneStep DEF RetrievalInv
<1>8. CASE RequestSplit
  BY <1>1, <1>8, SplitStep DEF RetrievalInv
<1>9. CASE EmbedFails
  BY <1>1, <1>9, FailStep DEF RetrievalInv
<1>10. CASE EmbedSucceeds
  BY <1>1, <1>10, SucceedStep DEF RetrievalInv
<1>11. CASE IndexChunks
  BY <1>1, <1>11, IndexStep DEF RetrievalInv
<1>12. CASE Query
  BY <1>1, <1>12, QueryStep DEF RetrievalInv
<1>13. CASE AskModel
  BY <1>1, <1>13, AskStep DEF RetrievalInv
<1>14. QED
  BY <1>2, <1>3, <1>4, <1>5, <1>6, <1>7, <1>8, <1>9, <1>10, <1>11, <1>12, <1>13 DEF RetrievalNext

\* What the segments leave out, and what is sent to the model.
LEMMA PromptFollows == RetrievalInv => PromptOwn
<1> SUFFICES ASSUME RetrievalInv PROVE PromptOwn
  OBVIOUS
<1> DEFINE ls == job.lines
           cs == job.chunks
<1>1. ls \in Seq(Nat) /\ cs \in Seq(Seq(Nat)) /\ Len(ls) \in Nat /\ Len(cs) \in Nat
  BY JobIs DEF RetrievalInv, JobInv
<1>2. \A i, j \in 1..Len(ls) : i < j => ls[i] < ls[j]
  <2>1. Rising(ls) /\ DOMAIN ls = 1..Len(ls)
    BY <1>1, LenProperties DEF RetrievalInv, JobInv, LinesOK
  <2> HIDE DEF ls
  <2>2. QED
    BY <2>1 DEF Rising
<1>3. ASSUME job.at = "embed", NEW p \in DOMAIN ls
      PROVE  \/ \E c \in Members(cs) : ls[p] \in Members(c)
             \/ Len(ls) - p >= RagMax
             \/ \A c \in Members(cs) : \A n \in Members(c) : n > ls[p]
  <2>1. cs = RagChunks(ls)
    BY <1>3 DEF RetrievalInv, JobInv, ChunksOK
  <2>2. p \in 1..Len(ls)
    BY <1>1, <1>3
  <2> HIDE DEF ls, cs
  <2>3. PICK a, d \in Nat : Spread(ls, cs, a, d)
    BY <1>1, <2>1, RagChunksAre
  <2>4. \A k \in 1..Len(cs) : cs[k] \in Seq(Nat) /\ DOMAIN cs[k] = 1..Len(cs[k])
    BY <1>1, ElementOfSeq
  <2>5. DOMAIN cs = 1..Len(cs)
    BY <1>1
  <2>6. CASE p <= a
    <3>1. RagMax \in Nat
      BY RetrievalAssumption
    <3>2. a = Len(ls) - RagMax
      BY <2>2, <2>3, <2>6 DEF Spread
    <3>3. QED
      BY <1>1, <2>2, <2>6, <3>1, <3>2
  <2>7. CASE \E k \in 1..Len(cs) : \E j \in 1..Len(cs[k]) : p = Spot(a, d, k, j)
    <3>1. PICK k \in 1..Len(cs) : \E j \in 1..Len(cs[k]) : p = Spot(a, d, k, j)
      BY <2>7
    <3>2. PICK j \in 1..Len(cs[k]) : p = Spot(a, d, k, j)
      BY <3>1
    <3>3. cs[k] \in Members(cs) /\ cs[k][j] \in Members(cs[k]) /\ cs[k][j] = ls[p]
      BY <2>3, <2>4, <2>5, <3>2 DEF Members, Spread
    <3>4. QED
      BY <3>3
  <2>8. CASE \A k \in 1..Len(cs) : \A j \in 1..Len(cs[k]) : p < Spot(a, d, k, j)
    <3>1. ASSUME NEW c \in Members(cs), NEW n \in Members(c) PROVE n > ls[p]
      <4>1. PICK k \in 1..Len(cs) : c = cs[k]
        BY <2>5, <3>1 DEF Members
      <4>2. PICK j \in 1..Len(cs[k]) : n = cs[k][j]
        BY <2>4, <3>1, <4>1 DEF Members
      <4>3. Spot(a, d, k, j) \in 1..Len(ls) /\ n = ls[Spot(a, d, k, j)] /\ p < Spot(a, d, k, j)
        BY <2>3, <2>8, <4>2 DEF Spread
      <4>4. ls[p] < n /\ ls[p] \in Nat /\ n \in Nat
        BY <1>1, <1>2, <2>2, <4>3, ElementOfSeq
      <4>5. QED
        BY <4>4
    <3>2. QED
      BY <3>1
  <2>9. QED
    BY <2>2, <2>3, <2>6, <2>7, <2>8 DEF ls, cs, Spread
<1>4. ASSUME job.at = "call"
      PROVE  /\ Members(prompt) \subseteq {n \in Members(ls) : ~(job.skips /\ file[n])}
             /\ Len(prompt) <= DirectMax
             /\ \A i, j \in DOMAIN prompt :
                  i < j => Place(prompt[i]) < Place(prompt[j]) + Lesser(Overlap, ChunkSize)
  <2>1. PICK q \in [1..Len(prompt) -> 1..Len(ls)] :
          /\ \A i \in 1..Len(prompt) : prompt[i] = ls[q[i]]
          /\ \A i, j \in 1..Len(prompt) : i < j => q[i] < q[j] + Lesser(Overlap, ChunkSize)
    BY <1>4 DEF RetrievalInv, JobInv, PromptOK, Placed
  <2>2. DOMAIN prompt = 1..Len(prompt) /\ DOMAIN ls = 1..Len(ls)
    BY <1>1 DEF RetrievalInv, JobInv, JobTyped
  <2>3. \A i \in 1..Len(ls) : ~(job.skips /\ file[ls[i]])
    BY DEF RetrievalInv, JobInv, LinesOK
  <2>4. Len(prompt) <= DirectMax
    BY <1>4 DEF RetrievalInv, JobInv, PromptOK
  <2>5. ASSUME NEW i \in 1..Len(ls) PROVE Place(ls[i]) = i
    <3>1. \A j \in 1..Len(ls) : ls[j] = ls[i] => j = i
      <4>1. ASSUME NEW j \in 1..Len(ls), ls[j] = ls[i] PROVE j = i
        <5>1. ls[i] \in Nat
          BY <1>1, ElementOfSeq
        <5>2. ~(i < j) /\ ~(j < i)
          BY <1>2, <4>1, <5>1
        <5>3. QED
          BY <1>1, <5>2
      <4>2. QED
        BY <4>1
    <3>2. QED
      BY <2>2, <3>1 DEF Place
  <2>6. Members(prompt) \subseteq {n \in Members(ls) : ~(job.skips /\ file[n])}
    BY <2>1, <2>2, <2>3 DEF Members
  <2>7. \A i \in 1..Len(prompt) : Place(prompt[i]) = q[i]
    BY <2>1, <2>5
  <2>8. QED
    BY <2>1, <2>2, <2>4, <2>6, <2>7
<1>5. QED
  BY <1>3, <1>4 DEF PromptOwn

\* While the segments are embedded, indexed and queried, every vector is that of
\* a segment of the job, and there is one at least for each that has been embedded.
MadeOK ==
  /\ job.at \in {"embed", "request", "index", "query"} =>
       \A i \in 1..Len(vectors) : \E k \in 1..Len(job.chunks) : vectors[i].of = job.chunks[k]
  /\ job.at \in {"embed", "request"} => Len(vectors) >= batch * BatchSize
  /\ job.at \in {"index", "query"} => Len(vectors) >= Len(job.chunks)

LEMMA MadeStep ==
  ASSUME RetrievalInv, MadeOK, [RetrievalNext]_retrievalVars
  PROVE  MadeOK'
<1>0. JobTyped
  BY DEF RetrievalInv, JobInv
<1>1. CASE StartJob
  BY <1>1 DEF StartJob, NoJob, MadeOK
<1>2. CASE ReadFile
  <2>1. vectors' = vectors /\ batch' = batch /\ vectors = <<>> /\ batch = 0
    BY <1>2 DEF ReadFile, At, RetrievalInv, JobInv, VectorsOK
  <2>2. job'.at \in {"idle", "ask", "embed"}
    <3>1. CASE EndCancelled
      BY <1>0, <3>1 DEF EndCancelled, JobTyped, Job
    <3>2. CASE ~EndCancelled
      <4>1. PICK ls : \E size : \E skips \in BOOLEAN : job' = Loaded(ls, size, skips)
        BY <1>2, <3>2, ReadEffect
      <4>2. PICK size : \E skips \in BOOLEAN : job' = Loaded(ls, size, skips)
        BY <4>1
      <4>3. PICK skips \in BOOLEAN : job' = Loaded(ls, size, skips)
        BY <4>2
      <4> DEFINE cs == IF size <= DirectMax THEN <<>> ELSE RagChunks(ls)
      <4>4. job'.at = IF cs = <<>> THEN "ask" ELSE "embed"
        BY <1>0, <4>3 DEF Loaded, JobTyped, Job
      <4> HIDE DEF cs
      <4>5. QED
        BY <4>4
    <3>3. QED
      BY <3>1, <3>2
  <2>3. Len(<<>>) = 0 /\ 0 * BatchSize = 0
    BY RetrievalAssumption
  <2> QED
    BY <2>1, <2>2, <2>3 DEF MadeOK
<1>3. CASE EmbedSucceeds
  <2> DEFINE b == batch * BatchSize
             n == Len(call.got)
             new == vectors \o call.got
             chunks == job.chunks
             Own(v) == \E k \in 1..Len(chunks) : v.of = chunks[k]
  <2>1. /\ job.at = "request" /\ ~Asking /\ vectors' = new
        /\ job'.chunks = job.chunks /\ job'.at \in {"idle", "embed", "index"}
    BY <1>0, <1>3 DEF EmbedSucceeds, TryAgain, EndFailed, At, JobTyped, Job
  <2>2. \/ batch' = batch /\ job'.at # "index"
        \/ batch' = batch + 1 /\ job'.at = IF LastBatch THEN "index" ELSE "embed"
    <3>1. CASE TryAgain /\ UNCHANGED batch
      BY <1>0, <3>1 DEF TryAgain, EndFailed, JobTyped, Job
    <3>2. CASE /\ batch' = batch + 1
               /\ job' = [job EXCEPT !.at = IF LastBatch THEN "index" ELSE "embed"]
      BY <1>0, <3>2 DEF JobTyped, Job
    <3>3. QED
      BY <1>3, <3>1, <3>2 DEF EmbedSucceeds
  <2>3. /\ b \in Nat /\ n \in Nat
        /\ IF LastBatch THEN b + n = Len(chunks)
                        ELSE b + n = (batch + 1) * BatchSize /\ b + n < Len(chunks)
    BY <2>1, BatchGoesOn
  <2>4. b < Len(chunks) /\ CallOK
    BY <2>1 DEF RetrievalInv, JobInv, VectorsOK
  <2>5. /\ Len(BatchTexts) \in Nat /\ Len(chunks) \in Nat
        /\ \A i \in 1..Len(BatchTexts) : b + i \in 1..Len(chunks) /\ BatchTexts[i] = chunks[b + i]
    BY <1>0, <2>4, BatchIs
  <2>6. n <= Len(BatchTexts) /\ \A i \in 1..n : call.got[i].of = BatchTexts[i]
    BY <2>1, <2>4 DEF CallOK
  <2>7. ASSUME NEW i \in 1..n PROVE Own(call.got[i])
    <3>1. i \in 1..Len(BatchTexts) /\ call.got[i].of = BatchTexts[i]
      BY <2>3, <2>5, <2>6
    <3>2. b + i \in 1..Len(chunks) /\ call.got[i].of = chunks[b + i]
      BY <2>5, <3>1
    <3>3. QED
      BY <3>2
  <2>8. Len(vectors) >= b /\ \A i \in 1..Len(vectors) : Own(vectors[i])
    BY <2>1 DEF MadeOK
  <2>9. vectors \in Seq(Vector) /\ call.got \in Seq(Vector) /\ Len(vectors) \in Nat
    BY <1>0, LenProperties DEF JobTyped, Call
  <2> HIDE DEF b, n, Own, chunks
  <2>10. /\ Len(new) = Len(vectors) + n
         /\ \A i \in 1..(Len(vectors) + n) :
              new[i] = IF i <= Len(vectors) THEN vectors[i] ELSE call.got[i - Len(vectors)]
    BY <2>9, ConcatProperties DEF n
  <2> HIDE DEF new
  <2>11. ASSUME NEW i \in 1..Len(new) PROVE Own(new[i])
    <3>1. CASE i <= Len(vectors)
      BY <2>3, <2>8, <2>9, <2>10, <3>1
    <3>2. CASE ~(i <= Len(vectors))
      <4>1. i - Len(vectors) \in 1..n /\ new[i] = call.got[i - Len(vectors)]
        BY <2>3, <2>9, <2>10, <3>2
      <4> QED
        BY <2>7, <4>1
    <3> QED
      BY <3>1, <3>2
  <2>12. \A i \in 1..Len(vectors') : \E k \in 1..Len(job'.chunks) : vectors'[i].of = job'.chunks[k]
    BY <2>1, <2>11 DEF Own, chunks
  <2>13. Len(vectors') >= b + n /\ Len(vectors') >= b
    BY <2>1, <2>3, <2>8, <2>9, <2>10
  <2>14. job'.at = "embed" => Len(vectors') >= batch' * BatchSize
    BY <2>2, <2>3, <2>13 DEF b
  <2>15. job'.at = "index" => Len(vectors') >= Len(job'.chunks)
    BY <2>1, <2>2, <2>3, <2>13 DEF chunks
  <2> QED
    BY <2>1, <2>12, <2>14, <2>15 DEF MadeOK
<1>4. CASE /\ UNCHANGED <<vectors, batch>> /\ job'.chunks = job.chunks
           /\ \/ job'.at = job.at
              \/ job'.at \notin {"embed", "request", "index", "query"}
              \/ job.at \in {"embed", "request"} /\ job'.at \in {"embed", "request"}
              \/ job.at = "index" /\ job'.at = "query"
  BY <1>4 DEF MadeOK
<1>5. CASE Grow \/ ChangeModel \/ Expire \/ CancelJob \/ UNCHANGED retrievalVars
  BY <1>0, <1>4, <1>5 DEF Grow, ChangeModel, Expire, CancelJob, retrievalVars, jobVars, JobTyped, Job
<1>6. CASE BeginBatch \/ RequestDone \/ RequestSplit \/ EmbedFails
  BY <1>0, <1>4, <1>6 DEF BeginBatch, RequestDone, RequestSplit, EmbedFails, TryAgain, EndFailed, At,
    Asking, JobTyped, Job
<1>7. CASE IndexChunks \/ Query \/ AskModel \/ Finish \/ Break
  BY <1>0, <1>4, <1>7 DEF IndexChunks, Query, AskModel, Finish, Break, EndCancelled, EndFailed, At,
    JobTyped, Job
<1> QED
  BY <1>1, <1>2, <1>3, <1>5, <1>6, <1>7 DEF RetrievalNext

LEMMA VectorsFollow == RetrievalInv /\ MadeOK => VectorsMatch
<1> SUFFICES ASSUME RetrievalInv, MadeOK, job.at = "query", index[Key] # NoneYet
             PROVE  /\ [i \in DOMAIN index[Key] |-> index[Key][i].text] = job.chunks
                    /\ \A i \in DOMAIN index[Key] :
                         IF slipped THEN index[Key][i].vector.of \in Members(job.chunks)
                                    ELSE index[Key][i].vector.of = index[Key][i].text
  BY DEF VectorsMatch
<1>1. /\ index[Key] = Entries /\ DOMAIN Entries = 1..Len(job.chunks)
      /\ \A i \in 1..Len(job.chunks) :
           Entries[i].text = job.chunks[i] /\ Entries[i].vector = vectors[i]
  BY FoundIs
<1>2. ~slipped => \A i \in 1..Len(job.chunks) : vectors[i].of = job.chunks[i]
  BY DEF RetrievalInv, JobInv, VectorsOK, Embedded
<1>3. /\ job.chunks \in Seq(Seq(Nat)) /\ DOMAIN job.chunks = 1..Len(job.chunks)
      /\ job.chunks = [i \in 1..Len(job.chunks) |-> job.chunks[i]]
  BY DEF RetrievalInv, JobInv, JobTyped, Job
<1>4. \A i \in 1..Len(job.chunks) : vectors[i].of \in Members(job.chunks)
  <2>1. Len(vectors) \in Nat /\ Len(job.chunks) \in Nat /\ Len(vectors) >= Len(job.chunks)
    BY <1>3, LenProperties DEF MadeOK, RetrievalInv, JobInv, JobTyped
  <2>2. \A i \in 1..Len(job.chunks) : \E k \in 1..Len(job.chunks) : vectors[i].of = job.chunks[k]
    BY <2>1 DEF MadeOK
  <2> QED
    BY <1>3, <2>2 DEF Members
<1>5. ASSUME NEW i \in DOMAIN index[Key]
      PROVE  /\ index[Key][i].text = job.chunks[i]
             /\ index[Key][i].vector.of \in Members(job.chunks)
             /\ ~slipped => index[Key][i].vector.of = index[Key][i].text
  <2>1. /\ i \in 1..Len(job.chunks) /\ index[Key][i].text = job.chunks[i]
        /\ index[Key][i].vector = vectors[i]
    BY <1>1
  <2>2. QED
    BY <1>2, <1>4, <2>1
<1>6. [i \in DOMAIN index[Key] |-> index[Key][i].text] = job.chunks
  BY <1>1, <1>3
<1>7. \A i \in DOMAIN index[Key] :
        IF slipped THEN index[Key][i].vector.of \in Members(job.chunks)
                   ELSE index[Key][i].vector.of = index[Key][i].text
  <2>1. ASSUME NEW i \in DOMAIN index[Key]
        PROVE  IF slipped THEN index[Key][i].vector.of \in Members(job.chunks)
                          ELSE index[Key][i].vector.of = index[Key][i].text
    <3> DEFINE v == index[Key][i].vector.of
               t == index[Key][i].text
    <3>1. v \in Members(job.chunks) /\ (~slipped => v = t)
      BY <1>5
    <3> HIDE DEF v, t
    <3>2. IF slipped THEN v \in Members(job.chunks) ELSE v = t
      BY <3>1
    <3> QED
      BY <3>2 DEF v, t
  <2> QED
    BY <2>1
<1>8. QED
  BY <1>6, <1>7

\* The prompt is made of the job's own lines, in their order and within the
\* budget, and the vectors that are queried are those of the job's segments, for
\* every file, segment size, batch size, limit of a request and budget.
THEOREM RetrievalHolds == RetrievalSpec => []RetrievalSound
<1>1. RetrievalInit => RetrievalInv /\ MadeOK
  BY RetrievalInvInit DEF RetrievalInit, NoJob, MadeOK
<1>2. RetrievalInv /\ [RetrievalNext]_retrievalVars => RetrievalInv'
  BY RetrievalInvStep
<1>3. RetrievalInv /\ MadeOK /\ [RetrievalNext]_retrievalVars => MadeOK'
  BY MadeStep
<1>4. RetrievalInv /\ MadeOK => RetrievalSound
  BY PromptFollows, VectorsFollow DEF RetrievalSound
<1>5. QED
  BY <1>1, <1>2, <1>3, <1>4, PTL DEF RetrievalSpec

\* The segments of a job are none, or those of its lines, and no prompt is longer
\* than the segments that are asked for.
BoundsOK ==
  /\ attempt \in 0..(Retries - 1)
  /\ job.chunks = <<>> \/ job.chunks = RagChunks(job.lines)
  /\ Len(prompt) <= TopK * ChunkSize + DirectMax

LEMMA BoundIs ==
  /\ TopK * ChunkSize + DirectMax \in Nat /\ TopK * ChunkSize \in Nat /\ DirectMax \in Nat
  /\ Retries \in Nat /\ Retries > 0
<1>1. TopK \in Nat /\ ChunkSize \in Nat /\ DirectMax \in Nat /\ Retries \in Nat /\ Retries > 0
  BY RetrievalAssumption
<1>2. QED
  BY <1>1

\* Asking for segments stays within the bound.
LEMMA QueryBound ==
  ASSUME RetrievalInv, BoundsOK, Query
  PROVE  Len(prompt') <= TopK * ChunkSize + DirectMax
<1>1. CASE UNCHANGED prompt
  BY <1>1 DEF BoundsOK
<1>2. CASE /\ index[Key] # NoneYet /\ job.at = "query"
           /\ \E E \in SUBSET DOMAIN index[Key] :
                /\ Cardinality(E) = Lesser(TopK, Len(index[Key]))
                /\ prompt' = FlattenSeq([n \in 1..Cardinality(E) |-> index[Key][NthOf(E, n)].text])
  <2>1. /\ index[Key] = Entries /\ DOMAIN Entries = 1..Len(job.chunks)
        /\ \A i \in 1..Len(job.chunks) : Entries[i].text = job.chunks[i]
    BY <1>2, FoundIs
  <2>2. PICK E \in SUBSET (1..Len(job.chunks)) :
          /\ Cardinality(E) = Lesser(TopK, Len(Entries))
          /\ prompt' = FlattenSeq([n \in 1..Cardinality(E) |-> Entries[NthOf(E, n)].text])
    BY <1>2, <2>1
  <2>3. job.lines \in Seq(Nat) /\ job.chunks \in Seq(Seq(Nat)) /\ Len(job.chunks) \in Nat
        /\ job.chunks = RagChunks(job.lines)
    BY <1>2, JobIs DEF RetrievalInv, JobInv, ChunksOK
  <2>4. /\ Cardinality(E) \in Nat
        /\ \A n \in 1..Cardinality(E) : NthOf(E, n) \in 1..Len(job.chunks)
    BY <2>3, InOrderIs
  <2>5. [n \in 1..Cardinality(E) |-> Entries[NthOf(E, n)].text]
          = [n \in 1..Cardinality(E) |-> job.chunks[NthOf(E, n)]]
    BY <2>1, <2>4
  <2>6. prompt' \in Seq(Nat) /\ Len(prompt') <= Cardinality(E) * ChunkSize
    <3> DEFINE text == FlattenSeq([n \in 1..Cardinality(E) |-> job.chunks[NthOf(E, n)]])
    <3>1. text \in Seq(Nat) /\ Len(text) <= Cardinality(E) * ChunkSize
      BY <2>3, ChosenPlaced
    <3>2. prompt' = text
      BY <2>2, <2>5
    <3> HIDE DEF text
    <3>3. QED
      BY <3>1, <3>2
  <2>7. TopK \in Nat /\ ChunkSize \in Nat
    BY RetrievalAssumption
  <2>8. Len(Entries) = Len(job.chunks)
    BY <2>3 DEF Entries
  <2>9. Cardinality(E) <= TopK
    BY <2>2, <2>3, <2>7, <2>8 DEF Lesser
  <2>10. Cardinality(E) * ChunkSize <= TopK * ChunkSize /\ Cardinality(E) * ChunkSize \in Nat
    BY <2>4, <2>7, <2>9, MoreTimes
  <2>11. QED
    BY <2>6, <2>10, BoundIs, LenProperties
<1>3. QED
  BY <1>1, <1>2 DEF Query, At

LEMMA BoundsStep ==
  ASSUME RetrievalInv, BoundsOK, [RetrievalNext]_retrievalVars
  PROVE  BoundsOK'
<1>0. JobTyped
  BY DEF RetrievalInv, JobInv
<1>1. attempt' \in 0..(Retries - 1)
  <2>1. attempt' = attempt \/ attempt' = 0 \/ (attempt + 1 < Retries /\ attempt' = attempt + 1)
    BY DEF RetrievalNext, Grow, ChangeModel, Expire, CancelJob, StartJob, ReadFile, BeginBatch,
      RequestDone, RequestSplit, EmbedFails, EmbedSucceeds, TryAgain, IndexChunks, Query, AskModel,
      Finish, Break, retrievalVars, jobVars
  <2>2. attempt \in 0..(Retries - 1)
    BY DEF BoundsOK
  <2>3. QED
    BY <2>1, <2>2, BoundIs
<1>2. job'.chunks = <<>> \/ job'.chunks = RagChunks(job'.lines)
  <2>1. CASE StartJob
    BY <2>1 DEF StartJob, NoJob
  <2>2. CASE ReadFile /\ ~EndCancelled
    <3>1. PICK ls : \E size : \E skips \in BOOLEAN : \E start \in 1..(Len(file) + 1) : \E to \in {Len(file), LoadMax} :
             ls = Kept(start, to, skips) /\ job' = Loaded(ls, size, skips)
      BY <2>2, ReadEffect
    <3>2. PICK size : \E skips \in BOOLEAN : job' = Loaded(ls, size, skips)
      BY <3>1
    <3>3. PICK skips \in BOOLEAN : job' = Loaded(ls, size, skips)
      BY <3>2
    <3> DEFINE cs == IF size <= DirectMax THEN <<>> ELSE RagChunks(ls)
    <3>4. job'.lines = ls /\ job'.chunks = cs
      BY <1>0, <3>3 DEF Loaded, JobTyped, Job
    <3>5. cs = <<>> \/ cs = RagChunks(ls)
      OBVIOUS
    <3>6. QED
      BY <3>4, <3>5
  <2>3. CASE job'.lines = job.lines /\ job'.chunks = job.chunks
    BY <2>3 DEF BoundsOK
  <2>4. \/ StartJob \/ (ReadFile /\ ~EndCancelled)
        \/ (job'.lines = job.lines /\ job'.chunks = job.chunks)
    BY <1>0 DEF RetrievalNext, Grow, ChangeModel, Expire, CancelJob, ReadFile, BeginBatch,
      RequestDone, RequestSplit, EmbedFails, EmbedSucceeds, TryAgain, IndexChunks, Query, AskModel,
      Finish, Break, EndFailed, EndCancelled, retrievalVars, jobVars, JobTyped, Job
  <2>5. QED
    BY <2>1, <2>2, <2>3, <2>4
<1>3. Len(prompt') <= TopK * ChunkSize + DirectMax
  <2>1. CASE UNCHANGED prompt
    BY <2>1 DEF BoundsOK
  <2>2. CASE StartJob
    BY <2>2, BoundIs DEF StartJob
  <2>3. CASE Query
    BY <2>3, QueryBound
  <2>4. CASE AskModel /\ ~UNCHANGED prompt
    <3>1. prompt' = LastOf(IF job.mode = "rag" THEN prompt ELSE job.lines, DirectMax)
      BY <2>4 DEF AskModel
    <3>2. Len(prompt') <= DirectMax /\ Len(prompt') \in Nat
      <4>1. (IF job.mode = "rag" THEN prompt ELSE job.lines) \in Seq(Nat)
        BY <1>0 DEF JobTyped, Job
      <4>2. QED
        BY <3>1, <4>1, BoundIs, LastOfIs, LenProperties
    <3>3. QED
      BY <3>2, BoundIs
  <2>5. UNCHANGED prompt \/ StartJob \/ Query \/ AskModel
    BY DEF RetrievalNext, Grow, ChangeModel, Expire, CancelJob, ReadFile, BeginBatch, RequestDone,
      RequestSplit, EmbedFails, EmbedSucceeds, TryAgain, IndexChunks, Finish, Break, retrievalVars, jobVars
  <2>6. QED
    BY <2>1, <2>2, <2>3, <2>4, <2>5
<1>4. QED
  BY <1>1, <1>2, <1>3 DEF BoundsOK

LEMMA RetrievalTyped == RetrievalInv /\ BoundsOK => RetrievalTypeOK
<1> SUFFICES ASSUME RetrievalInv, BoundsOK PROVE RetrievalTypeOK
  OBVIOUS
<1> DEFINE ls == job.lines
           cs == job.chunks
<1>1. ls \in Seq(Nat) /\ cs \in Seq(Seq(Nat)) /\ Len(ls) \in Nat /\ Len(cs) \in Nat
      /\ DOMAIN file = 1..Len(file)
  <2>1. JobTyped /\ file \in Seq(BOOLEAN)
    BY DEF RetrievalInv, WorldTyped, JobInv
  <2>2. DOMAIN file = 1..Len(file)
    BY <2>1, LenProperties
  <2>3. QED
    BY <2>1, <2>2, JobIs
<1>2. \A i \in 1..Len(ls) : ls[i] \in DOMAIN file
  BY <1>1 DEF RetrievalInv, JobInv, LinesOK
<1>3. cs = <<>> \/ cs = RagChunks(ls)
  BY DEF BoundsOK
<1> HIDE DEF ls, cs
<1> DEFINE D == DOMAIN file
<1>a. \A i \in 1..Len(ls) : ls[i] \in D
  BY <1>2
<1> HIDE DEF D
<1>b. ASSUME NEW S, NEW s \in Seq(S), \A i \in 1..Len(s) : s[i] \in D
      PROVE  s \in Seq(D)
  <2>1. Len(s) \in Nat /\ s = [i \in 1..Len(s) |-> s[i]]
    BY <1>b
  <2>2. s \in [1..Len(s) -> D]
    BY <1>b, <2>1
  <2>3. Seq(D) = UNION {[1..n -> D] : n \in Nat}
    BY SeqDef, Zenon
  <2>4. Len(s) \in Nat
    BY <2>1
  <2>5. QED
    BY <2>2, <2>3, <2>4, ZenonT(60)
<1>4. ls \in Seq(D)
  BY <1>1, <1>a, <1>b
<1>5. cs \in Seq(Seq(D))
  <2>1. CASE cs = <<>>
    BY <2>1
  <2>2. CASE cs = RagChunks(ls)
    <3>1. PICK a, d \in Nat : Spread(ls, cs, a, d)
      BY <1>1, <2>2, RagChunksAre
    <3>2. ASSUME NEW k \in 1..Len(cs) PROVE cs[k] \in Seq(D)
      <4>1. cs[k] \in Seq(Nat)
        BY <1>1, ElementOfSeq
      <4>2. \A j \in 1..Len(cs[k]) : cs[k][j] \in D
        BY <1>a, <3>1 DEF Spread
      <4>3. QED
        BY <1>b, <4>1, <4>2
    <3>3. cs = [k \in 1..Len(cs) |-> cs[k]]
      BY <1>1
    <3> DEFINE T == Seq(D)
    <3>4. \A k \in 1..Len(cs) : cs[k] \in T
      BY <3>2
    <3> HIDE DEF T
    <3>5. cs \in [1..Len(cs) -> T]
      BY <3>3, <3>4
    <3>6. cs \in Seq(T)
      <4>1. Len(cs) \in Nat
        BY <1>1
      <4>2. \E n \in Nat : cs \in [1..n -> T]
        BY <3>5, <4>1, Zenon
      <4>3. QED
        BY <4>2, SeqDef, Zenon
    <3>7. QED
      BY <3>6 DEF T
  <2>3. QED
    BY <1>3, <2>1, <2>2
<1>6. job.status \in Statuses /\ job.at \in Places
  BY DEF RetrievalInv, JobInv, JobTyped, Job
<1>7. \A key \in DOMAIN index : index[key] = NoneYet \/ key <= Len(file)
  BY DEF RetrievalInv, WorldTyped
<1>8. file \in Seq(BOOLEAN) /\ setting \in Models /\ cached \in Models \cup {NoneYet}
  BY DEF RetrievalInv, WorldTyped
<1>9. QED
  BY <1>4, <1>5, <1>6, <1>7, <1>8 DEF RetrievalTypeOK, BoundsOK, Statuses, Places, ls, cs, D

\* Lines and segments are of the file, a batch is not tried more often than
\* EMBED_MAX_RETRIES allows, and a prompt never holds more than the segments that
\* were asked for, whatever fails and however the file grows meanwhile.
THEOREM RetrievalTypeHolds == RetrievalSpec => []RetrievalTypeOK
<1>1. RetrievalInit => RetrievalInv /\ BoundsOK
  <2>1. RetrievalInit => BoundsOK
    BY BoundIs DEF RetrievalInit, NoJob, BoundsOK
  <2>2. QED
    BY <2>1, RetrievalInvInit
<1>2. RetrievalInv /\ BoundsOK /\ [RetrievalNext]_retrievalVars => (RetrievalInv /\ BoundsOK)'
  BY RetrievalInvStep, BoundsStep
<1>3. RetrievalInv /\ BoundsOK => RetrievalTypeOK
  BY RetrievalTyped
<1>4. QED
  BY <1>1, <1>2, <1>3, PTL DEF RetrievalSpec


-----------------------------------------------------------------------------
(* LogSearch: numbers in order, and the first of them. *)

\* A sequence without repetition is as long as it has elements.
LEMMA OnceCounts ==
  ASSUME NEW s \in Seq(Nat), \A i, j \in 1..Len(s) : s[i] = s[j] => i = j
  PROVE  IsFiniteSet(Elements(s)) /\ Cardinality(Elements(s)) = Len(s)
<1> DEFINE n == Len(s)
           E == Elements(s)
           f == [i \in 1..n |-> s[i]]
<1>1. n \in Nat /\ DOMAIN s = 1..n
  BY LenProperties
<1>2. E = {s[i] : i \in 1..n}
  BY <1>1 DEF Elements
<1> HIDE DEF E
<1>3. f \in Bijection(1..n, E)
  <2>1. f \in [1..n -> E]
    BY <1>2
  <2>2. \A i, j \in 1..n : f[i] = f[j] => i = j
    OBVIOUS
  <2>3. \A e \in E : \E i \in 1..n : f[i] = e
    BY <1>2
  <2> HIDE DEF f, n
  <2>4. f \in Injection(1..n, E) /\ f \in Surjection(1..n, E)
    BY <2>1, <2>2, <2>3, Zenon DEF Injection, IsInjective, Surjection
  <2>5. QED
    BY <2>4 DEF Bijection
<1> HIDE DEF f, n
<1>4. ExistsBijection(1..n, E)
  BY <1>3 DEF ExistsBijection
<1>5. Cardinality(E) = n
  BY <1>1, <1>4, FS_CountingElements
<1>6. IsFiniteSet(E)
  BY <1>1, <1>4, FS_NatBijection
<1>7. QED
  BY <1>5, <1>6 DEF E, n

\* How many elements of a set are greater than a number.
Above(E, x) == Cardinality({m \in E : m > x})

\* A set in order holds each of its elements; so many are greater than the i-th.
LEMMA InOrderAll ==
  ASSUME NEW len \in Nat, NEW E \in SUBSET (1..len)
  PROVE  /\ Elements(InOrder(E)) = E
         /\ \A i \in 1..Cardinality(E) : Above(E, InOrder(E)[i]) = Cardinality(E) - i
<1> DEFINE c == Cardinality(E)
           s == InOrder(E)
<1>0. E \in SUBSET Nat /\ \A x \in E : x \in Nat
  OBVIOUS
<1>1. /\ IsFiniteSet(E) /\ c \in Nat
      /\ \A i \in Nat : IsFiniteSet(UpTo(E, i)) /\ Cardinality(UpTo(E, i)) \in Nat
      /\ \A i, j \in Nat : i < j /\ j \in E =>
            Cardinality(UpTo(E, i)) < Cardinality(UpTo(E, j))
  BY UpToSteps
<1>2. \A n \in 1..c : NthOf(E, n) \in E /\ Cardinality(UpTo(E, NthOf(E, n))) = n
  BY NthFound
<1>3. s = [n \in 1..c |-> NthOf(E, n)]
  BY DEF InOrder
<1> HIDE DEF s
<1>4. \A n \in 1..c : s[n] \in E /\ Cardinality(UpTo(E, s[n])) = n
  BY <1>2, <1>3
<1>5. ASSUME NEW x \in E
      PROVE  \E n \in 1..c : s[n] = x
  <2> DEFINE n == Cardinality(UpTo(E, x))
  <2>1. x \in Nat /\ n \in Nat
    BY <1>0, <1>1
  <2>2. x \in UpTo(E, x) /\ UpTo(E, x) \in SUBSET E
    BY <2>1 DEF UpTo
  <2>3. n # 0
    BY <1>1, <2>1, <2>2, FS_EmptySet
  <2>4. n <= c
    BY <1>1, <2>2, FS_Subset
  <2>5. n \in 1..c
    BY <1>1, <2>1, <2>3, <2>4
  <2> DEFINE y == s[n]
  <2>6. y \in E /\ y \in Nat /\ Cardinality(UpTo(E, y)) = n
    BY <1>0, <1>4, <2>5
  <2>7. ~(x < y) /\ ~(y < x)
    BY <1>1, <2>1, <2>6
  <2> HIDE DEF n
  <2>8. x = y
    BY <2>1, <2>6, <2>7
  <2>9. QED
    BY <2>5, <2>8
<1>6. Elements(s) = E
  <2>1. DOMAIN s = 1..c
    BY <1>3
  <2>2. QED
    BY <1>4, <1>5, <2>1 DEF Elements
<1>7. ASSUME NEW i \in 1..c
      PROVE  Above(E, s[i]) = c - i
  <2> DEFINE x == s[i]
             U == UpTo(E, x)
             V == {m \in E : m > x}
  <2>1. x \in E /\ x \in Nat /\ Cardinality(U) = i /\ i \in Nat
    BY <1>0, <1>1, <1>4
  <2>2. V = E \ U
    <3>1. \A m \in E : m > x <=> ~(m <= x)
      BY <1>0, <2>1
    <3>2. QED
      BY <3>1, Zenon DEF UpTo
  <2>3. E \cap U = U
    BY DEF UpTo
  <2> HIDE DEF U, V, x
  <2>4. Cardinality(E \ U) = Cardinality(E) - Cardinality(E \cap U)
    BY <1>1, FS_Difference
  <2>5. Cardinality(V) = c - i
    BY <2>1, <2>2, <2>3, <2>4
  <2>6. QED
    BY <2>5 DEF V, x, Above
<1>8. QED
  BY <1>6, <1>7 DEF s

Falling(s) == \A i, j \in DOMAIN s : i < j => s[i] > s[j]

\* The same the other way round.
LEMMA DescendingIs ==
  ASSUME NEW len \in Nat, NEW E \in SUBSET (1..len)
  PROVE  LET d == Descending(E) IN
         /\ Cardinality(E) \in Nat
         /\ d \in Seq(Nat) /\ Len(d) = Cardinality(E) /\ Falling(d) /\ Elements(d) = E
         /\ \A i \in 1..Cardinality(E) : d[i] \in E /\ Above(E, d[i]) = i - 1
<1> DEFINE c == Cardinality(E)
           s == InOrder(E)
           d == Descending(E)
<1>0. \A x \in E : x \in Nat
  OBVIOUS
<1>1. /\ c \in Nat /\ s \in Seq(Nat) /\ DOMAIN s = 1..c /\ Rising(s)
      /\ Elements(s) = E
      /\ \A i \in 1..c : Above(E, s[i]) = c - i
  BY InOrderIs, InOrderAll
<1> HIDE DEF c, s
<1>2. Len(s) = c
  BY <1>1, LenProperties
<1>3. d = [i \in 1..c |-> s[(c - i) + 1]]
  BY <1>2 DEF Descending, Reverse, s
<1> HIDE DEF d
<1>4. \A i \in 1..c : /\ (c - i) + 1 \in 1..c /\ c - ((c - i) + 1) = i - 1
                      /\ (c - ((c - i) + 1)) + 1 = i
  BY <1>1
<1>5. \A i \in 1..c : s[i] \in E
  BY <1>1 DEF Elements
<1>6. \A i \in 1..c : d[i] = s[(c - i) + 1] /\ d[i] \in E
  BY <1>3, <1>4, <1>5
<1>7. d \in Seq(Nat) /\ Len(d) = c /\ DOMAIN d = 1..c
  <2>1. d \in [1..c -> Nat]
    BY <1>0, <1>3, <1>6
  <2>2. QED
    BY <1>1, <2>1, IsASeq, LenProperties
<1>8. Falling(d)
  <2> SUFFICES ASSUME NEW i \in 1..c, NEW j \in 1..c, i < j PROVE d[i] > d[j]
    BY <1>7 DEF Falling
  <2>1. (c - j) + 1 < (c - i) + 1
    BY <1>1
  <2>2. s[(c - j) + 1] < s[(c - i) + 1]
    BY <1>1, <1>4, <2>1 DEF Rising
  <2>3. d[i] \in Nat /\ d[j] \in Nat
    BY <1>0, <1>6
  <2>4. QED
    BY <1>6, <2>2, <2>3
<1>9. Elements(d) = E
  <2>1. ASSUME NEW e \in E PROVE \E i \in 1..c : d[i] = e
    <3>1. PICK k \in 1..c : s[k] = e
      BY <1>1 DEF Elements
    <3>2. (c - k) + 1 \in 1..c /\ (c - ((c - k) + 1)) + 1 = k
      BY <1>4
    <3>3. d[(c - k) + 1] = e
      BY <1>6, <3>1, <3>2
    <3>4. QED
      BY <3>2, <3>3
  <2>2. QED
    BY <1>6, <1>7, <2>1 DEF Elements
<1>10. \A i \in 1..c : Above(E, d[i]) = i - 1
  BY <1>1, <1>4, <1>6
<1>11. QED
  BY <1>1, <1>6, <1>7, <1>8, <1>9, <1>10 DEF c, d

Once(s) == \A i, j \in 1..Len(s) : s[i] = s[j] => i = j

\* What comes first in a sequence.
LEMMA FirstOfIs ==
  ASSUME NEW s \in Seq(Nat), NEW n \in Nat
  PROVE  LET t == FirstOf(s, n) IN
         /\ t \in Seq(Nat) /\ Len(t) = Smaller(n, Len(s)) /\ Elements(t) \subseteq Elements(s)
         /\ \A i \in 1..Len(t) : i \in 1..Len(s) /\ t[i] = s[i]
         /\ Once(s) => Once(t)
<1> DEFINE k == Smaller(n, Len(s))
           t == FirstOf(s, n)
<1>1. Len(s) \in Nat /\ DOMAIN s = 1..Len(s)
  BY LenProperties
<1>2. k \in Nat /\ 0 <= k /\ k <= Len(s)
  BY <1>1 DEF Smaller
<1>3. t = SubSeq(s, 0 + 1, k)
  BY DEF FirstOf
<1> HIDE DEF t, k
<1>4. /\ SubSeq(s, 0 + 1, k) \in Seq(Nat) /\ Len(SubSeq(s, 0 + 1, k)) = k - 0
      /\ \A i \in 1..(k - 0) : 0 + i \in 1..Len(s) /\ SubSeq(s, 0 + 1, k)[i] = s[0 + i]
  BY <1>2, CutIs
<1>5. k - 0 = k /\ \A i \in 1..k : 0 + i = i
  BY <1>2
<1>6. t \in Seq(Nat) /\ Len(t) = k /\ \A i \in 1..k : i \in 1..Len(s) /\ t[i] = s[i]
  BY <1>3, <1>4, <1>5
<1>7. DOMAIN t = 1..k
  BY <1>6, LenProperties
<1>8. Elements(t) \subseteq Elements(s)
  BY <1>1, <1>6, <1>7 DEF Elements
<1>9. Once(s) => Once(t)
  BY <1>6 DEF Once
<1>10. QED
  BY <1>6, <1>8, <1>9 DEF t, k

\* The k greatest of a set.
Newest(E, k) == {x \in E : Above(E, x) < k}

LEMMA NewestIs ==
  ASSUME NEW len \in Nat, NEW E \in SUBSET (1..len), NEW k \in Nat
  PROVE  LET t == FirstOf(Descending(E), k) IN
         /\ t \in Seq(Nat) /\ Elements(t) = Newest(E, k)
         /\ Len(t) = Cardinality(Newest(E, k)) /\ Newest(E, k) \in SUBSET (1..len)
<1> DEFINE d == Descending(E)
           t == FirstOf(d, k)
           c == Cardinality(E)
<1>1. /\ c \in Nat /\ d \in Seq(Nat) /\ Len(d) = c /\ Falling(d) /\ Elements(d) = E
      /\ \A i \in 1..c : d[i] \in E /\ Above(E, d[i]) = i - 1
  BY DescendingIs
<1>2. DOMAIN d = 1..c /\ \A i \in 1..c : d[i] \in Nat
  BY <1>1, LenProperties
<1> HIDE DEF d, c
<1>3. Once(d)
  <2> SUFFICES ASSUME NEW i \in 1..Len(d), NEW j \in 1..Len(d), d[i] = d[j] PROVE i = j
    BY DEF Once
  <2>1. i \in 1..c /\ j \in 1..c
    BY <1>1
  <2>2. ~(i < j) /\ ~(j < i)
    BY <1>1, <1>2, <2>1 DEF Falling
  <2>3. QED
    BY <1>1, <2>1, <2>2
<1>4. /\ t \in Seq(Nat) /\ Len(t) = Smaller(k, c)
      /\ \A i \in 1..Len(t) : i \in 1..c /\ t[i] = d[i]
      /\ Once(t)
  BY <1>1, <1>3, FirstOfIs
<1> HIDE DEF t
<1>5. DOMAIN t = 1..Len(t)
  BY <1>4, LenProperties
<1>6. ASSUME NEW i \in 1..Len(t) PROVE t[i] \in Newest(E, k)
  <2>1. i \in 1..c /\ t[i] = d[i] /\ i <= k /\ i \in Nat
    BY <1>1, <1>4 DEF Smaller
  <2>2. Above(E, t[i]) = i - 1 /\ i - 1 < k /\ t[i] \in E
    BY <1>1, <2>1
  <2>3. QED
    BY <2>2 DEF Newest
<1>7. ASSUME NEW x \in Newest(E, k) PROVE \E i \in 1..Len(t) : t[i] = x
  <2>1. x \in E /\ Above(E, x) < k
    BY DEF Newest
  <2>2. PICK i \in 1..c : d[i] = x
    BY <1>1, <1>2, <2>1 DEF Elements
  <2>3. i - 1 < k
    BY <1>1, <2>1, <2>2
  <2>4. i \in 1..Len(t)
    BY <1>1, <1>4, <2>3 DEF Smaller
  <2>5. QED
    BY <1>4, <2>2, <2>4
<1>8. Elements(t) = Newest(E, k)
  BY <1>5, <1>6, <1>7 DEF Elements
<1>9. Cardinality(Elements(t)) = Len(t)
  BY <1>4, OnceCounts DEF Once
<1>10. Newest(E, k) \in SUBSET (1..len)
  BY DEF Newest
<1>11. QED
  BY <1>4, <1>8, <1>9, <1>10 DEF t, d

\* Two sequences with nothing in common, one behind the other.
LEMMA JoinOnce ==
  ASSUME NEW S, NEW s \in Seq(S), NEW t \in Seq(S)
  PROVE  /\ s \o t \in Seq(S) /\ Len(s \o t) = Len(s) + Len(t)
         /\ Elements(s \o t) = Elements(s) \cup Elements(t)
         /\ Once(s) /\ Once(t) /\ Elements(s) \cap Elements(t) = {} => Once(s \o t)
<1> DEFINE u == s \o t
           m == Len(s)
           n == Len(t)
<1>1. m \in Nat /\ n \in Nat /\ DOMAIN s = 1..m /\ DOMAIN t = 1..n
  BY LenProperties
<1>2. /\ u \in Seq(S) /\ Len(u) = m + n /\ DOMAIN u = 1..(m + n)
      /\ \A i \in 1..(m + n) : u[i] = IF i <= m THEN s[i] ELSE t[i - m]
  BY ConcatProperties, LenProperties
<1> HIDE DEF u, m, n
<1>3. \A i \in 1..(m + n) : /\ i <= m => i \in 1..m
                            /\ ~(i <= m) => i - m \in 1..n
  BY <1>1
<1>4. \A i \in 1..m : i \in 1..(m + n) /\ u[i] = s[i]
  BY <1>1, <1>2
<1>5. \A i \in 1..n : m + i \in 1..(m + n) /\ u[m + i] = t[i]
  <2> TAKE i \in 1..n
  <2>1. m + i \in 1..(m + n) /\ ~(m + i <= m) /\ (m + i) - m = i
    BY <1>1
  <2>2. QED
    BY <1>2, <2>1
<1>6. Elements(u) = Elements(s) \cup Elements(t)
  <2>1. \A i \in 1..(m + n) : u[i] \in Elements(s) \cup Elements(t)
    BY <1>1, <1>2, <1>3 DEF Elements
  <2>2. \A x \in Elements(s) : \E i \in 1..(m + n) : u[i] = x
    BY <1>1, <1>4 DEF Elements
  <2>3. \A x \in Elements(t) : \E i \in 1..(m + n) : u[i] = x
    BY <1>1, <1>5 DEF Elements
  <2>4. Elements(u) = {u[i] : i \in 1..(m + n)}
    BY <1>2 DEF Elements
  <2>5. \A x : x \in Elements(u) <=> \E i \in 1..(m + n) : u[i] = x
    BY <2>4
  <2>6. \A x : x \in Elements(u) <=> x \in Elements(s) \cup Elements(t)
    BY <2>1, <2>2, <2>3, <2>5, Zenon
  <2>7. QED
    BY <2>6, Zenon
<1>7. ASSUME Once(s), Once(t), Elements(s) \cap Elements(t) = {}
      PROVE  Once(u)
  <2> SUFFICES ASSUME NEW i \in 1..(m + n), NEW j \in 1..(m + n), u[i] = u[j] PROVE i = j
    BY <1>2 DEF Once
  <2>0. i \in Nat /\ j \in Nat
    BY <1>1
  <2>1. CASE i <= m /\ j <= m
    <3>1. i \in 1..m /\ j \in 1..m /\ s[i] = s[j]
      BY <1>2, <1>3, <2>1
    <3>2. QED
      BY <1>7, <3>1 DEF Once, m
  <2>2. CASE ~(i <= m) /\ ~(j <= m)
    <3>1. i - m \in 1..n /\ j - m \in 1..n /\ t[i - m] = t[j - m]
      BY <1>2, <1>3, <2>2
    <3>2. i - m = j - m
      BY <1>7, <3>1 DEF Once, n
    <3>3. QED
      BY <1>1, <2>0, <3>2
  <2>3. \A a, b \in 1..(m + n) : a <= m /\ ~(b <= m) => u[a] # u[b]
    <3> TAKE a, b \in 1..(m + n)
    <3> HAVE a <= m /\ ~(b <= m)
    <3>1. u[a] \in Elements(s) /\ u[b] \in Elements(t)
      BY <1>1, <1>2, <1>3 DEF Elements
    <3>2. QED
      BY <1>7, <3>1
  <2>4. QED
    BY <2>1, <2>2, <2>3
<1>8. QED
  BY <1>2, <1>6, <1>7 DEF u, m, n

-----------------------------------------------------------------------------
(* What the journals and files have. *)

LoggedOK == Len(lines) \in Nat /\ DOMAIN lines = 1..Len(lines)

\* The lines of some sources that a request finds, as far back as it reads.
Hits(r, S) ==
  {n \in Of(S) : Newer({lines[n].src}, n) < TailLines /\ Matches(r, n) /\ MeetsMin(lines[n].form, r.min)}

LEMMA HitsOf ==
  ASSUME LoggedOK, NEW r, NEW S
  PROVE  /\ Hits(r, S) \in SUBSET (1..Len(lines)) /\ Of(S) \in SUBSET (1..Len(lines))
         /\ \A n \in Hits(r, S) : lines[n].src \in S
BY DEF LoggedOK, Hits, Of

LEMMA HitsJoin ==
  ASSUME LoggedOK, NEW r, NEW S, NEW src, src \notin S
  PROVE  /\ Hits(r, S \cup {src}) = Hits(r, S) \cup Hits(r, {src})
         /\ Hits(r, S) \cap Hits(r, {src}) = {}
         /\ Cardinality(Hits(r, S \cup {src})) = Cardinality(Hits(r, S)) + Cardinality(Hits(r, {src}))
         /\ Cardinality(Hits(r, S)) \in Nat /\ Cardinality(Hits(r, {src})) \in Nat
<1> DEFINE A == Hits(r, S)
           B == Hits(r, {src})
<1>1. Hits(r, S \cup {src}) = A \cup B
  <2>1. \A n : n \in Of(S \cup {src}) <=> n \in Of(S) \/ n \in Of({src})
    BY DEF Of
  <2>2. \A n : n \in Hits(r, S \cup {src}) <=> n \in A \cup B
    BY <2>1, Zenon DEF Hits
  <2>3. QED
    BY <2>2, Zenon
<1>2. A \cap B = {}
  BY HitsOf
<1>3. A \in SUBSET (1..Len(lines)) /\ B \in SUBSET (1..Len(lines)) /\ Len(lines) \in Nat
  BY HitsOf DEF LoggedOK
<1> HIDE DEF A, B
<1>4. IsFiniteSet(A) /\ Cardinality(A) \in Nat /\ IsFiniteSet(B) /\ Cardinality(B) \in Nat
  BY <1>3, UpToSteps
<1>5. Cardinality(A \cup B) = Cardinality(A) + Cardinality(B) - Cardinality(A \cap B)
  BY <1>4, FS_Union
<1>6. Cardinality(A \cup B) = Cardinality(A) + Cardinality(B)
  BY <1>2, <1>4, <1>5, FS_EmptySet
<1>7. QED
  BY <1>1, <1>2, <1>4, <1>6 DEF A, B

\* Some of the set H, each once, and no more than k: fewer only if there are none.
FoundIn(s, H, k) ==
  s \in Seq(Nat) /\ Once(s) /\ Elements(s) \subseteq H /\ Len(s) = Smaller(k, Cardinality(H))

\* What search_file and search_journal return.
LEMMA InSourceIs ==
  ASSUME LoggedOK, NEW r, NEW src, NEW limit \in Nat
  PROVE  FoundIn(InSource(r, src, limit), Hits(r, {src}), limit)
<1> DEFINE H == Hits(r, {src})
           s == InOrder(H)
           X == {n \in Of({src}) : /\ Newer({src}, n) < TailLines
                                   /\ Matches(r, n) /\ MeetsMin(lines[n].form, r.min)}
<1>1. X = H
  <2>1. \A n \in Of({src}) : lines[n].src = src
    BY DEF Of
  <2>2. \A n : n \in X <=> n \in H
    BY <2>1, Zenon DEF Hits
  <2>3. QED
    BY <2>2, Zenon
<1>2. InSource(r, src, limit) = FirstOf(s, limit)
  BY <1>1 DEF InSource
<1>3. H \in SUBSET (1..Len(lines)) /\ Len(lines) \in Nat
  BY HitsOf DEF LoggedOK
<1> HIDE DEF H
<1>4. /\ s \in Seq(Nat) /\ DOMAIN s = 1..Cardinality(H) /\ Rising(s) /\ Elements(s) = H
      /\ Cardinality(H) \in Nat
  BY <1>3, InOrderIs, InOrderAll
<1> HIDE DEF s
<1>5. Len(s) = Cardinality(H) /\ DOMAIN s = 1..Len(s) /\ \A i \in 1..Len(s) : s[i] \in Nat
  BY <1>4, LenProperties
<1>6. Once(s)
  <2> SUFFICES ASSUME NEW i \in 1..Len(s), NEW j \in 1..Len(s), s[i] = s[j] PROVE i = j
    BY DEF Once
  <2>1. ~(i < j) /\ ~(j < i)
    BY <1>4, <1>5 DEF Rising
  <2>2. QED
    BY <2>1
<1>7. /\ FirstOf(s, limit) \in Seq(Nat) /\ Len(FirstOf(s, limit)) = Smaller(limit, Len(s))
      /\ Elements(FirstOf(s, limit)) \subseteq Elements(s) /\ Once(FirstOf(s, limit))
  BY <1>4, <1>6, FirstOfIs
<1>8. QED
  BY <1>2, <1>4, <1>5, <1>7 DEF FoundIn, H

\* One more source.
LEMMA MoreFound ==
  ASSUME LoggedOK, NEW r, NEW S, NEW src, src \notin S, NEW limit \in Nat,
         NEW s, FoundIn(s, Hits(r, S), limit)
  PROVE  FoundIn(AndFrom(s, r, src, limit), Hits(r, S \cup {src}), limit)
<1> DEFINE A == Hits(r, S)
           B == Hits(r, {src})
           t == InSource(r, src, limit - Len(s))
           m == Cardinality(A)
           n == Cardinality(B)
<1>0. /\ Hits(r, S \cup {src}) = Hits(r, S) \cup Hits(r, {src})
      /\ Hits(r, S) \cap Hits(r, {src}) = {}
      /\ Cardinality(Hits(r, S \cup {src})) = Cardinality(Hits(r, S)) + Cardinality(Hits(r, {src}))
      /\ Cardinality(Hits(r, S)) \in Nat /\ Cardinality(Hits(r, {src})) \in Nat
  BY HitsJoin
<1>1. /\ Hits(r, S \cup {src}) = A \cup B /\ A \cap B = {}
      /\ Cardinality(A \cup B) = m + n /\ m \in Nat /\ n \in Nat
  BY <1>0, Zenon
<1> HIDE DEF A, B, m, n
<1>2. s \in Seq(Nat) /\ Once(s) /\ Elements(s) \subseteq A /\ Len(s) = Smaller(limit, m)
  BY DEF FoundIn, A, m
<1>3. limit - Len(s) \in Nat /\ Len(s) \in Nat
  BY <1>1, <1>2 DEF Smaller
<1>4. t \in Seq(Nat) /\ Once(t) /\ Elements(t) \subseteq B /\ Len(t) = Smaller(limit - Len(s), n)
  BY <1>3, InSourceIs DEF FoundIn, B, n
<1>5. AndFrom(s, r, src, limit) = s \o t
  BY DEF AndFrom
<1> HIDE DEF t
<1>6. /\ s \o t \in Seq(Nat) /\ Len(s \o t) = Len(s) + Len(t)
      /\ Elements(s \o t) = Elements(s) \cup Elements(t) /\ Once(s \o t)
  <2>1. Elements(s) \cap Elements(t) = {}
    BY <1>1, <1>2, <1>4
  <2>2. s \in Seq(Nat) /\ t \in Seq(Nat)
    BY <1>2, <1>4
  <2>3. /\ s \o t \in Seq(Nat) /\ Len(s \o t) = Len(s) + Len(t)
        /\ Elements(s \o t) = Elements(s) \cup Elements(t)
        /\ Once(s) /\ Once(t) /\ Elements(s) \cap Elements(t) = {} => Once(s \o t)
    BY <2>2, JoinOnce
  <2>4. QED
    BY <1>2, <1>4, <2>1, <2>3, Zenon
<1>7. Len(s \o t) = Smaller(limit, m + n)
  <2>1. Len(t) \in Nat
    BY <1>4, LenProperties
  <2>2. QED
    BY <1>1, <1>2, <1>3, <1>4, <1>6, <2>1 DEF Smaller
<1>8. Elements(s \o t) \subseteq A \cup B
  BY <1>2, <1>4, <1>6
<1>9. QED
  BY <1>1, <1>5, <1>6, <1>7, <1>8 DEF FoundIn

\* What the journals and files give in turn, up to the n-th.
Finding(g, r, srcs, limit, n) ==
  g = [k \in 0..n |-> IF k = 0 THEN <<>> ELSE AndFrom(g[k - 1], r, srcs[k], limit)]

LEMMA FindingExists ==
  ASSUME NEW r, NEW srcs, NEW limit, NEW n \in Nat
  PROVE  \E g : Finding(g, r, srcs, limit, n)
<1> DEFINE Odd == {m \in Nat : ~(\E g : Finding(g, r, srcs, limit, m))}
<1>1. SUFFICES ASSUME Odd # {} PROVE FALSE
  OBVIOUS
<1>2. PICK m \in Odd : \A x \in Odd : m <= x
  <2>1. Odd \in SUBSET Nat
    OBVIOUS
  <2> HIDE DEF Odd
  <2>2. QED
    BY <1>1, <2>1, LeastExists
<1>3. m \in Nat /\ ~(\E g : Finding(g, r, srcs, limit, m))
  OBVIOUS
<1>4. CASE m = 0
  <2> DEFINE g == [k \in 0..0 |-> <<>>]
  <2>1. g = [k \in 0..0 |-> IF k = 0 THEN <<>> ELSE AndFrom(g[k - 1], r, srcs[k], limit)]
    OBVIOUS
  <2> HIDE DEF g
  <2>2. Finding(g, r, srcs, limit, 0)
    BY <2>1 DEF Finding
  <2>3. QED
    BY <1>3, <1>4, <2>2
<1>5. CASE m # 0
  <2>1. m - 1 \in Nat /\ ~(m <= m - 1)
    BY <1>3, <1>5
  <2>2. ~(m - 1 \in Odd)
    BY <1>2, <2>1
  <2>3. PICK g : Finding(g, r, srcs, limit, m - 1)
    BY <2>1, <2>2
  <2> DEFINE h == [k \in 0..m |-> IF k = m THEN AndFrom(g[k - 1], r, srcs[k], limit) ELSE g[k]]
  <2>4. ASSUME NEW k \in 0..m
        PROVE  h[k] = IF k = 0 THEN <<>> ELSE AndFrom(h[k - 1], r, srcs[k], limit)
    <3>1. k # 0 => k - 1 \in 0..m /\ k - 1 # m
      BY <1>3
    <3>2. k # 0 => h[k - 1] = g[k - 1]
      BY <3>1
    <3>3. CASE k = m
      BY <1>5, <3>2, <3>3
    <3>4. CASE k # m
      <4>1. k \in 0..(m - 1)
        BY <1>3, <3>4
      <4>2. g[k] = IF k = 0 THEN <<>> ELSE AndFrom(g[k - 1], r, srcs[k], limit)
        BY <2>3, <4>1 DEF Finding
      <4>3. h[k] = g[k]
        BY <3>4
      <4>4. QED
        BY <3>2, <4>2, <4>3
    <3>5. QED
      BY <3>3, <3>4
  <2>5. h = [k \in 0..m |-> h[k]]
    OBVIOUS
  <2> HIDE DEF h
  <2>6. h = [k \in 0..m |-> IF k = 0 THEN <<>> ELSE AndFrom(h[k - 1], r, srcs[k], limit)]
    BY <2>4, <2>5
  <2>7. Finding(h, r, srcs, limit, m)
    BY <2>6 DEF Finding
  <2>8. QED
    BY <1>3, <2>7
<1>6. QED
  BY <1>4, <1>5

\* The first n of some sources.
FirstSources(srcs, n) == {srcs[i] : i \in 1..n}

\* What is collected from the sources in turn: whatever they have, up to the limit.
LEMMA CollectIs ==
  ASSUME LoggedOK, NEW r, NEW S, NEW srcs \in Seq(S), NEW limit \in Nat,
         \A i, j \in 1..Len(srcs) : srcs[i] = srcs[j] => i = j
  PROVE  FoundIn(Collect(r, srcs, limit), Hits(r, Elements(srcs)), limit)
<1> DEFINE n == Len(srcs)
           f == CHOOSE g : Finding(g, r, srcs, limit, n)
           Fine(m) == FoundIn(f[m], Hits(r, FirstSources(srcs, m)), limit)
           Odd == {m \in 0..n : ~Fine(m)}
<1>1. n \in Nat /\ DOMAIN srcs = 1..n
  BY LenProperties
<1>2. Collect(r, srcs, limit) = f[n]
  BY DEF Collect, Finding
<1> HIDE DEF n
<1>3. Finding(f, r, srcs, limit, n)
  BY <1>1, FindingExists
<1> HIDE DEF f
<1>4. \A m \in 0..n : f[m] = IF m = 0 THEN <<>> ELSE AndFrom(f[m - 1], r, srcs[m], limit)
  BY <1>3 DEF Finding
<1>5. SUFFICES ASSUME Odd # {} PROVE FALSE
  <2>1. n \in 0..n
    BY <1>1
  <2>2. FirstSources(srcs, n) = Elements(srcs)
    BY <1>1 DEF FirstSources, Elements
  <2>3. QED
    BY <1>2, <2>1, <2>2
<1>6. PICK m \in Odd : \A x \in Odd : m <= x
  <2>1. Odd \in SUBSET Nat
    BY <1>1
  <2> HIDE DEF Odd
  <2>2. QED
    BY <1>5, <2>1, LeastExists
<1>7. m \in 0..n /\ ~Fine(m)
  OBVIOUS
<1>8. CASE m = 0
  <2>1. FirstSources(srcs, 0) = {}
    BY DEF FirstSources
  <2>2. Hits(r, {}) = {}
    BY HitsOf
  <2>3. Cardinality({}) = 0
    BY FS_EmptySet
  <2>4. Smaller(limit, 0) = 0
    BY DEF Smaller
  <2>5. <<>> \in Seq(Nat) /\ Len(<<>>) = 0 /\ Once(<<>>) /\ Elements(<<>>) = {}
    BY DEF Once, Elements
  <2>6. FoundIn(<<>>, {}, limit)
    BY <2>3, <2>4, <2>5 DEF FoundIn
  <2>7. f[0] = <<>>
    BY <1>1, <1>4
  <2>8. QED
    BY <1>7, <1>8, <2>1, <2>2, <2>6, <2>7
<1>9. CASE m # 0
  <2>1. m - 1 \in 0..n /\ ~(m <= m - 1) /\ m \in 1..n
    BY <1>1, <1>7, <1>9
  <2>2. Fine(m - 1)
    BY <1>6, <2>1
  <2> DEFINE S0 == FirstSources(srcs, m - 1)
  <2>3. srcs[m] \notin S0
    <3>1. \A i \in 1..(m - 1) : i \in 1..n /\ i # m
      BY <1>1, <2>1
    <3>2. \A i \in 1..(m - 1) : srcs[i] # srcs[m]
      BY <2>1, <3>1 DEF n
    <3>3. QED
      BY <3>2 DEF FirstSources
  <2>4. FirstSources(srcs, m) = S0 \cup {srcs[m]}
    <3>1. \A i : i \in 1..m <=> i \in 1..(m - 1) \/ i = m
      BY <1>1, <2>1
    <3>2. \A x : x \in FirstSources(srcs, m) <=> x \in S0 \cup {srcs[m]}
      BY <3>1 DEF FirstSources
    <3>3. QED
      BY <3>2, Zenon
  <2>5. f[m] = AndFrom(f[m - 1], r, srcs[m], limit)
    BY <1>4, <1>7, <1>9
  <2>6. FoundIn(f[m - 1], Hits(r, S0), limit)
    BY <2>2
  <2> HIDE DEF S0
  <2>7. FoundIn(AndFrom(f[m - 1], r, srcs[m], limit), Hits(r, S0 \cup {srcs[m]}), limit)
    BY <2>3, <2>6, MoreFound
  <2>8. QED
    BY <1>7, <2>4, <2>5, <2>7
<1>10. QED
  BY <1>8, <1>9

\* What is in a sequence.
LEMMA InSequence ==
  ASSUME NEW S, NEW s \in Seq(S)
  PROVE  /\ Elements(s) \subseteq S
         /\ IsInjective(s) => \A i, j \in 1..Len(s) : s[i] = s[j] => i = j
<1>1. DOMAIN s = 1..Len(s) /\ \A i \in 1..Len(s) : s[i] \in S
  BY LenProperties
<1>2. QED
  BY <1>1 DEF Elements, IsInjective

\* The scopes of a search, and what is found in one.
ScopeKnown(r) == r.scope \in {"all", "localhost"} \cup Elements(Journals \o Files)

LEMMA ScopeIs ==
  ASSUME NEW r, ScopeKnown(r)
  PROVE  /\ ScopeOf(r) \in Seq(Elements(Journals \o Files))
         /\ \A i, j \in 1..Len(ScopeOf(r)) : ScopeOf(r)[i] = ScopeOf(r)[j] => i = j
         /\ Elements(ScopeOf(r)) \subseteq Elements(Journals \o Files)
<1> DEFINE U == Elements(Journals \o Files)
<1>1. /\ Journals \in Seq(Elements(Journals)) /\ Files \in Seq(Elements(Files))
      /\ LocalFiles \in Seq(Elements(Files))
      /\ IsInjective(Journals \o Files) /\ IsInjective(LocalFiles)
  BY SearchAssumption
<1>2. Journals \o Files \in Seq(U) /\ Elements(Files) \subseteq U
  <2> DEFINE V == Elements(Journals) \cup Elements(Files)
  <2>1. Journals \in Seq(V) /\ Files \in Seq(V)
    BY <1>1, SeqMonotonic
  <2>2. Journals \o Files \in Seq(V) /\ U = V
    BY <2>1, JoinOnce
  <2>3. QED
    BY <2>2
<1> HIDE DEF U
<1>3. CASE r.scope = "all"
  <2>1. ScopeOf(r) = Journals \o Files
    BY <1>3 DEF ScopeOf
  <2>2. QED
    BY <1>1, <1>2, <2>1, InSequence DEF U
<1>4. CASE r.scope = "localhost"
  <2>1. ScopeOf(r) = LocalFiles
    BY <1>4 DEF ScopeOf
  <2>2. LocalFiles \in Seq(U)
    BY <1>1, <1>2, SeqMonotonic
  <2>3. QED
    BY <1>1, <2>1, <2>2, InSequence DEF U
<1>5. CASE r.scope \notin {"all", "localhost"}
  <2>1. ScopeOf(r) = <<r.scope>> /\ r.scope \in U
    BY <1>5 DEF ScopeOf, ScopeKnown, U
  <2>2. <<r.scope>> \in Seq(U) /\ Len(<<r.scope>>) = 1 /\ \A i \in 1..1 : i = 1
    BY <2>1
  <2>3. \A i, j \in 1..Len(<<r.scope>>) : i = j
    BY <2>2
  <2>4. QED
    BY <2>1, <2>2, <2>3, InSequence DEF U
<1>6. QED
  BY <1>3, <1>4, <1>5

-----------------------------------------------------------------------------
(* Shares and order. *)

\* A request that can be made.
Asked(r) ==
  /\ r.limit \in Nat \ {0} /\ r.ask \in SUBSET Origins /\ r.ask # {}
  /\ r.since \in Nat /\ ScopeKnown(r)

LEMMA OriginCount ==
  ASSUME NEW A \in SUBSET Origins, A # {}
  PROVE  Cardinality(A) \in {1, 2, 3}
<1>1. /\ IsFiniteSet({"hub"}) /\ Cardinality({"hub"}) = 1
      /\ IsFiniteSet({"hub", "files"}) /\ Cardinality({"hub", "files"}) \in 1..2
      /\ IsFiniteSet(Origins) /\ Cardinality(Origins) \in 1..3
  <2>1. IsFiniteSet({"hub"}) /\ Cardinality({"hub"}) = 1
    BY FS_Singleton
  <2>2. {"hub"} \cup {"files"} = {"hub", "files"} /\ {"hub", "files"} \cup {"archive"} = Origins
    BY DEF Origins
  <2>3. IsFiniteSet({"hub", "files"}) /\ Cardinality({"hub", "files"}) \in 1..2
    BY <2>1, <2>2, FS_AddElement
  <2>4. IsFiniteSet(Origins) /\ Cardinality(Origins) \in 1..3
    BY <2>2, <2>3, FS_AddElement
  <2>5. QED
    BY <2>1, <2>3, <2>4
<1>2. IsFiniteSet(A) /\ Cardinality(A) <= Cardinality(Origins)
  BY <1>1, FS_Subset
<1>3. Cardinality(A) \in Nat /\ Cardinality(A) # 0
  BY <1>2, FS_CardinalityType, FS_EmptySet
<1>4. QED
  BY <1>1, <1>2, <1>3

\* The greatest number of lines of which everyone asked can have as many.
FairFor(k, n, c) == k \in 1..n /\ (k = 1 \/ k * c <= n) /\ (k + 1) * c > n

LEMMA FitsOnce ==
  ASSUME NEW n \in Nat \ {0}, NEW c \in {1, 2, 3}
  PROVE  /\ FairFor(IF n \div c = 0 THEN 1 ELSE n \div c, n, c)
         /\ \A i, j : FairFor(i, n, c) /\ FairFor(j, n, c) => i = j
<1>1. CASE c = 1
  BY <1>1, SMTT(30) DEF FairFor
<1>2. CASE c = 2
  BY <1>2, SMTT(30) DEF FairFor
<1>3. CASE c = 3
  BY <1>3, SMTT(30) DEF FairFor
<1>4. QED
  BY <1>1, <1>2, <1>3

LEMMA ShareIs ==
  ASSUME NEW r, Asked(r)
  PROVE  Share(r) = FairShare(r) /\ Share(r) \in Nat
<1> DEFINE c == Cardinality(r.ask)
           n == r.limit
           k == Share(r)
<1>1. c \in {1, 2, 3} /\ n \in Nat \ {0}
  BY OriginCount DEF Asked
<1>2. k = IF n \div c = 0 THEN 1 ELSE n \div c
  BY DEF Share
<1>3. FairShare(r) = CHOOSE i \in 1..n : (i = 1 \/ i * c <= n) /\ (i + 1) * c > n
  BY DEF FairShare
<1> HIDE DEF c, n, k
<1>4. FairFor(k, n, c) /\ \A i, j : FairFor(i, n, c) /\ FairFor(j, n, c) => i = j
  BY <1>1, <1>2, FitsOnce
<1>5. k \in 1..n /\ (k = 1 \/ k * c <= n) /\ (k + 1) * c > n
  BY <1>4 DEF FairFor
<1> DEFINE f == FairShare(r)
<1>6. f \in 1..n /\ (f = 1 \/ f * c <= n) /\ (f + 1) * c > n
  BY <1>3, <1>5
<1> HIDE DEF f
<1>7. FairFor(f, n, c)
  BY <1>6 DEF FairFor
<1>8. k = f
  BY <1>4, <1>7
<1>9. QED
  BY <1>1, <1>5, <1>8 DEF k, f

\* What sorting the lines found makes of them.
Sorted(r, s) ==
  \A i, j \in 1..Len(s) : i < j => (r.order = "asc" <=> s[i] < s[j])

LEMMA RisingOnce ==
  ASSUME NEW s \in Seq(Nat)
  PROVE  Rising(s) \/ Falling(s) => Once(s)
<1>1. DOMAIN s = 1..Len(s) /\ Len(s) \in Nat /\ \A i \in 1..Len(s) : s[i] \in Nat
  BY LenProperties
<1> SUFFICES ASSUME Rising(s) \/ Falling(s),
                    NEW i \in 1..Len(s), NEW j \in 1..Len(s), s[i] = s[j]
             PROVE  i = j
  BY DEF Once
<1>2. ~(i < j) /\ ~(j < i)
  <2>1. CASE Rising(s)
    BY <1>1, <2>1 DEF Rising
  <2>2. CASE Falling(s)
    BY <1>1, <2>2 DEF Falling
  <2>3. QED
    BY <2>1, <2>2
<1>3. QED
  BY <1>1, <1>2

LEMMA OrderedIs ==
  ASSUME LoggedOK, NEW r, NEW s \in Seq(Nat), Elements(s) \in SUBSET (1..Len(lines)), Once(s)
  PROVE  LET t == InOrderOf(r, s) IN
         /\ t \in Seq(Nat) /\ Once(t) /\ Elements(t) = Elements(s) /\ Len(t) = Len(s)
         /\ Sorted(r, t)
<1> DEFINE E == Elements(s)
           u == InOrder(E)
           d == Descending(E)
<1>1. E \in SUBSET (1..Len(lines)) /\ Len(lines) \in Nat
  BY DEF LoggedOK
<1>2. Cardinality(E) = Len(s)
  BY OnceCounts DEF Once
<1>3. InOrderOf(r, s) = IF r.order = "asc" THEN u ELSE d
  BY DEF InOrderOf
<1> HIDE DEF E
<1>4. u \in Seq(Nat) /\ DOMAIN u = 1..Cardinality(E) /\ Rising(u) /\ Elements(u) = E
      /\ Cardinality(E) \in Nat
  BY <1>1, InOrderIs, InOrderAll
<1>5. d \in Seq(Nat) /\ Len(d) = Cardinality(E) /\ Falling(d) /\ Elements(d) = E
  BY <1>1, DescendingIs
<1> HIDE DEF u, d
<1>6. Len(u) = Cardinality(E) /\ DOMAIN u = 1..Len(u) /\ DOMAIN d = 1..Len(d)
  BY <1>4, <1>5, LenProperties
<1>7. CASE r.order = "asc"
  <2>1. Once(u)
    BY <1>4, RisingOnce
  <2>2. Sorted(r, u)
    BY <1>4, <1>6, <1>7 DEF Rising, Sorted
  <2>3. QED
    BY <1>2, <1>3, <1>4, <1>6, <1>7, <2>1, <2>2 DEF E
<1>8. CASE r.order # "asc"
  <2>1. Once(d)
    BY <1>5, RisingOnce
  <2>2. Sorted(r, d)
    <3>1. \A i \in 1..Len(d) : d[i] \in Nat
      BY <1>5, LenProperties
    <3>2. ASSUME NEW i \in 1..Len(d), NEW j \in 1..Len(d), i < j PROVE ~(d[i] < d[j])
      <4>1. d[i] > d[j]
        BY <1>5, <1>6, <3>2, Zenon DEF Falling
      <4>2. d[i] \in Nat /\ d[j] \in Nat
        BY <3>1
      <4>3. QED
        BY <4>1, <4>2
    <3>3. QED
      BY <1>8, <3>2 DEF Sorted
  <2>3. QED
    BY <1>2, <1>3, <1>5, <1>8, <2>1, <2>2 DEF E
<1>9. QED
  BY <1>7, <1>8

-----------------------------------------------------------------------------
(* What each origin contributes. *)

\* A contribution: lines of the offer, each once; the number that is due, and of
\* a database exactly those that are owed.
DueFrom(r, o) ==
  IF o = "files" THEN Smaller(FairShare(r), Cardinality(Offer(r, o))) ELSE Cardinality(Owed(r, o))
GivenBy(s, r, o) ==
  /\ s \in Seq(Nat) /\ Once(s) /\ Elements(s) \subseteq Offer(r, o) /\ Len(s) = DueFrom(r, o)
  /\ o # "files" => Elements(s) = Owed(r, o)

LEMMA OfferIs ==
  ASSUME LoggedOK, NEW r, ScopeKnown(r)
  PROVE  /\ Offer(r, "hub") \in SUBSET (1..Len(lines))
         /\ Offer(r, "files") \in SUBSET (1..Len(lines))
         /\ Offer(r, "archive") \in SUBSET (1..Len(lines))
         /\ Offer(r, "hub") \cap Offer(r, "files") = {}
         /\ Offer(r, "hub") \cap Offer(r, "archive") = {}
         /\ Offer(r, "files") \cap Offer(r, "archive") = {}
<1> DEFINE U == Elements(Journals \o Files)
           S == Elements(ScopeOf(r))
<1>1. Offer(r, "hub") \subseteq Of(HubTypes)
  BY DEF Offer
<1>2. Offer(r, "files") \subseteq Of(S)
  BY DEF Offer
<1>3. Offer(r, "archive") \subseteq Of({Archive})
  BY DEF Offer
<1>4. S \subseteq U
  BY ScopeIs
<1>5. Archive \notin HubTypes /\ (HubTypes \cup {Archive}) \cap U = {}
  BY SearchAssumption
<1> HIDE DEF S, U
<1>6. \A n \in Of(HubTypes) : n \notin Of(S) /\ n \notin Of({Archive})
  BY <1>4, <1>5 DEF Of
<1>7. \A n \in Of(S) : n \notin Of({Archive})
  BY <1>4, <1>5 DEF Of
<1>8. Of(HubTypes) \in SUBSET (1..Len(lines)) /\ Of(S) \in SUBSET (1..Len(lines))
      /\ Of({Archive}) \in SUBSET (1..Len(lines))
  BY DEF Of, LoggedOK
<1>9. QED
  BY <1>1, <1>2, <1>3, <1>6, <1>7, <1>8

\* The journals and files.
LEMMA FilesGive ==
  ASSUME LoggedOK, NEW r, Asked(r), "files" \in r.ask \ {r.down}
  PROVE  GivenBy(PartOf(r, "files"), r, "files")
<1> DEFINE H == Hits(r, Elements(ScopeOf(r)))
           k == Share(r)
           c == Collect(r, ScopeOf(r), k)
<1>1. k \in Nat /\ k = FairShare(r)
  BY ShareIs
<1>2. CASE Bad(r)
  <2>1. PartOf(r, "files") = <<>>
    BY <1>2 DEF PartOf
  <2>2. Offer(r, "files") = {}
    BY <1>2 DEF Offer
  <2>3. Cardinality({}) = 0 /\ Smaller(FairShare(r), 0) = 0
    BY <1>1, FS_EmptySet DEF Smaller
  <2>4. <<>> \in Seq(Nat) /\ Len(<<>>) = 0 /\ Once(<<>>) /\ Elements(<<>>) = {}
    BY DEF Once, Elements
  <2>5. QED
    BY <2>1, <2>2, <2>3, <2>4 DEF GivenBy, DueFrom
<1>3. CASE ~Bad(r)
  <2>1. Offer(r, "files") = H
    <3>1. \A n : n \in Offer(r, "files") <=> n \in H
      BY <1>3, Zenon DEF Offer, Hits
    <3>2. QED
      BY <3>1, Zenon
  <2>2. PartOf(r, "files") = InOrderOf(r, c)
    BY <1>3 DEF PartOf, SearchLogs
  <2>3. /\ ScopeOf(r) \in Seq(Elements(Journals \o Files))
        /\ \A i, j \in 1..Len(ScopeOf(r)) : ScopeOf(r)[i] = ScopeOf(r)[j] => i = j
    BY ScopeIs DEF Asked
  <2>4. FoundIn(c, H, k)
    BY <1>1, <2>3, CollectIs
  <2>5. H \in SUBSET (1..Len(lines))
    BY HitsOf
  <2> HIDE DEF c, H, k
  <2>6. c \in Seq(Nat) /\ Once(c) /\ Elements(c) \subseteq H /\ Len(c) = Smaller(k, Cardinality(H))
    BY <2>4 DEF FoundIn
  <2> DEFINE t == InOrderOf(r, c)
  <2>7. t \in Seq(Nat) /\ Once(t) /\ Elements(t) = Elements(c) /\ Len(t) = Len(c)
    BY <2>5, <2>6, OrderedIs
  <2> HIDE DEF t
  <2>8. PartOf(r, "files") = t
    BY <2>2 DEF t
  <2>9. QED
    BY <1>1, <2>1, <2>6, <2>7, <2>8 DEF GivenBy, DueFrom
<1>4. QED
  BY <1>2, <1>3

\* What a database shows first.
LEMMA FirstGiven ==
  ASSUME LoggedOK, NEW E \in SUBSET (1..Len(lines)), NEW k \in Nat
  PROVE  LET t == FirstOf(Descending(E), k) IN
         t \in Seq(Nat) /\ Elements(t) = Newest(E, k) /\ Once(t) /\ Len(t) = Cardinality(Newest(E, k))
<1>1. Len(lines) \in Nat
  BY DEF LoggedOK
<1>2. /\ Descending(E) \in Seq(Nat) /\ Falling(Descending(E))
  BY <1>1, DescendingIs
<1>3. Once(Descending(E))
  BY <1>2, RisingOnce
<1>4. Once(FirstOf(Descending(E), k))
  BY <1>2, <1>3, FirstOfIs
<1>5. QED
  BY <1>1, <1>4, NewestIs

\* The archive.
LEMMA ArchiveGives ==
  ASSUME LoggedOK, NEW r, Asked(r), "archive" \in r.ask \ {r.down}
  PROVE  GivenBy(PartOf(r, "archive"), r, "archive")
<1> DEFINE E == Offer(r, "archive")
           k == Share(r)
           t == FirstOf(Descending(E), k)
<1>1. k \in Nat /\ k = FairShare(r)
  BY ShareIs
<1>2. E \in SUBSET (1..Len(lines))
  BY OfferIs DEF Asked
<1>3. PartOf(r, "archive") = t
  <2> DEFINE X == {n \in Of({Archive}) :
                     n >= r.since /\ IF r.regex THEN r.query \in lines[n].terms
                                     ELSE Len(r.query) = 1 /\ r.query[1] \in lines[n].terms}
  <2>1. E = {n \in Of({Archive}) :
               n >= r.since /\ (IF r.regex THEN r.query ELSE r.query[1]) \in lines[n].terms
               /\ (r.regex \/ Len(r.query) = 1)}
    BY DEF Offer
  <2>2. CASE r.regex
    <3>1. \A n : n \in X <=> n \in E
      BY <2>1, <2>2
    <3>2. QED
      BY <3>1, Zenon DEF PartOf, InArchive
  <2>3. CASE ~r.regex
    <3>1. \A n : n \in X <=> n \in E
      BY <2>1, <2>3
    <3>2. QED
      BY <3>1, Zenon DEF PartOf, InArchive
  <2>4. QED
    BY <2>2, <2>3
<1>4. Owed(r, "archive") = Newest(E, k)
  BY <1>1 DEF Owed, Newest, Above
<1> HIDE DEF E, k
<1>5. t \in Seq(Nat) /\ Elements(t) = Newest(E, k) /\ Once(t) /\ Len(t) = Cardinality(Newest(E, k))
  BY <1>1, <1>2, FirstGiven
<1> HIDE DEF t
<1>6. Newest(E, k) \subseteq E
  BY DEF Newest
<1>7. QED
  BY <1>3, <1>4, <1>5, <1>6 DEF GivenBy, DueFrom, E

\* Among the events since a time, as many are newer as among all.
LEMMA NewerSince ==
  ASSUME LoggedOK, NEW S, NEW since \in Nat, NEW n \in Of(S), n >= since
  PROVE  Above({m \in Of(S) : m >= since}, n) = Newer(S, n)
<1>1. \A m \in Of(S) : m \in Nat
  BY DEF Of, LoggedOK
<1>2. \A m \in Of(S) : m > n => m >= since
  BY <1>1
<1>3. {m \in {x \in Of(S) : x >= since} : m > n} = {m \in Of(S) : m > n}
  BY <1>2
<1>4. QED
  BY <1>3 DEF Above, Newer

\* What the event table offers.
LEMMA HubOffers ==
  ASSUME LoggedOK, NEW r, Asked(r)
  PROVE  HubHits(r, {n \in Of(HubTypes) : n >= r.since}, Share(r)) = Descending(Offer(r, "hub"))
<1> DEFINE E == Offer(r, "hub")
           I == {n \in Of(HubTypes) : n >= r.since}
           k == Share(r)
<1>1. k \in Nat /\ RegexFetch \in Nat /\ Len(lines) \in Nat /\ r.since \in Nat
  BY ShareIs, SearchAssumption DEF Asked, LoggedOK
<1>2. I \in SUBSET (1..Len(lines))
  BY DEF Of, LoggedOK
<1>3. CASE r.regex
  <2> DEFINE f == RegexFetch * k
             t == FirstOf(Descending(I), f)
             X == {n \in Elements(t) : r.query # Invalid /\ Matches(r, n)}
  <2>1. f \in Nat
    BY <1>1
  <2>2. E = {n \in Of(HubTypes) : n >= r.since /\ r.query # Invalid /\ Matches(r, n) /\ Newer(HubTypes, n) < f}
    BY <1>3 DEF Offer
  <2>3. HubHits(r, I, k) = Descending(X)
    BY <1>3 DEF HubHits
  <2> HIDE DEF f, E
  <2>4. Elements(t) = Newest(I, f)
    BY <1>1, <1>2, <2>1, NewestIs
  <2> HIDE DEF t
  <2>5. \A n : n \in Newest(I, f) <=> n \in Of(HubTypes) /\ n >= r.since /\ Newer(HubTypes, n) < f
    <3> DEFINE J == {m \in Of(HubTypes) : m >= r.since}
    <3>1. \A n \in Of(HubTypes) : n >= r.since => Above(J, n) = Newer(HubTypes, n)
      BY <1>1, NewerSince
    <3> HIDE DEF J
    <3>2. \A n : n \in Newest(J, f) <=> n \in J /\ Above(J, n) < f
      BY DEF Newest
    <3>3. \A n : n \in J <=> n \in Of(HubTypes) /\ n >= r.since
      BY DEF J
    <3>4. I = J
      BY DEF J
    <3>5. QED
      BY <3>1, <3>2, <3>3, <3>4
  <2> HIDE DEF I
  <2>6. \A n : n \in X <=> n \in E
    BY <2>2, <2>4, <2>5, Zenon
  <2>7. X = E
    BY <2>6, Zenon
  <2>8. QED
    BY <2>3, <2>7 DEF E, I
<1>4. CASE ~r.regex
  <2> DEFINE X == {n \in I : Elements(r.query) \subseteq lines[n].terms}
  <2>1. HubHits(r, I, k) = Descending(X)
    BY <1>4 DEF HubHits
  <2>2. E = {n \in Of(HubTypes) : n >= r.since /\ \A i \in DOMAIN r.query : r.query[i] \in lines[n].terms}
    BY <1>4 DEF Offer
  <2>3. \A n : Elements(r.query) \subseteq lines[n].terms <=> \A i \in DOMAIN r.query : r.query[i] \in lines[n].terms
    BY DEF Elements
  <2> HIDE DEF E
  <2>4. \A n : n \in X <=> n \in E
    BY <2>2, <2>3, Zenon
  <2>5. X = E
    BY <2>4, Zenon
  <2>6. QED
    BY <2>1, <2>5 DEF E, I
<1>5. QED
  BY <1>3, <1>4

\* The event table.
LEMMA HubGives ==
  ASSUME LoggedOK, NEW r, Asked(r), "hub" \in r.ask \ {r.down}
  PROVE  GivenBy(PartOf(r, "hub"), r, "hub")
<1> DEFINE E == Offer(r, "hub")
           k == Share(r)
           t == FirstOf(Descending(E), k)
           W == Owed(r, "hub")
<1>1. k \in Nat /\ k = FairShare(r) /\ Len(lines) \in Nat
  BY ShareIs DEF LoggedOK
<1>2. E \in SUBSET (1..Len(lines))
  BY OfferIs DEF Asked
<1>3. InHub(r, k) = t
  BY HubOffers DEF InHub
<1>4. PartOf(r, "hub") = Descending({n \in Elements(t) : r.type \in {"none", lines[n].src}})
  BY <1>3 DEF PartOf
<1>5. W = {n \in E : Above(E, n) < k /\ r.type \in {"none", lines[n].src}}
  BY <1>1 DEF Owed, Above
<1> HIDE DEF E, k, W
<1>6. Elements(t) = Newest(E, k)
  BY <1>1, <1>2, FirstGiven
<1> HIDE DEF t
<1>7. {n \in Elements(t) : r.type \in {"none", lines[n].src}} = W
  <2>1. \A n : n \in Newest(E, k) <=> n \in E /\ Above(E, n) < k
    BY DEF Newest
  <2>2. QED
    BY <1>5, <1>6, <2>1
<1>8. W \in SUBSET (1..Len(lines)) /\ W \subseteq E
  BY <1>2, <1>5
<1>9. /\ Descending(W) \in Seq(Nat) /\ Len(Descending(W)) = Cardinality(W)
      /\ Falling(Descending(W)) /\ Elements(Descending(W)) = W
  BY <1>1, <1>8, DescendingIs
<1>10. Once(Descending(W))
  BY <1>9, RisingOnce
<1>11. QED
  BY <1>4, <1>7, <1>8, <1>9, <1>10 DEF GivenBy, DueFrom, E, W

\* What an origin contributes, if it is asked and works.
Works(r, o) == o \in r.ask \ {r.down}
Part(s, r, o) ==
  /\ s \in Seq(Nat) /\ Once(s)
  /\ IF Works(r, o) THEN GivenBy(s, r, o) ELSE Elements(s) = {} /\ Len(s) = 0

LEMMA PartIs ==
  ASSUME LoggedOK, NEW r, Asked(r), NEW o \in Origins
  PROVE  Part(PartOf(r, o), r, o)
<1>1. CASE Works(r, o)
  <2>1. GivenBy(PartOf(r, o), r, o)
    BY <1>1, HubGives, FilesGive, ArchiveGives DEF Works, Origins
  <2>2. QED
    BY <1>1, <2>1 DEF Part, GivenBy
<1>2. CASE ~Works(r, o)
  <2>1. PartOf(r, o) = <<>>
    BY <1>2 DEF PartOf, Works
  <2>2. <<>> \in Seq(Nat) /\ Len(<<>>) = 0 /\ Once(<<>>) /\ Elements(<<>>) = {}
    BY DEF Once, Elements
  <2>3. QED
    BY <1>2, <2>1, <2>2 DEF Part
<1>3. QED
  BY <1>1, <1>2

\* The contributions of all, put together, sorted and cut to the limit.
LEMMA ShownIs ==
  ASSUME LoggedOK, NEW r, Asked(r),
         NEW h, Part(h, r, "hub"), NEW f, Part(f, r, "files"), NEW a, Part(a, r, "archive")
  PROVE  LET t == FirstOf(InOrderOf(r, h \o f \o a), r.limit)
             total == Len(h) + Len(f) + Len(a)
             all == Elements(h) \cup Elements(f) \cup Elements(a)
         IN  /\ t \in Seq(Nat) /\ Len(t) = Cardinality(Elements(t))
             /\ Len(t) = Smaller(r.limit, total) /\ Sorted(r, t)
             /\ Elements(t) \subseteq all /\ all \subseteq 1..Len(lines)
             /\ total <= r.limit => Elements(t) = all
<1> DEFINE total == Len(h) + Len(f) + Len(a)
           all == Elements(h) \cup Elements(f) \cup Elements(a)
           j == h \o f \o a
           u == InOrderOf(r, j)
           t == FirstOf(u, r.limit)
<1>1. /\ h \in Seq(Nat) /\ Once(h) /\ f \in Seq(Nat) /\ Once(f) /\ a \in Seq(Nat) /\ Once(a)
      /\ Elements(h) \subseteq Offer(r, "hub") /\ Elements(f) \subseteq Offer(r, "files")
      /\ Elements(a) \subseteq Offer(r, "archive")
  BY DEF Part, GivenBy
<1>2. /\ Elements(h) \cap Elements(f) = {}
      /\ (Elements(h) \cup Elements(f)) \cap Elements(a) = {}
      /\ all \in SUBSET (1..Len(lines))
  <2>1. ScopeKnown(r)
    BY DEF Asked
  <2>2. QED
    BY <1>1, <2>1, OfferIs
<1>3. /\ h \o f \in Seq(Nat) /\ Len(h \o f) = Len(h) + Len(f)
      /\ Elements(h \o f) = Elements(h) \cup Elements(f) /\ Once(h \o f)
  <2>1. /\ h \o f \in Seq(Nat) /\ Len(h \o f) = Len(h) + Len(f)
        /\ Elements(h \o f) = Elements(h) \cup Elements(f)
        /\ Once(h) /\ Once(f) /\ Elements(h) \cap Elements(f) = {} => Once(h \o f)
    BY <1>1, JoinOnce
  <2>2. QED
    BY <1>1, <1>2, <2>1, Zenon
<1>4. j \in Seq(Nat) /\ Len(j) = total /\ Elements(j) = all /\ Once(j)
  <2> DEFINE g == h \o f
  <2>1. g \in Seq(Nat) /\ a \in Seq(Nat)
    BY <1>1, <1>3
  <2>2. Len(g) = Len(h) + Len(f) /\ Elements(g) = Elements(h) \cup Elements(f) /\ Once(g)
    BY <1>3
  <2>3. j = g \o a
    OBVIOUS
  <2> HIDE DEF g, j
  <2>4. /\ g \o a \in Seq(Nat) /\ Len(g \o a) = Len(g) + Len(a)
        /\ Elements(g \o a) = Elements(g) \cup Elements(a)
        /\ Once(g) /\ Once(a) /\ Elements(g) \cap Elements(a) = {} => Once(g \o a)
    BY <2>1, JoinOnce
  <2>5. QED
    BY <1>1, <1>2, <2>2, <2>3, <2>4, Zenon
<1> HIDE DEF j, all, total
<1>5. u \in Seq(Nat) /\ Once(u) /\ Elements(u) = all /\ Len(u) = total /\ Sorted(r, u)
  <2>1. Elements(j) \in SUBSET (1..Len(lines))
    BY <1>2, <1>4
  <2>2. /\ u \in Seq(Nat) /\ Once(u) /\ Elements(u) = Elements(j) /\ Len(u) = Len(j) /\ Sorted(r, u)
    BY <1>4, <2>1, OrderedIs
  <2>3. QED
    BY <1>4, <2>2
<1> HIDE DEF u
<1>6. r.limit \in Nat
  BY DEF Asked
<1>7. /\ t \in Seq(Nat) /\ Len(t) = Smaller(r.limit, Len(u)) /\ Elements(t) \subseteq Elements(u)
      /\ \A i \in 1..Len(t) : i \in 1..Len(u) /\ t[i] = u[i]
      /\ Once(u) => Once(t)
  BY <1>5, <1>6, FirstOfIs
<1> HIDE DEF t
<1>8. Len(t) = Cardinality(Elements(t))
  BY <1>5, <1>7, OnceCounts DEF Once
<1>9. Sorted(r, t)
  BY <1>5, <1>7 DEF Sorted
<1>10. total <= r.limit => Elements(t) = all
  <2> SUFFICES ASSUME total <= r.limit PROVE Elements(t) = all
    OBVIOUS
  <2>1. Len(t) = Len(u) /\ Len(u) \in Nat
    <3>1. total \in Nat
      BY <1>5, LenProperties
    <3>2. QED
      BY <1>5, <1>6, <1>7, <3>1 DEF Smaller
  <2>2. DOMAIN t = 1..Len(t) /\ DOMAIN u = 1..Len(u)
    BY <1>5, <1>7, LenProperties
  <2>3. Elements(u) \subseteq Elements(t)
    BY <1>7, <2>1, <2>2 DEF Elements
  <2>4. QED
    BY <1>5, <1>7, <2>3
<1>11. QED
  BY <1>2, <1>5, <1>7, <1>8, <1>9, <1>10 DEF t, u, j, all, total

\* SearchSound for an answer, when the lines are L, part by part.
OfIn(L, srcs) == {n \in DOMAIN L : L[n].src \in srcs}
NewerIn(L, srcs, n) == Cardinality({m \in OfIn(L, srcs) : m > n})
MatchesIn(L, r, n) ==
  IF r.regex THEN r.query \in L[n].terms ELSE L[n].terms \in Parse(r.query).is
OfferIn(L, r, o) ==
  CASE o = "hub" ->
         {n \in OfIn(L, HubTypes) : n >= r.since /\
            IF r.regex THEN r.query # Invalid /\ MatchesIn(L, r, n)
                            /\ NewerIn(L, HubTypes, n) < RegexFetch * Share(r)
            ELSE \A i \in DOMAIN r.query : r.query[i] \in L[n].terms}
    [] o = "files" ->
         {n \in OfIn(L, Elements(ScopeOf(r))) : ~Bad(r) /\ MatchesIn(L, r, n)
            /\ MeetsMin(L[n].form, r.min) /\ NewerIn(L, {L[n].src}, n) < TailLines}
    [] o = "archive" ->
         {n \in OfIn(L, {Archive}) : n >= r.since
            /\ (IF r.regex THEN r.query ELSE r.query[1]) \in L[n].terms
            /\ (r.regex \/ Len(r.query) = 1)}
OwedIn(L, r, o) ==
  {n \in OfferIn(L, r, o) : /\ Cardinality({m \in OfferIn(L, r, o) : m > n}) < FairShare(r)
                            /\ r.type \in {"none", L[n].src} \/ o # "hub"}
WorksIn(a) == a.request.ask \ {a.request.down}
TotalIn(a) == a.counts["hub"] + a.counts["files"] + a.counts["archive"]
ShapeIn(a) ==
  /\ Len(a.results) = Cardinality(Elements(a.results))
  /\ Len(a.results) = IF TotalIn(a) < a.request.limit THEN TotalIn(a) ELSE a.request.limit
  /\ \A i, j \in DOMAIN a.results :
       i < j => (a.request.order = "asc" <=> a.results[i] < a.results[j])
CountsIn(L, a) ==
  \A o \in Origins : a.counts[o] =
    CASE o \notin WorksIn(a) -> 0
      [] o \in WorksIn(a) /\ o = "files" ->
           IF Cardinality(OfferIn(L, a.request, o)) < FairShare(a.request)
           THEN Cardinality(OfferIn(L, a.request, o)) ELSE FairShare(a.request)
      [] o \in WorksIn(a) /\ o # "files" -> Cardinality(OwedIn(L, a.request, o))
ShownIn(L, a) ==
  Elements(a.results) \subseteq UNION {OfferIn(L, a.request, o) : o \in WorksIn(a)}
OwesIn(L, a) ==
  TotalIn(a) <= a.request.limit =>
    \A o \in WorksIn(a) \ {"files"} : OwedIn(L, a.request, o) \subseteq Elements(a.results)
SoundIn(L, a) == ShapeIn(a) /\ CountsIn(L, a) /\ ShownIn(L, a) /\ OwesIn(L, a)

LEMMA OfferIsIn == \A r, o : Offer(r, o) = OfferIn(lines, r, o) /\ Owed(r, o) = OwedIn(lines, r, o)
<1>1. \A r, o : Offer(r, o) = OfferIn(lines, r, o)
  BY DEF Offer, OfferIn, Of, OfIn, Newer, NewerIn, Matches, MatchesIn
<1>2. \A r, o : Owed(r, o) = OwedIn(lines, r, o)
  BY <1>1, Zenon DEF Owed, OwedIn
<1>3. QED
  BY <1>1, <1>2

\* The same with Offer and Owed as they stand.
CountsNow(a) ==
  \A o \in Origins : a.counts[o] =
    CASE o \notin WorksIn(a) -> 0
      [] o \in WorksIn(a) /\ o = "files" ->
           IF Cardinality(Offer(a.request, o)) < FairShare(a.request)
           THEN Cardinality(Offer(a.request, o)) ELSE FairShare(a.request)
      [] o \in WorksIn(a) /\ o # "files" -> Cardinality(Owed(a.request, o))
ShownNow(a) == Elements(a.results) \subseteq UNION {Offer(a.request, o) : o \in WorksIn(a)}
OwesNow(a) ==
  TotalIn(a) <= a.request.limit =>
    \A o \in WorksIn(a) \ {"files"} : Owed(a.request, o) \subseteq Elements(a.results)

LEMMA NowIs ==
  ASSUME NEW a
  PROVE  SoundIn(lines, a) <=> ShapeIn(a) /\ CountsNow(a) /\ ShownNow(a) /\ OwesNow(a)
<1>1. CountsIn(lines, a) <=> CountsNow(a)
  BY OfferIsIn DEF CountsIn, CountsNow
<1>2. ShownIn(lines, a) <=> ShownNow(a)
  BY OfferIsIn DEF ShownIn, ShownNow
<1>3. OwesIn(lines, a) <=> OwesNow(a)
  BY OfferIsIn DEF OwesIn, OwesNow
<1>4. QED
  BY <1>1, <1>2, <1>3, Zenon DEF SoundIn

LEMMA SoundIs == SearchSound <=> (answer # NoAnswer => SoundIn(lines, answer))
<1>1. SearchSound <=> (answer # NoAnswer =>
        ShapeIn(answer) /\ CountsNow(answer) /\ ShownNow(answer) /\ OwesNow(answer))
  BY Zenon DEF SearchSound, ShapeIn, CountsNow, ShownNow, OwesNow, WorksIn, TotalIn
<1>2. QED
  BY <1>1, NowIs, Zenon

\* An answer is sound when it is given.
LEMMA AnswerIs ==
  ASSUME LoggedOK, NEW r, Asked(r)
  PROVE  SoundIn(lines, Answer(r)) /\ Elements(Answer(r).results) \subseteq DOMAIN lines
<1> DEFINE h == PartOf(r, "hub")
           f == PartOf(r, "files")
           c == PartOf(r, "archive")
           t == FirstOf(InOrderOf(r, h \o f \o c), r.limit)
           a == Answer(r)
           total == Len(h) + Len(f) + Len(c)
           all == Elements(h) \cup Elements(f) \cup Elements(c)
<1>1. /\ a.request = r /\ a.results = t
      /\ a.counts["hub"] = Len(h) /\ a.counts["files"] = Len(f) /\ a.counts["archive"] = Len(c)
  BY DEF Answer, AnswerOf, Origins
<1>2. Part(h, r, "hub") /\ Part(f, r, "files") /\ Part(c, r, "archive")
  BY PartIs DEF Origins
<1> HIDE DEF h, f, c, a
<1>3. /\ t \in Seq(Nat) /\ Len(t) = Cardinality(Elements(t))
      /\ Len(t) = Smaller(r.limit, total) /\ Sorted(r, t)
      /\ Elements(t) \subseteq all /\ all \subseteq 1..Len(lines)
      /\ total <= r.limit => Elements(t) = all
  BY <1>2, ShownIs
<1> HIDE DEF t
<1>4. DOMAIN t = 1..Len(t)
  BY <1>3, LenProperties
<1>5. ASSUME NEW o \in Origins
      PROVE  a.counts[o] = IF Works(r, o) THEN DueFrom(r, o) ELSE 0
  BY <1>1, <1>2 DEF Part, GivenBy, Origins
<1>6. ASSUME NEW o \in Origins
      PROVE  a.counts[o] =
               CASE o \notin r.ask \ {r.down} -> 0
                 [] o \in r.ask \ {r.down} /\ o = "files" ->
                      IF Cardinality(Offer(r, o)) < FairShare(r) THEN Cardinality(Offer(r, o))
                      ELSE FairShare(r)
                 [] o \in r.ask \ {r.down} /\ o # "files" -> Cardinality(Owed(r, o))
  <2>1. Offer(r, "files") \in SUBSET (1..Len(lines)) /\ Len(lines) \in Nat
    BY OfferIs DEF Asked, LoggedOK
  <2>2. Cardinality(Offer(r, "files")) \in Nat /\ FairShare(r) \in Nat
    BY <2>1, UpToSteps, ShareIs
  <2>3. Smaller(FairShare(r), Cardinality(Offer(r, "files"))) =
          IF Cardinality(Offer(r, "files")) < FairShare(r) THEN Cardinality(Offer(r, "files"))
          ELSE FairShare(r)
    BY <2>2 DEF Smaller
  <2>4. QED
    BY <1>5, <2>3 DEF Works, DueFrom
<1>7. Elements(t) \subseteq UNION {Offer(r, o) : o \in r.ask \ {r.down}}
  <2>1. \A o \in Origins : \A s : Part(s, r, o) =>
          Elements(s) \subseteq UNION {Offer(r, x) : x \in r.ask \ {r.down}}
    BY DEF Part, GivenBy, Works
  <2>2. QED
    BY <1>2, <1>3, <2>1 DEF Origins
<1>8. ASSUME total <= r.limit, NEW o \in (r.ask \ {r.down}) \ {"files"}
      PROVE  Owed(r, o) \subseteq Elements(t)
  <2>1. o \in {"hub", "archive"} /\ Works(r, o)
    BY DEF Asked, Origins, Works
  <2>2. CASE o = "hub"
    BY <1>2, <1>3, <1>8, <2>1, <2>2 DEF Part, GivenBy
  <2>3. CASE o = "archive"
    BY <1>2, <1>3, <1>8, <2>1, <2>3 DEF Part, GivenBy
  <2>4. QED
    BY <2>1, <2>2, <2>3
<1>9. Len(t) = IF total < r.limit THEN total ELSE r.limit
  <2>1. total \in Nat /\ r.limit \in Nat
    BY <1>2, LenProperties DEF Part, Asked
  <2>2. QED
    BY <1>3, <2>1 DEF Smaller
<1>10. SoundIn(lines, a)
  <2>1. /\ a.request = r /\ a.results = t
        /\ a.counts["hub"] + a.counts["files"] + a.counts["archive"] = total
    BY <1>1
  <2>2. \A i, j \in DOMAIN t : i < j => (r.order = "asc" <=> t[i] < t[j])
    BY <1>3, <1>4 DEF Sorted
  <2> HIDE DEF total
  <2>3. total <= r.limit => \A o \in (r.ask \ {r.down}) \ {"files"} : Owed(r, o) \subseteq Elements(t)
    BY <1>8
  <2>4. Len(t) = Cardinality(Elements(t))
    BY <1>3
  <2>5. ShapeIn(a)
    BY <1>9, <2>1, <2>2, <2>4 DEF ShapeIn, TotalIn
  <2>6. CountsNow(a)
    BY <1>6, <2>1 DEF CountsNow, WorksIn
  <2>7. ShownNow(a)
    BY <1>7, <2>1, Zenon DEF ShownNow, WorksIn
  <2>8. OwesNow(a)
    BY <2>1, <2>3, Zenon DEF OwesNow, WorksIn, TotalIn
  <2>9. QED
    BY <2>5, <2>6, <2>7, <2>8, NowIs
<1>11. Elements(t) \subseteq DOMAIN lines
  BY <1>3 DEF LoggedOK
<1>12. QED
  BY <1>1, <1>10, <1>11 DEF a

-----------------------------------------------------------------------------
(* The steps. *)

Line == [src : Sources, terms : SUBSET Terms, form : {c.form : c \in Content}]
LinesTyped == lines \in Seq(Line)

LEMMA TypedLines == LinesTyped => LoggedOK
<1>1. LinesTyped => Len(lines) \in Nat /\ DOMAIN lines = 1..Len(lines)
  BY LenProperties DEF LinesTyped
<1>2. QED
  BY <1>1 DEF LoggedOK

\* No answer has nothing to show.
LEMMA NothingShown == NoAnswer.results = <<>> /\ Elements(<<>>) = {}
BY DEF NoAnswer, Elements

\* An answer that is shown is sound, and none of its lines is made up.
SearchFine ==
  /\ LinesTyped
  /\ answer # NoAnswer => SoundIn(lines, answer)
  /\ Elements(answer.results) \subseteq DOMAIN lines

LEMMA SearchInitially == SearchInit => SearchFine
<1> SUFFICES ASSUME SearchInit PROVE SearchFine
  OBVIOUS
<1>1. LinesTyped
  BY DEF SearchInit, LinesTyped
<1>2. QED
  BY <1>1, NothingShown DEF SearchInit, SearchFine

\* A request that is answered.
LEMMA GivenAnswer ==
  ASSUME SearchFine, NEW r, Asked(r), UNCHANGED lines, answer' = Answer(r)
  PROVE  SearchFine'
<1>1. SoundIn(lines, Answer(r)) /\ Elements(Answer(r).results) \subseteq DOMAIN lines
  BY TypedLines, AnswerIs DEF SearchFine
<1>2. SoundIn(lines', answer')
  BY <1>1, Zenon
<1>3. Elements(answer'.results) \subseteq DOMAIN lines'
  BY <1>1, Zenon
<1>4. LinesTyped'
  BY DEF SearchFine, LinesTyped
<1>5. QED
  BY <1>2, <1>3, <1>4, Zenon DEF SearchFine

\* The lists are finite, and hold what is shown together.
LEMMA SourcesListed ==
  /\ IsFiniteSet(Elements(Journals \o Files))
  /\ \A T \in Together : T \subseteq Elements(Journals \o Files)
<1> DEFINE S == Elements(Journals) \cup Elements(Files)
<1>1. /\ Journals \in Seq(S) /\ Files \in Seq(S)
  <2>1. \A s, R, T : s \in Seq(R) /\ R \subseteq T => s \in Seq(T)
    <3> SUFFICES ASSUME NEW R, NEW T, R \subseteq T, NEW s \in Seq(R) PROVE s \in Seq(T)
      OBVIOUS
    <3>1. Len(s) \in Nat /\ s \in [1..Len(s) -> R]
      BY LenProperties
    <3>2. s \in [1..Len(s) -> T]
      BY <3>1
    <3>3. QED
      BY <3>1, <3>2, IsASeq
  <2>2. QED
    BY <2>1, SearchAssumption, Zenon
<1>2. Journals \o Files \in Seq(S) /\ Elements(Journals \o Files) = S
  BY <1>1, JoinOnce
<1>3. IsFiniteSet(Elements(Journals \o Files))
  <2> DEFINE u == Journals \o Files
  <2>1. Len(u) \in Nat /\ DOMAIN u = 1..Len(u) /\ u \in [1..Len(u) -> S]
    BY <1>2, LenProperties
  <2> HIDE DEF u, S
  <2>2. Elements(u) = {u[i] : i \in 1..Len(u)}
    BY <2>1 DEF Elements
  <2>3. u \in Surjection(1..Len(u), Elements(u))
    BY <2>1, <2>2 DEF Surjection
  <2>4. IsFiniteSet(1..Len(u))
    BY <2>1, FS_Interval
  <2>5. QED
    BY <2>3, <2>4, FS_Surjection DEF u
<1>4. QED
  BY <1>2, <1>3, SearchAssumption

LEMMA SearchStep == SearchFine /\ [SearchNext]_searchVars => SearchFine'
<1> SUFFICES ASSUME SearchFine, [SearchNext]_searchVars PROVE SearchFine'
  OBVIOUS
<1>0. LinesTyped /\ Limits \subseteq Nat \ {0} /\ \A c \in Content : c.terms \subseteq Terms
  BY SearchAssumption DEF SearchFine
<1>1. CASE LogLine
  <2>0. PICK shown \in {{src} : src \in HubTypes \cup {Archive}} \cup Together, c \in Content :
          \E srcs \in SetToSeqs(shown) :
            lines' = lines \o [i \in DOMAIN srcs |->
                                [src |-> srcs[i], terms |-> c.terms, form |-> c.form]]
    BY <1>1 DEF LogLine
  <2>1. PICK srcs \in SetToSeqs(shown) :
          lines' = lines \o [i \in DOMAIN srcs |->
                              [src |-> srcs[i], terms |-> c.terms, form |-> c.form]]
    BY <2>0
  <2> DEFINE n == Cardinality(shown)
             new == [i \in DOMAIN srcs |-> [src |-> srcs[i], terms |-> c.terms, form |-> c.form]]
  <2>2. shown \subseteq Sources /\ IsFiniteSet(shown)
    <3>1. CASE shown \in {{src} : src \in HubTypes \cup {Archive}}
      <4>1. PICK src \in HubTypes \cup {Archive} : shown = {src}
        BY <3>1
      <4>2. QED
        BY <4>1, FS_Singleton DEF Sources
    <3>2. CASE shown \in Together
      <4>1. shown \subseteq Elements(Journals \o Files)
        BY <3>2, SourcesListed
      <4>2. IsFiniteSet(Elements(Journals \o Files))
        BY SourcesListed
      <4>3. QED
        BY <4>1, <4>2, FS_Subset DEF Sources
    <3>3. QED
      BY <3>1, <3>2
  <2>3. n \in Nat /\ DOMAIN srcs = 1..n /\ \A i \in 1..n : srcs[i] \in shown
    BY <2>2, FS_CardinalityType DEF SetToSeqs
  <2> HIDE DEF n
  <2>4. new \in Seq(Line)
    <3>1. new \in [1..n -> Line]
      BY <1>0, <2>2, <2>3 DEF Line
    <3> HIDE DEF new
    <3>2. QED
      BY <2>3, <3>1, IsASeq
  <2> HIDE DEF new
  <2>5. LinesTyped'
    BY <1>0, <2>1, <2>4, ConcatProperties DEF LinesTyped, new
  <2>6. answer' = NoAnswer
    BY <1>1 DEF LogLine
  <2>7. QED
    BY <2>5, <2>6, NothingShown DEF SearchFine
<1>2. CASE Dismiss
  <2>1. answer' = NoAnswer /\ LinesTyped'
    BY <1>0, <1>2 DEF Dismiss, LinesTyped
  <2>2. QED
    BY <2>1, NothingShown DEF SearchFine
<1>3. CASE SearchUnified
  <2>1. UNCHANGED lines
    BY <1>3 DEF SearchUnified
  <2>2. PICK q \in Queries, ask \in (SUBSET Origins) \ {{}}, type \in HubTypes \cup {"none"},
             order \in {"asc", "desc"}, limit \in Limits, since \in {0, 2},
             down \in {"hub", "archive", "none"} :
          /\ Cardinality({type, "none"}) + Cardinality({since, 0}) + Cardinality({down, "none"}) <= 4
          /\ type # "none" \/ since # 0 => "hub" \in ask
          /\ down \in ask \cup {"none"}
          /\ answer' = Answer([regex |-> q.regex, query |-> q.query, ask |-> ask, type |-> type,
                               order |-> order, limit |-> limit, since |-> since,
                               min |-> "none", scope |-> "all", down |-> down])
    BY <1>3, Zenon DEF SearchUnified
  <2> DEFINE r == [regex |-> q.regex, query |-> q.query, ask |-> ask, type |-> type,
                   order |-> order, limit |-> limit, since |-> since,
                   min |-> "none", scope |-> "all", down |-> down]
  <2>3. /\ r.limit \in Nat \ {0} /\ r.ask \in SUBSET Origins /\ r.ask # {}
        /\ r.since \in Nat /\ r.scope = "all"
    BY <1>0
  <2>4. answer' = Answer(r)
    BY <2>2
  <2> HIDE DEF r
  <2>5. Asked(r)
    BY <2>3 DEF Asked, ScopeKnown
  <2>6. QED
    BY <2>1, <2>4, <2>5, GivenAnswer
<1>4. CASE SearchFiles
  <2>1. UNCHANGED lines
    BY <1>4 DEF SearchFiles
  <2>2. PICK q \in Queries, scope \in {"all", "localhost"} \cup Elements(Journals \o Files),
             order \in {"asc", "desc"}, limit \in Limits, min \in {"none", "error"} :
          LET r == [regex |-> q.regex, query |-> q.query, ask |-> {"files"}, type |-> "none",
                    order |-> order, limit |-> limit, since |-> 0, min |-> min, scope |-> scope,
                    down |-> "none"]
          IN  answer' = IF Bad(r) THEN NoAnswer ELSE Answer(r)
    BY <1>4 DEF SearchFiles
  <2> DEFINE r == [regex |-> q.regex, query |-> q.query, ask |-> {"files"}, type |-> "none",
                   order |-> order, limit |-> limit, since |-> 0, min |-> min, scope |-> scope,
                   down |-> "none"]
  <2>3. /\ r.limit \in Nat \ {0} /\ r.ask \in SUBSET Origins /\ r.ask # {}
        /\ r.since \in Nat /\ r.scope \in {"all", "localhost"} \cup Elements(Journals \o Files)
    BY <1>0 DEF Origins
  <2>4. answer' = IF Bad(r) THEN NoAnswer ELSE Answer(r)
    BY <2>2
  <2> HIDE DEF r
  <2>5. Asked(r)
    BY <2>3 DEF Asked, ScopeKnown
  <2>6. CASE Bad(r)
    <3>1. answer' = NoAnswer /\ LinesTyped'
      BY <1>0, <2>1, <2>4, <2>6 DEF LinesTyped
    <3>2. QED
      BY <3>1, NothingShown DEF SearchFine
  <2>7. CASE ~Bad(r)
    BY <2>1, <2>4, <2>5, <2>7, GivenAnswer
  <2>8. QED
    BY <2>6, <2>7
<1>5. CASE UNCHANGED searchVars
  <2>1. lines' = lines /\ answer' = answer
    BY <1>5 DEF searchVars
  <2>2. LinesTyped'
    BY <1>0, <2>1 DEF LinesTyped
  <2>3. (answer' # NoAnswer => SoundIn(lines', answer')) /\ Elements(answer'.results) \subseteq DOMAIN lines'
    BY <2>1, Zenon DEF SearchFine
  <2>4. QED
    BY <2>2, <2>3, Zenon DEF SearchFine
<1>6. QED
  BY <1>1, <1>2, <1>3, <1>4, <1>5 DEF SearchNext

\* Whatever is asked for and whichever database is down, an answer is sorted and
\* within its limit, each origin that works contributes its share or all it has,
\* nothing is shown that does not match, and the newest matches of each database
\* are shown while the shares fit into the limit (search_logs, unified_search).
THEOREM SearchHolds == SearchSpec => []SearchSound
<1>1. SearchFine => SearchSound
  BY SoundIs DEF SearchFine
<1>2. QED
  BY <1>1, SearchInitially, SearchStep, PTL DEF SearchSpec

\* Lines keep their form, and an answer shows only lines that were logged.
THEOREM SearchTypeHolds == SearchSpec => []SearchTypeOK
<1>1. SearchFine => SearchTypeOK
  BY DEF SearchFine, LinesTyped, Line, SearchTypeOK
<1>2. QED
  BY <1>1, SearchInitially, SearchStep, PTL DEF SearchSpec
=============================================================================
