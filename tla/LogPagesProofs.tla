---------------------------- MODULE LogPagesProofs ----------------------------
(***************************************************************************)
(* Theorems about LogPages: for a text of any length, any page size, chunk  *)
(* and window and any number of pages, a page shows whole lines in order    *)
(* and without a gap, the seam between two pages closes, and paging gets    *)
(* on.  A page is described by the lines that have a place in a stretch of  *)
(* the text, so that what a byte range cuts off is a matter of places.      *)
(***************************************************************************)
EXTENDS LogFileProofs, LogPages

-----------------------------------------------------------------------------
(* The text of a log: one line after the other, each ended by its newline. *)

LineNo(t, k) == LineOf(t[k])
Ends(t, k) == EndsLine(t[k])

NextLine(t, k) == IF Ends(t, k) THEN LineNo(t, k) + 1 ELSE LineNo(t, k)

InOneRow(t) ==
  /\ t \in Seq(Nat)
  /\ \A k \in DOMAIN t : LineNo(t, k) \in Nat /\ LineNo(t, k) >= 1
  /\ \A k \in DOMAIN t : k + 1 \in DOMAIN t => LineNo(t, k + 1) = NextLine(t, k)
  /\ t # <<>> => LineNo(t, 1) = 1

LEMMA RowPlaces ==
  ASSUME NEW t, InOneRow(t)
  PROVE  /\ Len(t) \in Nat /\ DOMAIN t = 1..Len(t)
         /\ \A k \in DOMAIN t : k \in Nat /\ k >= 1 /\ k <= Len(t)
BY LenProperties DEF InOneRow

\* From one place to a later one the line number does not fall.
LEMMA RowRises ==
  ASSUME NEW t, InOneRow(t), NEW i \in DOMAIN t, NEW j \in DOMAIN t, i <= j
  PROVE  LineNo(t, i) <= LineNo(t, j)
<1> DEFINE Wrong == {k \in Nat : k \in i..j /\ ~(LineNo(t, i) <= LineNo(t, k))}
<1>0. /\ Len(t) \in Nat /\ DOMAIN t = 1..Len(t)
      /\ i \in Nat /\ j \in Nat /\ i >= 1 /\ j <= Len(t)
  BY RowPlaces
<1>1. \A k \in i..j : k \in DOMAIN t /\ LineNo(t, k) \in Nat
  <2>1. \A k \in i..j : k \in DOMAIN t
    BY <1>0
  <2>2. QED
    BY <2>1 DEF InOneRow
<1>2. SUFFICES Wrong = {}
  <2>1. j \in i..j
    BY <1>0
  <2>2. QED
    BY <1>0, <1>2, <2>1
<1>3. SUFFICES ASSUME Wrong # {} PROVE FALSE
  OBVIOUS
<1>4. Wrong \in SUBSET Nat
  OBVIOUS
<1>5. PICK m \in Wrong : \A x \in Wrong : m <= x
  BY <1>3, <1>4, LeastExists
<1>6. m \in Nat /\ m \in i..j /\ ~(LineNo(t, i) <= LineNo(t, m))
  BY <1>5
<1>7. m # i
  BY <1>0, <1>1, <1>6
<1>8. m - 1 \in Nat /\ m - 1 \in i..j /\ m - 1 < m
  BY <1>0, <1>6, <1>7
<1>9. LineNo(t, i) <= LineNo(t, m - 1)
  <2>1. ~(m - 1 \in Wrong)
    <3>1. m - 1 \in Wrong => m <= m - 1
      BY <1>5
    <3>2. QED
      BY <1>8, <3>1
  <2>2. QED
    BY <1>8, <2>1
<1>10. LineNo(t, m) = NextLine(t, m - 1)
  <2>1. m - 1 \in DOMAIN t /\ (m - 1) + 1 = m /\ m \in DOMAIN t
    BY <1>1, <1>6, <1>8
  <2>2. (m - 1) + 1 \in DOMAIN t => LineNo(t, (m - 1) + 1) = NextLine(t, m - 1)
    BY <2>1 DEF InOneRow
  <2>3. QED
    BY <2>1, <2>2
<1>11. LineNo(t, m - 1) <= LineNo(t, m)
  BY <1>1, <1>8, <1>10 DEF NextLine
<1>12. LineNo(t, i) \in Nat /\ LineNo(t, m - 1) \in Nat /\ LineNo(t, m) \in Nat
  <2>1. i \in i..j
    BY <1>0
  <2>2. QED
    BY <1>1, <1>6, <1>8, <2>1
<1>13. QED
  BY <1>6, <1>9, <1>11, <1>12

\* After a newline it is larger.
LEMMA RowAfterEnd ==
  ASSUME NEW t, InOneRow(t), NEW i \in DOMAIN t, NEW j \in DOMAIN t, i < j, Ends(t, i)
  PROVE  LineNo(t, i) < LineNo(t, j)
<1>0. /\ Len(t) \in Nat /\ DOMAIN t = 1..Len(t)
      /\ i \in Nat /\ j \in Nat /\ i >= 1 /\ j <= Len(t)
  BY RowPlaces
<1>1. i + 1 \in DOMAIN t /\ i + 1 <= j
  BY <1>0
<1>2. LineNo(t, i + 1) = LineNo(t, i) + 1
  BY <1>1 DEF InOneRow, NextLine
<1>3. LineNo(t, i + 1) <= LineNo(t, j)
  BY <1>1, RowRises
<1>4. LineNo(t, i) \in Nat /\ LineNo(t, j) \in Nat
  BY DEF InOneRow
<1>5. QED
  BY <1>2, <1>3, <1>4

\* Without a newline it stays.
LEMMA RowUnbroken ==
  ASSUME NEW t, InOneRow(t), NEW i \in DOMAIN t, NEW j \in DOMAIN t, i <= j,
         \A k \in i..(j - 1) : ~Ends(t, k)
  PROVE  LineNo(t, i) = LineNo(t, j)
<1> DEFINE Wrong == {k \in Nat : k \in i..j /\ LineNo(t, i) # LineNo(t, k)}
<1>0. /\ Len(t) \in Nat /\ DOMAIN t = 1..Len(t)
      /\ i \in Nat /\ j \in Nat /\ i >= 1 /\ j <= Len(t)
  BY RowPlaces
<1>1. \A k \in i..j : k \in DOMAIN t
  BY <1>0
<1>2. SUFFICES Wrong = {}
  <2>1. j \in i..j
    BY <1>0
  <2>2. QED
    BY <1>0, <1>2, <2>1
<1>3. SUFFICES ASSUME Wrong # {} PROVE FALSE
  OBVIOUS
<1>4. Wrong \in SUBSET Nat
  OBVIOUS
<1>5. PICK m \in Wrong : \A x \in Wrong : m <= x
  BY <1>3, <1>4, LeastExists
<1>6. m \in Nat /\ m \in i..j /\ LineNo(t, i) # LineNo(t, m)
  BY <1>5
<1>7. m # i
  BY <1>6
<1>8. m - 1 \in Nat /\ m - 1 \in i..j /\ m - 1 < m /\ m - 1 \in i..(j - 1)
  BY <1>0, <1>6, <1>7
<1>9. LineNo(t, i) = LineNo(t, m - 1)
  <2>1. ~(m - 1 \in Wrong)
    <3>1. m - 1 \in Wrong => m <= m - 1
      BY <1>5
    <3>2. QED
      BY <1>8, <3>1
  <2>2. QED
    BY <1>8, <2>1
<1>10. LineNo(t, m) = NextLine(t, m - 1)
  <2>1. m - 1 \in DOMAIN t /\ (m - 1) + 1 = m /\ m \in DOMAIN t
    BY <1>1, <1>6, <1>8
  <2>2. (m - 1) + 1 \in DOMAIN t => LineNo(t, (m - 1) + 1) = NextLine(t, m - 1)
    BY <2>1 DEF InOneRow
  <2>3. QED
    BY <2>1, <2>2
<1>11. LineNo(t, m) = LineNo(t, m - 1)
  BY <1>8, <1>10 DEF NextLine
<1>12. QED
  BY <1>6, <1>9, <1>11

\* Two places of one line have no newline between them.
LEMMA RowSame ==
  ASSUME NEW t, InOneRow(t), NEW i \in DOMAIN t, NEW j \in DOMAIN t, i < j,
         LineNo(t, i) = LineNo(t, j)
  PROVE  \A k \in i..(j - 1) : ~Ends(t, k)
<1>0. /\ Len(t) \in Nat /\ DOMAIN t = 1..Len(t)
      /\ i \in Nat /\ j \in Nat /\ i >= 1 /\ j <= Len(t)
  BY RowPlaces
<1> SUFFICES ASSUME NEW k \in i..(j - 1), Ends(t, k) PROVE FALSE
  OBVIOUS
<1>1. k \in DOMAIN t /\ k < j /\ i <= k
  BY <1>0
<1>2. LineNo(t, k) < LineNo(t, j)
  BY <1>1, RowAfterEnd
<1>3. LineNo(t, i) <= LineNo(t, k)
  BY <1>1, RowRises
<1>4. LineNo(t, i) \in Nat /\ LineNo(t, j) \in Nat /\ LineNo(t, k) \in Nat
  BY <1>1 DEF InOneRow
<1>5. QED
  BY <1>2, <1>3, <1>4

-----------------------------------------------------------------------------
(* What is picked out of a sequence. *)

LEMMA PickedIs ==
  ASSUME NEW S, NEW s \in Seq(S), NEW E \in SUBSET (1..Len(s))
  PROVE  /\ Picked(s, E) \in Seq(S) /\ Len(Picked(s, E)) = Cardinality(E)
         /\ Cardinality(E) \in Nat
         /\ DOMAIN Picked(s, E) = 1..Cardinality(E)
         /\ \A n \in 1..Cardinality(E) : NthOf(E, n) \in E /\ Picked(s, E)[n] = s[NthOf(E, n)]
         /\ \A m, n \in 1..Cardinality(E) : m < n => NthOf(E, m) < NthOf(E, n)
         /\ \A i \in E : \E n \in 1..Cardinality(E) : NthOf(E, n) = i
<1>0. Len(s) \in Nat
  BY LenProperties
<1>1. /\ Cardinality(E) \in Nat
      /\ \A n \in 1..Cardinality(E) : NthOf(E, n) \in E
      /\ \A m, n \in 1..Cardinality(E) : m < n => NthOf(E, m) < NthOf(E, n)
  BY <1>0, InOrderIs
<1>2. Picked(s, E) = [n \in 1..Cardinality(E) |-> s[NthOf(E, n)]]
  BY DEF Picked
<1>3. \A i \in E : s[i] \in S
  BY <1>0, ElementOfSeq
<1>4. Picked(s, E) \in [1..Cardinality(E) -> S]
  BY <1>1, <1>2, <1>3
<1>5. Picked(s, E) \in Seq(S)
  BY <1>1, <1>4, SeqDef
<1>6. DOMAIN Picked(s, E) = 1..Cardinality(E) /\ Len(Picked(s, E)) = Cardinality(E)
  <2>1. DOMAIN Picked(s, E) = 1..Cardinality(E)
    BY <1>2
  <2>2. Len(Picked(s, E)) \in Nat /\ DOMAIN Picked(s, E) = 1..Len(Picked(s, E))
    BY <1>5, LenProperties
  <2>3. QED
    BY <1>1, <2>1, <2>2
<1>7. ASSUME NEW i \in E PROVE \E n \in 1..Cardinality(E) : NthOf(E, n) = i
  <2> DEFINE C(x) == Cardinality(UpTo(E, x))
  <2>1. /\ \A x \in Nat : C(x) \in Nat
        /\ \A x, y \in Nat : x <= y => C(x) <= C(y)
        /\ \A x, y \in Nat : x < y /\ y \in E => C(x) < C(y)
        /\ C(0) = 0 /\ C(Len(s)) = Cardinality(E)
    BY <1>0, UpToSteps
  <2>2. i \in Nat /\ 0 < i /\ i <= Len(s)
    BY <1>0
  <2> HIDE DEF C
  <2>3. C(i) \in 1..Cardinality(E)
    BY <1>0, <1>1, <2>1, <2>2
  <2>4. NthOf(E, C(i)) \in E /\ C(NthOf(E, C(i))) = C(i)
    BY <1>0, <2>3, NthFound DEF C
  <2>5. NthOf(E, C(i)) \in Nat
    <3>1. E \in SUBSET Nat
      BY <1>0
    <3>2. QED
      BY <2>4, <3>1
  <2>6. NthOf(E, C(i)) = i
    BY <2>1, <2>2, <2>4, <2>5
  <2>7. QED
    BY <2>3, <2>6
<1>8. QED
  BY <1>1, <1>2, <1>5, <1>6, <1>7

\* Picking the places from a to b is cutting them out.
LEMMA SpanIs ==
  ASSUME NEW S, NEW s \in Seq(S), NEW a \in Nat, NEW b \in Nat, a >= 1, a <= b, b <= Len(s)
  PROVE  /\ Picked(s, a..b) \in Seq(S) /\ Len(Picked(s, a..b)) = b - a + 1
         /\ \A i \in 1..(b - a + 1) : Picked(s, a..b)[i] = s[(a - 1) + i]
<1>0. Len(s) \in Nat /\ a..b \in SUBSET (1..Len(s))
  BY LenProperties
<1>1. /\ Picked(s, a..b) \in Seq(S) /\ Len(Picked(s, a..b)) = Cardinality(a..b)
      /\ \A n \in 1..Cardinality(a..b) :
            NthOf(a..b, n) \in a..b /\ Picked(s, a..b)[n] = s[NthOf(a..b, n)]
  BY <1>0, PickedIs
<1>2. \A x \in a..b : Cardinality(a..x) = x - a + 1
  <2> TAKE x \in a..b
  <2>1. a \in Int /\ x \in Int /\ ~(a > x)
    OBVIOUS
  <2>2. QED
    BY <2>1, FS_Interval
<1>3. Cardinality(a..b) = b - a + 1
  <2>1. b \in a..b
    OBVIOUS
  <2>2. QED
    BY <1>2, <2>1
<1>4. ASSUME NEW i \in 1..(b - a + 1) PROVE NthOf(a..b, i) = (a - 1) + i
  <2> DEFINE x == NthOf(a..b, i)
  <2>1. i \in 1..Cardinality(a..b)
    BY <1>3
  <2>2. x \in a..b /\ Cardinality(UpTo(a..b, x)) = i
    BY <1>0, <2>1, NthFound
  <2>3. UpTo(a..b, x) = a..x
    <3>1. \A y : y \in UpTo(a..b, x) <=> y \in a..x
      BY <2>2 DEF UpTo
    <3>2. QED
      BY <3>1
  <2>4. x - a + 1 = i
    BY <1>2, <2>2, <2>3
  <2>5. x \in Nat /\ i \in Nat
    BY <2>2
  <2> HIDE DEF x
  <2>6. x = (a - 1) + i
    BY <2>4, <2>5
  <2>7. QED
    BY <2>6 DEF x
<1>5. QED
  BY <1>1, <1>3, <1>4

-----------------------------------------------------------------------------
(* The parts of lines that stand in a stretch of the text. *)

OfLine(t, lo, hi, n) == {k \in (lo + 1)..hi : LineNo(t, k) = n}
PartOfLine(t, lo, hi, n) == Picked(t, OfLine(t, lo, hi, n))
Num(l) == LineOf(l[1])
Numbers(ls) == {Num(ls[i]) : i \in DOMAIN ls}

PartsOf(t, lo, hi, ls) ==
  /\ ls \in Seq(Seq(Nat))
  /\ \A i \in DOMAIN ls :
        ls[i] # <<>> /\ Num(ls[i]) \in Nat /\ ls[i] = PartOfLine(t, lo, hi, Num(ls[i]))
  /\ \A i, j \in DOMAIN ls : i < j => Num(ls[i]) < Num(ls[j])

LEMMA PartOfLineIs ==
  ASSUME NEW t, InOneRow(t), NEW lo \in Nat, NEW hi \in Nat, hi <= Len(t), NEW n
  PROVE  /\ PartOfLine(t, lo, hi, n) \in Seq(Nat)
         /\ \A i \in DOMAIN PartOfLine(t, lo, hi, n) :
               \E k \in OfLine(t, lo, hi, n) : PartOfLine(t, lo, hi, n)[i] = t[k]
         /\ \A k \in OfLine(t, lo, hi, n) :
               \E i \in DOMAIN PartOfLine(t, lo, hi, n) : PartOfLine(t, lo, hi, n)[i] = t[k]
         /\ PartOfLine(t, lo, hi, n) # <<>> => Num(PartOfLine(t, lo, hi, n)) = n
         /\ PartOfLine(t, lo, hi, n) # <<>> <=> OfLine(t, lo, hi, n) # {}
<1> DEFINE E == OfLine(t, lo, hi, n)
           p == PartOfLine(t, lo, hi, n)
<1>0. t \in Seq(Nat) /\ Len(t) \in Nat /\ E \in SUBSET (1..Len(t))
  BY RowPlaces DEF InOneRow, OfLine
<1>1. /\ p \in Seq(Nat) /\ DOMAIN p = 1..Cardinality(E) /\ Cardinality(E) \in Nat
      /\ \A m \in 1..Cardinality(E) : NthOf(E, m) \in E /\ p[m] = t[NthOf(E, m)]
      /\ \A i \in E : \E m \in 1..Cardinality(E) : NthOf(E, m) = i
  BY <1>0, PickedIs DEF PartOfLine
<1>2. \A k \in E : LineOf(t[k]) = n
  BY DEF OfLine, LineNo
<1>3. p # <<>> => 1 \in DOMAIN p
  <2>1. p # <<>> => Len(p) \in Nat \ {0}
    BY <1>1, EmptySeq
  <2>2. DOMAIN p = 1..Len(p)
    BY <1>1, LenProperties
  <2> HIDE DEF p
  <2>3. QED
    BY <2>1, <2>2
<1>4. p # <<>> => Num(p) = n
  BY <1>1, <1>2, <1>3 DEF Num
<1>5. p # <<>> => E # {}
  BY <1>1, <1>3
<1>6. E # {} => p # <<>>
  <2>1. DOMAIN <<>> = {}
    OBVIOUS
  <2> HIDE DEF p, E
  <2>2. E # {} => DOMAIN p # {}
    BY <1>1
  <2>3. QED
    BY <2>1, <2>2
<1>7. \A i \in DOMAIN p : \E k \in E : p[i] = t[k]
  BY <1>1
<1>8. \A k \in E : \E i \in DOMAIN p : p[i] = t[k]
  BY <1>1
<1> HIDE DEF p, E
<1>9. QED
  BY <1>1, <1>4, <1>5, <1>6, <1>7, <1>8 DEF p, E

\* A stretch of the text, as a text of its own.
LEMMA StretchOf ==
  ASSUME NEW t, InOneRow(t), NEW lo \in Nat, NEW hi \in Nat, lo <= hi, hi <= Len(t)
  PROVE  LET s == SubSeq(t, lo + 1, hi) IN
         /\ s \in Seq(Nat) /\ Len(s) = hi - lo /\ DOMAIN s = 1..(hi - lo)
         /\ \A i \in 1..(hi - lo) : s[i] = t[lo + i] /\ lo + i \in DOMAIN t
         /\ \A i \in 1..(hi - lo) : i \in Newlines(s) <=> Ends(t, lo + i)
<1> DEFINE s == SubSeq(t, lo + 1, hi)
<1>0. t \in Seq(Nat) /\ Len(t) \in Nat /\ DOMAIN t = 1..Len(t)
  BY RowPlaces DEF InOneRow
<1>1. \A i \in (lo + 1)..hi : t[i] \in Nat
  BY <1>0, ElementOfSeq
<1>2. /\ s \in Seq(Nat) /\ Len(s) = (IF lo + 1 <= hi THEN hi - (lo + 1) + 1 ELSE 0)
      /\ \A i \in 1..(hi - (lo + 1) + 1) : s[i] = t[(lo + 1) + i - 1]
  <2>1. lo + 1 \in Int /\ hi \in Int
    OBVIOUS
  <2>2. QED
    BY <1>1, <2>1, SubSeqProperties
<1> HIDE DEF s
<1>3. Len(s) = hi - lo
  BY <1>2
<1>4. DOMAIN s = 1..(hi - lo)
  BY <1>2, <1>3, LenProperties
<1>5. \A i \in 1..(hi - lo) : s[i] = t[lo + i] /\ lo + i \in DOMAIN t
  <2> TAKE i \in 1..(hi - lo)
  <2>1. i \in 1..(hi - (lo + 1) + 1) /\ (lo + 1) + i - 1 = lo + i /\ lo + i \in 1..Len(t)
    BY <1>0
  <2>2. s[i] = t[(lo + 1) + i - 1]
    BY <1>2, <2>1
  <2>3. QED
    BY <1>0, <2>1, <2>2
<1>6. \A i \in 1..(hi - lo) : i \in Newlines(s) <=> Ends(t, lo + i)
  BY <1>4, <1>5 DEF Newlines, Ends
<1>7. QED
  BY <1>2, <1>3, <1>4, <1>5, <1>6 DEF s

\* The places of one line: what stands between a newline and the next one, or
\* the end of the stretch.
LEMMA LinePlaces ==
  ASSUME NEW t, InOneRow(t), NEW lo \in Nat, NEW hi \in Nat, hi <= Len(t),
         NEW a \in Nat, NEW b \in Nat, lo < a, a <= b, b <= hi,
         a = lo + 1 \/ Ends(t, a - 1), b = hi \/ Ends(t, b),
         \A k \in a..(b - 1) : ~Ends(t, k)
  PROVE  /\ OfLine(t, lo, hi, LineNo(t, b)) = a..b
         /\ LineNo(t, a) = LineNo(t, b)
<1>0. Len(t) \in Nat /\ DOMAIN t = 1..Len(t) /\ \A k \in DOMAIN t : LineNo(t, k) \in Nat
  BY RowPlaces DEF InOneRow
<1>1. \A k \in (lo + 1)..hi : k \in DOMAIN t
  BY <1>0
<1>2. a \in DOMAIN t /\ b \in DOMAIN t
  BY <1>0
<1>3. ASSUME NEW k \in a..b PROVE LineNo(t, k) = LineNo(t, b) /\ k \in (lo + 1)..hi
  <2>1. k \in DOMAIN t /\ k <= b /\ k \in (lo + 1)..hi
    BY <1>0
  <2>2. \A x \in k..(b - 1) : ~Ends(t, x)
    <3>1. \A x \in k..(b - 1) : x \in a..(b - 1)
      OBVIOUS
    <3>2. QED
      BY <3>1
  <2>3. QED
    BY <1>2, <2>1, <2>2, RowUnbroken
<1>4. ASSUME NEW k \in (lo + 1)..hi, LineNo(t, k) = LineNo(t, b) PROVE k \in a..b
  <2>1. k \in DOMAIN t /\ k \in Nat
    BY <1>1
  <2>2. CASE k > b
    <3>1. Ends(t, b)
      BY <2>2
    <3>2. LineNo(t, b) < LineNo(t, k)
      BY <1>2, <2>1, <2>2, <3>1, RowAfterEnd
    <3>3. QED
      BY <1>0, <1>2, <1>4, <3>2
  <2>3. CASE k < a
    <3>1. Ends(t, a - 1)
      BY <2>3
    <3>2. a - 1 \in DOMAIN t /\ a - 1 < b /\ k <= a - 1
      BY <1>0, <2>1, <2>3
    <3>3. LineNo(t, a - 1) < LineNo(t, b)
      BY <1>2, <3>1, <3>2, RowAfterEnd
    <3>4. LineNo(t, k) <= LineNo(t, a - 1)
      BY <2>1, <3>2, RowRises
    <3>5. LineNo(t, a - 1) \in Nat /\ LineNo(t, b) \in Nat
      BY <1>0, <1>2, <3>2
    <3>6. QED
      BY <1>4, <3>3, <3>4, <3>5
  <2>4. QED
    BY <2>1, <2>2, <2>3
<1>5. \A k : k \in OfLine(t, lo, hi, LineNo(t, b)) <=> k \in a..b
  BY <1>3, <1>4 DEF OfLine
<1>6. OfLine(t, lo, hi, LineNo(t, b)) = a..b
  BY <1>5
<1>7. a \in a..b
  OBVIOUS
<1>8. QED
  BY <1>3, <1>6, <1>7

\* A sequence that holds these places in order is that part.
LEMMA PartAt ==
  ASSUME NEW t, InOneRow(t), NEW lo \in Nat, NEW hi \in Nat, hi <= Len(t),
         NEW a \in Nat, NEW b \in Nat, lo < a, a <= b, b <= hi, NEW n,
         OfLine(t, lo, hi, n) = a..b,
         NEW l \in Seq(Nat), Len(l) = b - a + 1,
         \A i \in 1..(b - a + 1) : l[i] = t[(a - 1) + i]
  PROVE  l = PartOfLine(t, lo, hi, n) /\ l # <<>> /\ Num(l) = n
<1>1. t \in Seq(Nat) /\ Len(t) \in Nat /\ a >= 1 /\ b <= Len(t)
  BY RowPlaces DEF InOneRow
<1> DEFINE p == Picked(t, a..b)
<1>2. /\ p \in Seq(Nat) /\ Len(p) = b - a + 1
      /\ \A i \in 1..(b - a + 1) : p[i] = t[(a - 1) + i]
  <2>1. ASSUME NEW S, t \in Seq(S)
        PROVE  /\ Picked(t, a..b) \in Seq(S) /\ Len(Picked(t, a..b)) = b - a + 1
               /\ \A i \in 1..(b - a + 1) : Picked(t, a..b)[i] = t[(a - 1) + i]
    BY <1>1, <2>1, SpanIs
  <2>2. QED
    BY <1>1, <2>1
<1> HIDE DEF p
<1>3. l = p
  <2>1. Len(l) = Len(p) /\ \A i \in 1..Len(l) : l[i] = p[i]
    BY <1>2
  <2>2. QED
    BY <1>2, <2>1, SeqEqual
<1>4. l # <<>>
  BY <1>1
<1>5. l = PartOfLine(t, lo, hi, n)
  BY <1>3 DEF p, PartOfLine
<1>6. QED
  BY <1>4, <1>5, PartOfLineIs

\* The whole lines of a stretch are its parts of the lines that end in it, and
\* the rest is its part of the last line.
LEMMA WholeParts ==
  ASSUME NEW t, InOneRow(t), NEW lo \in Nat, NEW hi \in Nat, lo <= hi, hi <= Len(t)
  PROVE  LET s == SubSeq(t, lo + 1, hi)
             k == Cardinality(Newlines(s))
         IN  /\ PartsOf(t, lo, hi, Whole(s)) /\ Len(Whole(s)) = k /\ k \in Nat
             /\ \A n \in 1..k : /\ End(s, n) \in 1..(hi - lo) /\ Ends(t, lo + End(s, n))
                                /\ Num(Whole(s)[n]) = LineNo(t, lo + End(s, n))
                                /\ LineNo(t, lo + End(s, n - 1) + 1) = LineNo(t, lo + End(s, n))
             /\ \A x \in (lo + 1)..hi :
                   Ends(t, x) => \E n \in 1..k : LineNo(t, x) = Num(Whole(s)[n])
             /\ Rest(s) \in Seq(Nat)
             /\ Rest(s) = <<>> <=> lo = hi \/ Ends(t, hi)
             /\ Rest(s) # <<>> =>
                  /\ Rest(s) = PartOfLine(t, lo, hi, Num(Rest(s))) /\ Num(Rest(s)) = LineNo(t, hi)
                  /\ End(s, k) \in 0..(hi - lo - 1)
                  /\ LineNo(t, lo + End(s, k) + 1) = LineNo(t, hi)
<1> DEFINE s == SubSeq(t, lo + 1, hi)
           k == Cardinality(Newlines(s))
           e(n) == End(s, n)
           len == hi - lo
<1>0. len \in Nat /\ lo + len = hi
  OBVIOUS
<1>1. /\ s \in Seq(Nat) /\ Len(s) = len /\ DOMAIN s = 1..len
      /\ \A i \in 1..len : s[i] = t[lo + i] /\ lo + i \in DOMAIN t
      /\ \A i \in 1..len : i \in Newlines(s) <=> Ends(t, lo + i)
  BY StretchOf
<1>2. Nat \in SUBSET Nat
  OBVIOUS
<1> HIDE DEF s
<1>3. /\ k \in Nat /\ Newlines(s) \in SUBSET (1..len)
      /\ \A n \in 0..k : e(n) \in 0..len
      /\ \A n \in 1..k : e(n) \in Newlines(s)
      /\ \A m, n \in 0..k : m < n => e(m) < e(n)
      /\ \A n \in 1..k : \A i \in Newlines(s) : ~(e(n - 1) < i /\ i < e(n))
      /\ \A i \in Newlines(s) : i <= e(k)
      /\ \A i \in 1..len : i <= e(k) => \E n \in 1..k : e(n - 1) < i /\ i <= e(n)
      /\ e(0) = 0
  BY <1>1, <1>2, EndsInOrder DEF End
<1>4. /\ Whole(s) \in Seq(Seq(Nat)) /\ Len(Whole(s)) = k
      /\ \A n \in 1..k :
           /\ Len(Whole(s)[n]) = e(n) - e(n - 1)
           /\ \A i \in 1..(e(n) - e(n - 1)) : Whole(s)[n][i] = s[e(n - 1) + i]
      /\ Rest(s) \in Seq(Nat) /\ Len(Rest(s)) = len - e(k)
      /\ \A i \in 1..(len - e(k)) : Rest(s)[i] = s[e(k) + i]
  BY <1>1, <1>2, CutUp
<1>5. DOMAIN Whole(s) = 1..k /\ \A n \in 1..k : Whole(s)[n] \in Seq(Nat)
  BY <1>4, LenProperties, ElementOfSeq
<1> HIDE DEF k, e, len
<1>6. \A n \in 1..k : /\ n - 1 \in 0..k /\ n \in 0..k /\ n - 1 < n
                      /\ e(n - 1) \in Nat /\ e(n) \in Nat /\ e(n - 1) < e(n)
                      /\ e(n) >= 1 /\ e(n) <= len /\ e(n) \in 1..len
  <2> TAKE n \in 1..k
  <2>1. n - 1 \in 0..k /\ n \in 0..k /\ n - 1 < n
    BY <1>3
  <2>2. e(n - 1) \in 0..len /\ e(n) \in 0..len /\ e(n - 1) < e(n)
    BY <1>3, <2>1
  <2>3. QED
    BY <1>0, <2>1, <2>2
<1>7. \A i \in 1..len : ~(i \in Newlines(s)) => ~Ends(t, lo + i)
  BY <1>1
<1>8. ASSUME NEW n \in 1..k
      PROVE  /\ Whole(s)[n] = PartOfLine(t, lo, hi, LineNo(t, lo + e(n))) /\ Whole(s)[n] # <<>>
             /\ Num(Whole(s)[n]) = LineNo(t, lo + e(n))
             /\ LineNo(t, lo + e(n - 1) + 1) = LineNo(t, lo + e(n))
             /\ Ends(t, lo + e(n)) /\ LineNo(t, lo + e(n)) \in Nat
  <2> DEFINE a == lo + e(n - 1) + 1
             b == lo + e(n)
  <2>1. a \in Nat /\ b \in Nat /\ lo < a /\ a <= b /\ b <= hi /\ b - a + 1 = e(n) - e(n - 1)
    BY <1>0, <1>6
  <2>2. Ends(t, b)
    BY <1>1, <1>3, <1>6
  <2>3. a = lo + 1 \/ Ends(t, a - 1)
    <3>1. CASE n = 1
      BY <1>3, <3>1
    <3>2. CASE n # 1
      <4>1. n - 1 \in 1..k
        BY <1>3, <3>2
      <4>2. e(n - 1) \in Newlines(s) /\ e(n - 1) \in 1..len
        BY <1>3, <1>6, <4>1
      <4>3. Ends(t, lo + e(n - 1)) /\ lo + e(n - 1) = a - 1
        BY <1>1, <4>2
      <4>4. QED
        BY <4>3
    <3>3. QED
      BY <3>1, <3>2
  <2>4. \A x \in a..(b - 1) : ~Ends(t, x)
    <3> TAKE x \in a..(b - 1)
    <3> DEFINE i == x - lo
    <3>1. i \in 1..len /\ e(n - 1) < i /\ i < e(n) /\ lo + i = x
      BY <1>0, <1>6
    <3> HIDE DEF i
    <3>2. ~(i \in Newlines(s))
      BY <1>3, <3>1
    <3>3. QED
      BY <1>7, <3>1, <3>2
  <2> HIDE DEF a, b
  <2>5. OfLine(t, lo, hi, LineNo(t, b)) = a..b /\ LineNo(t, a) = LineNo(t, b)
    BY <2>1, <2>2, <2>3, <2>4, LinePlaces
  <2>6. /\ Whole(s)[n] \in Seq(Nat) /\ Len(Whole(s)[n]) = b - a + 1
        /\ \A i \in 1..(b - a + 1) : Whole(s)[n][i] = t[(a - 1) + i]
    <3>1. Len(Whole(s)[n]) = b - a + 1
      BY <1>4, <2>1
    <3>2. ASSUME NEW i \in 1..(b - a + 1) PROVE Whole(s)[n][i] = t[(a - 1) + i]
      <4>1. i \in 1..(e(n) - e(n - 1))
        BY <2>1
      <4>2. e(n - 1) + i \in 1..len /\ lo + (e(n - 1) + i) = (a - 1) + i
        BY <1>0, <1>6, <4>1 DEF a
      <4>3. Whole(s)[n][i] = s[e(n - 1) + i]
        BY <1>4, <4>1
      <4>4. s[e(n - 1) + i] = t[lo + (e(n - 1) + i)]
        BY <1>1, <4>2
      <4>5. QED
        BY <4>2, <4>3, <4>4
    <3>3. QED
      BY <1>5, <3>1, <3>2
  <2>7. /\ Whole(s)[n] = PartOfLine(t, lo, hi, LineNo(t, b)) /\ Whole(s)[n] # <<>>
        /\ Num(Whole(s)[n]) = LineNo(t, b)
    BY <2>1, <2>5, <2>6, PartAt
  <2>8. b \in DOMAIN t
    BY <2>1, RowPlaces
  <2>9. LineNo(t, b) \in Nat
    BY <2>8 DEF InOneRow
  <2>10. QED
    BY <2>2, <2>5, <2>7, <2>9 DEF a, b
<1>9. ASSUME NEW m \in 1..k, NEW n \in 1..k, m < n
      PROVE  Num(Whole(s)[m]) < Num(Whole(s)[n])
  <2>1. e(m) < e(n) /\ e(m) \in 1..len /\ e(n) \in 1..len
    BY <1>3, <1>6, <1>9
  <2>2. lo + e(m) \in DOMAIN t /\ lo + e(n) \in DOMAIN t /\ lo + e(m) < lo + e(n)
    BY <1>1, <2>1
  <2>3. LineNo(t, lo + e(m)) < LineNo(t, lo + e(n))
    BY <1>8, <2>2, RowAfterEnd
  <2>4. QED
    BY <1>8, <2>3
<1>10. PartsOf(t, lo, hi, Whole(s))
  <2>1. \A i \in DOMAIN Whole(s) : /\ Whole(s)[i] # <<>> /\ Num(Whole(s)[i]) \in Nat
                                   /\ Whole(s)[i] = PartOfLine(t, lo, hi, Num(Whole(s)[i]))
    BY <1>5, <1>8
  <2>2. QED
    BY <1>4, <1>5, <1>9, <2>1 DEF PartsOf
<1>11. ASSUME NEW x \in (lo + 1)..hi, Ends(t, x)
       PROVE  \E n \in 1..k : LineNo(t, x) = Num(Whole(s)[n])
  <2> DEFINE i == x - lo
  <2>1. i \in 1..len /\ lo + i = x
    BY <1>0
  <2> HIDE DEF i
  <2>2. i \in Newlines(s)
    BY <1>1, <1>11, <2>1
  <2>3. i <= e(k)
    BY <1>3, <2>2
  <2>4. PICK n \in 1..k : e(n - 1) < i /\ i <= e(n)
    BY <1>3, <2>1, <2>3
  <2>5. ~(i < e(n))
    BY <1>3, <2>2, <2>4
  <2>6. i = e(n)
    BY <1>6, <2>1, <2>4, <2>5
  <2>7. QED
    BY <1>8, <2>1, <2>6
<1>12. e(k) \in Nat /\ e(k) <= len /\ k \in 0..k
  <2>1. k \in 0..k
    BY <1>3
  <2>2. e(k) \in 0..len
    BY <1>3, <2>1
  <2>3. QED
    BY <1>0, <2>1, <2>2
<1>13. e(k) = len <=> lo = hi \/ Ends(t, hi)
  <2>1. CASE k = 0
    <3>1. e(k) = 0
      BY <1>3, <2>1
    <3>2. ~Ends(t, hi) \/ lo = hi
      <4>1. SUFFICES ASSUME Ends(t, hi), lo # hi PROVE FALSE
        OBVIOUS
      <4>2. len \in 1..len /\ lo + len = hi
        BY <1>0, <4>1 DEF len
      <4>3. len \in Newlines(s)
        BY <1>1, <4>1, <4>2
      <4>4. len <= e(k)
        BY <1>3, <4>3
      <4>5. QED
        BY <3>1, <4>2, <4>4, <1>0
    <3>3. QED
      BY <1>0, <3>1, <3>2 DEF len
  <2>2. CASE k # 0
    <3>1. k \in 1..k
      BY <1>3, <2>2
    <3>2. Ends(t, lo + e(k)) /\ e(k) >= 1
      BY <1>6, <1>8, <3>1
    <3>3. lo # hi
      BY <1>0, <1>12, <3>2 DEF len
    <3>4. e(k) = len => Ends(t, hi)
      BY <1>0, <3>2
    <3>5. ASSUME Ends(t, hi) PROVE e(k) = len
      <4>1. len \in 1..len /\ lo + len = hi
        BY <1>0, <3>3 DEF len
      <4>2. len \in Newlines(s)
        BY <1>1, <3>5, <4>1
      <4>3. QED
        BY <1>0, <1>3, <1>12, <4>2
    <3>6. QED
      BY <3>3, <3>4, <3>5
  <2>3. QED
    BY <2>1, <2>2
<1>14. Rest(s) = <<>> <=> lo = hi \/ Ends(t, hi)
  <2>1. Rest(s) = <<>> <=> Len(Rest(s)) = 0
    BY <1>4, EmptySeq
  <2>2. QED
    BY <1>0, <1>4, <1>12, <1>13, <2>1
<1>15. ASSUME Rest(s) # <<>>
       PROVE  /\ Rest(s) = PartOfLine(t, lo, hi, Num(Rest(s))) /\ Num(Rest(s)) = LineNo(t, hi)
              /\ e(k) \in 0..(len - 1)
              /\ LineNo(t, lo + e(k) + 1) = LineNo(t, hi)
  <2> DEFINE a == lo + e(k) + 1
  <2>1. e(k) # len
    BY <1>13, <1>14, <1>15
  <2>2. a \in Nat /\ lo < a /\ a <= hi /\ hi - a + 1 = len - e(k) /\ e(k) \in 0..(len - 1)
    BY <1>0, <1>12, <2>1
  <2>3. a = lo + 1 \/ Ends(t, a - 1)
    <3>1. CASE k = 0
      BY <1>3, <3>1
    <3>2. CASE k # 0
      <4>1. k \in 1..k
        BY <1>3, <3>2
      <4>2. Ends(t, lo + e(k)) /\ lo + e(k) = a - 1
        BY <1>8, <1>12, <4>1
      <4>3. QED
        BY <4>2
    <3>3. QED
      BY <3>1, <3>2
  <2>4. \A x \in a..(hi - 1) : ~Ends(t, x)
    <3> TAKE x \in a..(hi - 1)
    <3> DEFINE i == x - lo
    <3>1. i \in 1..len /\ e(k) < i /\ lo + i = x
      BY <1>0, <1>12
    <3> HIDE DEF i
    <3>2. ~(i \in Newlines(s))
      <4>1. i \in Newlines(s) => i <= e(k)
        BY <1>3
      <4>2. QED
        BY <1>12, <3>1, <4>1
    <3>3. QED
      BY <1>7, <3>1, <3>2
  <2> HIDE DEF a
  <2>5. OfLine(t, lo, hi, LineNo(t, hi)) = a..hi /\ LineNo(t, a) = LineNo(t, hi)
    BY <2>2, <2>3, <2>4, LinePlaces
  <2>6. /\ Len(Rest(s)) = hi - a + 1
        /\ \A i \in 1..(hi - a + 1) : Rest(s)[i] = t[(a - 1) + i]
    <3>1. Len(Rest(s)) = hi - a + 1
      BY <1>4, <2>2
    <3>2. ASSUME NEW i \in 1..(hi - a + 1) PROVE Rest(s)[i] = t[(a - 1) + i]
      <4>1. i \in 1..(len - e(k))
        BY <2>2
      <4>2. e(k) + i \in 1..len /\ lo + (e(k) + i) = (a - 1) + i
        BY <1>0, <1>12, <4>1 DEF a
      <4>3. Rest(s)[i] = s[e(k) + i]
        BY <1>4, <4>1
      <4>4. s[e(k) + i] = t[lo + (e(k) + i)]
        BY <1>1, <4>2
      <4>5. QED
        BY <4>2, <4>3, <4>4
    <3>3. QED
      BY <3>1, <3>2
  <2>7. Rest(s) \in Seq(Nat) /\ hi \in Nat /\ hi <= hi /\ hi <= Len(t)
    BY <1>4
  <2> DEFINE n == LineNo(t, hi)
             l == Rest(s)
  <2>8. l \in Seq(Nat) /\ OfLine(t, lo, hi, n) = a..hi
    BY <2>5, <2>7
  <2>9. Len(l) = hi - a + 1 /\ \A i \in 1..(hi - a + 1) : l[i] = t[(a - 1) + i]
    BY <2>6
  <2> HIDE DEF n, l
  <2>10. l = PartOfLine(t, lo, hi, n) /\ Num(l) = n
    BY <2>2, <2>7, <2>8, <2>9, PartAt
  <2>11. Rest(s) = PartOfLine(t, lo, hi, LineNo(t, hi)) /\ Num(Rest(s)) = LineNo(t, hi)
    BY <2>10 DEF n, l
  <2>12. QED
    BY <2>2, <2>5, <2>11 DEF a
<1>16. QED
  <2>1. \A n \in 1..k : /\ e(n) \in 1..len /\ Ends(t, lo + e(n))
                        /\ Num(Whole(s)[n]) = LineNo(t, lo + e(n))
                        /\ LineNo(t, lo + e(n - 1) + 1) = LineNo(t, lo + e(n))
    BY <1>6, <1>8
  <2>2. k \in Nat
    BY <1>3
  <2>3. QED
    BY <1>4, <1>10, <1>11, <1>14, <1>15, <2>1, <2>2 DEF s, k, e, len

\* No line number is left out on the way to a place.
LEMMA RowNumbers ==
  ASSUME NEW t, InOneRow(t), NEW j \in DOMAIN t, NEW v \in Nat, 1 <= v, v <= LineNo(t, j)
  PROVE  \E x \in 1..j : LineNo(t, x) = v
<1> DEFINE F == {x \in Nat : x \in 1..j /\ v <= LineNo(t, x)}
<1>0. /\ Len(t) \in Nat /\ DOMAIN t = 1..Len(t)
      /\ j \in Nat /\ j >= 1 /\ j <= Len(t)
  BY RowPlaces
<1>1. \A x \in 1..j : x \in DOMAIN t /\ LineNo(t, x) \in Nat
  <2>1. \A x \in 1..j : x \in DOMAIN t
    BY <1>0
  <2>2. QED
    BY <2>1 DEF InOneRow
<1>2. j \in F
  BY <1>0
<1>3. PICK x \in F : \A y \in F : x <= y
  BY <1>2, LeastExists
<1>4. x \in Nat /\ x \in 1..j /\ v <= LineNo(t, x) /\ LineNo(t, x) \in Nat
  BY <1>1, <1>3
<1>5. LineNo(t, x) <= v
  <2>1. CASE x = 1
    <3>1. t # <<>>
      BY <1>0, EmptySeq
    <3>2. LineNo(t, 1) = 1
      BY <3>1 DEF InOneRow
    <3>3. QED
      BY <2>1, <3>2
  <2>2. CASE x # 1
    <3>1. x - 1 \in Nat /\ x - 1 \in 1..j /\ x - 1 < x /\ (x - 1) + 1 = x
      BY <1>0, <1>4, <2>2
    <3>2. ~(x - 1 \in F)
      <4>1. x - 1 \in F => x <= x - 1
        BY <1>3
      <4>2. QED
        BY <3>1, <4>1
    <3>3. LineNo(t, x - 1) \in Nat /\ LineNo(t, x - 1) < v
      <4>1. LineNo(t, x - 1) \in Nat
        BY <1>1, <3>1
      <4>2. ~(v <= LineNo(t, x - 1))
        BY <3>1, <3>2
      <4>3. QED
        BY <4>1, <4>2
    <3>4. LineNo(t, x) = NextLine(t, x - 1)
      <4>1. x - 1 \in DOMAIN t /\ x \in DOMAIN t
        BY <1>1, <1>4, <3>1
      <4>2. (x - 1) + 1 \in DOMAIN t => LineNo(t, (x - 1) + 1) = NextLine(t, x - 1)
        BY <4>1 DEF InOneRow
      <4>3. QED
        BY <3>1, <4>1, <4>2
    <3>5. LineNo(t, x) <= LineNo(t, x - 1) + 1
      BY <1>4, <3>3, <3>4 DEF NextLine
    <3>6. QED
      BY <1>4, <3>3, <3>5
  <2>3. QED
    BY <2>1, <2>2
<1>6. LineNo(t, x) = v
  BY <1>4, <1>5
<1>7. QED
  BY <1>4, <1>6

LEMMA ConcatNothing ==
  ASSUME NEW S, NEW s \in Seq(S)
  PROVE  s \o <<>> = s
BY ConcatEmptySeq

LEMMA ConcatOne ==
  ASSUME NEW S, NEW s \in Seq(S), NEW x \in S
  PROVE  LET u == s \o <<x>> IN
         /\ u \in Seq(S) /\ Len(u) = Len(s) + 1 /\ DOMAIN u = 1..(Len(s) + 1)
         /\ \A i \in 1..Len(s) : u[i] = s[i]
         /\ u[Len(s) + 1] = x
<1> DEFINE u == s \o <<x>>
<1>1. <<x>> \in Seq(S) /\ Len(<<x>>) = 1 /\ <<x>>[1] = x
  OBVIOUS
<1>2. /\ u \in Seq(S) /\ Len(u) = Len(s) + Len(<<x>>)
      /\ \A i \in 1..(Len(s) + Len(<<x>>)) : u[i] = IF i <= Len(s) THEN s[i] ELSE <<x>>[i - Len(s)]
  BY <1>1, ConcatProperties
<1> HIDE DEF u
<1>3. Len(s) \in Nat
  BY LenProperties
<1>4. Len(u) = Len(s) + 1
  BY <1>1, <1>2
<1>5. \A i \in 1..Len(s) : u[i] = s[i]
  BY <1>1, <1>2, <1>3
<1>6. u[Len(s) + 1] = x
  <2>1. Len(s) + 1 \in 1..(Len(s) + 1) /\ ~(Len(s) + 1 <= Len(s)) /\ (Len(s) + 1) - Len(s) = 1
    BY <1>3
  <2>2. QED
    BY <1>1, <1>2, <2>1
<1>7. DOMAIN u = 1..(Len(s) + 1)
  BY <1>2, <1>4, LenProperties
<1>8. QED
  BY <1>2, <1>4, <1>5, <1>6, <1>7 DEF u

\* The lines that splitlines() makes of a stretch are its parts of all the lines
\* that have a place in it.
LEMMA SplitParts ==
  ASSUME NEW t, InOneRow(t), NEW lo \in Nat, NEW hi \in Nat, lo <= hi, hi <= Len(t)
  PROVE  LET ls == SplitLines(SubSeq(t, lo + 1, hi)) IN
         /\ PartsOf(t, lo, hi, ls)
         /\ Numbers(ls) = {LineNo(t, x) : x \in (lo + 1)..hi}
<1> DEFINE s == SubSeq(t, lo + 1, hi)
           k == Cardinality(Newlines(s))
           w == Whole(s)
           r == Rest(s)
           ls == SplitLines(s)
<1>1. /\ PartsOf(t, lo, hi, w) /\ Len(w) = k /\ k \in Nat
      /\ \A n \in 1..k : /\ End(s, n) \in 1..(hi - lo) /\ Ends(t, lo + End(s, n))
                         /\ Num(w[n]) = LineNo(t, lo + End(s, n))
      /\ \A x \in (lo + 1)..hi : Ends(t, x) => \E n \in 1..k : LineNo(t, x) = Num(w[n])
      /\ r \in Seq(Nat)
      /\ r = <<>> <=> lo = hi \/ Ends(t, hi)
      /\ r # <<>> => /\ r = PartOfLine(t, lo, hi, Num(r)) /\ Num(r) = LineNo(t, hi)
                     /\ End(s, k) \in 0..(hi - lo - 1)
  BY WholeParts
<1>2. ls = w \o IF r = <<>> THEN <<>> ELSE <<r>>
  BY DEF SplitLines
<1>3. /\ k \in Nat
      /\ \A m, n \in 0..k : m < n => End(s, m) < End(s, n)
      /\ \A n \in 0..k : End(s, n) \in 0..Len(s)
      /\ Len(s) = hi - lo
  <2>1. s \in Seq(Nat) /\ Len(s) = hi - lo
    BY StretchOf
  <2>2. Nat \in SUBSET Nat
    OBVIOUS
  <2>3. QED
    BY <2>1, <2>2, EndsInOrder
<1> HIDE DEF s, k, w, r
<1>4. w \in Seq(Seq(Nat)) /\ DOMAIN w = 1..k
  BY <1>1, LenProperties DEF PartsOf
<1>5. \A x \in (lo + 1)..hi : x \in DOMAIN t /\ LineNo(t, x) \in Nat
  <2>1. \A x \in (lo + 1)..hi : x \in DOMAIN t
    BY RowPlaces
  <2>2. QED
    BY <2>1 DEF InOneRow
<1>6. /\ PartsOf(t, lo, hi, ls)
      /\ \A v : v \in Numbers(ls) <=> v \in Numbers(w) \/ (r # <<>> /\ v = LineNo(t, hi))
  <2>1. CASE r = <<>>
    <3>1. ls = w
      BY <1>2, <1>4, <2>1, ConcatNothing
    <3>2. QED
      BY <1>1, <2>1, <3>1
  <2>2. CASE r # <<>>
    <3>1. ls = w \o <<r>>
      BY <1>2, <2>2
    <3> HIDE DEF ls
    <3>2. /\ ls \in Seq(Seq(Nat)) /\ DOMAIN ls = 1..(k + 1)
          /\ \A i \in 1..k : ls[i] = w[i]
          /\ ls[k + 1] = r
      <4>1. w \in Seq(Seq(Nat)) /\ r \in Seq(Nat) /\ Len(w) = k
        BY <1>1, <1>4
      <4>2. LET u == w \o <<r>> IN
            /\ u \in Seq(Seq(Nat)) /\ DOMAIN u = 1..(Len(w) + 1)
            /\ \A i \in 1..Len(w) : u[i] = w[i]
            /\ u[Len(w) + 1] = r
        BY <4>1, ConcatOne
      <4>3. QED
        BY <3>1, <4>1, <4>2
    <3>3. /\ r = PartOfLine(t, lo, hi, Num(r)) /\ Num(r) = LineNo(t, hi)
          /\ End(s, k) \in 0..(hi - lo - 1)
      BY <1>1, <2>2
    <3>4. hi \in (lo + 1)..hi
      BY <3>3
    <3>5. LineNo(t, hi) \in Nat /\ hi \in DOMAIN t
      BY <1>5, <3>4
    <3>6. ASSUME NEW i \in DOMAIN ls
          PROVE  ls[i] # <<>> /\ Num(ls[i]) \in Nat /\ ls[i] = PartOfLine(t, lo, hi, Num(ls[i]))
      <4>1. CASE i \in 1..k
        <5>1. ls[i] = w[i]
          BY <3>2, <4>1
        <5>2. QED
          BY <1>1, <1>4, <4>1, <5>1 DEF PartsOf
      <4>2. CASE i = k + 1
        BY <2>2, <3>2, <3>3, <3>5, <4>2
      <4>3. QED
        BY <1>1, <3>2, <4>1, <4>2
    <3>7. ASSUME NEW n \in 1..k PROVE Num(w[n]) < LineNo(t, hi)
      <4> DEFINE x == lo + End(s, n)
      <4>1. End(s, n) \in 1..(hi - lo) /\ Ends(t, x) /\ Num(w[n]) = LineNo(t, x)
        BY <1>1
      <4>2. n \in 0..k /\ k \in 0..k /\ (n < k \/ n = k)
        BY <1>1
      <4>3. End(s, n) <= End(s, k)
        <5>1. End(s, n) \in 0..Len(s) /\ End(s, k) \in 0..Len(s)
          BY <1>3, <4>2
        <5>2. QED
          BY <1>3, <4>2, <5>1
      <4>4. x < hi /\ x \in (lo + 1)..hi
        BY <3>3, <4>1, <4>3
      <4>5. x \in DOMAIN t
        BY <1>5, <4>4
      <4> HIDE DEF x
      <4>6. QED
        BY <3>5, <4>1, <4>4, <4>5, RowAfterEnd
    <3>8. ASSUME NEW i \in DOMAIN ls, NEW j \in DOMAIN ls, i < j
          PROVE  Num(ls[i]) < Num(ls[j])
      <4>1. i \in 1..k
        BY <1>1, <3>2, <3>8
      <4>2. ls[i] = w[i]
        BY <3>2, <4>1
      <4>3. CASE j \in 1..k
        <5>1. ls[j] = w[j]
          BY <3>2, <4>3
        <5>2. QED
          BY <1>1, <1>4, <3>8, <4>1, <4>2, <4>3, <5>1 DEF PartsOf
      <4>4. CASE j = k + 1
        BY <3>2, <3>3, <3>7, <4>1, <4>2, <4>4
      <4>5. QED
        BY <1>1, <3>2, <4>3, <4>4
    <3>9. PartsOf(t, lo, hi, ls)
      BY <3>2, <3>6, <3>8 DEF PartsOf
    <3>10. ASSUME NEW v PROVE v \in Numbers(ls) <=> v \in Numbers(w) \/ v = LineNo(t, hi)
      <4>1. v \in Numbers(ls) <=> \E i \in 1..(k + 1) : v = Num(ls[i])
        BY <3>2 DEF Numbers
      <4>2. v \in Numbers(w) <=> \E i \in 1..k : v = Num(w[i])
        BY <1>4 DEF Numbers
      <4>3. (\E i \in 1..(k + 1) : v = Num(ls[i])) <=> (\E i \in 1..k : v = Num(ls[i])) \/ v = Num(ls[k + 1])
        <5>1. \A i : i \in 1..(k + 1) <=> i \in 1..k \/ i = k + 1
          BY <1>1
        <5>2. QED
          BY <5>1
      <4>4. (\E i \in 1..k : v = Num(ls[i])) <=> (\E i \in 1..k : v = Num(w[i]))
        BY <3>2
      <4>5. QED
        BY <3>2, <3>3, <4>1, <4>2, <4>3, <4>4
    <3>11. QED
      BY <2>2, <3>9, <3>10
  <2>3. QED
    BY <2>1, <2>2
<1> HIDE DEF ls
<1>7. \A v : v \in Numbers(w) <=> \E n \in 1..k : v = Num(w[n])
  BY <1>4 DEF Numbers
<1>8. ASSUME NEW v, v \in Numbers(ls) PROVE \E x \in (lo + 1)..hi : v = LineNo(t, x)
  <2>1. CASE v \in Numbers(w)
    <3>1. PICK n \in 1..k : v = Num(w[n])
      BY <1>7, <2>1
    <3>2. End(s, n) \in 1..(hi - lo) /\ v = LineNo(t, lo + End(s, n))
      BY <1>1, <3>1
    <3>3. lo + End(s, n) \in (lo + 1)..hi
      BY <3>2
    <3>4. QED
      BY <3>2, <3>3
  <2>2. CASE r # <<>> /\ v = LineNo(t, hi)
    <3>1. hi \in (lo + 1)..hi
      BY <1>1, <2>2
    <3>2. QED
      BY <2>2, <3>1
  <2>3. QED
    BY <1>6, <1>8, <2>1, <2>2
<1>9. ASSUME NEW x \in (lo + 1)..hi PROVE LineNo(t, x) \in Numbers(ls)
  <2> DEFINE F == {y \in Nat : y \in x..hi /\ Ends(t, y)}
  <2>0. x \in Nat /\ x <= hi /\ lo < x
    OBVIOUS
  <2>1. CASE F = {}
    <3>1. ~Ends(t, hi)
      <4>1. hi \in x..hi
        BY <2>0
      <4>2. QED
        BY <2>1, <4>1
    <3>2. r # <<>>
      BY <1>1, <2>0, <3>1
    <3>3. \A y \in x..(hi - 1) : ~Ends(t, y)
      <4>1. \A y \in x..(hi - 1) : y \in Nat /\ y \in x..hi
        BY <2>0
      <4>2. QED
        BY <2>1, <4>1
    <3>4. hi \in (lo + 1)..hi
      BY <2>0
    <3>5. x \in DOMAIN t /\ hi \in DOMAIN t
      BY <1>5, <3>4
    <3>6. LineNo(t, x) = LineNo(t, hi)
      BY <2>0, <3>3, <3>5, RowUnbroken
    <3>7. QED
      BY <1>6, <3>2, <3>6
  <2>2. CASE F # {}
    <3>1. F \in SUBSET Nat
      OBVIOUS
    <3>2. PICK y \in F : \A z \in F : y <= z
      BY <2>2, <3>1, LeastExists
    <3>3. y \in Nat /\ y \in x..hi /\ Ends(t, y) /\ y \in (lo + 1)..hi
      BY <2>0, <3>2
    <3>4. \A z \in x..(y - 1) : ~Ends(t, z)
      <4> TAKE z \in x..(y - 1)
      <4>1. z \in Nat /\ z \in x..hi /\ ~(y <= z)
        BY <2>0, <3>3
      <4>2. QED
        BY <3>2, <4>1
    <3>5. x \in DOMAIN t /\ y \in DOMAIN t
      BY <1>5, <3>3
    <3>6. LineNo(t, x) = LineNo(t, y)
      BY <2>0, <3>3, <3>4, <3>5, RowUnbroken
    <3>7. PICK n \in 1..k : LineNo(t, y) = Num(w[n])
      BY <1>1, <3>3
    <3>8. QED
      BY <1>6, <1>7, <3>6, <3>7
  <2>3. QED
    BY <2>1, <2>2
<1>10. Numbers(ls) = {LineNo(t, x) : x \in (lo + 1)..hi}
  <2>1. \A v : v \in Numbers(ls) <=> v \in {LineNo(t, x) : x \in (lo + 1)..hi}
    BY <1>8, <1>9
  <2>2. QED
    BY <2>1
<1>11. QED
  BY <1>6, <1>10 DEF ls, s

\* Where the first whole line of a stretch begins: after its first newline, at
\* once if it has none or begins with the text.
CutsAt(t, off, lo, hi) ==
  /\ lo \in Nat /\ off <= lo /\ lo <= hi
  /\ \/ lo = off /\ off = 0
     \/ lo = off /\ \A x \in (off + 1)..hi : ~Ends(t, x)
     \/ off < lo /\ Ends(t, lo) /\ \A x \in (off + 1)..(lo - 1) : ~Ends(t, x)

LEMMA FirstCutIs ==
  ASSUME NEW t, InOneRow(t), NEW off \in Nat, NEW hi \in Nat, off <= hi, hi <= Len(t)
  PROVE  \E lo : /\ CutsAt(t, off, lo, hi)
                 /\ TextAfter(off, SubSeq(t, off + 1, hi)) = SubSeq(t, lo + 1, hi)
<1> DEFINE s == SubSeq(t, off + 1, hi)
           e == NthOf(Newlines(s), 1)
           len == hi - off
<1>0. len \in Nat /\ off + len = hi
  OBVIOUS
<1>1. /\ s \in Seq(Nat) /\ Len(s) = len /\ DOMAIN s = 1..len
      /\ \A i \in 1..len : s[i] = t[off + i]
      /\ \A i \in 1..len : i \in Newlines(s) <=> Ends(t, off + i)
  BY StretchOf
<1> HIDE DEF s
<1>2. CASE off = 0
  <2>1. TextAfter(off, s) = s
    BY <1>2 DEF TextAfter
  <2>2. CutsAt(t, off, 0, hi)
    BY <1>2 DEF CutsAt
  <2>3. QED
    BY <1>2, <2>1, <2>2 DEF s
<1>3. CASE off # 0 /\ Newlines(s) = {}
  <2>1. TextAfter(off, s) = s
    BY <1>3 DEF TextAfter, AfterFirst, AfterEnd
  <2>2. \A x \in (off + 1)..hi : ~Ends(t, x)
    <3> TAKE x \in (off + 1)..hi
    <3> DEFINE i == x - off
    <3>1. i \in 1..len /\ off + i = x
      BY <1>0
    <3> HIDE DEF i
    <3>2. ~(i \in Newlines(s))
      BY <1>3
    <3>3. QED
      BY <1>1, <3>1, <3>2
  <2>3. CutsAt(t, off, off, hi)
    BY <2>2 DEF CutsAt
  <2>4. QED
    BY <2>1, <2>3 DEF s
<1>4. CASE off # 0 /\ Newlines(s) # {}
  <2> DEFINE k == Cardinality(Newlines(s))
             lo == off + e
  <2>1. /\ k \in Nat /\ Newlines(s) \in SUBSET (1..len)
        /\ \A n \in 1..k : End(s, n) \in Newlines(s)
        /\ \A n \in 1..k : \A i \in Newlines(s) : ~(End(s, n - 1) < i /\ i < End(s, n))
        /\ \A i \in Newlines(s) : i <= End(s, k)
        /\ End(s, 0) = 0
    <3>1. Nat \in SUBSET Nat
      OBVIOUS
    <3>2. QED
      BY <1>1, <3>1, EndsInOrder DEF End
  <2>2. k # 0
    <3>1. PICK i \in Newlines(s) : TRUE
      BY <1>4
    <3>2. i \in 1..len /\ i <= End(s, k)
      BY <2>1
    <3>3. QED
      BY <2>1, <3>2
  <2>3. 1 \in 1..k /\ End(s, 1) = e
    BY <2>1, <2>2 DEF End
  <2>4. e \in Newlines(s) /\ e \in 1..len /\ \A i \in Newlines(s) : ~(0 < i /\ i < e)
    <3>1. 1 - 1 = 0
      OBVIOUS
    <3>2. e \in Newlines(s) /\ \A i \in Newlines(s) : ~(0 < i /\ i < e)
      BY <2>1, <2>3, <3>1
    <3>3. QED
      BY <2>1, <3>2
  <2>5. TextAfter(off, s) = SubSeq(s, 1 + e, len)
    <3>1. off > 0
      BY <1>4
    <3>2. AfterFirst(s) = SubSeq(s, 1 + e, Len(s))
      BY <1>4 DEF AfterFirst, AfterEnd
    <3>3. QED
      BY <1>1, <3>1, <3>2 DEF TextAfter
  <2> HIDE DEF k, e
  <2>6. lo \in Nat /\ off < lo /\ lo <= hi /\ Ends(t, lo)
    BY <1>0, <1>1, <2>4
  <2>7. \A x \in (off + 1)..(lo - 1) : ~Ends(t, x)
    <3> TAKE x \in (off + 1)..(lo - 1)
    <3> DEFINE i == x - off
    <3>1. i \in 1..len /\ off + i = x /\ 0 < i /\ i < e
      BY <1>0, <2>4
    <3> HIDE DEF i
    <3>2. ~(i \in Newlines(s))
      BY <2>4, <3>1
    <3>3. QED
      BY <1>1, <3>1, <3>2
  <2>8. CutsAt(t, off, lo, hi)
    BY <2>6, <2>7 DEF CutsAt
  <2> DEFINE u == SubSeq(s, 1 + e, len)
             v == SubSeq(t, lo + 1, hi)
  <2>9. /\ u \in Seq(Nat) /\ Len(u) = len - e
        /\ \A i \in 1..(len - e) : u[i] = s[e + i]
    <3>1. \A i \in (1 + e)..len : s[i] \in Nat
      <4>1. \A i \in (1 + e)..len : i \in 1..Len(s)
        BY <1>1, <2>4
      <4>2. QED
        BY <1>1, <4>1, ElementOfSeq
    <3>2. 1 + e \in Int /\ len \in Int
      BY <1>0, <2>4
    <3>3. /\ u \in Seq(Nat) /\ Len(u) = (IF 1 + e <= len THEN len - (1 + e) + 1 ELSE 0)
          /\ \A i \in 1..(len - (1 + e) + 1) : u[i] = s[(1 + e) + i - 1]
      BY <3>1, <3>2, SubSeqProperties
    <3> HIDE DEF u
    <3>4. Len(u) = len - e
      BY <1>0, <2>4, <3>3
    <3>5. ASSUME NEW i \in 1..(len - e) PROVE u[i] = s[e + i]
      <4>1. i \in 1..(len - (1 + e) + 1) /\ (1 + e) + i - 1 = e + i
        BY <1>0, <2>4
      <4>2. QED
        BY <3>3, <4>1
    <3>6. QED
      BY <3>3, <3>4, <3>5
  <2>10. /\ v \in Seq(Nat) /\ Len(v) = hi - lo
         /\ \A i \in 1..(hi - lo) : v[i] = t[lo + i]
    BY <2>6, StretchOf
  <2> HIDE DEF u, v
  <2>11. hi - lo = len - e
    BY <1>0, <2>4
  <2>12. \A i \in 1..(len - e) : u[i] = v[i]
    <3> TAKE i \in 1..(len - e)
    <3>1. e + i \in 1..len /\ off + (e + i) = lo + i
      BY <1>0, <2>4
    <3>2. u[i] = s[e + i] /\ s[e + i] = t[off + (e + i)]
      BY <1>1, <2>9, <3>1
    <3>3. v[i] = t[lo + i]
      BY <2>10, <2>11
    <3>4. QED
      BY <3>1, <3>2, <3>3
  <2>13. u = v
    <3>1. Len(u) = Len(v) /\ \A i \in 1..Len(u) : u[i] = v[i]
      BY <2>9, <2>10, <2>11, <2>12
    <3>2. QED
      BY <2>9, <2>10, <3>1, SeqEqual
  <2>14. QED
    BY <2>5, <2>8, <2>13 DEF s, u, v
<1>5. QED
  BY <1>2, <1>3, <1>4 DEF s

-----------------------------------------------------------------------------
(* Choosing among the parts. *)

LEMMA PartsPick ==
  ASSUME NEW t, NEW lo, NEW hi, NEW ls, PartsOf(t, lo, hi, ls), NEW E \in SUBSET (1..Len(ls))
  PROVE  /\ PartsOf(t, lo, hi, Picked(ls, E))
         /\ Numbers(Picked(ls, E)) = {Num(ls[i]) : i \in E}
         /\ Len(Picked(ls, E)) = Cardinality(E)
<1> DEFINE p == Picked(ls, E)
           c == Cardinality(E)
<1>1. ls \in Seq(Seq(Nat)) /\ DOMAIN ls = 1..Len(ls)
  BY LenProperties DEF PartsOf
<1>2. /\ p \in Seq(Seq(Nat)) /\ Len(p) = c /\ DOMAIN p = 1..c
      /\ \A n \in 1..c : NthOf(E, n) \in E /\ p[n] = ls[NthOf(E, n)]
      /\ \A m, n \in 1..c : m < n => NthOf(E, m) < NthOf(E, n)
      /\ \A i \in E : \E n \in 1..c : NthOf(E, n) = i
  <2>1. ASSUME NEW S, ls \in Seq(S)
        PROVE  /\ Picked(ls, E) \in Seq(S) /\ Len(Picked(ls, E)) = Cardinality(E)
               /\ DOMAIN Picked(ls, E) = 1..Cardinality(E)
               /\ \A n \in 1..Cardinality(E) : NthOf(E, n) \in E /\ Picked(ls, E)[n] = ls[NthOf(E, n)]
               /\ \A m, n \in 1..Cardinality(E) : m < n => NthOf(E, m) < NthOf(E, n)
               /\ \A i \in E : \E n \in 1..Cardinality(E) : NthOf(E, n) = i
    BY <2>1, PickedIs
  <2>2. QED
    BY <1>1, <2>1
<1> HIDE DEF p, c
<1>3. \A n \in 1..c : NthOf(E, n) \in DOMAIN ls
  BY <1>1, <1>2
<1>4. PartsOf(t, lo, hi, p)
  <2>1. \A i \in DOMAIN p : /\ p[i] # <<>> /\ Num(p[i]) \in Nat
                            /\ p[i] = PartOfLine(t, lo, hi, Num(p[i]))
    BY <1>2, <1>3 DEF PartsOf
  <2>2. ASSUME NEW i \in DOMAIN p, NEW j \in DOMAIN p, i < j PROVE Num(p[i]) < Num(p[j])
    <3>1. /\ NthOf(E, i) < NthOf(E, j)
          /\ NthOf(E, i) \in DOMAIN ls /\ NthOf(E, j) \in DOMAIN ls
          /\ p[i] = ls[NthOf(E, i)] /\ p[j] = ls[NthOf(E, j)]
      BY <1>2, <1>3, <2>2
    <3>2. QED
      BY <3>1 DEF PartsOf
  <2>3. QED
    BY <1>2, <2>1, <2>2 DEF PartsOf
<1>5. Numbers(p) = {Num(ls[i]) : i \in E}
  <2>1. ASSUME NEW v PROVE v \in Numbers(p) <=> \E i \in E : v = Num(ls[i])
    <3>1. v \in Numbers(p) <=> \E n \in 1..c : v = Num(p[n])
      BY <1>2 DEF Numbers
    <3>2. ASSUME NEW n \in 1..c, v = Num(p[n]) PROVE \E i \in E : v = Num(ls[i])
      <4>1. NthOf(E, n) \in E /\ p[n] = ls[NthOf(E, n)]
        BY <1>2
      <4>2. v = Num(ls[NthOf(E, n)])
        BY <3>2, <4>1
      <4>3. QED
        BY <4>1, <4>2
    <3>3. ASSUME NEW i \in E, v = Num(ls[i]) PROVE \E n \in 1..c : v = Num(p[n])
      <4>1. PICK n \in 1..c : NthOf(E, n) = i
        BY <1>2
      <4>2. p[n] = ls[i]
        BY <1>2, <4>1
      <4>3. v = Num(p[n])
        BY <3>3, <4>2
      <4>4. QED
        BY <4>3
    <3>4. QED
      BY <3>1, <3>2, <3>3
  <2>2. QED
    BY <2>1
<1>6. QED
  BY <1>2, <1>4, <1>5 DEF p, c

LEMMA PartsCut ==
  ASSUME NEW t, NEW lo, NEW hi, NEW ls, PartsOf(t, lo, hi, ls),
         NEW a \in Nat, a >= 1, NEW b \in Nat, b <= Len(ls)
  PROVE  LET p == SubSeq(ls, a, b) IN
         /\ PartsOf(t, lo, hi, p)
         /\ Numbers(p) = {Num(ls[i]) : i \in a..b}
         /\ Len(p) <= Len(ls)
         /\ Len(p) = IF a <= b THEN b - a + 1 ELSE 0
         /\ \A n \in 1..Len(p) : p[n] = ls[(a - 1) + n]
<1> DEFINE p == SubSeq(ls, a, b)
<1>1. ls \in Seq(Seq(Nat)) /\ DOMAIN ls = 1..Len(ls) /\ Len(ls) \in Nat
  BY LenProperties DEF PartsOf
<1>2. /\ p \in Seq(Seq(Nat)) /\ Len(p) = (IF a <= b THEN b - a + 1 ELSE 0)
      /\ \A n \in 1..(b - a + 1) : p[n] = ls[a + n - 1]
  <2>1. \A i \in a..b : ls[i] \in Seq(Nat)
    <3>1. \A i \in a..b : i \in 1..Len(ls)
      BY <1>1
    <3>2. QED
      BY <1>1, <3>1, ElementOfSeq
  <2>2. a \in Int /\ b \in Int
    OBVIOUS
  <2>3. QED
    BY <2>1, <2>2, SubSeqProperties
<1> HIDE DEF p
<1>3. DOMAIN p = 1..Len(p) /\ Len(p) \in Nat
  BY <1>2, LenProperties
<1>4. \A n \in 1..Len(p) : p[n] = ls[(a - 1) + n] /\ (a - 1) + n \in a..b
  <2> TAKE n \in 1..Len(p)
  <2>1. n \in 1..(b - a + 1) /\ a + n - 1 = (a - 1) + n /\ (a - 1) + n \in a..b
    BY <1>2
  <2>2. QED
    BY <1>2, <2>1
<1>5. \A i \in a..b : i - a + 1 \in 1..Len(p) /\ (a - 1) + (i - a + 1) = i
  BY <1>2
<1>6. \A i \in a..b : i \in DOMAIN ls
  BY <1>1
<1>7. PartsOf(t, lo, hi, p)
  <2>1. \A i \in DOMAIN p : /\ p[i] # <<>> /\ Num(p[i]) \in Nat
                            /\ p[i] = PartOfLine(t, lo, hi, Num(p[i]))
    BY <1>3, <1>4, <1>6 DEF PartsOf
  <2>2. ASSUME NEW i \in DOMAIN p, NEW j \in DOMAIN p, i < j PROVE Num(p[i]) < Num(p[j])
    <3> DEFINE x == (a - 1) + i
               y == (a - 1) + j
    <3>1. i \in 1..Len(p) /\ j \in 1..Len(p) /\ x < y
      BY <1>3, <2>2
    <3>2. x \in DOMAIN ls /\ y \in DOMAIN ls /\ p[i] = ls[x] /\ p[j] = ls[y]
      BY <1>4, <1>6, <3>1
    <3> HIDE DEF x, y
    <3>3. QED
      BY <3>1, <3>2 DEF PartsOf
  <2>3. QED
    BY <1>2, <2>1, <2>2 DEF PartsOf
<1>8. Numbers(p) = {Num(ls[i]) : i \in a..b}
  <2>1. ASSUME NEW v PROVE v \in Numbers(p) <=> \E i \in a..b : v = Num(ls[i])
    <3>1. v \in Numbers(p) <=> \E n \in 1..Len(p) : v = Num(p[n])
      BY <1>3 DEF Numbers
    <3>2. ASSUME NEW i \in a..b, v = Num(ls[i]) PROVE \E n \in 1..Len(p) : v = Num(p[n])
      <4>1. i - a + 1 \in 1..Len(p) /\ p[i - a + 1] = ls[i]
        BY <1>4, <1>5
      <4>2. QED
        BY <3>2, <4>1
    <3>3. QED
      BY <1>4, <3>1, <3>2
  <2>2. QED
    BY <2>1
<1>9. Len(p) <= Len(ls)
  BY <1>1, <1>2
<1>10. QED
  BY <1>2, <1>4, <1>7, <1>8, <1>9 DEF p

\* A place is not before the number of its line.
LEMMA RowSlow ==
  ASSUME NEW t, InOneRow(t), NEW j \in DOMAIN t
  PROVE  LineNo(t, j) <= j
<1> DEFINE Wrong == {k \in Nat : k \in DOMAIN t /\ ~(LineNo(t, k) <= k)}
<1>0. /\ Len(t) \in Nat /\ DOMAIN t = 1..Len(t)
      /\ j \in Nat /\ \A k \in DOMAIN t : LineNo(t, k) \in Nat
  BY RowPlaces DEF InOneRow
<1>1. SUFFICES ASSUME Wrong # {} PROVE FALSE
  BY <1>0
<1>2. Wrong \in SUBSET Nat
  OBVIOUS
<1>3. PICK m \in Wrong : \A x \in Wrong : m <= x
  BY <1>1, <1>2, LeastExists
<1>4. m \in Nat /\ m \in DOMAIN t /\ ~(LineNo(t, m) <= m) /\ LineNo(t, m) \in Nat
  BY <1>0, <1>3
<1>5. m # 1
  <2>1. t # <<>>
    BY <1>0, EmptySeq
  <2>2. LineNo(t, 1) = 1
    BY <2>1 DEF InOneRow
  <2>3. QED
    BY <1>4, <2>2
<1>6. m - 1 \in Nat /\ m - 1 \in DOMAIN t /\ (m - 1) + 1 = m /\ m - 1 < m
  BY <1>0, <1>4, <1>5
<1>7. LineNo(t, m - 1) <= m - 1
  <2>1. ~(m - 1 \in Wrong)
    <3>1. m - 1 \in Wrong => m <= m - 1
      BY <1>3
    <3>2. QED
      BY <1>6, <3>1
  <2>2. QED
    BY <1>6, <2>1
<1>8. LineNo(t, m) = NextLine(t, m - 1)
  <2>1. (m - 1) + 1 \in DOMAIN t => LineNo(t, (m - 1) + 1) = NextLine(t, m - 1)
    BY <1>6 DEF InOneRow
  <2>2. QED
    BY <1>4, <1>6, <2>1
<1>9. LineNo(t, m - 1) \in Nat
  BY <1>0, <1>6
<1>10. LineNo(t, m) <= LineNo(t, m - 1) + 1
  BY <1>8, <1>9 DEF NextLine
<1>11. QED
  BY <1>4, <1>7, <1>9, <1>10

LEMMA WholeText ==
  ASSUME NEW t, InOneRow(t)
  PROVE  SubSeq(t, 0 + 1, Len(t)) = t
<1> DEFINE s == SubSeq(t, 0 + 1, Len(t))
<1>0. t \in Seq(Nat) /\ Len(t) \in Nat
  BY RowPlaces DEF InOneRow
<1>1. /\ s \in Seq(Nat) /\ Len(s) = Len(t) - 0
      /\ \A i \in 1..(Len(t) - 0) : s[i] = t[0 + i]
  BY <1>0, StretchOf
<1> HIDE DEF s
<1>2. Len(s) = Len(t) /\ \A i \in 1..Len(s) : s[i] = t[i]
  BY <1>0, <1>1
<1>3. s = t
  BY <1>0, <1>1, <1>2, SeqEqual
<1>4. QED
  BY <1>3 DEF s

\* In the whole text line n is the n-th.
LEMMA SplitIndex ==
  ASSUME NEW t, InOneRow(t)
  PROVE  LET ls == SplitLines(t) IN
         /\ PartsOf(t, 0, Len(t), ls)
         /\ Numbers(ls) = {LineNo(t, x) : x \in 1..Len(t)}
         /\ \A m \in DOMAIN ls : Num(ls[m]) = m
         /\ Len(ls) <= Len(t)
<1> DEFINE ls == SplitLines(t)
<1>0. t \in Seq(Nat) /\ Len(t) \in Nat /\ DOMAIN t = 1..Len(t)
  BY RowPlaces DEF InOneRow
<1>1. SubSeq(t, 0 + 1, Len(t)) = t
  BY WholeText
<1>2. /\ PartsOf(t, 0, Len(t), ls)
      /\ Numbers(ls) = {LineNo(t, x) : x \in (0 + 1)..Len(t)}
  <2>1. 0 \in Nat /\ 0 <= Len(t) /\ Len(t) <= Len(t)
    BY <1>0
  <2>2. LET u == SplitLines(SubSeq(t, 0 + 1, Len(t))) IN
        /\ PartsOf(t, 0, Len(t), u)
        /\ Numbers(u) = {LineNo(t, x) : x \in (0 + 1)..Len(t)}
    BY <1>0, <2>1, SplitParts
  <2>3. QED
    BY <1>1, <2>2
<1> HIDE DEF ls
<1>3. Numbers(ls) = {LineNo(t, x) : x \in 1..Len(t)}
  BY <1>2
<1>4. ls \in Seq(Seq(Nat)) /\ Len(ls) \in Nat /\ DOMAIN ls = 1..Len(ls)
  BY <1>2, LenProperties DEF PartsOf
<1>5. /\ \A i \in DOMAIN ls : Num(ls[i]) \in Nat /\ Num(ls[i]) \in Numbers(ls)
      /\ \A i, j \in DOMAIN ls : i < j => Num(ls[i]) < Num(ls[j])
  BY <1>2 DEF PartsOf, Numbers
<1>6. ASSUME NEW i \in DOMAIN ls, NEW v \in Nat, 1 <= v, v <= Num(ls[i])
      PROVE  \E j \in DOMAIN ls : Num(ls[j]) = v
  <2>1. PICK x \in 1..Len(t) : Num(ls[i]) = LineNo(t, x)
    BY <1>3, <1>5
  <2>2. PICK y \in 1..x : LineNo(t, y) = v
    BY <1>0, <1>6, <2>1, RowNumbers
  <2>3. y \in 1..Len(t)
    BY <1>0, <2>1
  <2>4. v \in Numbers(ls)
    BY <1>3, <2>2, <2>3
  <2>5. QED
    BY <2>4 DEF Numbers
<1>7. ASSUME NEW i \in DOMAIN ls PROVE Num(ls[i]) >= 1
  <2>1. PICK x \in 1..Len(t) : Num(ls[i]) = LineNo(t, x)
    BY <1>3, <1>5
  <2>2. QED
    BY <1>0, <2>1 DEF InOneRow
<1> DEFINE Wrong == {m \in Nat : m \in DOMAIN ls /\ Num(ls[m]) # m}
<1>8. ASSUME Wrong # {} PROVE FALSE
  <2>1. Wrong \in SUBSET Nat
    OBVIOUS
  <2>2. PICK m \in Wrong : \A x \in Wrong : m <= x
    BY <1>8, <2>1, LeastExists
  <2>3. m \in Nat /\ m \in DOMAIN ls /\ Num(ls[m]) # m /\ Num(ls[m]) \in Nat
    BY <1>5, <2>2
  <2>4. m >= 1
    BY <1>4, <2>3
  <2>5. \A i \in DOMAIN ls : i < m => Num(ls[i]) = i
    <3> TAKE i \in DOMAIN ls
    <3>1. i \in Nat
      BY <1>4
    <3>2. i \in Wrong => m <= i
      BY <2>2
    <3>3. QED
      BY <2>3, <3>1, <3>2
  <2>6. Num(ls[m]) > m
    <3>1. CASE m = 1
      BY <1>7, <2>3, <3>1
    <3>2. CASE m # 1
      <4>1. m - 1 \in DOMAIN ls /\ m - 1 < m
        BY <1>4, <2>3, <2>4, <3>2
      <4>2. Num(ls[m - 1]) = m - 1
        BY <2>5, <4>1
      <4>3. Num(ls[m - 1]) < Num(ls[m])
        BY <1>5, <2>3, <4>1
      <4>4. QED
        BY <2>3, <4>2, <4>3
    <3>3. QED
      BY <3>1, <3>2
  <2>7. PICK j \in DOMAIN ls : Num(ls[j]) = m
    BY <1>6, <2>3, <2>4, <2>6
  <2>8. j \in Nat
    BY <1>4
  <2>9. ~(j < m)
    BY <2>3, <2>5, <2>7, <2>8
  <2>10. ~(m < j)
    <3>1. m < j => Num(ls[m]) < Num(ls[j])
      BY <1>5, <2>3
    <3>2. QED
      BY <2>3, <2>6, <2>7, <3>1
  <2>11. QED
    BY <2>3, <2>6, <2>7, <2>8, <2>9, <2>10
<1>9. \A m \in DOMAIN ls : Num(ls[m]) = m
  <2> TAKE m \in DOMAIN ls
  <2>1. m \in Nat
    BY <1>4
  <2>2. ~(m \in Wrong)
    BY <1>8
  <2>3. QED
    BY <2>1, <2>2
<1>10. Len(ls) <= Len(t)
  <2>1. CASE Len(ls) = 0
    BY <1>0, <2>1
  <2>2. CASE Len(ls) # 0
    <3>1. Len(ls) \in DOMAIN ls
      BY <1>4, <2>2
    <3>2. PICK x \in 1..Len(t) : Len(ls) = LineNo(t, x)
      BY <1>3, <1>5, <1>9, <3>1
    <3>3. LineNo(t, x) <= x
      BY <1>0, RowSlow
    <3>4. QED
      BY <1>0, <1>4, <3>2, <3>3
  <2>3. QED
    BY <2>1, <2>2
<1>11. QED
  BY <1>2, <1>3, <1>9, <1>10 DEF ls

-----------------------------------------------------------------------------
(* A line that has a character is never an empty one. *)

HasChar(t, lo, hi, n) == \E k \in OfLine(t, lo, hi, n) : ~Ends(t, k)

LEMMA SolidPart ==
  ASSUME NEW t, InOneRow(t), NEW lo \in Nat, NEW hi \in Nat, hi <= Len(t), NEW n,
         PartOfLine(t, lo, hi, n) # <<>>
  PROVE  ~Blank(PartOfLine(t, lo, hi, n)) <=> HasChar(t, lo, hi, n)
<1> DEFINE E == OfLine(t, lo, hi, n)
           p == PartOfLine(t, lo, hi, n)
           c == Cardinality(E)
<1>0. t \in Seq(Nat) /\ Len(t) \in Nat /\ DOMAIN t = 1..Len(t) /\ E \in SUBSET (1..Len(t))
  BY RowPlaces DEF InOneRow, OfLine
<1>1. /\ p \in Seq(Nat) /\ Len(p) = c /\ c \in Nat /\ DOMAIN p = 1..c
      /\ \A i \in 1..c : NthOf(E, i) \in E /\ p[i] = t[NthOf(E, i)]
      /\ \A i, j \in 1..c : i < j => NthOf(E, i) < NthOf(E, j)
      /\ \A k \in E : \E i \in 1..c : NthOf(E, i) = k
  BY <1>0, PickedIs DEF PartOfLine
<1>2. c # 0
  <2>1. Len(p) \in Nat \ {0}
    BY <1>1, EmptySeq
  <2>2. QED
    BY <1>1, <2>1
<1>3. 1 \in 1..c
  BY <1>1, <1>2
<1>4. ASSUME ~Blank(p) PROVE HasChar(t, lo, hi, n)
  <2>1. CASE ~EndsLine(p[1])
    <3>1. NthOf(E, 1) \in E /\ ~Ends(t, NthOf(E, 1))
      BY <1>1, <1>3, <2>1 DEF Ends
    <3>2. QED
      BY <3>1 DEF HasChar
  <2>2. CASE EndsLine(p[1])
    <3>1. Len(p) # 1
      BY <1>4, <2>2 DEF Blank
    <3>2. 2 \in 1..c /\ 1 < 2
      BY <1>1, <1>2, <3>1
    <3> DEFINE a == NthOf(E, 1)
               b == NthOf(E, 2)
    <3>3. a \in E /\ b \in E /\ a < b
      BY <1>1, <1>3, <3>2
    <3> HIDE DEF a, b
    <3>4. a \in DOMAIN t /\ b \in DOMAIN t /\ a \in Nat /\ b \in Nat
          /\ LineNo(t, a) = LineNo(t, b)
      BY <1>0, <3>3 DEF OfLine
    <3>5. a \in a..(b - 1)
      BY <3>3, <3>4
    <3>6. ~Ends(t, a)
      BY <3>3, <3>4, <3>5, RowSame
    <3>7. QED
      BY <3>3, <3>6 DEF HasChar
  <2>3. QED
    BY <2>1, <2>2
<1>5. ASSUME HasChar(t, lo, hi, n), Blank(p) PROVE FALSE
  <2>1. c = 1 /\ EndsLine(p[1])
    BY <1>1, <1>5 DEF Blank
  <2>2. PICK k \in E : ~Ends(t, k)
    BY <1>5 DEF HasChar
  <2>3. PICK i \in 1..c : NthOf(E, i) = k
    BY <1>1
  <2>4. i = 1
    BY <2>1
  <2>5. p[1] = t[k]
    BY <1>1, <2>3, <2>4
  <2>6. QED
    BY <2>1, <2>2, <2>5 DEF Ends
<1>6. QED
  BY <1>4, <1>5

\* Some part of it.
LEMMA CharPart ==
  ASSUME NEW t, InOneRow(t), NEW lo \in Nat, NEW hi \in Nat, hi <= Len(t), NEW n,
         HasChar(t, lo, hi, n)
  PROVE  PartOfLine(t, lo, hi, n) # <<>> /\ ~Blank(PartOfLine(t, lo, hi, n))
<1>1. OfLine(t, lo, hi, n) # {}
  BY DEF HasChar
<1>2. PartOfLine(t, lo, hi, n) # <<>>
  BY <1>1, PartOfLineIs
<1>3. QED
  BY <1>2, SolidPart

\* Of two lines that have a place in a text, the whole of the earlier one comes
\* before the later one, with its newline.
LEMMA EarlierEnds ==
  ASSUME NEW t, InOneRow(t), NEW a \in DOMAIN t, NEW b \in DOMAIN t, LineNo(t, a) < LineNo(t, b)
  PROVE  /\ a < b
         /\ \E y \in a..(b - 1) : Ends(t, y) /\ LineNo(t, y) = LineNo(t, a)
<1>0. /\ Len(t) \in Nat /\ DOMAIN t = 1..Len(t)
      /\ a \in Nat /\ b \in Nat /\ a >= 1 /\ b <= Len(t)
      /\ LineNo(t, a) \in Nat /\ LineNo(t, b) \in Nat
  BY RowPlaces DEF InOneRow
<1>1. a < b
  <2>1. b <= a => LineNo(t, b) <= LineNo(t, a)
    BY RowRises
  <2>2. QED
    BY <1>0, <2>1
<1> DEFINE F == {y \in Nat : y \in a..(b - 1) /\ Ends(t, y)}
<1>2. F # {}
  <2>1. SUFFICES ASSUME F = {} PROVE FALSE
    OBVIOUS
  <2>2. \A y \in a..(b - 1) : y \in Nat
    BY <1>0
  <2>3. \A y \in a..(b - 1) : ~Ends(t, y)
    BY <2>1, <2>2
  <2>4. LineNo(t, a) = LineNo(t, b)
    BY <1>0, <1>1, <2>3, RowUnbroken
  <2>5. QED
    BY <1>0, <2>4
<1>3. PICK y \in F : \A z \in F : y <= z
  <2>1. F \in SUBSET Nat
    OBVIOUS
  <2>2. QED
    BY <1>2, <2>1, LeastExists
<1>4. y \in Nat /\ y \in a..(b - 1) /\ Ends(t, y)
  BY <1>3
<1>5. \A z \in a..(y - 1) : ~Ends(t, z)
  <2> TAKE z \in a..(y - 1)
  <2>1. z \in Nat /\ z \in a..(b - 1) /\ ~(y <= z)
    BY <1>0, <1>4
  <2>2. QED
    BY <1>3, <2>1
<1>6. y \in DOMAIN t /\ a <= y
  BY <1>0, <1>4
<1>7. LineNo(t, a) = LineNo(t, y)
  BY <1>5, <1>6, RowUnbroken
<1>8. QED
  BY <1>1, <1>4, <1>7

LEMMA FrontNumbers ==
  ASSUME NEW t, NEW lo, NEW hi, NEW ls, PartsOf(t, lo, hi, ls), ls # <<>>
  PROVE  /\ PartsOf(t, lo, hi, FrontOf(ls))
         /\ Numbers(FrontOf(ls)) = {v \in Numbers(ls) : v < Num(ls[Len(ls)])}
         /\ Len(FrontOf(ls)) < Len(ls)
         /\ Len(ls) \in DOMAIN ls
<1>1. ls \in Seq(Seq(Nat)) /\ DOMAIN ls = 1..Len(ls) /\ Len(ls) \in Nat /\ Len(ls) # 0
  <2>1. ls \in Seq(Seq(Nat))
    BY DEF PartsOf
  <2>2. QED
    BY <2>1, LenProperties, EmptySeq
<1>2. 1 \in Nat /\ 1 >= 1 /\ Len(ls) - 1 \in Nat /\ Len(ls) - 1 <= Len(ls)
  BY <1>1
<1>3. LET p == SubSeq(ls, 1, Len(ls) - 1) IN
      /\ PartsOf(t, lo, hi, p)
      /\ Numbers(p) = {Num(ls[i]) : i \in 1..(Len(ls) - 1)}
      /\ Len(p) = IF 1 <= Len(ls) - 1 THEN Len(ls) - 1 - 1 + 1 ELSE 0
  BY <1>2, PartsCut
<1>4. /\ PartsOf(t, lo, hi, FrontOf(ls))
      /\ Numbers(FrontOf(ls)) = {Num(ls[i]) : i \in 1..(Len(ls) - 1)}
      /\ Len(FrontOf(ls)) < Len(ls)
  <2>1. /\ PartsOf(t, lo, hi, FrontOf(ls))
        /\ Numbers(FrontOf(ls)) = {Num(ls[i]) : i \in 1..(Len(ls) - 1)}
        /\ Len(FrontOf(ls)) = IF 1 <= Len(ls) - 1 THEN Len(ls) - 1 - 1 + 1 ELSE 0
    BY <1>3 DEF FrontOf
  <2> DEFINE c == Len(ls)
             f == Len(FrontOf(ls))
  <2>2. c \in Nat /\ c # 0 /\ f = IF 1 <= c - 1 THEN c - 1 - 1 + 1 ELSE 0
    BY <1>1, <2>1
  <2> HIDE DEF c, f
  <2>3. f < c
    BY <2>2
  <2>4. QED
    BY <2>1, <2>3 DEF c, f
<1>5. /\ \A i \in DOMAIN ls : Num(ls[i]) \in Nat
      /\ \A i, j \in DOMAIN ls : i < j => Num(ls[i]) < Num(ls[j])
  BY DEF PartsOf
<1>6. Len(ls) \in DOMAIN ls
  BY <1>1
<1>7. ASSUME NEW v
      PROVE  v \in Numbers(FrontOf(ls)) <=> v \in Numbers(ls) /\ v < Num(ls[Len(ls)])
  <2>1. ASSUME v \in Numbers(FrontOf(ls)) PROVE v \in Numbers(ls) /\ v < Num(ls[Len(ls)])
    <3>1. PICK i \in 1..(Len(ls) - 1) : v = Num(ls[i])
      BY <1>4, <2>1
    <3>2. i \in DOMAIN ls /\ i < Len(ls)
      BY <1>1
    <3>3. QED
      BY <1>5, <1>6, <3>1, <3>2 DEF Numbers
  <2>2. ASSUME v \in Numbers(ls), v < Num(ls[Len(ls)]) PROVE v \in Numbers(FrontOf(ls))
    <3>1. PICK i \in DOMAIN ls : v = Num(ls[i])
      BY <2>2 DEF Numbers
    <3>2. i # Len(ls)
      BY <1>5, <1>6, <2>2, <3>1
    <3>3. i \in 1..(Len(ls) - 1)
      BY <1>1, <3>2
    <3>4. QED
      BY <1>4, <3>1, <3>3
  <2>3. QED
    BY <2>1, <2>2
<1>8. Numbers(FrontOf(ls)) = {v \in Numbers(ls) : v < Num(ls[Len(ls)])}
  BY <1>7
<1>9. QED
  BY <1>4, <1>6, <1>8

LEMMA SolidIs ==
  ASSUME NEW t, InOneRow(t), NEW lo \in Nat, NEW hi \in Nat, hi <= Len(t),
         NEW ls, PartsOf(t, lo, hi, ls)
  PROVE  /\ PartsOf(t, lo, hi, Solid(ls))
         /\ SolidIn(ls) \in SUBSET (1..Len(ls))
         /\ Numbers(Solid(ls)) \subseteq Numbers(ls)
         /\ \A n \in Numbers(ls) : HasChar(t, lo, hi, n) => n \in Numbers(Solid(ls))
         /\ \A i \in DOMAIN ls : i \in SolidIn(ls) <=> HasChar(t, lo, hi, Num(ls[i]))
<1>1. ls \in Seq(Seq(Nat)) /\ DOMAIN ls = 1..Len(ls) /\ Len(ls) \in Nat
  <2>1. ls \in Seq(Seq(Nat))
    BY DEF PartsOf
  <2>2. QED
    BY <2>1, LenProperties
<1>2. SolidIn(ls) \in SUBSET (1..Len(ls))
  BY <1>1 DEF SolidIn
<1>3. /\ PartsOf(t, lo, hi, Solid(ls))
      /\ Numbers(Solid(ls)) = {Num(ls[i]) : i \in SolidIn(ls)}
  BY <1>2, PartsPick DEF Solid
<1>4. Numbers(Solid(ls)) \subseteq Numbers(ls)
  BY <1>1, <1>2, <1>3 DEF Numbers
<1>5. \A i \in DOMAIN ls : i \in SolidIn(ls) <=> HasChar(t, lo, hi, Num(ls[i]))
  <2> TAKE i \in DOMAIN ls
  <2>1. ls[i] = PartOfLine(t, lo, hi, Num(ls[i])) /\ ls[i] # <<>>
    BY DEF PartsOf
  <2>2. ~Blank(ls[i]) <=> HasChar(t, lo, hi, Num(ls[i]))
    BY <2>1, SolidPart
  <2>3. QED
    BY <2>2 DEF SolidIn
<1>6. \A n \in Numbers(ls) : HasChar(t, lo, hi, n) => n \in Numbers(Solid(ls))
  <2> SUFFICES ASSUME NEW n \in Numbers(ls), HasChar(t, lo, hi, n)
               PROVE  n \in Numbers(Solid(ls))
    OBVIOUS
  <2>1. PICK i \in DOMAIN ls : n = Num(ls[i])
    BY DEF Numbers
  <2>2. i \in SolidIn(ls)
    BY <1>5, <2>1
  <2>3. QED
    BY <1>3, <2>1, <2>2
<1>7. QED
  BY <1>2, <1>3, <1>4, <1>5, <1>6

\* Each number of a part has a place in the stretch.
LEMMA NumberPlace ==
  ASSUME NEW t, InOneRow(t), NEW lo \in Nat, NEW hi \in Nat, hi <= Len(t),
         NEW ls, PartsOf(t, lo, hi, ls), NEW n \in Numbers(ls)
  PROVE  n \in Nat /\ \E x \in (lo + 1)..hi : LineNo(t, x) = n
<1>1. PICK i \in DOMAIN ls : n = Num(ls[i])
  BY DEF Numbers
<1>2. n \in Nat /\ PartOfLine(t, lo, hi, n) # <<>>
  BY <1>1 DEF PartsOf
<1>3. OfLine(t, lo, hi, n) # {}
  BY <1>2, PartOfLineIs
<1>4. QED
  BY <1>2, <1>3 DEF OfLine

\* read_tail
LEMMA TailIs ==
  ASSUME InOneRow(text), req.seen \in Nat, req.seen <= Len(text), NEW max \in Nat
  PROVE  LET r == ReadTail(max) IN
         /\ r.from \in Nat /\ r.from <= Len(text)
         /\ max > 0 /\ r.from > 0 => r.from < Len(text)
         /\ \E lo : /\ CutsAt(text, r.from, lo, Len(text))
                    /\ PartsOf(text, lo, Len(text), r.lines)
                    /\ Numbers(r.lines) = {LineNo(text, x) : x \in (lo + 1)..Len(text)}
<1> DEFINE off == Minus(req.seen, max)
<1>1. /\ Len(text) \in Nat /\ off \in Nat /\ off <= Len(text)
      /\ max > 0 /\ off > 0 => off < Len(text)
  BY RowPlaces DEF Minus
<1>2. /\ ReadTail(max).from = off
      /\ ReadTail(max).lines = SplitLines(TextAfter(off, SubSeq(text, off + 1, Len(text))))
  <2>1. ReadTail(max) = [from |-> off,
                         lines |-> SplitLines(TextAfter(off, SubSeq(text, off + 1, Len(text))))]
    BY DEF ReadTail, From
  <2>2. QED
    BY ONLY <2>1
<1> HIDE DEF off
<1>3. PICK lo : /\ CutsAt(text, off, lo, Len(text))
                /\ TextAfter(off, SubSeq(text, off + 1, Len(text))) = SubSeq(text, lo + 1, Len(text))
  BY <1>1, FirstCutIs
<1>4. lo \in Nat /\ lo <= Len(text)
  BY <1>3 DEF CutsAt
<1>5. LET ls == SplitLines(SubSeq(text, lo + 1, Len(text))) IN
      /\ PartsOf(text, lo, Len(text), ls)
      /\ Numbers(ls) = {LineNo(text, x) : x \in (lo + 1)..Len(text)}
  BY <1>1, <1>4, SplitParts
<1>6. QED
  BY <1>1, <1>2, <1>3, <1>5

LEMMA PieceOfLine ==
  ASSUME NEW t, InOneRow(t), NEW lo \in Nat, NEW hi \in Nat, hi <= Len(t), NEW n,
         NEW y \in OfLine(t, lo, hi, n)
  PROVE  \E j \in DOMAIN PartOfLine(t, lo, hi, n) : PartOfLine(t, lo, hi, n)[j] = t[y]
<1>1. \A k \in OfLine(t, lo, hi, n) :
         \E j \in DOMAIN PartOfLine(t, lo, hi, n) : PartOfLine(t, lo, hi, n)[j] = t[k]
  BY PartOfLineIs
<1>2. QED
  BY <1>1

\* A line with its newline in a stretch, whose places lie between a and y, has at
\* most y - a characters beside it.
LEMMA CharactersWithin ==
  ASSUME NEW t, InOneRow(t), NEW lo \in Nat, NEW hi \in Nat, hi <= Len(t), NEW n,
         NEW a \in Nat, NEW y \in OfLine(t, lo, hi, n), Ends(t, y),
         OfLine(t, lo, hi, n) \in SUBSET (a..y)
  PROVE  /\ Characters(PartOfLine(t, lo, hi, n)) \in Nat
         /\ Characters(PartOfLine(t, lo, hi, n)) + a <= y
<1> DEFINE E == OfLine(t, lo, hi, n)
           l == PartOfLine(t, lo, hi, n)
           d == Cardinality(E)
           c == Cardinality(Newlines(l))
<1>0. t \in Seq(Nat) /\ Len(t) \in Nat /\ E \in SUBSET (1..Len(t))
  BY RowPlaces DEF InOneRow, OfLine
<1>1. l \in Seq(Nat) /\ Len(l) = d /\ d \in Nat /\ DOMAIN l = 1..d
  BY <1>0, PickedIs DEF PartOfLine
<1>2. y \in Nat /\ a <= y
  BY <1>0
<1>3. d <= y - a + 1
  <2>1. a \in Int /\ y \in Int /\ ~(a > y)
    BY <1>2
  <2>2. IsFiniteSet(a..y) /\ Cardinality(a..y) = y - a + 1
    BY <2>1, FS_Interval
  <2>3. Cardinality(E) <= Cardinality(a..y)
    BY <2>2, FS_Subset
  <2>4. QED
    BY <2>2, <2>3
<1>4. c \in Nat /\ c <= d /\ c # 0
  <2>1. IsFiniteSet(1..d) /\ Cardinality(1..d) = d
    <3>1. 1 \in Int /\ d \in Int
      BY <1>1
    <3>2. Cardinality(1..d) = IF 1 > d THEN 0 ELSE d - 1 + 1
      BY <3>1, FS_Interval
    <3>3. IsFiniteSet(1..d)
      BY <3>1, FS_Interval
    <3> HIDE DEF d
    <3>4. QED
      BY <1>1, <3>2, <3>3
  <2>2. Newlines(l) \in SUBSET (1..d)
    BY <1>1 DEF Newlines
  <2>3. IsFiniteSet(Newlines(l)) /\ c <= Cardinality(1..d)
    BY <2>1, <2>2, FS_Subset
  <2>4. c \in Nat
    BY <2>3, FS_CardinalityType
  <2>5. PICK i \in DOMAIN l : l[i] = t[y]
    <3>1. \E j \in DOMAIN PartOfLine(t, lo, hi, n) : PartOfLine(t, lo, hi, n)[j] = t[y]
      BY PieceOfLine
    <3>2. QED
      BY <3>1
  <2>6. i \in Newlines(l)
    BY <2>5 DEF Newlines, Ends
  <2>7. c # 0
    BY <2>3, <2>6, FS_EmptySet
  <2>8. QED
    BY <2>1, <2>3, <2>4, <2>7
<1>5. Characters(l) = d - c
  BY <1>1 DEF Characters
<1> HIDE DEF c, d, l
<1>6. Characters(l) \in Nat /\ Characters(l) + a <= y
  BY <1>1, <1>2, <1>3, <1>4, <1>5
<1>7. QED
  BY <1>6 DEF l

\* What a read from off up to R gives: the parts of the lines before line B that
\* have a place after the cut.  When it stops before the end that the reader saw,
\* B is the line that follows R or the one before, and so for the end it reports;
\* of that one only half holds when the reader stepped back over a garbled line.
Ranged(off, max, r, R, lo, B) ==
  /\ CutsAt(text, off, lo, R) /\ PartsOf(text, lo, R, r.lines)
  /\ Numbers(r.lines) = {v \in {LineNo(text, x) : x \in (lo + 1)..R} : v < B}
  /\ r.from = off /\ r.end = R /\ r.to \in Int /\ r.to <= R
  /\ ~(R < req.seen) => r.to = R
  /\ R < req.seen =>
       /\ \A m \in Numbers(r.lines) : m < LineNo(text, R)
       /\ B <= LineNo(text, R + 1) /\ LineNo(text, R + 1) <= B + 1
       /\ NotBelow(r.to) <= R /\ LineNo(text, NotBelow(r.to) + 1) <= B + 1
       /\ r.back \notin Garbled =>
            /\ r.to \in Nat /\ B <= LineNo(text, r.to + 1)
            /\ max > 0 => off < r.to

LEMMA RangeIs ==
  ASSUME InOneRow(text), req.seen \in Nat, req.seen <= Len(text),
         NEW off \in Nat, off <= Len(text), NEW max \in Nat
  PROVE  LET R == Smaller(off + max, Len(text)) IN
         \E lo, B \in Nat : Ranged(off, max, ReadFrom(off, max), R, lo, B)
<1> DEFINE R == Smaller(off + max, Len(text))
           raw == SubSeq(text, off + 1, R)
           part == TextAfter(off, raw)
           ls == SplitLines(part)
           r == ReadFrom(off, max)
           L(x) == LineNo(text, x)
<1>0. text \in Seq(Nat) /\ Len(text) \in Nat /\ DOMAIN text = 1..Len(text)
  BY RowPlaces DEF InOneRow
<1>1. R \in Nat /\ off <= R /\ R <= Len(text) /\ (R < req.seen /\ max > 0 => off < R)
  BY <1>0 DEF Smaller
<1>2. r = RangeOf(off, off + Len(raw), part, ls)
  BY DEF ReadFrom
<1> HIDE DEF R, r
<1>3. Len(raw) = R - off
  BY <1>1, StretchOf
<1>4. r = RangeOf(off, R, part, ls)
  <2>1. off + Len(raw) = R
    BY <1>1, <1>3
  <2>2. QED
    BY <1>2, <2>1
<1>5. PICK lo : CutsAt(text, off, lo, R) /\ part = SubSeq(text, lo + 1, R)
  BY <1>1, FirstCutIs
<1>6. lo \in Nat /\ off <= lo /\ lo <= R
  BY <1>5 DEF CutsAt
<1> HIDE DEF raw
<1>7. /\ PartsOf(text, lo, R, ls)
      /\ Numbers(ls) = {L(x) : x \in (lo + 1)..R}
  <2>1. LET u == SplitLines(SubSeq(text, lo + 1, R)) IN
        /\ PartsOf(text, lo, R, u)
        /\ Numbers(u) = {L(x) : x \in (lo + 1)..R}
    BY <1>1, <1>6, SplitParts
  <2>2. QED
    BY <1>5, <2>1
<1>8. /\ part \in Seq(Nat) /\ Len(part) = R - lo
      /\ \A i \in 1..(R - lo) : part[i] = text[lo + i]
  BY <1>1, <1>5, <1>6, StretchOf
<1> HIDE DEF part, ls
<1>8a. (R < req.seen <=> ~(R >= req.seen)) /\ (R < req.seen => R < Len(text))
  BY <1>0, <1>1
<1>9. \A x \in DOMAIN text : x \in Nat /\ L(x) \in Nat /\ L(x) <= Len(text)
  <2>1. \A x \in DOMAIN text : L(x) \in Nat /\ L(x) <= x
    BY RowSlow DEF InOneRow
  <2>2. QED
    BY <1>0, <2>1
<1>10. \A x \in (lo + 1)..R : x \in DOMAIN text
  BY <1>0, <1>1, <1>6
<1>11. CASE ~(R < req.seen)
  <2>1. r = RangeRead(off, R, R, ls, 0)
    BY <1>4, <1>8a, <1>11 DEF RangeOf
  <2>2. r.from = off /\ r.end = R /\ r.to = R /\ r.lines = ls
    BY <2>1 DEF RangeRead
  <2> DEFINE B == Len(text) + 1
  <2>3. B \in Nat /\ \A x \in (lo + 1)..R : L(x) < B
    BY <1>0, <1>9, <1>10
  <2> HIDE DEF B, L
  <2>4. {L(x) : x \in (lo + 1)..R} = {v \in {L(x) : x \in (lo + 1)..R} : v < B}
    BY <2>3
  <2>5. Numbers(r.lines) = {v \in {L(x) : x \in (lo + 1)..R} : v < B}
    BY <1>7, <2>2, <2>4
  <2>6. r.to <= R /\ r.to \in Int
    BY <1>0, <1>1, <2>2
  <2>7. Ranged(off, max, r, R, lo, B)
    BY <1>5, <1>7, <1>11, <2>2, <2>5, <2>6 DEF Ranged, L
  <2>8. QED
    BY <1>6, <2>3, <2>7 DEF r, R
<1>12. CASE R < req.seen
  <2>1. /\ R + 1 \in DOMAIN text /\ L(R + 1) \in Nat
        /\ R # 0 => R \in DOMAIN text /\ L(R) \in Nat /\ L(R) <= L(R + 1)
                    /\ L(R + 1) = IF Ends(text, R) THEN L(R) + 1 ELSE L(R)
    <3>1. R + 1 \in DOMAIN text /\ (R # 0 => R \in DOMAIN text)
      BY <1>0, <1>1, <1>8a, <1>12
    <3>2. L(R + 1) \in Nat /\ (R # 0 => L(R) \in Nat)
      BY <1>9, <3>1
    <3>3. R # 0 => L(R + 1) = NextLine(text, R)
      BY <3>1 DEF InOneRow
    <3>4. QED
      BY <3>1, <3>2, <3>3 DEF NextLine
  <2>2. CASE ls = <<>>
    <3>1. r = RangeRead(off, R, R, ls, 0)
      BY <1>4, <2>2 DEF RangeOf
    <3>2. r.from = off /\ r.end = R /\ r.to = R /\ r.lines = ls
      BY <3>1 DEF RangeRead
    <3> DEFINE B == L(R + 1)
    <3>3. Numbers(ls) = {}
      BY <2>2 DEF Numbers
    <3> HIDE DEF L
    <3>4. Numbers(r.lines) = {v \in {L(x) : x \in (lo + 1)..R} : v < B}
      BY <1>7, <3>2, <3>3
    <3>5. B \in Nat /\ B <= L(R + 1) /\ L(R + 1) <= B + 1
      BY <2>1
    <3>6. /\ (max > 0 => off < r.to) /\ r.to <= R /\ r.to \in Nat /\ r.to \in Int
          /\ NotBelow(r.to) = R
      BY <1>1, <1>12, <3>2 DEF NotBelow
    <3>7. Ranged(off, max, r, R, lo, B)
      BY <1>1, <1>5, <1>7, <1>12, <3>2, <3>3, <3>4, <3>5, <3>6 DEF Ranged, L
    <3>8. QED
      BY <1>6, <3>5, <3>7 DEF r, R
  <2>3. CASE ls # <<>>
    <3> DEFINE kept == FrontOf(ls)
    <3>1. r = Trimmed(off, R, part, kept)
      <4>1. ~(R >= req.seen)
        BY <1>12, <1>8a
      <4>2. QED
        BY <1>4, <2>3, <4>1 DEF RangeOf
    <3>2. /\ PartsOf(text, lo, R, kept) /\ Len(ls) \in DOMAIN ls
          /\ Numbers(kept) = {v \in Numbers(ls) : v < Num(ls[Len(ls)])}
      BY <1>7, <2>3, FrontNumbers
    <3>3. PICK z \in (lo + 1)..R : Num(ls[Len(ls)]) = L(z)
      <4>1. Num(ls[Len(ls)]) \in Numbers(ls)
        BY <3>2 DEF Numbers
      <4>2. QED
        BY <1>7, <4>1
    <3>4. R \in (lo + 1)..R /\ R # 0 /\ R \in DOMAIN text /\ z \in DOMAIN text /\ z <= R
      BY <1>0, <1>1, <1>6, <1>10
    <3>5. L(R) \in Nat /\ L(z) \in Nat
      BY <1>9, <3>4
    <3>6. Num(ls[Len(ls)]) = L(R)
      <4>1. L(z) <= L(R)
        BY <3>4, RowRises
      <4>2. PICK j \in DOMAIN ls : Num(ls[j]) = L(R)
        <5>1. L(R) \in Numbers(ls)
          BY <1>7, <3>4
        <5>2. QED
          BY <5>1 DEF Numbers
      <4>3. j = Len(ls) \/ j < Len(ls)
        <5>1. ls \in Seq(Seq(Nat))
          BY <1>7 DEF PartsOf
        <5>2. DOMAIN ls = 1..Len(ls) /\ Len(ls) \in Nat
          BY <5>1, LenProperties
        <5>3. QED
          BY <5>2
      <4>4. j < Len(ls) => L(R) < L(z)
        BY <1>7, <3>2, <3>3, <4>2 DEF PartsOf
      <4>5. QED
        BY <3>3, <3>5, <4>1, <4>2, <4>3, <4>4
    <3>7. Numbers(kept) = {v \in {L(x) : x \in (lo + 1)..R} : v < L(R)}
      BY <1>7, <3>2, <3>6
    <3>8. part[Len(part)] = text[R]
      <4>1. Len(part) \in 1..(R - lo) /\ lo + Len(part) = R
        BY <1>1, <1>6, <1>8, <3>4
      <4>2. QED
        BY <1>8, <4>1
    <3> HIDE DEF kept
    <3>9. CASE ~(kept # <<>> /\ ~Blank(kept[Len(kept)]) /\ ~EndsLine(part[Len(part)]))
      <4>1. r = RangeRead(off, R, R, kept, 0)
        BY <3>1, <3>9 DEF Trimmed
      <4>2. r.from = off /\ r.end = R /\ r.to = R /\ r.lines = kept
        BY <4>1 DEF RangeRead
      <4> DEFINE B == L(R)
      <4>3. B \in Nat /\ B <= L(R + 1) /\ L(R + 1) <= B + 1
        BY <2>1, <3>4, <3>5
      <4>4. Numbers(r.lines) = {v \in {L(x) : x \in (lo + 1)..R} : v < B}
        BY <3>7, <4>2
      <4>5. \A m \in Numbers(r.lines) : m < L(R)
        BY <4>4
      <4>6. /\ (max > 0 => off < r.to) /\ r.to <= R /\ r.to \in Nat /\ r.to \in Int
            /\ NotBelow(r.to) = R
        BY <1>1, <1>12, <4>2 DEF NotBelow
      <4> HIDE DEF L
      <4>7. Ranged(off, max, r, R, lo, B)
        BY <1>1, <1>5, <1>12, <3>2, <4>2, <4>3, <4>4, <4>5, <4>6 DEF Ranged, L
      <4>8. QED
        BY <1>6, <4>3, <4>7 DEF r, R
    <3>10. CASE kept # <<>> /\ ~Blank(kept[Len(kept)]) /\ ~EndsLine(part[Len(part)])
      <4> DEFINE l == kept[Len(kept)]
                 X == Num(l)
                 to == R - (Bytes(l) + 1)
      <4>1. r = RangeRead(off, R, to, FrontOf(kept), X)
        BY <3>1, <3>10 DEF Trimmed, Num
      <4>2. r.from = off /\ r.end = R /\ r.to = to /\ r.lines = FrontOf(kept) /\ r.back = X
        BY <4>1 DEF RangeRead
      <4>3. /\ PartsOf(text, lo, R, FrontOf(kept)) /\ Len(kept) \in DOMAIN kept
            /\ Numbers(FrontOf(kept)) = {v \in Numbers(kept) : v < X}
        BY <3>2, <3>10, FrontNumbers
      <4>4. l = PartOfLine(text, lo, R, X) /\ l # <<>> /\ X \in Nat /\ X \in Numbers(kept)
        BY <3>2, <4>3 DEF PartsOf, Numbers
      <4>5. PICK u \in (lo + 1)..R : X = L(u)
        BY <3>7, <4>4
      <4>6. X < L(R) /\ u \in DOMAIN text
        BY <1>10, <3>7, <4>4
      <4>7. ~Ends(text, R)
        BY <3>8, <3>10 DEF Ends
      <4>8. PICK y \in u..(R - 1) : Ends(text, y) /\ L(y) = X
        <5>1. LineNo(text, u) < LineNo(text, R)
          BY <4>5, <4>6
        <5>2. \E y \in u..(R - 1) : Ends(text, y) /\ LineNo(text, y) = LineNo(text, u)
          BY <3>4, <4>6, <5>1, EarlierEnds
        <5>3. QED
          BY <4>5, <5>2
      <4>9. y \in Nat /\ y \in (lo + 1)..R /\ y < R /\ y \in DOMAIN text
            /\ y \in OfLine(text, lo, R, X)
        <5>1. y \in Nat /\ y \in (lo + 1)..R /\ y < R
          BY <1>1, <1>6, <4>5, <4>8
        <5>2. QED
          BY <1>10, <4>8, <5>1 DEF OfLine
      \* line X is the one before the last
      <4>10. L(R) = X + 1
        <5>1. SUFFICES ASSUME L(R) # X + 1 PROVE FALSE
          OBVIOUS
        <5>2. X + 1 \in Nat /\ 1 <= X + 1 /\ X + 1 <= L(R)
          BY <3>5, <4>4, <4>6
        <5>3. PICK w \in 1..R : L(w) = X + 1
          BY <3>4, <5>2, RowNumbers
        <5>4. w \in DOMAIN text
          BY <1>0, <1>1
        <5>5. u < w
          <6>1. w <= u => L(w) <= L(u)
            BY <4>6, <5>4, RowRises
          <6>2. w \in Nat /\ u \in Nat
            BY <1>1, <1>6
          <6>3. QED
            BY <4>4, <4>5, <5>3, <6>1, <6>2
        <5>6. w \in (lo + 1)..R
          BY <1>1, <1>6, <5>5
        <5>7. X + 1 \in Numbers(kept)
          BY <1>1, <3>5, <3>7, <4>4, <4>6, <5>1, <5>3, <5>6
        <5>8. PICK j \in DOMAIN kept : Num(kept[j]) = X + 1
          BY <5>7 DEF Numbers
        <5>9. j = Len(kept) \/ j < Len(kept)
          <6>1. kept \in Seq(Seq(Nat))
            BY <3>2 DEF PartsOf
          <6>2. DOMAIN kept = 1..Len(kept) /\ Len(kept) \in Nat
            BY <6>1, LenProperties
          <6>3. QED
            BY <6>2
        <5>10. j < Len(kept) => X + 1 < X
          BY <3>2, <4>3, <5>8 DEF PartsOf
        <5>11. QED
          BY <4>4, <5>8, <5>9, <5>10
      \* where it begins in the stretch
      <4> DEFINE F == {x \in Nat : x \in OfLine(text, lo, R, X)}
      <4>11. PICK a \in F : \A x \in F : a <= x
        <5>1. F \in SUBSET Nat /\ F # {}
          BY <4>9
        <5>2. QED
          BY <5>1, LeastExists
      <4>12. a \in Nat /\ a \in (lo + 1)..R /\ L(a) = X /\ a \in DOMAIN text
        BY <1>10, <4>11 DEF OfLine
      <4>13. OfLine(text, lo, R, X) \in SUBSET (a..y)
        <5> SUFFICES ASSUME NEW x \in OfLine(text, lo, R, X) PROVE x \in a..y
          OBVIOUS
        <5>1. x \in (lo + 1)..R /\ L(x) = X /\ x \in Nat
          BY <1>1, <1>6 DEF OfLine
        <5>2. a <= x
          BY <4>11, <5>1
        <5>3. ~(y < x)
          <6>1. x \in DOMAIN text
            BY <1>10, <5>1
          <6>2. y < x => L(y) < L(x)
            BY <4>8, <4>9, <6>1, RowAfterEnd
          <6>3. QED
            BY <4>4, <4>8, <5>1, <6>2
        <5>4. QED
          BY <4>9, <4>12, <5>1, <5>2, <5>3
      <4> DEFINE ch == Characters(l)
                 h == NotBelow(to)
      <4>14. ch \in Nat /\ ch + a <= y
        <5>1. /\ Characters(PartOfLine(text, lo, R, X)) \in Nat
              /\ Characters(PartOfLine(text, lo, R, X)) + a <= y
          BY <1>1, <1>6, <4>8, <4>9, <4>12, <4>13, CharactersWithin
        <5>2. QED
          BY <4>4, <5>1
      <4> HIDE DEF F
      <4>15. /\ to \in Int /\ to <= R /\ h \in Nat /\ h <= R /\ h + 1 <= R /\ h + 1 \in DOMAIN text
             /\ X \notin Garbled => to \in Nat /\ h = to /\ off < to /\ a <= h + 1
        <5> DEFINE b == Bytes(l)
        <5>1. b = IF X \in Garbled THEN 3 * ch ELSE ch
          BY DEF Bytes, Num
        <5> HIDE DEF ch
        <5>2. b \in Nat /\ (X \notin Garbled => b + a <= y)
          BY <4>14, <5>1
        <5>3. y < R /\ y \in Nat /\ a \in Nat /\ lo + 1 <= a /\ to = R - (b + 1)
          BY <1>1, <1>6, <4>9, <4>12
        <5> HIDE DEF b, to
        <5>4. to \in Int /\ to <= R - 1 /\ R - 1 \in Nat
          BY <1>1, <5>2, <5>3
        <5>5. h \in Nat /\ h <= R - 1 /\ (to \in Nat => h = to)
          BY <1>1, <5>4 DEF NotBelow
        <5>6. X \notin Garbled => to \in Nat /\ off < to /\ a <= to + 1
          BY <1>1, <1>6, <5>2, <5>3
        <5>7. h + 1 \in DOMAIN text
          BY <1>0, <1>1, <5>5
        <5> HIDE DEF h
        <5>8. QED
          BY <1>1, <5>4, <5>5, <5>6, <5>7
      <4> HIDE DEF to, l, ch
      <4>16. L(h + 1) <= X + 1 /\ (X \notin Garbled => X <= L(to + 1))
        <5>1. X \notin Garbled => L(a) <= L(h + 1) /\ h = to
          BY <4>12, <4>15, RowRises
        <5>2. L(h + 1) <= L(R)
          BY <3>4, <4>15, RowRises
        <5>3. QED
          BY <4>10, <4>12, <5>1, <5>2
      <4>17. L(R + 1) = X + 1
        BY <2>1, <3>4, <4>7, <4>10
      <4> HIDE DEF X, L
      <4>18. X <= L(R + 1) /\ L(R + 1) <= X + 1
        BY <4>4, <4>17
      <4>19. Numbers(r.lines) = {v \in {L(x) : x \in (lo + 1)..R} : v < X}
        <5>1. \A v \in {L(x) : x \in (lo + 1)..R} : v < X => v < L(R)
          <6>1. \A x \in (lo + 1)..R : L(x) \in Nat
            BY <1>9, <1>10
          <6>2. QED
            BY <4>4, <4>10, <6>1
        <5>2. QED
          BY <3>7, <4>2, <4>3, <5>1
      <4>20. \A m \in Numbers(r.lines) : m < L(R)
        <5>1. \A m \in Numbers(r.lines) : m \in Numbers(kept)
          BY <4>2, <4>3
        <5>2. QED
          BY <3>7, <5>1
      <4>21. /\ r.to \in Int /\ r.to <= R /\ NotBelow(r.to) <= R
             /\ r.back \notin Garbled => r.to \in Nat /\ (max > 0 => off < r.to)
        BY <4>2, <4>15
      <4>22. Ranged(off, max, r, R, lo, X)
        BY <1>1, <1>5, <1>12, <4>2, <4>3, <4>16, <4>18, <4>19, <4>20, <4>21 DEF Ranged, L
      <4>23. QED
        BY <1>6, <4>4, <4>22 DEF r, R
    <3>11. QED
      BY <3>9, <3>10
  <2>4. QED
    BY <2>2, <2>3
<1>13. QED
  BY <1>11, <1>12

\* Every piece of a line comes from what had been written.
ReadBefore(t, at, line) == \A j \in DOMAIN line : \E k \in 1..at : line[j] = t[k]

LEMMA PartReadBefore ==
  ASSUME NEW t, InOneRow(t), NEW lo \in Nat, NEW hi \in Nat, NEW at \in Nat,
         hi <= at, at <= Len(t), NEW n
  PROVE  ReadBefore(t, at, PartOfLine(t, lo, hi, n))
<1>1. Len(t) \in Nat /\ hi <= Len(t)
  BY RowPlaces
<1>2. \A k \in OfLine(t, lo, hi, n) : k \in 1..at
  BY DEF OfLine
<1>3. \A j \in DOMAIN PartOfLine(t, lo, hi, n) :
         \E k \in OfLine(t, lo, hi, n) : PartOfLine(t, lo, hi, n)[j] = t[k]
  BY <1>1, PartOfLineIs
<1>4. QED
  BY <1>2, <1>3 DEF ReadBefore

\* A line as it was, part of one without an end, or one cut off where the read ended.
LineFine(t, knd, p, i) ==
  \/ p.lines[i] = PartOfLine(t, 0, p.at, Num(p.lines[i]))
  \/ knd = "plain" /\ \A k \in (p.from + 1)..p.end : ~Ends(t, k)
  \/ /\ p.seen <= p.end /\ p.end < p.at /\ i = Len(p.lines)
     /\ p.lines[i] = PartOfLine(t, 0, p.end, Num(p.lines[i]))

\* What a page shows: the lines as they were, in their order.
LinesFine(t, knd, p) ==
  /\ p.lines \in Seq(Seq(Nat))
  /\ \A i \in DOMAIN p.lines :
        /\ Num(p.lines[i]) \in Nat
        /\ LineFine(t, knd, p, i)
        /\ \E k \in 1..p.at : LineNo(t, k) = Num(p.lines[i])
        /\ ReadBefore(t, p.at, p.lines[i])
  /\ \A i, j \in DOMAIN p.lines : i < j => Num(p.lines[i]) < Num(p.lines[j])

\* The line n with a character was there to be shown, but is not.
Missed(t, p, n) == HasChar(t, 0, p.at, n) /\ n \notin Numbers(p.lines)

\* Of what lies between two lines that it shows, only the window leaves out some.
Gapless(t, p) ==
  \A n \in Nat : Missed(t, p, n) =>
    \A l, m \in Numbers(p.lines) : l < n /\ n < m => LeftOut(n, p)

\* A page of a plain file begins in the line at its first byte.
PlainStart(t, p) ==
  \A m \in Numbers(p.lines) :
    /\ p.from < p.at /\ LineNo(t, p.from + 1) <= m
    /\ \A n \in Nat : Missed(t, p, n) /\ n < m => n <= LineNo(t, p.from + 1) \/ LeftOut(n, p)

\* It ends in front of the place hi.
EndsUnder(t, p, hi) == \A m \in Numbers(p.lines) : m < LineNo(t, hi + 1)

\* Except perhaps for one line, it shows what there is in front of the place hi.
EndsNear(t, p, hi) ==
  \A m \in Numbers(p.lines), n \in Nat : Missed(t, p, n) /\ m < n => LineNo(t, hi + 1) <= n + 1

EndsBefore(t, p, hi) == EndsUnder(t, p, hi) /\ EndsNear(t, p, hi)

LEMMA PlainSound ==
  ASSUME NEW t, InOneRow(t), NEW p, p.from \in Nat, p.at \in Nat, p.at <= Len(t),
         NEW lo, NEW R \in Nat, R <= p.at, p.end = R, CutsAt(t, p.from, lo, R),
         PartsOf(t, lo, R, p.lines),
         R < p.at => p.seen <= R \/ \A m \in Numbers(p.lines) : m < LineNo(t, R),
         \A n \in Nat, m \in Numbers(p.lines) :
            n < m /\ HasChar(t, lo, R, n) => n \in Numbers(p.lines) \/ LeftOut(n, p)
  PROVE  LinesFine(t, "plain", p) /\ PlainStart(t, p)
<1> DEFINE off == p.from
           at == p.at
           ls == p.lines
           L(x) == LineNo(t, x)
<1>0. /\ Len(t) \in Nat /\ DOMAIN t = 1..Len(t)
      /\ \A k \in DOMAIN t : k \in Nat /\ L(k) \in Nat
  BY RowPlaces DEF InOneRow
<1>1. lo \in Nat /\ off <= lo /\ lo <= R /\ off \in Nat /\ at \in Nat /\ at <= Len(t)
  BY DEF CutsAt
<1>2. /\ ls \in Seq(Seq(Nat))
      /\ \A i \in DOMAIN ls : /\ Num(ls[i]) \in Nat /\ Num(ls[i]) \in Numbers(ls)
                              /\ ls[i] = PartOfLine(t, lo, R, Num(ls[i]))
      /\ \A i, j \in DOMAIN ls : i < j => Num(ls[i]) < Num(ls[j])
  BY DEF PartsOf, Numbers
<1>3. \A k \in 1..at : k \in DOMAIN t
  BY <1>0, <1>1
<1>4. \A m \in Numbers(ls) : m \in Nat /\ \E k \in (lo + 1)..R : L(k) = m
  <2> TAKE m \in Numbers(ls)
  <2>1. R <= Len(t)
    BY <1>0, <1>1
  <2>2. QED
    BY <1>1, <2>1, NumberPlace
<1>5. \A k \in (lo + 1)..R : k \in 1..at /\ off < k
  BY <1>1
<1>6. lo = 0 \/ (lo = off /\ \A x \in (off + 1)..R : ~Ends(t, x))
      \/ (off < lo /\ Ends(t, lo) /\ \A x \in (off + 1)..(lo - 1) : ~Ends(t, x))
  BY <1>1 DEF CutsAt
<1>6a. Len(ls) \in Nat /\ DOMAIN ls = 1..Len(ls)
  BY <1>2, LenProperties
\* the lines stand as they were
<1>7. ASSUME NEW i \in DOMAIN ls PROVE LineFine(t, "plain", p, i)
  <2> DEFINE n == Num(ls[i])
  <2>0. n \in Numbers(ls) /\ ls[i] = PartOfLine(t, lo, R, n)
    BY <1>2
  <2> HIDE DEF n
  <2>1. PICK b \in (lo + 1)..R : L(b) = n
    BY <1>4, <2>0
  <2>2. b \in 1..at /\ b \in DOMAIN t /\ n \in Nat /\ b \in Nat /\ lo < b /\ b <= R
    <3>1. b \in 1..at /\ off < b
      BY <1>5
    <3>2. b \in Nat /\ lo < b /\ b <= R
      BY <1>1
    <3>3. QED
      BY <1>3, <1>4, <2>0, <3>1, <3>2
  <2>2a. R \in DOMAIN t /\ L(R) \in Nat /\ n <= L(R)
    <3>1. R \in DOMAIN t
      BY <1>0, <1>1, <2>2
    <3>2. QED
      BY <1>0, <2>1, <2>2, <3>1, RowRises
  <2>3. CASE lo = off /\ \A x \in (off + 1)..R : ~Ends(t, x)
    BY <2>3 DEF LineFine
  <2>4. CASE lo = 0 \/ (off < lo /\ Ends(t, lo))
    <3>1. ASSUME NEW k \in 1..at, L(k) = n PROVE lo < k
      <4>1. k \in DOMAIN t /\ k \in Nat /\ 1 <= k
        BY <1>1, <1>3
      <4>2. CASE lo = 0
        BY <4>1, <4>2
      <4>3. CASE lo # 0 /\ Ends(t, lo)
        <5>1. lo \in DOMAIN t
          BY <1>0, <1>1, <2>2, <4>3
        <5>2. L(lo) < L(b)
          BY <1>1, <2>2, <4>3, <5>1, RowAfterEnd
        <5>3. k <= lo => L(k) <= L(lo)
          BY <4>1, <5>1, RowRises
        <5>4. QED
          BY <1>0, <1>1, <2>1, <2>2, <3>1, <4>1, <5>1, <5>2, <5>3
      <4>4. QED
        BY <2>4, <4>2, <4>3
    <3>2. PartOfLine(t, lo, R, n) = PartOfLine(t, 0, R, n)
      <4>1. \A k \in (0 + 1)..R : k \in 1..at /\ (L(k) = n => k \in (lo + 1)..R)
        BY <1>1, <3>1
      <4>2. \A k \in (lo + 1)..R : k \in (0 + 1)..R
        BY <1>1
      <4>3. OfLine(t, lo, R, n) = OfLine(t, 0, R, n)
        BY <4>1, <4>2 DEF OfLine
      <4>4. QED
        BY <4>3 DEF PartOfLine
    <3>3. CASE R = at
      BY <2>0, <3>2, <3>3 DEF LineFine, n
    <3>4. CASE R < at /\ n < L(R)
      <4>1. ASSUME NEW k \in 1..at, L(k) = n PROVE k \in (0 + 1)..R
        <5>1. k \in DOMAIN t /\ k \in Nat /\ 1 <= k
          BY <1>1, <1>3
        <5>2. R <= k => L(R) <= L(k)
          BY <2>2a, <5>1, RowRises
        <5>3. k <= R
          BY <2>2, <2>2a, <3>4, <4>1, <5>1, <5>2
        <5>4. QED
          BY <5>1, <5>3
      <4>2. \A k \in (0 + 1)..R : k \in (0 + 1)..at
        BY <1>1
      <4>3. \A k : k \in OfLine(t, 0, R, n) <=> k \in OfLine(t, 0, at, n)
        BY <4>1, <4>2 DEF OfLine
      <4>4. PartOfLine(t, 0, R, n) = PartOfLine(t, 0, at, n)
        <5>1. OfLine(t, 0, R, n) = OfLine(t, 0, at, n)
          BY <4>3
        <5>2. QED
          BY <5>1 DEF PartOfLine
      <4>5. QED
        BY <2>0, <3>2, <4>4 DEF LineFine, n
    <3>5. CASE R < at /\ ~(n < L(R))
      <4>1. p.seen <= R
        BY <2>0, <3>5
      <4>2. i = Len(ls)
        <5>1. SUFFICES ASSUME i < Len(ls) PROVE FALSE
          BY <1>6a
        <5>2. Len(ls) \in DOMAIN ls
          BY <1>6a, <5>1
        <5>3. n < Num(ls[Len(ls)]) /\ Num(ls[Len(ls)]) \in Numbers(ls)
          BY <1>2, <5>1, <5>2 DEF n
        <5>4. PICK z \in (lo + 1)..R : L(z) = Num(ls[Len(ls)])
          BY <1>4, <5>3
        <5>5. z \in DOMAIN t /\ z <= R
          BY <1>1, <1>3, <1>5
        <5>6. L(z) <= L(R)
          BY <2>2a, <5>5, RowRises
        <5>7. QED
          BY <1>0, <2>2, <2>2a, <3>5, <5>3, <5>4, <5>5, <5>6
      <4>3. QED
        BY <2>0, <3>2, <3>5, <4>1, <4>2 DEF LineFine, n
    <3>6. QED
      BY <1>1, <3>3, <3>4, <3>5
  <2>5. QED
    BY <1>6, <2>3, <2>4
<1>8. LinesFine(t, "plain", p)
  <2> SUFFICES ASSUME NEW i \in DOMAIN ls
               PROVE  /\ \E k \in 1..at : L(k) = Num(ls[i])
                      /\ ReadBefore(t, at, ls[i])
    BY <1>2, <1>7 DEF LinesFine
  <2>1. Num(ls[i]) \in Numbers(ls) /\ ls[i] = PartOfLine(t, lo, R, Num(ls[i]))
    BY <1>2
  <2>2. ReadBefore(t, at, PartOfLine(t, lo, R, Num(ls[i])))
    BY <1>1, PartReadBefore
  <2>3. QED
    BY <1>4, <1>5, <2>1, <2>2
\* where it begins
<1>9. ASSUME NEW m \in Numbers(ls)
      PROVE  /\ off < at /\ L(off + 1) <= m
             /\ \A n \in Nat : Missed(t, p, n) /\ n < m => n <= L(off + 1) \/ LeftOut(n, p)
  <2>1. PICK b \in (lo + 1)..R : L(b) = m
    BY <1>4
  <2>2. b \in 1..at /\ b \in DOMAIN t /\ m \in Nat /\ b \in Nat /\ lo < b /\ b <= R /\ off < b
    <3>1. b \in 1..at /\ off < b
      BY <1>5
    <3>2. b \in Nat /\ lo < b /\ b <= R
      BY <1>1
    <3>3. QED
      BY <1>3, <1>4, <3>1, <3>2
  <2>3. off < at /\ off + 1 \in DOMAIN t /\ off + 1 <= b
    BY <1>0, <1>1, <2>2
  <2>4. L(off + 1) <= m
    BY <2>1, <2>2, <2>3, RowRises
  <2>5. ASSUME NEW n \in Nat, Missed(t, p, n), n < m, ~LeftOut(n, p)
        PROVE  n <= L(off + 1)
    <3>1. PICK k \in OfLine(t, 0, at, n) : ~Ends(t, k)
      BY <2>5 DEF Missed, HasChar
    <3>2. k \in 1..at /\ k \in DOMAIN t /\ k \in Nat /\ L(k) = n
      BY <1>1, <1>3, <3>1 DEF OfLine
    <3>3. k < b
      BY <2>1, <2>2, <2>5, <3>2, EarlierEnds
    <3>4. ~(k \in (lo + 1)..R)
      <4>1. SUFFICES ASSUME k \in (lo + 1)..R PROVE FALSE
        OBVIOUS
      <4>2. HasChar(t, lo, R, n)
        BY <3>1, <3>2, <4>1 DEF HasChar, OfLine
      <4>3. QED
        BY <2>5, <4>2 DEF Missed
    <3>5. k <= lo
      BY <1>1, <2>2, <3>2, <3>3, <3>4
    <3>6. lo \in DOMAIN t /\ lo # 0
      BY <1>0, <1>1, <2>2, <3>2, <3>5
    <3>7. CASE lo = off
      <4>1. k <= off + 1
        BY <1>1, <3>2, <3>5, <3>7
      <4>2. QED
        BY <2>3, <3>2, <4>1, RowRises
    <3>8. CASE off < lo /\ \A x \in (off + 1)..(lo - 1) : ~Ends(t, x)
      <4>1. L(off + 1) = L(lo)
        <5>1. off + 1 <= lo
          BY <1>1, <3>8
        <5>2. QED
          BY <2>3, <3>6, <3>8, <5>1, RowUnbroken
      <4>2. L(k) <= L(lo)
        BY <3>2, <3>5, <3>6, RowRises
      <4>3. QED
        BY <3>2, <4>1, <4>2
    <3>9. QED
      BY <1>6, <3>6, <3>7, <3>8
  <2>6. QED
    BY <2>3, <2>4, <2>5
<1>10. QED
  BY <1>8, <1>9 DEF PlainStart

LEMMA GaplessPlain ==
  ASSUME NEW t, NEW p, PlainStart(t, p), InOneRow(t), p.from \in Nat, p.at \in Nat, p.at <= Len(t),
         Numbers(p.lines) \subseteq Nat
  PROVE  Gapless(t, p)
<1> SUFFICES ASSUME NEW n \in Nat, Missed(t, p, n),
                    NEW l \in Numbers(p.lines), NEW m \in Numbers(p.lines), l < n, n < m
             PROVE  LeftOut(n, p)
  BY DEF Gapless
<1>1. /\ p.from < p.at /\ LineNo(t, p.from + 1) <= l
      /\ n <= LineNo(t, p.from + 1) \/ LeftOut(n, p)
  BY DEF PlainStart
<1>2. p.from + 1 \in DOMAIN t
  BY <1>1, RowPlaces
<1>3. LineNo(t, p.from + 1) \in Nat
  BY <1>2 DEF InOneRow
<1>4. QED
  BY <1>1, <1>3

\* The lines of a page, chosen from what was read for it: those that are empty
\* there are left out, and those that the window excludes.
Chosen(t, lo, hi, ls, p) ==
  /\ PartsOf(t, lo, hi, p.lines)
  /\ Numbers(p.lines) \subseteq Numbers(ls)
  /\ \A n \in Numbers(ls) : HasChar(t, lo, hi, n) => n \in Numbers(p.lines) \/ LeftOut(n, p)

LEMMA SolidChosen ==
  ASSUME NEW t, InOneRow(t), NEW lo \in Nat, NEW hi \in Nat, hi <= Len(t),
         NEW ls, PartsOf(t, lo, hi, ls), NEW p, p.lines = Solid(ls)
  PROVE  Chosen(t, lo, hi, ls, p)
BY SolidIs DEF Chosen

LEMMA WindowChosen ==
  ASSUME NEW t, InOneRow(t), NEW lo \in Nat, NEW hi \in Nat, hi <= Len(t),
         NEW ls, PartsOf(t, lo, hi, ls), NEW since \in Nat,
         NEW p, p.lines = Solid(InWindow(ls, since)), p.since = since, ~p.fellBack
  PROVE  Chosen(t, lo, hi, ls, p)
<1> DEFINE E == WindowIn(ls, since)
           in == InWindow(ls, since)
<1>1. SolidIn(ls) \in SUBSET (1..Len(ls))
  BY SolidIs
<1>2. E \in SUBSET (1..Len(ls))
  BY <1>1 DEF WindowIn
<1>3. PartsOf(t, lo, hi, in) /\ Numbers(in) = {Num(ls[i]) : i \in E}
  BY <1>2, PartsPick DEF InWindow
<1>4. DOMAIN ls = 1..Len(ls)
  <2>1. ls \in Seq(Seq(Nat))
    BY DEF PartsOf
  <2>2. QED
    BY <2>1, LenProperties
<1>5. Numbers(in) \subseteq Numbers(ls)
  BY <1>2, <1>3, <1>4 DEF Numbers
<1>6. /\ PartsOf(t, lo, hi, p.lines)
      /\ Numbers(p.lines) \subseteq Numbers(in)
      /\ \A n \in Numbers(in) : HasChar(t, lo, hi, n) => n \in Numbers(p.lines)
  <2>1. /\ PartsOf(t, lo, hi, Solid(in))
        /\ Numbers(Solid(in)) \subseteq Numbers(in)
        /\ \A n \in Numbers(in) : HasChar(t, lo, hi, n) => n \in Numbers(Solid(in))
    BY <1>3, SolidIs
  <2>2. QED
    BY <2>1
<1>7. ASSUME NEW n \in Numbers(ls), HasChar(t, lo, hi, n), ~LeftOut(n, p)
      PROVE  n \in Numbers(p.lines)
  <2>1. PICK i \in DOMAIN ls : n = Num(ls[i])
    BY DEF Numbers
  <2>2. i \in SolidIn(ls)
    <3>1. \A j \in DOMAIN ls : j \in SolidIn(ls) <=> HasChar(t, lo, hi, Num(ls[j]))
      BY SolidIs
    <3>2. QED
      BY <1>7, <2>1, <3>1
  <2>3. n \in Nat
    BY <2>1 DEF PartsOf
  <2>4. i \in E
    <3>1. SUFFICES ASSUME Dated(ls[i]), ~(LineOf(ls[i][1]) >= since) PROVE FALSE
      BY <2>2 DEF WindowIn
    <3>2. n \notin Undated /\ ~(n >= since)
      BY <2>1, <3>1 DEF Dated, Num
    <3>3. since > n
      BY <2>3, <3>2
    <3>4. QED
      BY <1>7, <3>2, <3>3 DEF LeftOut
  <2>5. n \in Numbers(in)
    BY <1>3, <2>1, <2>4
  <2>6. QED
    BY <1>6, <1>7, <2>5
<1>8. QED
  BY <1>5, <1>6, <1>7 DEF Chosen

\* A page of a plain file read to the end of the file.
LEMMA TailSound ==
  ASSUME InOneRow(text), req.seen \in Nat, req.seen <= Len(text), NEW max \in Nat,
         NEW p, p.from = ReadTail(max).from, p.at = Len(text), p.end = Len(text),
         \/ p.lines = Solid(ReadTail(max).lines)
         \/ \E since \in Nat : /\ p.lines = Solid(InWindow(ReadTail(max).lines, since))
                               /\ p.since = since /\ ~p.fellBack
  PROVE  /\ LinesFine(text, "plain", p) /\ PlainStart(text, p)
         /\ p.from \in Nat /\ p.from <= Len(text)
         /\ max > 0 /\ p.from > 0 => p.from < Len(text)
<1> DEFINE r == ReadTail(max)
           R == Len(text)
<1>1. R \in Nat /\ p.at <= R /\ R <= p.at /\ ~(R < p.at) /\ p.at \in Nat
  BY RowPlaces
<1>2. r.from \in Nat /\ r.from <= R /\ (max > 0 /\ r.from > 0 => r.from < R)
  BY TailIs
<1>3. PICK lo : /\ CutsAt(text, r.from, lo, R)
                /\ PartsOf(text, lo, R, r.lines)
                /\ Numbers(r.lines) = {LineNo(text, x) : x \in (lo + 1)..R}
  BY TailIs
<1>4. lo \in Nat
  BY <1>3 DEF CutsAt
<1> HIDE DEF r
<1>5. Chosen(text, lo, R, r.lines, p)
  <2>1. CASE p.lines = Solid(r.lines)
    BY <1>1, <1>3, <1>4, <2>1, SolidChosen
  <2>2. CASE \E since \in Nat : /\ p.lines = Solid(InWindow(r.lines, since))
                                /\ p.since = since /\ ~p.fellBack
    BY <1>1, <1>3, <1>4, <2>2, WindowChosen
  <2>3. QED
    BY <2>1, <2>2 DEF r
<1>6. ASSUME NEW n \in Nat, NEW m \in Numbers(p.lines), n < m, HasChar(text, lo, R, n)
      PROVE  n \in Numbers(p.lines) \/ LeftOut(n, p)
  <2>1. n \in Numbers(r.lines)
    BY <1>3, <1>6 DEF HasChar, OfLine
  <2>2. QED
    BY <1>5, <1>6, <2>1 DEF Chosen
<1>7. p.from = r.from
  BY DEF r
<1>8. LinesFine(text, "plain", p) /\ PlainStart(text, p)
  <2>1. PartsOf(text, lo, R, p.lines)
    BY <1>5 DEF Chosen
  <2>2. CutsAt(text, p.from, lo, R) /\ p.from \in Nat
    BY <1>2, <1>3, <1>7
  <2>3. ~(R < p.at) /\ p.end = R
    BY <1>1
  <2> HIDE DEF R
  <2>4. R \in Nat /\ R <= p.at /\ p.at \in Nat /\ p.at <= Len(text)
    BY <1>1 DEF R
  <2>5. QED
    BY <1>6, <2>1, <2>2, <2>3, <2>4, PlainSound
<1>9. QED
  BY <1>2, <1>7, <1>8

\* A page of a plain file read from off on.
LEMMA RangeSound ==
  ASSUME InOneRow(text), req.seen \in Nat, req.seen <= Len(text),
         NEW off \in Nat, off <= Len(text), NEW max \in Nat,
         NEW p, p.from = ReadFrom(off, max).from, p.to = ReadFrom(off, max).to, p.at = Len(text),
         p.end = ReadFrom(off, max).end, p.back = ReadFrom(off, max).back, p.seen = req.seen,
         p.lines = Solid(ReadFrom(off, max).lines)
  PROVE  LET R == Smaller(off + max, Len(text)) IN
         /\ LinesFine(text, "plain", p) /\ PlainStart(text, p)
         /\ p.from = off /\ p.end = R /\ p.to \in Int /\ p.to <= R
         /\ R < req.seen => EndsBefore(text, p, R)
         /\ p.to < req.seen =>
              /\ EndsNear(text, p, NotBelow(p.to))
              /\ p.back \notin Garbled =>
                   /\ p.to \in Nat /\ EndsUnder(text, p, p.to) /\ (max > 0 => off < p.to)
<1> DEFINE r == ReadFrom(off, max)
           R == Smaller(off + max, Len(text))
           L(x) == LineNo(text, x)
           N == Numbers(r.lines)
           V == Numbers(p.lines)
<1>0. /\ Len(text) \in Nat /\ DOMAIN text = 1..Len(text)
      /\ \A k \in DOMAIN text : k \in Nat /\ L(k) \in Nat
  BY RowPlaces DEF InOneRow
<1>1. R \in Nat /\ R <= Len(text) /\ (R < req.seen => R < Len(text)) /\ p.at \in Nat /\ R <= p.at /\ p.at <= Len(text)
  BY <1>0 DEF Smaller
<1>2. PICK lo \in Nat, B \in Nat : Ranged(off, max, r, R, lo, B)
  BY RangeIs
<1> HIDE DEF r, R
<1>3. /\ CutsAt(text, off, lo, R) /\ PartsOf(text, lo, R, r.lines)
      /\ N = {v \in {L(x) : x \in (lo + 1)..R} : v < B}
      /\ r.from = off /\ r.end = R /\ r.to \in Int /\ r.to <= R
      /\ ~(R < req.seen) => r.to = R
      /\ R < req.seen =>
           /\ \A m \in N : m < L(R)
           /\ B <= L(R + 1) /\ L(R + 1) <= B + 1
           /\ NotBelow(r.to) <= R /\ L(NotBelow(r.to) + 1) <= B + 1
           /\ r.back \notin Garbled =>
                r.to \in Nat /\ B <= L(r.to + 1) /\ (max > 0 => off < r.to)
  BY <1>2 DEF Ranged
<1>4. /\ p.from = r.from /\ p.to = r.to /\ p.end = r.end /\ p.back = r.back
      /\ p.lines = Solid(r.lines)
  BY DEF r
<1>5. Chosen(text, lo, R, r.lines, p)
  BY <1>1, <1>3, <1>4, SolidChosen
<1>6. /\ PartsOf(text, lo, R, p.lines) /\ V \subseteq N
      /\ \A n \in N : HasChar(text, lo, R, n) => n \in V
  <2>1. /\ PartsOf(text, lo, R, Solid(r.lines)) /\ Numbers(Solid(r.lines)) \subseteq N
        /\ \A n \in N : HasChar(text, lo, R, n) => n \in Numbers(Solid(r.lines))
    BY <1>1, <1>3, SolidIs
  <2>2. QED
    BY <1>4, <2>1
<1>7. \A m \in V : m \in Nat /\ m < B /\ \E b \in (lo + 1)..R : L(b) = m
  <2> TAKE m \in V
  <2>1. m < B
    BY <1>3, <1>6
  <2>2. QED
    BY <1>1, <1>6, <2>1, NumberPlace
<1> HIDE DEF N
<1>8. ASSUME NEW n \in Nat, n < B, HasChar(text, lo, R, n) PROVE n \in V
  <2>1. PICK k \in OfLine(text, lo, R, n) : TRUE
    BY <1>8 DEF HasChar
  <2>2. k \in (lo + 1)..R /\ L(k) = n
    BY DEF OfLine
  <2>3. n \in N
    BY <1>3, <1>8, <2>2
  <2>4. QED
    BY <1>6, <1>8, <2>3
<1>9. LinesFine(text, "plain", p) /\ PlainStart(text, p)
  <2>1. \A n \in Nat, m \in V : n < m /\ HasChar(text, lo, R, n) => n \in V \/ LeftOut(n, p)
    <3> SUFFICES ASSUME NEW n \in Nat, NEW m \in V, n < m, HasChar(text, lo, R, n)
                 PROVE  n \in V
      OBVIOUS
    <3>1. m \in Nat /\ m < B
      BY <1>7
    <3>2. n < B
      BY <3>1
    <3>3. QED
      BY <1>8, <3>2
  <2>2. R < p.at => p.seen <= R \/ \A m \in V : m < LineNo(text, R)
    BY <1>1, <1>3, <1>6
  <2>3. CutsAt(text, p.from, lo, R) /\ p.from \in Nat /\ p.end = R
    BY <1>3, <1>4
  <2>4. QED
    BY <1>1, <1>6, <2>1, <2>2, <2>3, PlainSound
\* no line before B is missed
<1>10. ASSUME R < req.seen, NEW n \in Nat, NEW m \in V, Missed(text, p, n), m < n
       PROVE  B <= n
  <2>1. SUFFICES ASSUME n < B PROVE FALSE
    OBVIOUS
  <2>2. PICK b \in (lo + 1)..R : L(b) = m
    BY <1>7
  <2>3. PICK k \in OfLine(text, 0, p.at, n) : ~Ends(text, k)
    BY <1>10 DEF Missed, HasChar
  <2>4. k \in DOMAIN text /\ k \in Nat /\ L(k) = n
    BY <1>0, <1>1 DEF OfLine
  <2>5. b \in DOMAIN text /\ b \in Nat /\ lo < b
    BY <1>0, <1>1
  <2>6. b < k
    BY <1>10, <2>2, <2>4, <2>5, EarlierEnds
  <2>7. k <= R
    <3>1. SUFFICES ASSUME R + 1 <= k PROVE FALSE
      BY <1>1, <2>4
    <3>2. R + 1 \in DOMAIN text
      BY <1>0, <1>1, <1>10
    <3>3. L(R + 1) <= L(k)
      BY <2>4, <3>1, <3>2, RowRises
    <3>4. L(R + 1) \in Nat /\ B <= L(R + 1)
      BY <1>0, <1>3, <1>10, <3>2
    <3>5. QED
      BY <2>1, <2>4, <3>3, <3>4
  <2>8. HasChar(text, lo, R, n)
    <3>1. k \in (lo + 1)..R
      BY <1>1, <2>4, <2>5, <2>6, <2>7
    <3>2. QED
      BY <2>3, <2>4, <3>1 DEF HasChar, OfLine
  <2>9. n \in V
    BY <1>8, <2>1, <2>8
  <2>10. QED
    BY <1>10, <2>9 DEF Missed
<1>11. ASSUME R < req.seen, NEW h \in Nat, h < Len(text), L(h + 1) <= B + 1
       PROVE  EndsNear(text, p, h)
  <2>1. L(h + 1) \in Nat
    BY <1>0, <1>11
  <2> SUFFICES ASSUME NEW m \in V, NEW n \in Nat, Missed(text, p, n), m < n
               PROVE  L(h + 1) <= n + 1
    BY DEF EndsNear
  <2>2. B <= n
    BY <1>10, <1>11
  <2>3. QED
    BY <1>11, <2>1, <2>2
<1>12. ASSUME NEW h \in Nat, h < Len(text), B <= L(h + 1)
       PROVE  EndsUnder(text, p, h)
  <2>1. L(h + 1) \in Nat
    BY <1>0, <1>12
  <2>2. QED
    BY <1>7, <1>12, <2>1 DEF EndsUnder
<1>13. R < req.seen => EndsBefore(text, p, R)
  BY <1>1, <1>3, <1>11, <1>12 DEF EndsBefore
<1>14. p.to < req.seen => R < req.seen
  BY <1>1, <1>3, <1>4
<1>15. ASSUME p.to < req.seen
       PROVE  /\ EndsNear(text, p, NotBelow(p.to))
              /\ p.back \notin Garbled =>
                   p.to \in Nat /\ EndsUnder(text, p, p.to) /\ (max > 0 => off < p.to)
  <2> DEFINE h == NotBelow(p.to)
  <2>1. R < req.seen /\ R < Len(text)
    BY <1>1, <1>14, <1>15
  <2>2. h \in Nat /\ h <= R /\ L(h + 1) <= B + 1
    BY <1>3, <1>4, <2>1 DEF NotBelow
  <2>3. EndsNear(text, p, h)
    <3> HIDE DEF h
    <3>1. h < Len(text)
      BY <1>0, <1>1, <2>1, <2>2
    <3>2. QED
      BY <1>11, <2>1, <2>2, <3>1
  <2>4. ASSUME p.back \notin Garbled
        PROVE  p.to \in Nat /\ EndsUnder(text, p, p.to) /\ (max > 0 => off < p.to)
    <3>1. p.to \in Nat /\ p.to <= R /\ B <= L(p.to + 1) /\ (max > 0 => off < p.to)
      BY <1>3, <1>4, <2>1, <2>4
    <3>2. p.to < Len(text)
      BY <1>0, <1>1, <2>1, <3>1
    <3>3. QED
      BY <1>12, <3>1, <3>2
  <2>5. QED
    BY <2>3, <2>4
<1>16. QED
  BY <1>3, <1>4, <1>9, <1>13, <1>15 DEF R

LEMMA PartsFine ==
  ASSUME NEW t, InOneRow(t), NEW p, p.at \in Nat, p.at <= Len(t), NEW knd,
         PartsOf(t, 0, p.at, p.lines)
  PROVE  LinesFine(t, knd, p) /\ Numbers(p.lines) \subseteq Nat
<1>1. p.lines \in Seq(Seq(Nat))
  BY DEF PartsOf
<1>2. \A m \in Numbers(p.lines) : m \in Nat /\ \E k \in (0 + 1)..p.at : LineNo(t, k) = m
  <2> TAKE m \in Numbers(p.lines)
  <2>1. 0 \in Nat
    OBVIOUS
  <2>2. QED
    BY <2>1, NumberPlace
<1>3. ASSUME NEW i \in DOMAIN p.lines
      PROVE  /\ Num(p.lines[i]) \in Nat
             /\ p.lines[i] = PartOfLine(t, 0, p.at, Num(p.lines[i]))
             /\ \E k \in 1..p.at : LineNo(t, k) = Num(p.lines[i])
             /\ ReadBefore(t, p.at, p.lines[i])
  <2>1. Num(p.lines[i]) \in Numbers(p.lines)
    BY DEF Numbers
  <2>2. 0 + 1 = 1 /\ 0 \in Nat /\ p.at <= p.at
    OBVIOUS
  <2>3. p.lines[i] = PartOfLine(t, 0, p.at, Num(p.lines[i]))
    BY DEF PartsOf
  <2>4. ReadBefore(t, p.at, PartOfLine(t, 0, p.at, Num(p.lines[i])))
    BY <2>2, PartReadBefore
  <2>5. QED
    BY <1>2, <2>1, <2>2, <2>3, <2>4
<1>4. LinesFine(t, knd, p)
  BY <1>1, <1>3 DEF LinesFine, LineFine, PartsOf
<1>5. QED
  BY <1>2, <1>4

-----------------------------------------------------------------------------
(* Gzip files. *)

LEMMA LeastIs ==
  ASSUME NEW S \in SUBSET Nat, S # {}
  PROVE  LeastOf(S) \in S /\ \A j \in S : LeastOf(S) <= j
BY LeastExists DEF LeastOf

LEMMA AllLinesAre ==
  ASSUME InOneRow(text)
  PROVE  /\ PartsOf(text, 0, Len(text), AllLines)
         /\ Len(AllLines) \in Nat /\ Len(AllLines) <= Len(text)
         /\ DOMAIN AllLines = 1..Len(AllLines)
         /\ \A m \in DOMAIN AllLines : Num(AllLines[m]) = m
         /\ SolidAt \in SUBSET (1..Len(AllLines))
         /\ \A n : n \in SolidAt <=> HasChar(text, 0, Len(text), n)
<1> DEFINE ls == AllLines
<1>0. 0 \in Nat /\ Len(text) \in Nat /\ Len(text) <= Len(text)
  BY RowPlaces
<1>1. /\ PartsOf(text, 0, Len(text), ls) /\ Len(ls) <= Len(text)
      /\ Numbers(ls) = {LineNo(text, x) : x \in 1..Len(text)}
      /\ \A m \in DOMAIN ls : Num(ls[m]) = m
  BY SplitIndex DEF AllLines
<1> HIDE DEF ls
<1>2. Len(ls) \in Nat /\ DOMAIN ls = 1..Len(ls)
  <2>1. ls \in Seq(Seq(Nat))
    BY <1>1 DEF PartsOf
  <2>2. QED
    BY <2>1, LenProperties
<1>3. /\ SolidIn(ls) \in SUBSET (1..Len(ls))
      /\ \A i \in DOMAIN ls : i \in SolidIn(ls) <=> HasChar(text, 0, Len(text), Num(ls[i]))
  BY <1>0, <1>1, SolidIs
<1>4. ASSUME NEW n, HasChar(text, 0, Len(text), n) PROVE n \in DOMAIN ls
  <2>1. PICK k \in (0 + 1)..Len(text) : LineNo(text, k) = n
    BY <1>4 DEF HasChar, OfLine
  <2>2. n \in Numbers(ls)
    BY <1>1, <2>1
  <2>3. PICK i \in DOMAIN ls : n = Num(ls[i])
    BY <2>2 DEF Numbers
  <2>4. QED
    BY <1>1, <2>3
<1>5. \A n : n \in SolidIn(ls) <=> HasChar(text, 0, Len(text), n)
  BY <1>1, <1>2, <1>3, <1>4
<1>6. QED
  BY <1>1, <1>2, <1>3, <1>5 DEF ls, SolidAt

LEMMA LinesAtIs ==
  ASSUME InOneRow(text), NEW S \in SUBSET SolidAt
  PROVE  /\ PartsOf(text, 0, Len(text), LinesAt(S)) /\ Numbers(LinesAt(S)) = S
         /\ Len(LinesAt(S)) = Cardinality(S)
<1>1. /\ PartsOf(text, 0, Len(text), AllLines)
      /\ DOMAIN AllLines = 1..Len(AllLines)
      /\ \A m \in DOMAIN AllLines : Num(AllLines[m]) = m
      /\ S \in SUBSET (1..Len(AllLines))
  BY AllLinesAre
<1>2. /\ PartsOf(text, 0, Len(text), LinesAt(S))
      /\ Numbers(LinesAt(S)) = {Num(AllLines[i]) : i \in S}
      /\ Len(LinesAt(S)) = Cardinality(S)
  BY <1>1, PartsPick DEF LinesAt
<1>3. {Num(AllLines[i]) : i \in S} = S
  BY <1>1
<1>4. QED
  BY <1>2, <1>3

\* More lines have no fewer bytes.
LEMMA SizeGrows ==
  ASSUME InOneRow(text), NEW S \in SUBSET SolidAt, NEW T \in SUBSET S
  PROVE  /\ IsFiniteSet(S) /\ Cardinality(S) \in Nat /\ Cardinality(T) \in Nat
         /\ Cardinality(T) <= Cardinality(S)
         /\ SizeOf(S) \in Nat /\ SizeOf(T) \in Nat /\ SizeOf(T) <= SizeOf(S)
<1> DEFINE Z(X) == {p \in X \X (0..(3 * Len(text))) : p[2] <= Bytes(AllLines[p[1]])}
<1>1. IsFiniteSet(S)
  <2>1. S \in SUBSET (1..Len(AllLines)) /\ 1 \in Int /\ Len(AllLines) \in Int
    BY AllLinesAre
  <2>2. IsFiniteSet(1..Len(AllLines))
    BY <2>1, FS_Interval
  <2>3. QED
    BY <2>1, <2>2, FS_Subset
<1>2. IsFiniteSet(T) /\ Cardinality(T) <= Cardinality(S)
  BY <1>1, FS_Subset
<1>3. Cardinality(S) \in Nat /\ Cardinality(T) \in Nat
  BY <1>1, <1>2, FS_CardinalityType
<1>4. IsFiniteSet(S \X (0..(3 * Len(text))))
  <2>1. 0 \in Int /\ 3 * Len(text) \in Int
    BY RowPlaces
  <2>2. IsFiniteSet(0..(3 * Len(text)))
    BY <2>1, FS_Interval
  <2>3. QED
    BY <1>1, <2>2, FS_Product
<1>5. IsFiniteSet(Z(S))
  <2>1. Z(S) \in SUBSET (S \X (0..(3 * Len(text))))
    OBVIOUS
  <2>2. QED
    BY <1>4, <2>1, FS_Subset
<1>6. IsFiniteSet(Z(T)) /\ Cardinality(Z(T)) <= Cardinality(Z(S))
  <2>1. Z(T) \in SUBSET Z(S)
    OBVIOUS
  <2> HIDE DEF Z
  <2>2. QED
    BY <1>5, <2>1, FS_Subset
<1>7. Cardinality(Z(S)) \in Nat /\ Cardinality(Z(T)) \in Nat
  BY <1>5, <1>6, FS_CardinalityType
<1>8. QED
  BY <1>1, <1>2, <1>3, <1>6, <1>7 DEF SizeOf

\* A page of a gzip file begins after line p.from, and ends before line p.to + 1.
GzipStart(t, p) ==
  \A m \in Numbers(p.lines) :
    /\ p.from < m
    /\ \A n \in Nat : Missed(t, p, n) /\ n < m => n <= p.from \/ LeftOut(n, p)

GzipEnd(t, p) ==
  \A m \in Numbers(p.lines), n \in Nat : Missed(t, p, n) /\ m < n => p.to < n

LEMMA GaplessGzip ==
  ASSUME NEW t, NEW p, GzipStart(t, p), p.from \in Nat, Numbers(p.lines) \subseteq Nat
  PROVE  Gapless(t, p)
<1> SUFFICES ASSUME NEW n \in Nat, Missed(t, p, n),
                    NEW l \in Numbers(p.lines), NEW m \in Numbers(p.lines), l < n, n < m
             PROVE  LeftOut(n, p)
  BY DEF Gapless
<1>1. p.from < l /\ (n <= p.from \/ LeftOut(n, p))
  BY DEF GzipStart
<1>2. QED
  BY <1>1

LEMMA GzipTailSound ==
  ASSUME InOneRow(text), NEW max \in Nat, NEW p, p.from = GzipTail(max).from, p.at = Len(text),
         \/ p.lines = Solid(GzipTail(max).lines)
         \/ \E since \in Nat : /\ p.lines = Solid(InWindow(GzipTail(max).lines, since))
                               /\ p.since = since /\ ~p.fellBack
  PROVE  /\ LinesFine(text, "gzip", p) /\ GzipStart(text, p)
         /\ p.from \in Nat /\ p.from <= Len(text)
<1> DEFINE fits == {i \in SolidAt : SizeOf({j \in SolidAt : j >= i}) <= max}
           least == LeastOf(fits)
           V == Numbers(p.lines)
           len == Len(text)
<1>0. 0 \in Nat /\ len \in Nat /\ len <= Len(text)
  BY RowPlaces
<1>1. /\ GzipTail(max).from = IF fits = {} THEN 0 ELSE least - 1
      /\ GzipTail(max).lines = LinesAt(fits)
  BY DEF GzipTail, LastLines
<1>2. /\ SolidAt \in SUBSET (1..Len(AllLines)) /\ Len(AllLines) \in Nat /\ Len(AllLines) <= len
      /\ \A n : n \in SolidAt <=> HasChar(text, 0, len, n)
  BY AllLinesAre
<1>3. fits \in SUBSET SolidAt /\ fits \in SUBSET Nat
  <2>1. fits \in SUBSET SolidAt
    OBVIOUS
  <2> HIDE DEF fits
  <2>2. QED
    BY <1>2, <2>1
<1>4. \A i, n \in SolidAt : i \in fits /\ i <= n => n \in fits
  <2> SUFFICES ASSUME NEW i \in SolidAt, NEW n \in SolidAt, i \in fits, i <= n PROVE n \in fits
    OBVIOUS
  <2> DEFINE S == {j \in SolidAt : j >= i}
             T == {j \in SolidAt : j >= n}
  <2>1. S \in SUBSET SolidAt /\ T \in SUBSET S
    <3>1. \A j \in SolidAt : j \in Nat
      BY <1>2
    <3>2. i \in Nat /\ n \in Nat
      BY <1>2
    <3>3. \A j \in SolidAt : j >= n => j >= i
      BY <3>1, <3>2
    <3>4. QED
      BY <3>3
  <2>2. SizeOf(S) <= max
    OBVIOUS
  <2> HIDE DEF S, T
  <2>3. SizeOf(S) \in Nat /\ SizeOf(T) \in Nat /\ SizeOf(T) <= SizeOf(S)
    BY <2>1, SizeGrows
  <2>4. SizeOf(T) <= max
    BY <2>2, <2>3
  <2>5. QED
    BY <2>4 DEF T
<1> HIDE DEF fits
<1>5. PartsOf(text, 0, len, LinesAt(fits)) /\ Numbers(LinesAt(fits)) = fits
  BY <1>3, LinesAtIs
<1>6. Chosen(text, 0, len, LinesAt(fits), p)
  <2>1. CASE p.lines = Solid(GzipTail(max).lines)
    BY <1>0, <1>1, <1>5, <2>1, SolidChosen
  <2>2. CASE \E since \in Nat : /\ p.lines = Solid(InWindow(GzipTail(max).lines, since))
                                /\ p.since = since /\ ~p.fellBack
    BY <1>0, <1>1, <1>5, <2>2, WindowChosen
  <2>3. QED
    BY <2>1, <2>2
<1>7. PartsOf(text, 0, p.at, p.lines) /\ p.at \in Nat /\ p.at <= Len(text) /\ p.at = len
  BY <1>0, <1>6 DEF Chosen
<1>8. LinesFine(text, "gzip", p) /\ V \subseteq Nat
  BY <1>7, PartsFine
<1>9. V \subseteq fits /\ \A n \in fits : HasChar(text, 0, len, n) => n \in V \/ LeftOut(n, p)
  BY <1>5, <1>6 DEF Chosen
<1>10. fits # {} => least \in fits /\ least \in Nat /\ \A j \in fits : least <= j
  BY <1>3, LeastIs
<1>11. fits # {} => least >= 1 /\ least <= Len(AllLines)
  BY <1>2, <1>3, <1>10
<1> HIDE DEF least, V, len
<1>12. p.from \in Nat /\ p.from <= len
  BY <1>0, <1>1, <1>2, <1>10, <1>11
<1>13. GzipStart(text, p)
  <2> SUFFICES ASSUME NEW m \in V
               PROVE  /\ p.from < m
                      /\ \A n \in Nat : Missed(text, p, n) /\ n < m => n <= p.from \/ LeftOut(n, p)
    BY DEF GzipStart, V
  <2>1. m \in fits /\ m \in Nat /\ p.from = least - 1 /\ least \in Nat /\ least <= m
    BY <1>1, <1>3, <1>9, <1>10
  <2>2. p.from < m
    BY <2>1
  <2>3. ASSUME NEW n \in Nat, Missed(text, p, n), n < m, ~LeftOut(n, p) PROVE n <= p.from
    <3>1. n \in SolidAt /\ n \notin V
      BY <1>2, <1>7, <2>3 DEF Missed, V
    <3>2. n \notin fits
      BY <1>2, <1>9, <2>3, <3>1
    <3>3. ~(least <= n)
      BY <1>3, <1>4, <1>10, <2>1, <3>1, <3>2
    <3>4. QED
      BY <2>1, <3>3
  <2>4. QED
    BY <2>2, <2>3
<1>14. QED
  BY <1>8, <1>12, <1>13 DEF len

\* read_forward_lines
LEMMA ForwardSound ==
  ASSUME InOneRow(text), NEW start \in Nat, start <= Len(text), NEW max \in Nat,
         NEW p, p.from = Forward(start, max).from, p.to = Forward(start, max).to,
         p.at = Len(text), p.lines = Solid(Forward(start, max).lines)
  PROVE  /\ LinesFine(text, "gzip", p) /\ GzipStart(text, p) /\ GzipEnd(text, p)
         /\ p.from = start /\ p.to \in Nat /\ p.to <= Len(text)
         /\ \A n \in Nat, m \in Numbers(p.lines) : Missed(text, p, n) /\ n < m => n <= start
         /\ Forward(start, max).more => start < p.to
<1> DEFINE after == {i \in SolidAt : i > start}
           fits == Fitting(after, max)
           rest == after \ fits
           V == Numbers(p.lines)
           len == Len(text)
           UpToIn(i) == {j \in after : j <= i}
<1>0. 0 \in Nat /\ len \in Nat /\ len <= Len(text)
  BY RowPlaces
<1>1. /\ Forward(start, max).from = start
      /\ Forward(start, max).lines = LinesAt(fits)
      /\ Forward(start, max).more <=> rest # {}
      /\ Forward(start, max).to = IF rest = {} THEN start + Cardinality(fits)
                                  ELSE LeastOf(rest) - 1
  BY DEF Forward, FirstLines
<1>2. /\ SolidAt \in SUBSET (1..Len(AllLines)) /\ Len(AllLines) \in Nat /\ Len(AllLines) <= len
      /\ \A n : n \in SolidAt <=> HasChar(text, 0, len, n)
  BY AllLinesAre
<1>3. \A i : i \in fits <=> /\ i \in after
                            /\ Cardinality(UpToIn(i)) <= PageLines
                            /\ Cardinality(UpToIn(i)) = 1 \/ SizeOf(UpToIn(i)) <= max
  BY DEF Fitting
<1>4. after \in SUBSET SolidAt /\ \A i : i \in after <=> i \in SolidAt /\ i > start
  OBVIOUS
<1>5. \A i \in after : UpToIn(i) \in SUBSET SolidAt /\ i \in UpToIn(i)
  <2> TAKE i \in after
  <2>1. i \in Nat
    BY <1>2
  <2>2. QED
    BY <2>1
<1> HIDE DEF fits
<1>6. /\ fits \in SUBSET after /\ fits \in SUBSET SolidAt /\ rest \in SUBSET after
      /\ \A i : i \in rest <=> i \in after /\ i \notin fits
  BY <1>3, <1>4
<1> HIDE DEF rest
<1>7. \A i, n \in after : i \in fits /\ n <= i => n \in fits
  <2> SUFFICES ASSUME NEW i \in after, NEW n \in after, i \in fits, n <= i PROVE n \in fits
    OBVIOUS
  <2> DEFINE S == UpToIn(i)
             T == UpToIn(n)
  <2>1. S \in SUBSET SolidAt /\ T \in SUBSET S /\ n \in T
    <3>1. \A j \in after : j \in Nat
      BY <1>2
    <3>2. i \in Nat /\ n \in Nat
      BY <3>1
    <3>3. \A j \in after : j <= n => j <= i
      BY <3>1, <3>2
    <3>4. T \in SUBSET S
      BY <3>3
    <3> HIDE DEF S, T
    <3>5. QED
      BY <1>5, <3>4 DEF S, T
  <2>2. Cardinality(S) <= PageLines /\ (Cardinality(S) = 1 \/ SizeOf(S) <= max)
    BY <1>3
  <2> HIDE DEF S, T
  <2>3. /\ Cardinality(S) \in Nat /\ Cardinality(T) \in Nat /\ Cardinality(T) <= Cardinality(S)
        /\ SizeOf(S) \in Nat /\ SizeOf(T) \in Nat /\ SizeOf(T) <= SizeOf(S)
        /\ IsFiniteSet(S)
    BY <2>1, SizeGrows
  <2>4. Cardinality(T) # 0
    <3>1. IsFiniteSet(T)
      BY <2>1, <2>3, FS_Subset
    <3>2. QED
      BY <2>1, <3>1, FS_EmptySet
  <2>5. Cardinality(T) <= PageLines
    BY <2>2, <2>3, PagesAssumption
  <2>6. Cardinality(T) = 1 \/ SizeOf(T) <= max
    BY <2>2, <2>3, <2>4
  <2>7. QED
    BY <1>3, <2>5, <2>6 DEF T
<1>8. PartsOf(text, 0, len, LinesAt(fits)) /\ Numbers(LinesAt(fits)) = fits
  BY <1>6, LinesAtIs
<1>9. PartsOf(text, 0, p.at, p.lines) /\ p.at \in Nat /\ p.at <= Len(text) /\ p.at = len
      /\ V \subseteq fits /\ \A n \in fits : HasChar(text, 0, len, n) => n \in V
  <2>1. /\ PartsOf(text, 0, len, Solid(LinesAt(fits)))
        /\ Numbers(Solid(LinesAt(fits))) \subseteq fits
        /\ \A n \in fits : HasChar(text, 0, len, n) => n \in Numbers(Solid(LinesAt(fits)))
    BY <1>0, <1>8, SolidIs
  <2>2. QED
    BY <1>0, <1>1, <2>1
<1>10. LinesFine(text, "gzip", p) /\ V \subseteq Nat
  BY <1>9, PartsFine
<1> HIDE DEF V, len, after
<1>11. \A n \in Nat : Missed(text, p, n) => n \in SolidAt /\ n \notin fits
  BY <1>2, <1>9 DEF Missed, V
<1>12. \A m \in V : m \in fits /\ m \in after /\ m \in Nat /\ m > start
  BY <1>4, <1>6, <1>9, <1>10
<1>13. \A n \in Nat, m \in V : Missed(text, p, n) /\ n < m => n <= start
  <2> SUFFICES ASSUME NEW n \in Nat, NEW m \in V, Missed(text, p, n), n < m, ~(n <= start)
               PROVE  FALSE
    OBVIOUS
  <2>1. n \in SolidAt /\ n > start /\ n \notin fits
    BY <1>11
  <2>2. n \in after /\ n <= m /\ m \in fits /\ m \in after
    BY <1>4, <1>12, <2>1
  <2>3. QED
    BY <1>7, <2>1, <2>2
<1>14. rest \in SUBSET Nat
  BY <1>2, <1>4, <1>6
<1> DEFINE least == LeastOf(rest)
<1>15. rest # {} => least \in rest /\ least \in Nat /\ \A j \in rest : least <= j
  BY <1>14, LeastIs
<1> HIDE DEF least
<1>16. p.from = start /\ p.to = IF rest = {} THEN start + Cardinality(fits) ELSE least - 1
  BY <1>1 DEF least
<1>17. GzipStart(text, p)
  BY <1>12, <1>13, <1>16 DEF GzipStart, V
<1>18. GzipEnd(text, p)
  <2> SUFFICES ASSUME NEW m \in V, NEW n \in Nat, Missed(text, p, n), m < n PROVE p.to < n
    BY DEF GzipEnd, V
  <2>1. m > start /\ m \in Nat /\ n \in SolidAt /\ n \notin fits
    BY <1>11, <1>12
  <2>2. n > start
    BY <2>1
  <2>3. n \in rest
    BY <1>4, <1>6, <2>1, <2>2
  <2>4. least \in Nat /\ least <= n /\ p.to = least - 1
    BY <1>15, <1>16, <2>3
  <2>5. QED
    BY <2>4
\* the first line always fits
<1>19. ASSUME rest # {} PROVE start < least - 1
  <2>1. after \in SUBSET Nat /\ after # {}
    BY <1>2, <1>4, <1>6, <1>19
  <2> DEFINE a == LeastOf(after)
  <2>2. a \in after /\ \A j \in after : a <= j
    BY <2>1, LeastIs
  <2> HIDE DEF a
  <2>3. a \in Nat /\ a > start
    BY <1>4, <2>1, <2>2
  <2>4. UpToIn(a) = {a}
    <3>1. \A j \in after : j \in Nat /\ (j <= a <=> j = a)
      BY <2>1, <2>2
    <3>2. QED
      BY <2>2, <3>1
  <2>5. Cardinality({a}) = 1
    BY FS_Singleton
  <2>6. 1 <= PageLines
    BY PagesAssumption
  <2>7. a \in fits
    BY <1>3, <2>2, <2>4, <2>5, <2>6
  <2>8. least \in rest /\ least \in Nat
    BY <1>15, <1>19
  <2>9. least \in after /\ least \notin fits
    BY <1>6, <2>8
  <2>10. a <= least /\ a # least
    BY <2>2, <2>7, <2>9
  <2>11. QED
    BY <2>3, <2>8, <2>10
<1>20. p.to \in Nat /\ p.to <= Len(text)
  <2>1. CASE rest # {}
    <3>1. least \in Nat /\ least <= Len(AllLines) /\ start < least - 1
      BY <1>2, <1>4, <1>6, <1>15, <1>19, <2>1
    <3>2. p.to = least - 1
      BY <1>16, <2>1
    <3>3. QED
      BY <1>0, <1>2, <3>1, <3>2
  <2>2. CASE rest = {}
    <3> DEFINE c == Cardinality(fits)
    <3>1. fits \in SUBSET ((start + 1)..Len(AllLines))
      <4>1. \A i \in fits : i \in 1..Len(AllLines) /\ i > start
        BY <1>2, <1>4, <1>6
      <4>2. QED
        BY <1>2, <4>1
    <3>2. start + 1 \in Int /\ Len(AllLines) \in Int
      BY <1>2
    <3>3. /\ IsFiniteSet((start + 1)..Len(AllLines))
          /\ Cardinality((start + 1)..Len(AllLines)) =
               IF start + 1 > Len(AllLines) THEN 0 ELSE Len(AllLines) - (start + 1) + 1
      BY <3>2, FS_Interval
    <3>4. c \in Nat /\ c <= Cardinality((start + 1)..Len(AllLines))
      <4>1. IsFiniteSet(fits) /\ c <= Cardinality((start + 1)..Len(AllLines))
        BY <3>1, <3>3, FS_Subset
      <4>2. c \in Nat
        BY <4>1, FS_CardinalityType
      <4>3. QED
        BY <4>1, <4>2
    <3>5. p.to = start + c
      BY <1>16, <2>2
    <3> DEFINE e == Len(AllLines)
               d == Cardinality((start + 1)..Len(AllLines))
    <3>6. d = (IF start + 1 > e THEN 0 ELSE e - (start + 1) + 1) /\ c <= d /\ c \in Nat
          /\ e \in Nat /\ e <= len /\ start <= len /\ len \in Nat
      BY <1>0, <1>2, <3>3, <3>4 DEF len
    <3> HIDE DEF c, d, e
    <3>7. start + c \in Nat /\ start + c <= len
      BY <3>6
    <3>8. QED
      BY <3>5, <3>7 DEF len
  <2>3. QED
    BY <2>1, <2>2
<1>21. Forward(start, max).more => start < p.to
  BY <1>1, <1>16, <1>19 DEF rest, least
<1>22. QED
  BY <1>10, <1>13, <1>16, <1>17, <1>18, <1>20, <1>21 DEF V

NumbersFrom(ls, a) == {Num(ls[i]) : i \in a..Len(ls)}

LEMMA LastParts ==
  ASSUME NEW t, NEW lo, NEW hi, NEW ls, PartsOf(t, lo, hi, ls)
  PROVE  LET a == Minus(Len(ls), PageLines) + 1
             u == SubSeq(ls, a, Len(ls))
         IN  /\ a \in Nat /\ a >= 1
             /\ PartsOf(t, lo, hi, u)
             /\ Numbers(u) = NumbersFrom(ls, a)
<1>1. ls \in Seq(Seq(Nat))
  BY DEF PartsOf
<1>2. Len(ls) \in Nat /\ Len(ls) <= Len(ls)
  BY <1>1, LenProperties
<1> DEFINE a == Minus(Len(ls), PageLines) + 1
<1>3. a \in Nat /\ a >= 1
  BY <1>2, PagesAssumption DEF Minus
<1> HIDE DEF a
<1>4. LET u == SubSeq(ls, a, Len(ls)) IN
      PartsOf(t, lo, hi, u) /\ Numbers(u) = {Num(ls[i]) : i \in a..Len(ls)}
  BY <1>2, <1>3, PartsCut
<1>5. QED
  BY <1>3, <1>4 DEF a, NumbersFrom

\* The journal gives the last of its whole lines.
LEMMA JournalSound ==
  ASSUME InOneRow(text), req.since \in Nat, NEW p, p.at = Len(text),
         NEW own, own = Picked(Whole(text), JournalIn(Whole(text))),
         p.lines = Solid(SubSeq(own, Minus(Len(own), PageLines) + 1, Len(own)))
  PROVE  LinesFine(text, "journal", p) /\ Gapless(text, p)
<1> DEFINE w == Whole(text)
           J == JournalIn(w)
           len == Len(text)
           k == Cardinality(Newlines(text))
           ending == SubSeq(own, Minus(Len(own), PageLines) + 1, Len(own))
<1>0. 0 \in Nat /\ len \in Nat /\ len <= Len(text) /\ 0 <= len /\ DOMAIN text = 1..len
  BY RowPlaces
<1>1. /\ PartsOf(text, 0, len, w) /\ Len(w) = k /\ k \in Nat
      /\ \A x \in (0 + 1)..len : Ends(text, x) => \E n \in 1..k : LineNo(text, x) = Num(w[n])
  <2>1. LET s == SubSeq(text, 0 + 1, len)
            c == Cardinality(Newlines(s))
        IN  /\ PartsOf(text, 0, len, Whole(s)) /\ Len(Whole(s)) = c /\ c \in Nat
            /\ \A x \in (0 + 1)..len : Ends(text, x) => \E n \in 1..c : LineNo(text, x) = Num(Whole(s)[n])
    BY <1>0, WholeParts
  <2>2. SubSeq(text, 0 + 1, len) = text
    BY WholeText
  <2>3. QED
    BY <2>1, <2>2
<1> HIDE DEF w, k
<1>2. DOMAIN w = 1..k
  <2>1. w \in Seq(Seq(Nat))
    BY <1>1 DEF PartsOf
  <2>2. QED
    BY <1>1, <2>1, LenProperties
<1>3. /\ SolidIn(w) \in SUBSET (1..Len(w))
      /\ \A i \in DOMAIN w : i \in SolidIn(w) <=> HasChar(text, 0, len, Num(w[i]))
  BY <1>0, <1>1, SolidIs
<1>4. J \in SUBSET (1..Len(w))
      /\ \A i : i \in J <=> i \in SolidIn(w) /\ (req.dir = "older" \/ Num(w[i]) >= req.since)
  BY <1>3 DEF JournalIn, Num
<1> HIDE DEF J
<1>5. own = Picked(w, J)
  BY DEF w, J
<1>6. PartsOf(text, 0, len, own) /\ Numbers(own) = {Num(w[i]) : i \in J}
  BY <1>1, <1>4, <1>5, PartsPick
<1>7. own \in Seq(Seq(Nat)) /\ DOMAIN own = 1..Len(own) /\ Len(own) \in Nat
  <2>1. own \in Seq(Seq(Nat))
    BY <1>6 DEF PartsOf
  <2>2. QED
    BY <2>1, LenProperties
<1> DEFINE a == Minus(Len(own), PageLines) + 1
<1>8. a \in Nat /\ a >= 1
  BY <1>7, PagesAssumption DEF Minus
<1> HIDE DEF a
<1>9. PartsOf(text, 0, len, ending) /\ Numbers(ending) = {Num(own[i]) : i \in a..Len(own)}
  <2>1. LET b == Minus(Len(own), PageLines) + 1
            u == SubSeq(own, b, Len(own))
         IN  PartsOf(text, 0, len, u) /\ Numbers(u) = NumbersFrom(own, b)
    BY <1>6, LastParts
  <2>2. QED
    BY <2>1 DEF a, ending, NumbersFrom
<1>10. ending = SubSeq(own, a, Len(own)) /\ p.lines = Solid(ending)
  BY DEF a
<1> HIDE DEF ending
<1>11. Chosen(text, 0, len, ending, p)
  BY <1>0, <1>9, <1>10, SolidChosen
<1>12. /\ PartsOf(text, 0, len, p.lines) /\ Numbers(p.lines) \subseteq Numbers(ending)
       /\ \A n \in Numbers(ending) : HasChar(text, 0, len, n) => n \in Numbers(p.lines)
  <2>1. /\ Numbers(Solid(ending)) \subseteq Numbers(ending)
        /\ \A n \in Numbers(ending) : HasChar(text, 0, len, n) => n \in Numbers(Solid(ending))
    BY <1>0, <1>9, SolidIs
  <2>2. QED
    BY <1>10, <1>11, <2>1 DEF Chosen
<1>13. p.at \in Nat /\ p.at <= Len(text) /\ p.at = len
  BY <1>0
<1>14. LinesFine(text, "journal", p) /\ Numbers(p.lines) \subseteq Nat
  BY <1>12, <1>13, PartsFine
<1>15. Numbers(ending) \subseteq Numbers(own)
  <2>1. \A i \in a..Len(own) : i \in DOMAIN own
    BY <1>7, <1>8
  <2>2. QED
    BY <1>9, <2>1 DEF Numbers
<1>16. \A n \in Numbers(own), l \in Numbers(ending) : l < n => n \in Numbers(ending)
  <2> SUFFICES ASSUME NEW n \in Numbers(own), NEW l \in Numbers(ending), l < n
               PROVE  n \in Numbers(ending)
    OBVIOUS
  <2>1. PICK j \in DOMAIN own : n = Num(own[j])
    BY DEF Numbers
  <2>2. PICK i \in a..Len(own) : l = Num(own[i])
    BY <1>9
  <2>3. i \in DOMAIN own /\ i \in Nat /\ j \in Nat /\ a <= i
    BY <1>7, <1>8
  <2>4. n \in Nat /\ l \in Nat
    BY <1>6, <2>1, <2>2, <2>3 DEF PartsOf
  <2>5. ~(j < i)
    <3>1. j < i => n < l
      BY <1>6, <2>1, <2>2, <2>3 DEF PartsOf
    <3>2. QED
      BY <2>4, <3>1
  <2>6. j \in a..Len(own)
    BY <1>7, <1>8, <2>3, <2>5
  <2>7. QED
    BY <1>9, <2>1, <2>6
<1>17. ASSUME NEW n \in Nat, Missed(text, p, n), NEW l \in Numbers(p.lines),
              NEW m \in Numbers(p.lines), l < n, n < m
       PROVE  FALSE
  <2>1. PICK x \in OfLine(text, 0, len, n) : ~Ends(text, x)
    BY <1>13, <1>17 DEF Missed, HasChar
  <2>2. x \in DOMAIN text /\ LineNo(text, x) = n
    BY <1>0 DEF OfLine
  <2>3. PICK b \in (0 + 1)..len : LineNo(text, b) = m
    BY <1>0, <1>12, NumberPlace
  <2>4. b \in DOMAIN text
    BY <1>0, <2>3
  <2>5. PICK y \in x..(b - 1) : Ends(text, y) /\ LineNo(text, y) = LineNo(text, x)
    BY <1>17, <2>2, <2>3, <2>4, EarlierEnds
  <2>6. y \in (0 + 1)..len
    BY <1>0, <2>2, <2>4
  <2>7. PICK j \in 1..k : n = Num(w[j])
    BY <1>1, <2>2, <2>5, <2>6
  <2>8. HasChar(text, 0, len, n)
    BY <2>1 DEF HasChar
  <2>9. j \in SolidIn(w)
    BY <1>2, <1>3, <2>7, <2>8
  <2>10. l \in Numbers(own)
    BY <1>12, <1>15
  <2>11. PICK i \in J : l = Num(w[i])
    BY <1>6, <2>10
  <2>12. j \in J
    <3>1. CASE req.dir = "older"
      BY <1>4, <2>9, <3>1
    <3>2. CASE req.dir # "older"
      <4>1. l >= req.since /\ l \in Nat
        BY <1>4, <1>14, <2>11, <3>2
      <4>2. n >= req.since
        BY <1>17, <4>1
      <4>3. QED
        BY <1>4, <2>7, <2>9, <4>2
    <3>3. QED
      BY <3>1, <3>2
  <2>13. n \in Numbers(own)
    BY <1>6, <2>7, <2>12
  <2>14. n \in Numbers(ending)
    BY <1>12, <1>16, <1>17, <2>13
  <2>15. n \in Numbers(p.lines)
    BY <1>12, <2>8, <2>14
  <2>16. QED
    BY <1>17, <2>15 DEF Missed
<1>18. Gapless(text, p)
  BY <1>17 DEF Gapless
<1>19. QED
  BY <1>14, <1>18

-----------------------------------------------------------------------------
(* The session: what was written, and how the text grows. *)

LEMMA WrittenIs ==
  ASSUME InOneRow(text), NEW p, p.at \in Nat, p.at <= Len(text), NEW n \in Written(p)
  PROVE  n \in Nat /\ HasChar(text, 0, p.at, n)
<1>1. n \in Nat /\ LineThen(n, p) # <<>> /\ ~Blank(LineThen(n, p))
  BY DEF Written
<1>2. LineThen(n, p) = PartOfLine(text, 0, p.at, n)
  BY DEF LineThen, LineTo, PartOfLine, OfLine, LineNo
<1>3. 0 \in Nat
  OBVIOUS
<1>4. QED
  BY <1>1, <1>2, <1>3, SolidPart

\* A character of a line before one that was there is there as well.
LEMMA CharBefore ==
  ASSUME NEW t, InOneRow(t), NEW hi \in Nat, hi <= Len(t), NEW at \in Nat, at <= Len(t),
         NEW n \in Nat, HasChar(t, 0, hi, n), NEW b \in 1..at, n < LineNo(t, b)
  PROVE  HasChar(t, 0, at, n)
<1>1. PICK x \in OfLine(t, 0, hi, n) : ~Ends(t, x)
  BY DEF HasChar
<1>2. x \in DOMAIN t /\ b \in DOMAIN t /\ LineNo(t, x) = n
  BY <1>1, RowPlaces DEF OfLine
<1>3. x < b
  BY <1>2, EarlierEnds
<1>4. x \in OfLine(t, 0, at, n)
  BY <1>2, <1>3, RowPlaces DEF OfLine
<1>5. QED
  BY <1>1, <1>4 DEF HasChar

\* As many lines have ended as were begun before the last one.
Lined(t) ==
  Cardinality(Newlines(t)) + 1 = IF t = <<>> THEN 1 ELSE NextLine(t, Len(t))

LEMMA PieceIs ==
  ASSUME NEW line \in Nat, line >= 1, NEW piece, piece \in {2 * line - 1, 2 * line}
  PROVE  /\ piece \in Nat /\ LineOf(piece) = line
         /\ EndsLine(piece) <=> piece = 2 * line
BY DEF LineOf, EndsLine

LEMMA RowGrows ==
  ASSUME NEW t, InOneRow(t), Lined(t), NEW piece,
         LET line == Cardinality(Newlines(t)) + 1 IN piece \in {2 * line - 1, 2 * line}
  PROVE  LET u == Append(t, piece)
         IN  /\ InOneRow(u) /\ Lined(u) /\ Len(u) = Len(t) + 1 /\ Len(t) < Len(u)
             /\ \A k \in 1..Len(t) : u[k] = t[k]
<1> DEFINE c == Cardinality(Newlines(t))
           line == c + 1
           u == Append(t, piece)
           len == Len(t)
<1>0. /\ len \in Nat /\ DOMAIN t = 1..len /\ \A k \in DOMAIN t : k \in Nat /\ k >= 1 /\ k <= len
      /\ t \in Seq(Nat)
  BY RowPlaces DEF InOneRow
<1>1. IsFiniteSet(Newlines(t)) /\ c \in Nat
  <2>1. Newlines(t) \in SUBSET (1..len)
    BY <1>0 DEF Newlines
  <2>2. IsFiniteSet(1..len)
    <3>1. 1 \in Int /\ len \in Int
      BY <1>0
    <3>2. QED
      BY <3>1, FS_Interval
  <2>3. QED
    BY <2>1, <2>2, FS_Subset, FS_CardinalityType
<1>2. line \in Nat /\ line >= 1
  BY <1>1
<1>3. piece \in {2 * line - 1, 2 * line}
  OBVIOUS
<1>4. line = IF t = <<>> THEN 1 ELSE NextLine(t, len)
  BY DEF Lined
<1> HIDE DEF line
<1>5. piece \in Nat /\ LineOf(piece) = line
  BY <1>2, <1>3, PieceIs
<1>6. /\ u \in Seq(Nat) /\ Len(u) = len + 1
      /\ \A k \in 1..len : u[k] = t[k]
      /\ u[len + 1] = piece
  BY <1>0, <1>5, AppendProperties
<1> HIDE DEF u
<1>7. DOMAIN u = 1..(len + 1) /\ u # <<>> /\ len + 1 \in DOMAIN u /\ len + 1 \in Nat
  <2>1. DOMAIN u = 1..Len(u)
    BY <1>6, LenProperties
  <2>2. u # <<>>
    BY <1>0, <1>6
  <2>3. QED
    BY <1>0, <1>6, <2>1, <2>2
<1>8. \A k \in 1..len : LineNo(u, k) = LineNo(t, k) /\ NextLine(u, k) = NextLine(t, k)
  BY <1>6 DEF LineNo, NextLine, Ends
<1>9. LineNo(u, len + 1) = line
  BY <1>5, <1>6 DEF LineNo
<1>10. InOneRow(u)
  <2>1. ASSUME NEW k \in DOMAIN u PROVE LineNo(u, k) \in Nat /\ LineNo(u, k) >= 1
    <3>1. CASE k = len + 1
      BY <1>2, <1>9, <3>1
    <3>2. CASE k # len + 1
      <4>1. k \in 1..len /\ k \in DOMAIN t
        BY <1>0, <1>7, <3>2
      <4>2. QED
        BY <1>8, <4>1 DEF InOneRow
    <3>3. QED
      BY <3>1, <3>2
  <2>2. ASSUME NEW k \in DOMAIN u, k + 1 \in DOMAIN u PROVE LineNo(u, k + 1) = NextLine(u, k)
    <3>1. k \in 1..len /\ k \in DOMAIN t /\ k \in Nat
      BY <1>0, <1>7, <2>2
    <3>2. CASE k = len
      <4>1. t # <<>>
        BY <3>1
      <4>2. QED
        BY <1>4, <1>8, <1>9, <3>1, <3>2, <4>1
    <3>3. CASE k # len
      <4>1. k + 1 \in 1..len /\ k + 1 \in DOMAIN t
        BY <1>0, <3>1, <3>3
      <4>2. QED
        BY <1>8, <3>1, <4>1 DEF InOneRow
    <3>4. QED
      BY <3>2, <3>3
  <2>3. LineNo(u, 1) = 1
    <3>1. CASE t = <<>>
      <4>1. len = 0
        BY <1>0, <3>1
      <4>2. QED
        BY <1>4, <1>9, <3>1, <4>1
    <3>2. CASE t # <<>>
      <4>1. len # 0
        BY <1>0, <3>2, EmptySeq
      <4>2. 1 \in 1..len
        BY <1>0, <4>1
      <4>3. QED
        BY <1>8, <3>2, <4>2 DEF InOneRow
    <3>3. QED
      BY <3>1, <3>2
  <2>4. QED
    BY <1>6, <2>1, <2>2, <2>3 DEF InOneRow
<1>11. Lined(u)
  <2>1. \A k \in 1..len : k \in Newlines(u) <=> k \in Newlines(t)
    BY <1>0, <1>6, <1>7 DEF Newlines
  <2>2. \A k \in Newlines(t) : k \in 1..len
    BY <1>0 DEF Newlines
  <2>3. \A k \in Newlines(u) : k \in 1..len \/ k = len + 1
    BY <1>0, <1>7 DEF Newlines
  <2>4. len + 1 \in Newlines(u) <=> EndsLine(piece)
    BY <1>6, <1>7 DEF Newlines
  <2>5. len + 1 \notin Newlines(t)
    BY <1>0, <2>2
  <2>6. NextLine(u, len + 1) = IF EndsLine(piece) THEN line + 1 ELSE line
    BY <1>6, <1>9 DEF NextLine, Ends
  <2>7. CASE EndsLine(piece)
    <3>1. Newlines(u) = Newlines(t) \cup {len + 1}
      BY <2>1, <2>2, <2>3, <2>4, <2>7
    <3>2. Cardinality(Newlines(u)) = c + 1
      BY <1>1, <2>5, <3>1, FS_AddElement
    <3>3. Cardinality(Newlines(u)) + 1 = line + 1
      BY <1>1, <3>2 DEF line
    <3>4. QED
      BY <1>6, <1>7, <2>6, <2>7, <3>3 DEF Lined
  <2>8. CASE ~EndsLine(piece)
    <3>1. Newlines(u) = Newlines(t)
      BY <2>1, <2>2, <2>3, <2>4, <2>8
    <3>2. Cardinality(Newlines(u)) + 1 = line
      BY <3>1 DEF line
    <3>3. QED
      BY <1>6, <1>7, <2>6, <2>8, <3>2 DEF Lined
  <2>9. QED
    BY <2>7, <2>8
<1>12. len < Len(u)
  BY <1>0, <1>6
<1>13. QED
  BY <1>6, <1>10, <1>11, <1>12 DEF u

-----------------------------------------------------------------------------
(* The fields of the page that is served. *)

LEMMA LastFields ==
  ASSUME NEW r
  PROVE  LET p == PageOf(r, 0, TRUE, FALSE) IN
         /\ p.from = r.from /\ p.to = 0 /\ p.at = Len(text) /\ p.lines = Solid(r.lines)
         /\ ~p.newer /\ p.dir = req.dir /\ p.end = Len(text)
BY DEF PageOf, NoPage

LEMMA TailFields ==
  ASSUME NEW r, NEW to
  PROVE  LET p == TailPage(r, to) IN
         /\ p.from = r.from /\ p.to = to /\ p.at = Len(text) /\ p.lines = Solid(r.lines)
         /\ (p.older <=> r.from > 0) /\ ~p.newer /\ p.dir = req.dir /\ p.since = req.since
         /\ p.fellBack = req.fell /\ p.end = Len(text)
BY DEF TailPage, PageOf, NoPage

\* A tail page comes from one read of the end, by the window or without it; of a
\* file that was empty a window reads nothing.
LEMMA TailPageIs ==
  ASSUME req.since \in Nat, req.width \in Nat,
         NEW to, NEW p, p = TailPage(TailRead, to)
  PROVE  /\ \/ /\ p.from = TailOf(req.width).from
               /\ \/ p.lines = Solid(TailOf(req.width).lines)
                  \/ \E since \in Nat :
                       /\ p.lines = Solid(InWindow(TailOf(req.width).lines, since))
                       /\ p.since = since /\ ~p.fellBack
            \/ /\ kind = "plain" /\ req.seen = 0 /\ p.from = 0
               /\ p.lines = Solid(InWindow(<<>>, req.since))
         /\ (p.older <=> p.from > 0)
<1> DEFINE r == TailRead
           t == TailOf(req.width)
<1>1. /\ p.from = r.from /\ p.lines = Solid(r.lines) /\ p.since = req.since
      /\ p.fellBack = req.fell /\ (p.older <=> r.from > 0)
  <2>1. LET u == TailPage(TailRead, to) IN
        /\ u.from = TailRead.from /\ u.lines = Solid(TailRead.lines) /\ u.since = req.since
        /\ u.fellBack = req.fell /\ (u.older <=> TailRead.from > 0)
    BY TailFields
  <2>2. QED
    BY <2>1
<1>2. CASE ~Windowed
  <2>1. r = t
    BY <1>2 DEF TailRead
  <2> HIDE DEF r
  <2>2. QED
    BY <1>1, <2>1
<1>3. CASE Windowed
  <2>1. r = [from |-> WindowRead.from, lines |-> InWindow(WindowRead.lines, req.since)]
    BY <1>3 DEF TailRead, WindowShown
  <2>2. r.from = WindowRead.from /\ r.lines = InWindow(WindowRead.lines, req.since)
    BY <2>1
  <2>3. ~req.fell
    BY <1>3 DEF Windowed
  <2> HIDE DEF r
  <2>4. CASE kind = "plain" /\ req.seen = 0
    <3>1. WindowRead = [from |-> 0, lines |-> <<>>]
      BY <2>4 DEF WindowRead
    <3>2. WindowRead.from = 0 /\ WindowRead.lines = <<>>
      BY <3>1
    <3>3. QED
      BY <1>1, <2>2, <2>4, <3>2
  <2>5. CASE ~(kind = "plain" /\ req.seen = 0)
    <3>1. WindowRead = t
      BY <2>5 DEF WindowRead
    <3> HIDE DEF t
    <3>2. p.lines = Solid(InWindow(t.lines, req.since)) /\ p.since = req.since /\ ~p.fellBack
      BY <1>1, <2>2, <2>3, <3>1
    <3>3. p.from = t.from /\ req.since \in Nat
      BY <1>1, <2>2, <3>1
    <3>4. QED
      BY <1>1, <3>2, <3>3 DEF t
  <2>6. QED
    BY <2>4, <2>5
<1>4. QED
  BY <1>2, <1>3

\* What the window leaves of nothing.
LEMMA NothingRead ==
  ASSUME NEW since, NEW p, p.lines = Solid(InWindow(<<>>, since))
  PROVE  p.lines = <<>> /\ p.lines \in Seq(Seq(Nat)) /\ DOMAIN p.lines = {} /\ Numbers(p.lines) = {}
<1>1. DOMAIN <<>> = {} /\ <<>> \in Seq(Seq(Nat))
  OBVIOUS
<1>2. SolidIn(<<>>) = {} /\ WindowIn(<<>>, since) = {}
  BY <1>1 DEF SolidIn, WindowIn
<1>3. Picked(<<>>, {}) = <<>>
  <2>1. Cardinality({}) = 0
    BY FS_EmptySet
  <2>2. 1..0 = {}
    OBVIOUS
  <2>3. QED
    BY <2>1, <2>2 DEF Picked
<1>4. p.lines = <<>>
  BY <1>2, <1>3 DEF Solid, InWindow
<1>5. QED
  BY <1>1, <1>4 DEF Numbers

LEMMA InsideFields ==
  ASSUME NEW r, NEW newer \in BOOLEAN
  PROVE  LET p == InsidePage(r, newer) IN
         /\ p.from = r.from /\ p.to = r.to /\ p.at = Len(text) /\ p.lines = Solid(r.lines)
         /\ (p.older <=> r.from > 0) /\ (p.newer <=> newer) /\ p.dir = req.dir
         /\ p.end = Len(text) /\ p.seen = req.seen
BY DEF InsidePage, PageOf, NoPage

LEMMA PlainFields ==
  ASSUME NEW r
  PROVE  LET p == PlainInside(r) IN
         /\ p.from = r.from /\ p.to = r.to /\ p.at = Len(text) /\ p.lines = Solid(r.lines)
         /\ (p.older <=> r.from > 0) /\ (p.newer <=> r.to < req.size) /\ p.dir = req.dir
         /\ p.end = r.end /\ p.back = r.back /\ p.seen = req.seen
BY DEF PlainInside, InsidePage, PageOf, NoPage

\* What holds of every page.
PageFine(t, knd, p) ==
  /\ p.from \in Nat /\ p.at \in Nat /\ p.from <= p.at /\ p.at <= Len(t)
  /\ p.end \in Nat /\ p.end <= p.at /\ p.to \in Int /\ p.to <= p.end
  /\ LinesFine(t, knd, p) /\ Gapless(t, p)
  /\ knd = "plain" => PlainStart(t, p)
  /\ knd = "gzip" => GzipStart(t, p)
  /\ p.older /\ knd # "journal" => 0 < p.from
  /\ p.older /\ knd = "plain" => p.from < p.at
  /\ p.newer => /\ knd # "journal"
                /\ knd = "plain" =>
                     /\ NotBelow(p.to) < p.at /\ EndsNear(t, p, NotBelow(p.to))
                     /\ p.back \notin Garbled => p.to \in Nat /\ EndsUnder(t, p, p.to)
                /\ knd = "gzip" => p.to \in Nat /\ GzipEnd(t, p)

\* What a page v has to do with the page p it was asked from.
Follows(t, knd, v, p) ==
  /\ v.dir # "none" => p.at <= v.at
  /\ v.dir = "older" /\ knd # "journal" => v.from < p.from
  /\ v.dir = "older" /\ knd = "plain" /\ p.from < v.at => EndsBefore(t, v, p.from)
  /\ v.dir = "newer" =>
       /\ p.newer /\ v.from = NotBelow(p.to)
       /\ v.newer => p.to < v.to \/ v.back \in Garbled
       /\ knd = "gzip" => \A n \in Nat, m \in Numbers(v.lines) :
                            Missed(t, v, n) /\ n < m => n <= p.to

Requests ==
  [dir : {"none", "tail", "older", "newer"}, since : Nat, size : Nat,
   looked : BOOLEAN, seen : Nat, width : Nat, fell : BOOLEAN]

ReqOK ==
  /\ req \in Requests
  /\ req.size \in Nat /\ req.seen \in Nat /\ req.seen <= Len(text) /\ req.size <= Len(text)
  /\ req.since \in Nat /\ req.width \in Nat
  /\ req # Idle => /\ req.dir \in {"tail", "older", "newer"} /\ req.width > 0
                   /\ view.at <= req.size
  /\ kind = "plain" /\ req.looked => req # Idle /\ req.size <= req.seen
  /\ req.dir = "older" => view.older
  /\ req.dir = "newer" => view.newer

\* The request is about to be served.
Ready == req # Idle /\ (kind = "plain" => req.looked)

LEMMA LinesNumbers ==
  ASSUME NEW t, NEW knd, NEW p, LinesFine(t, knd, p)
  PROVE  Numbers(p.lines) \subseteq Nat
BY DEF LinesFine, Numbers

LEMMA PlainTailServed ==
  ASSUME InOneRow(text), ReqOK, Ready, kind = "plain", req.dir = "tail",
         PageFine(text, kind, view), NEW p, p = PlainPage
  PROVE  PageFine(text, kind, p) /\ Follows(text, kind, p, view)
<1> DEFINE w == req.width
<1>0. p = TailPage(TailRead, req.size)
  BY DEF PlainPage
<1>1. TailOf(w) = ReadTail(w)
  BY DEF TailOf
<1>2. /\ p.at = Len(text) /\ p.end = Len(text) /\ ~p.newer /\ p.dir = "tail" /\ p.to = req.size
      /\ w \in Nat /\ w > 0 /\ req.since \in Nat
      /\ req.seen \in Nat /\ req.seen <= Len(text) /\ Len(text) \in Nat
  <2>1. LET u == TailPage(TailRead, req.size) IN
        u.at = Len(text) /\ u.end = Len(text) /\ ~u.newer /\ u.dir = req.dir /\ u.to = req.size
    BY TailFields
  <2>2. QED
    BY <1>0, <2>1, RowPlaces DEF ReqOK, Ready
<1>3. /\ \/ /\ p.from = TailOf(w).from
            /\ \/ p.lines = Solid(TailOf(w).lines)
               \/ \E since \in Nat : /\ p.lines = Solid(InWindow(TailOf(w).lines, since))
                                     /\ p.since = since /\ ~p.fellBack
         \/ p.from = 0 /\ p.lines = Solid(InWindow(<<>>, req.since))
      /\ p.older <=> p.from > 0
  BY <1>0, <1>2, TailPageIs
<1> HIDE DEF w
<1>4. /\ LinesFine(text, "plain", p) /\ PlainStart(text, p)
      /\ p.from \in Nat /\ p.from <= Len(text) /\ (p.from > 0 => p.from < Len(text))
  <2>1. CASE p.from = 0 /\ p.lines = Solid(InWindow(<<>>, req.since))
    <3>1. p.lines \in Seq(Seq(Nat)) /\ DOMAIN p.lines = {} /\ Numbers(p.lines) = {}
      BY <2>1, NothingRead
    <3>2. QED
      BY <1>2, <2>1, <3>1 DEF LinesFine, PlainStart
  <2>2. CASE ~(p.from = 0 /\ p.lines = Solid(InWindow(<<>>, req.since)))
    BY <1>1, <1>2, <1>3, <2>2, TailSound
  <2>3. QED
    BY <2>1, <2>2
<1>5. Gapless(text, p)
  <2>1. Numbers(p.lines) \subseteq Nat
    BY <1>4, LinesNumbers
  <2>2. QED
    BY <1>2, <1>4, <2>1, GaplessPlain
<1>6. view.at <= p.at /\ p.to \in Int /\ p.to <= p.end
  BY <1>2 DEF PageFine, ReqOK
<1>7. QED
  BY <1>2, <1>3, <1>4, <1>5, <1>6 DEF PageFine, Follows

\* A page of a plain file that starts at off and may reach up to off + max.
LEMMA PlainInsideServed ==
  ASSUME InOneRow(text), ReqOK, Ready, kind = "plain", PageFine(text, kind, view),
         NEW off \in Nat, off < req.seen, NEW max \in Nat, max > 0,
         NEW p, p = PlainInside(ReadFrom(off, max))
  PROVE  LET R == Smaller(off + max, Len(text)) IN
         /\ PageFine(text, kind, p)
         /\ p.from = off /\ p.at = Len(text) /\ view.at <= p.at /\ p.dir = req.dir
         /\ R < req.seen => EndsBefore(text, p, R)
         /\ p.newer => off < p.to \/ p.back \in Garbled
<1> DEFINE r == ReadFrom(off, max)
           R == Smaller(off + max, Len(text))
<1>1. /\ Len(text) \in Nat /\ req.seen \in Nat /\ req.seen <= Len(text) /\ off < Len(text)
      /\ req.size \in Nat /\ req.size <= req.seen
      /\ view.at <= Len(text)
  BY RowPlaces DEF ReqOK, Ready, PageFine
<1>2. /\ p.from = r.from /\ p.to = r.to /\ p.at = Len(text) /\ p.lines = Solid(r.lines)
      /\ (p.older <=> r.from > 0) /\ (p.newer <=> r.to < req.size) /\ p.dir = req.dir
      /\ p.end = r.end /\ p.back = r.back /\ p.seen = req.seen
  <2> HIDE DEF r
  <2>1. LET u == PlainInside(r) IN
         /\ u.from = r.from /\ u.to = r.to /\ u.at = Len(text) /\ u.lines = Solid(r.lines)
         /\ (u.older <=> r.from > 0) /\ (u.newer <=> r.to < req.size) /\ u.dir = req.dir
         /\ u.end = r.end /\ u.back = r.back /\ u.seen = req.seen
    BY PlainFields
  <2>2. QED
    BY <2>1 DEF r
<1>3. R \in Nat /\ R <= Len(text)
  BY <1>1 DEF Smaller
<1>4. /\ LinesFine(text, "plain", p) /\ PlainStart(text, p)
      /\ p.from = off /\ p.end = R /\ p.to \in Int /\ p.to <= R
      /\ R < req.seen => EndsBefore(text, p, R)
      /\ p.to < req.seen =>
           /\ EndsNear(text, p, NotBelow(p.to))
           /\ p.back \notin Garbled => p.to \in Nat /\ EndsUnder(text, p, p.to) /\ off < p.to
  BY <1>1, <1>2, RangeSound
<1> HIDE DEF r, R
<1>5. Gapless(text, p)
  <2>1. Numbers(p.lines) \subseteq Nat
    BY <1>4, LinesNumbers
  <2>2. QED
    BY <1>1, <1>2, <1>4, <2>1, GaplessPlain
<1>6. p.newer => p.to < req.seen /\ NotBelow(p.to) < p.at
  BY <1>1, <1>2, <1>4 DEF NotBelow
<1>7. /\ p.from \in Nat /\ p.from < p.at /\ p.from <= p.at /\ p.at \in Nat /\ p.at <= Len(text)
      /\ p.end \in Nat /\ p.end <= p.at /\ p.to \in Int /\ p.to <= p.end
      /\ p.older => 0 < p.from
  BY <1>1, <1>2, <1>3, <1>4
<1>8. PageFine(text, kind, p)
  BY <1>4, <1>5, <1>6, <1>7 DEF PageFine
<1>9. QED
  BY <1>1, <1>2, <1>4, <1>6, <1>8 DEF R

LEMMA PlainOlderServed ==
  ASSUME InOneRow(text), ReqOK, Ready, kind = "plain", req.dir = "older",
         PageFine(text, kind, view), NEW p, p = PlainPage
  PROVE  PageFine(text, kind, p) /\ Follows(text, kind, p, view)
<1> DEFINE start == Minus(view.from, PageBytes)
           max == view.from - start
           len == Len(text)
<1>0. /\ len \in Nat /\ req.size \in Nat /\ req.size <= req.seen /\ req.seen \in Nat
      /\ req.seen <= len /\ view.at <= req.size
  BY RowPlaces DEF ReqOK, Ready
<1>1. view.from \in Nat /\ 0 < view.from /\ view.from < req.seen
  BY <1>0 DEF PageFine, ReqOK
<1>2. start \in Nat /\ start < view.from /\ max \in Nat /\ max > 0 /\ start + max = view.from
  BY <1>1, PagesAssumption DEF Minus
<1>3. /\ Smaller(NotBelow(start), req.seen) = start /\ Smaller(start + max, len) = view.from
      /\ start < req.seen
  BY <1>0, <1>1, <1>2 DEF Smaller, NotBelow
<1>4. p = PlainInside(ReadFrom(start, max))
  <2>1. p = PlainInside(ReadRange(start, max))
    BY DEF PlainPage
  <2>2. QED
    BY <1>3, <2>1 DEF ReadRange
<1> HIDE DEF start, max
<1>5. /\ PageFine(text, kind, p)
      /\ p.from = start /\ p.at = len /\ view.at <= p.at /\ p.dir = "older"
      /\ EndsBefore(text, p, view.from)
  BY <1>1, <1>2, <1>3, <1>4, PlainInsideServed
<1>6. Follows(text, kind, p, view)
  BY <1>2, <1>5 DEF Follows
<1>7. QED
  BY <1>5, <1>6

LEMMA PlainNewerServed ==
  ASSUME InOneRow(text), ReqOK, Ready, kind = "plain", req.dir = "newer",
         PageFine(text, kind, view), NEW p, p = PlainPage
  PROVE  PageFine(text, kind, p) /\ Follows(text, kind, p, view)
<1> DEFINE start == NotBelow(view.to)
<1>0. /\ req.size \in Nat /\ req.size <= req.seen /\ req.seen \in Nat
      /\ view.at <= req.size /\ view.at \in Nat /\ PageBytes \in Nat /\ PageBytes > 0
  BY PagesAssumption DEF ReqOK, Ready, PageFine
<1>1. view.newer /\ view.to \in Int /\ start < view.at
  BY DEF PageFine, ReqOK
<1>2. start \in Nat /\ start < req.seen /\ view.to <= start
  BY <1>0, <1>1 DEF NotBelow
<1>3. Smaller(start, req.seen) = start
  BY <1>0, <1>2 DEF Smaller
<1>4. p = PlainInside(ReadFrom(start, PageBytes))
  <2>1. p = PlainInside(ReadRange(view.to, PageBytes))
    BY DEF PlainPage
  <2>2. QED
    BY <1>3, <2>1 DEF ReadRange
<1> HIDE DEF start
<1>5. /\ PageFine(text, kind, p)
      /\ p.from = start /\ p.at = Len(text) /\ view.at <= p.at /\ p.dir = "newer"
      /\ p.newer => start < p.to \/ p.back \in Garbled
  BY <1>0, <1>2, <1>4, PlainInsideServed
<1>6. p.newer => view.to < p.to \/ p.back \in Garbled
  <2>1. p.to \in Int
    BY <1>5 DEF PageFine
  <2>2. QED
    BY <1>1, <1>2, <1>5, <2>1
<1>7. Follows(text, kind, p, view)
  BY <1>1, <1>5, <1>6 DEF Follows, start
<1>8. QED
  BY <1>5, <1>7

\* A tail of a gzip file shows no more lines than there are from where it begins.
LEMMA GzipTailEnds ==
  ASSUME InOneRow(text), req.width \in Nat, kind = "gzip"
  PROVE  LET to == TailRead.from + Len(TailRead.lines) IN to \in Nat /\ to <= Len(text)
<1> DEFINE Within(r) ==
             /\ r.lines \in Seq(Seq(Nat)) /\ r.from \in Nat
             /\ r.from + Len(r.lines) <= Len(text)
<1>0. Len(text) \in Nat
  BY RowPlaces
<1>1. ASSUME NEW w \in Nat PROVE Within(TailOf(w))
  <2> DEFINE fits == {i \in SolidAt : SizeOf({j \in SolidAt : j >= i}) <= w}
             least == LeastOf(fits)
             c == Cardinality(fits)
             e == Len(AllLines)
  <2>1. /\ TailOf(w).from = IF fits = {} THEN 0 ELSE least - 1
        /\ TailOf(w).lines = LinesAt(fits)
    BY DEF TailOf, GzipTail, LastLines
  <2>2. fits \in SUBSET SolidAt
    OBVIOUS
  <2> HIDE DEF fits
  <2>3. SolidAt \in SUBSET (1..e) /\ e \in Nat /\ e <= Len(text)
    BY AllLinesAre
  <2>4. PartsOf(text, 0, Len(text), LinesAt(fits)) /\ Len(LinesAt(fits)) = c
    BY <2>2, LinesAtIs
  <2>5. LinesAt(fits) \in Seq(Seq(Nat))
    BY <2>4 DEF PartsOf
  <2>6. CASE fits = {}
    <3>1. c = 0
      BY <2>6, FS_EmptySet
    <3>2. QED
      BY <1>0, <2>1, <2>4, <2>5, <2>6, <3>1
  <2>7. CASE fits # {}
    <3>1. fits \in SUBSET Nat
      BY <2>2, <2>3
    <3>2. least \in fits /\ \A j \in fits : least <= j
      BY <2>7, <3>1, LeastIs
    <3> HIDE DEF least
    <3>3. least \in 1..e /\ fits \in SUBSET (least..e)
      BY <2>2, <2>3, <3>1, <3>2
    <3>4. least \in Int /\ e \in Int /\ ~(least > e)
      BY <2>3, <3>3
    <3>5. IsFiniteSet(least..e) /\ Cardinality(least..e) = e - least + 1
      BY <3>4, FS_Interval
    <3>6. c \in Nat /\ c <= e - least + 1
      <4>1. IsFiniteSet(fits) /\ c <= Cardinality(least..e)
        BY <3>3, <3>5, FS_Subset
      <4>2. c \in Nat
        BY <4>1, FS_CardinalityType
      <4>3. QED
        BY <3>5, <4>1, <4>2
    <3> HIDE DEF c, e
    <3>7. TailOf(w).from = least - 1 /\ TailOf(w).lines = LinesAt(fits)
      BY <2>1, <2>7
    <3>8. least - 1 \in Nat /\ (least - 1) + c <= Len(text)
      BY <1>0, <2>3, <3>3, <3>6
    <3>9. QED
      BY <2>4, <2>5, <3>7, <3>8
  <2>8. QED
    BY <2>6, <2>7
\* choosing among the lines that were read does not make more of them
<1>2. ASSUME NEW ls \in Seq(Seq(Nat)), NEW E \in SUBSET (1..Len(ls))
      PROVE  /\ Picked(ls, E) \in Seq(Seq(Nat))
             /\ Len(Picked(ls, E)) \in Nat /\ Len(Picked(ls, E)) <= Len(ls)
  <2>1. Len(ls) \in Nat
    BY LenProperties
  <2>2. /\ Picked(ls, E) \in Seq(Seq(Nat)) /\ Len(Picked(ls, E)) = Cardinality(E)
        /\ Cardinality(E) \in Nat
    BY PickedIs
  <2>3. /\ IsFiniteSet(1..Len(ls)) /\ Cardinality(1..Len(ls)) = Len(ls)
    <3>1. 1 \in Int /\ Len(ls) \in Int
      BY <2>1
    <3>2. /\ IsFiniteSet(1..Len(ls))
          /\ Cardinality(1..Len(ls)) = IF 1 > Len(ls) THEN 0 ELSE Len(ls) - 1 + 1
      BY <3>1, FS_Interval
    <3> DEFINE d == Cardinality(1..Len(ls))
               l == Len(ls)
    <3>3. d = (IF 1 > l THEN 0 ELSE l - 1 + 1) /\ l \in Nat
      BY <2>1, <3>2
    <3> HIDE DEF d, l
    <3>4. d = l
      BY <3>3
    <3>5. QED
      BY <3>2, <3>4 DEF d, l
  <2>4. Cardinality(E) <= Len(ls)
    BY <2>3, FS_Subset
  <2>5. QED
    BY <2>2, <2>4
<1>3. ASSUME NEW r, NEW u, Within(r), u.from = r.from,
             NEW E \in SUBSET (1..Len(r.lines)), u.lines = Picked(r.lines, E)
      PROVE  u.from + Len(u.lines) \in Nat /\ u.from + Len(u.lines) <= Len(text)
  <2>1. Len(u.lines) \in Nat /\ Len(u.lines) <= Len(r.lines) /\ Len(r.lines) \in Nat
    BY <1>2, <1>3, LenProperties
  <2>2. QED
    BY <1>0, <1>3, <2>1
<1>4. \A ls \in Seq(Seq(Nat)) : SolidIn(ls) \in SUBSET (1..Len(ls))
  <2> TAKE ls \in Seq(Seq(Nat))
  <2>1. DOMAIN ls = 1..Len(ls)
    BY LenProperties
  <2>2. QED
    BY <2>1 DEF SolidIn
<1> DEFINE u == TailOf(req.width)
<1>5. Within(u)
  BY <1>1
<1>6. CASE ~Windowed
  <2>1. TailRead = u
    BY <1>6 DEF TailRead
  <2>2. Len(u.lines) \in Nat
    BY <1>5, LenProperties
  <2> HIDE DEF u
  <2>3. u.from + Len(u.lines) \in Nat /\ u.from + Len(u.lines) <= Len(text)
    BY <1>5, <2>2
  <2>4. QED
    BY <2>1, <2>3
<1>7. CASE Windowed
  <2> DEFINE r == TailRead
  <2>1. WindowRead = u
    BY DEF WindowRead
  <2>2. r = [from |-> u.from, lines |-> InWindow(u.lines, req.since)]
    BY <1>7, <2>1 DEF TailRead, WindowShown
  <2> HIDE DEF r, u
  <2>3. r.from = u.from /\ r.lines = Picked(u.lines, WindowIn(u.lines, req.since))
    BY <2>2 DEF InWindow
  <2>4. WindowIn(u.lines, req.since) \in SUBSET (1..Len(u.lines))
    BY <1>4, <1>5 DEF WindowIn
  <2> HIDE DEF Within
  <2>5. r.from + Len(r.lines) \in Nat /\ r.from + Len(r.lines) <= Len(text)
    BY <1>3, <1>5, <2>3, <2>4
  <2>6. QED
    BY <2>5 DEF r
<1>8. QED
  BY <1>6, <1>7

LEMMA GzipTailServed ==
  ASSUME InOneRow(text), ReqOK, kind = "gzip", req.dir = "tail", PageFine(text, kind, view),
         NEW p, p = GzipPage
  PROVE  PageFine(text, kind, p) /\ Follows(text, kind, p, view)
<1> DEFINE to == TailRead.from + Len(TailRead.lines)
<1>0. p = TailPage(TailRead, to)
  BY DEF GzipPage, GzipTailPage
<1>0a. to \in Nat /\ to <= Len(text)
  BY GzipTailEnds DEF ReqOK
<1> HIDE DEF to
<1> DEFINE w == req.width
<1>1. TailOf(w) = GzipTail(w) /\ w \in Nat /\ req.since \in Nat
  BY DEF TailOf, ReqOK
<1>2. p.at = Len(text) /\ p.end = Len(text) /\ ~p.newer /\ p.dir = "tail" /\ p.to = to
  <2>1. LET u == TailPage(TailRead, to) IN
        u.at = Len(text) /\ u.end = Len(text) /\ ~u.newer /\ u.dir = req.dir /\ u.to = to
    BY TailFields
  <2>2. QED
    BY <1>0, <2>1
<1>3. /\ p.from = TailOf(w).from
      /\ \/ p.lines = Solid(TailOf(w).lines)
         \/ \E since \in Nat : /\ p.lines = Solid(InWindow(TailOf(w).lines, since))
                               /\ p.since = since /\ ~p.fellBack
      /\ p.older <=> p.from > 0
  BY <1>0, <1>1, TailPageIs
<1> HIDE DEF w
<1>5. /\ LinesFine(text, "gzip", p) /\ GzipStart(text, p)
      /\ p.from \in Nat /\ p.from <= Len(text)
  BY <1>1, <1>2, <1>3, GzipTailSound
<1>6. p.at \in Nat /\ p.at <= Len(text)
  BY <1>2, RowPlaces
<1>7. Gapless(text, p)
  <2>1. Numbers(p.lines) \subseteq Nat
    BY <1>5, LinesNumbers
  <2>2. QED
    BY <1>5, <2>1, GaplessGzip
<1>8. view.at <= p.at /\ p.to \in Nat /\ p.to <= p.end
  BY <1>0a, <1>2 DEF PageFine
<1>9. QED
  BY <1>2, <1>3, <1>5, <1>6, <1>7, <1>8 DEF PageFine, Follows

\* A page inside a gzip file.
LEMMA GzipInsideIs ==
  ASSUME InOneRow(text), NEW start \in Nat, start <= Len(text),
         NEW p, p = GzipInside(Forward(start, PageBytes))
  PROVE  LET r == Forward(start, PageBytes) IN
         /\ LinesFine(text, "gzip", p) /\ GzipStart(text, p) /\ GzipEnd(text, p)
         /\ Gapless(text, p)
         /\ p.from = start /\ p.to \in Nat /\ p.to <= Len(text) /\ p.at = Len(text)
         /\ p.end = Len(text)
         /\ \A n \in Nat, m \in Numbers(p.lines) : Missed(text, p, n) /\ n < m => n <= start
         /\ r.more => start < p.to
         /\ (p.older <=> p.from > 0) /\ p.dir = req.dir
         /\ (p.newer <=> r.more \/ (req.dir = "older" /\ view.from < r.to))
<1> DEFINE r == Forward(start, PageBytes)
           newer == r.more \/ (req.dir = "older" /\ view.from < r.to)
<1>1. p = InsidePage(r, newer)
  BY DEF GzipInside
<1>2. newer \in BOOLEAN
  <2>1. r.more \in BOOLEAN
    BY DEF Forward, FirstLines
  <2> HIDE DEF r
  <2>2. QED
    BY <2>1
<1> HIDE DEF newer
<1>3. /\ p.from = r.from /\ p.to = r.to /\ p.at = Len(text) /\ p.lines = Solid(r.lines)
      /\ (p.older <=> r.from > 0) /\ (p.newer <=> newer) /\ p.dir = req.dir /\ p.end = Len(text)
  <2> HIDE DEF r
  <2>1. LET u == InsidePage(r, newer) IN
        /\ u.from = r.from /\ u.to = r.to /\ u.at = Len(text) /\ u.lines = Solid(r.lines)
        /\ (u.older <=> r.from > 0) /\ (u.newer <=> newer) /\ u.dir = req.dir /\ u.end = Len(text)
    BY <1>2, InsideFields
  <2>2. QED
    BY <1>1, <2>1
<1>4. PageBytes \in Nat
  BY PagesAssumption
<1>5. /\ LinesFine(text, "gzip", p) /\ GzipStart(text, p) /\ GzipEnd(text, p)
      /\ p.from = start /\ p.to \in Nat /\ p.to <= Len(text)
      /\ \A n \in Nat, m \in Numbers(p.lines) : Missed(text, p, n) /\ n < m => n <= start
      /\ r.more => start < p.to
  BY <1>3, <1>4, ForwardSound
<1> HIDE DEF r
<1>6. Gapless(text, p)
  <2>1. Numbers(p.lines) \subseteq Nat
    BY <1>5, LinesNumbers
  <2>2. QED
    BY <1>5, <2>1, GaplessGzip
<1>7. QED
  BY <1>3, <1>5, <1>6 DEF newer, r

LEMMA GzipInsideServed ==
  ASSUME InOneRow(text), ReqOK, kind = "gzip", req.dir \in {"older", "newer"},
         PageFine(text, kind, view), NEW p, p = GzipPage
  PROVE  PageFine(text, kind, p) /\ Follows(text, kind, p, view)
<1> DEFINE start == IF req.dir = "older" THEN Minus(Minus(view.from, 1), BackLines) ELSE view.to
           len == Len(text)
           r == Forward(start, PageBytes)
<1>1. p = GzipInside(r)
  BY DEF GzipPage
<1>2. view.at \in Nat /\ len \in Nat /\ view.at <= len /\ view.from \in Nat /\ view.from <= view.at
  BY RowPlaces DEF PageFine
<1>3. /\ req.dir = "older" => 0 < view.from
      /\ req.dir = "newer" => view.newer /\ view.to \in Nat /\ view.to <= view.at
  BY DEF PageFine, ReqOK
<1>4. /\ start \in Nat /\ start <= len
      /\ req.dir = "older" => start < view.from
      /\ req.dir = "newer" => start = view.to /\ start = NotBelow(view.to)
  <2>1. CASE req.dir = "older"
    BY <1>2, <1>3, <2>1, PagesAssumption DEF Minus
  <2>2. CASE req.dir = "newer"
    BY <1>2, <1>3, <2>2 DEF NotBelow
  <2>3. QED
    BY <2>1, <2>2
<1> HIDE DEF start
<1>5. /\ LinesFine(text, "gzip", p) /\ GzipStart(text, p) /\ GzipEnd(text, p)
      /\ Gapless(text, p)
      /\ p.from = start /\ p.to \in Nat /\ p.to <= Len(text) /\ p.at = Len(text)
      /\ p.end = Len(text)
      /\ \A n \in Nat, m \in Numbers(p.lines) : Missed(text, p, n) /\ n < m => n <= start
      /\ r.more => start < p.to
      /\ (p.older <=> p.from > 0) /\ p.dir = req.dir
      /\ (p.newer <=> r.more \/ (req.dir = "older" /\ view.from < r.to))
  BY <1>1, <1>4, GzipInsideIs
<1> HIDE DEF r
<1>6. PageFine(text, kind, p)
  BY <1>2, <1>4, <1>5 DEF PageFine
<1>7. Follows(text, kind, p, view)
  BY <1>2, <1>3, <1>4, <1>5 DEF Follows
<1>8. QED
  BY <1>6, <1>7

LEMMA JournalServed ==
  ASSUME InOneRow(text), ReqOK, kind = "journal", req # Idle, PageFine(text, kind, view),
         NEW p, p = JournalPage
  PROVE  PageFine(text, kind, p) /\ Follows(text, kind, p, view)
<1> DEFINE own == Picked(Whole(text), JournalIn(Whole(text)))
           r == [from |-> 0, lines |-> SubSeq(own, Minus(Len(own), PageLines) + 1, Len(own))]
<1>1. p = PageOf(r, 0, TRUE, FALSE)
  BY DEF JournalPage, LastPage
<1>2. /\ r.from = 0
      /\ r.lines = SubSeq(own, Minus(Len(own), PageLines) + 1, Len(own))
  OBVIOUS
<1>3. /\ p.from = r.from /\ p.to = 0 /\ p.at = Len(text) /\ p.lines = Solid(r.lines)
      /\ ~p.newer /\ p.dir = req.dir /\ p.end = Len(text)
  <2> HIDE DEF r
  <2>1. LET u == PageOf(r, 0, TRUE, FALSE) IN
        /\ u.from = r.from /\ u.to = 0 /\ u.at = Len(text) /\ u.lines = Solid(r.lines)
        /\ ~u.newer /\ u.dir = req.dir /\ u.end = Len(text)
    BY LastFields
  <2>2. QED
    BY <1>1, <2>1
<1>4. LinesFine(text, "journal", p) /\ Gapless(text, p)
  <2>1. p.lines = Solid(SubSeq(own, Minus(Len(own), PageLines) + 1, Len(own)))
    BY <1>2, <1>3
  <2>2. req.since \in Nat /\ p.at = Len(text)
    BY <1>3 DEF ReqOK
  <2>3. QED
    BY <2>1, <2>2, JournalSound
<1>5. /\ p.from = 0 /\ p.at \in Nat /\ p.at <= Len(text) /\ p.from <= p.at
      /\ p.end \in Nat /\ p.end <= p.at /\ p.to \in Int /\ p.to <= p.end
  BY <1>2, <1>3, RowPlaces
<1> HIDE DEF r, own
<1>6. PageFine(text, kind, p)
  BY <1>3, <1>4, <1>5 DEF PageFine
<1>7. req.dir # "newer"
  BY DEF ReqOK, PageFine
<1>8. view.at <= p.at
  BY <1>3 DEF PageFine
<1>9. Follows(text, kind, p, view)
  BY <1>3, <1>7, <1>8 DEF Follows
<1>10. QED
  BY <1>6, <1>9

-----------------------------------------------------------------------------
(* A page stays what it was when the text grows. *)

Grows(t, u) == Len(t) <= Len(u) /\ \A k \in 1..Len(t) : u[k] = t[k]

LEMMA PlacesStay ==
  ASSUME NEW t, NEW u, InOneRow(t), InOneRow(u), Grows(t, u),
         NEW at \in Nat, at <= Len(t), NEW n
  PROVE  /\ PartOfLine(u, 0, at, n) = PartOfLine(t, 0, at, n)
         /\ HasChar(u, 0, at, n) <=> HasChar(t, 0, at, n)
<1> DEFINE E == OfLine(t, 0, at, n)
<1>1. /\ Len(t) \in Nat /\ Len(u) \in Nat /\ Len(t) <= Len(u)
      /\ \A k \in 1..at : k \in 1..Len(t) /\ u[k] = t[k]
  BY RowPlaces DEF Grows
<1>2. \A k \in (0 + 1)..at : LineNo(u, k) = LineNo(t, k) /\ Ends(u, k) = Ends(t, k)
  BY <1>1 DEF LineNo, Ends
<1>3. OfLine(u, 0, at, n) = E
  BY <1>2 DEF OfLine
<1>4. HasChar(u, 0, at, n) <=> HasChar(t, 0, at, n)
  <2>1. \A k \in E : Ends(u, k) = Ends(t, k)
    BY <1>2 DEF OfLine
  <2>2. QED
    BY <1>3, <2>1 DEF HasChar
<1>5. E \in SUBSET (1..Len(t)) /\ E \in SUBSET (1..Len(u)) /\ \A k \in E : u[k] = t[k]
  BY <1>1 DEF OfLine
<1> HIDE DEF E
<1>6. t \in Seq(Nat) /\ u \in Seq(Nat)
  BY DEF InOneRow
<1>7. Picked(u, E) = Picked(t, E)
  <2>1. /\ Picked(t, E) \in Seq(Nat) /\ Len(Picked(t, E)) = Cardinality(E)
        /\ \A i \in 1..Cardinality(E) : NthOf(E, i) \in E /\ Picked(t, E)[i] = t[NthOf(E, i)]
    BY <1>5, <1>6, PickedIs
  <2>2. /\ Picked(u, E) \in Seq(Nat) /\ Len(Picked(u, E)) = Cardinality(E)
        /\ \A i \in 1..Cardinality(E) : NthOf(E, i) \in E /\ Picked(u, E)[i] = u[NthOf(E, i)]
    BY <1>5, <1>6, PickedIs
  <2>3. \A i \in 1..Cardinality(E) : Picked(u, E)[i] = Picked(t, E)[i]
    BY <1>5, <2>1, <2>2
  <2>4. QED
    BY <2>1, <2>2, <2>3, SeqEqual
<1>8. QED
  BY <1>3, <1>4, <1>7 DEF PartOfLine, E

LEMMA EndsStay ==
  ASSUME NEW t, NEW u, InOneRow(t), InOneRow(u), Grows(t, u),
         NEW p, p.at \in Nat, p.at <= Len(t), NEW hi \in Nat, hi < Len(t)
  PROVE  /\ EndsUnder(t, p, hi) => EndsUnder(u, p, hi)
         /\ EndsNear(t, p, hi) => EndsNear(u, p, hi)
<1>1. LineNo(u, hi + 1) = LineNo(t, hi + 1)
  <2>1. hi + 1 \in 1..Len(t)
    BY RowPlaces
  <2>2. QED
    BY <2>1 DEF Grows, LineNo
<1>2. \A n : Missed(u, p, n) <=> Missed(t, p, n)
  BY PlacesStay DEF Missed
<1>3. QED
  BY <1>1, <1>2 DEF EndsUnder, EndsNear

LEMMA PageStays ==
  ASSUME NEW t, NEW u, InOneRow(t), InOneRow(u), Grows(t, u), NEW knd, NEW p, PageFine(t, knd, p)
  PROVE  PageFine(u, knd, p)
<1>0. /\ p.from \in Nat /\ p.at \in Nat /\ p.from <= p.at /\ p.at <= Len(t)
      /\ p.end \in Nat /\ p.end <= p.at
      /\ Len(t) \in Nat /\ Len(u) \in Nat /\ Len(t) <= Len(u) /\ p.at <= Len(u)
      /\ \A k \in 1..p.at : u[k] = t[k]
  BY RowPlaces DEF PageFine, Grows
<1>1. \A n : Missed(u, p, n) <=> Missed(t, p, n)
  BY <1>0, PlacesStay DEF Missed
<1>2. \A n : /\ PartOfLine(u, 0, p.at, n) = PartOfLine(t, 0, p.at, n)
            /\ PartOfLine(u, 0, p.end, n) = PartOfLine(t, 0, p.end, n)
  <2>1. p.end <= Len(t)
    BY <1>0
  <2>2. QED
    BY <1>0, <2>1, PlacesStay
<1>3. \A k \in 1..p.at : LineNo(u, k) = LineNo(t, k) /\ (Ends(u, k) <=> Ends(t, k))
  BY <1>0 DEF LineNo, Ends
<1>4. LinesFine(u, knd, p)
  <2>1. \A k \in (p.from + 1)..p.end : k \in 1..p.at
    BY <1>0
  <2>2. LinesFine(t, knd, p)
    BY DEF PageFine
  <2>3. ASSUME NEW i \in DOMAIN p.lines
        PROVE  /\ LineFine(u, knd, p, i)
               /\ \E k \in 1..p.at : LineNo(u, k) = Num(p.lines[i])
               /\ ReadBefore(u, p.at, p.lines[i])
    <3>1. /\ LineFine(t, knd, p, i)
          /\ \E k \in 1..p.at : LineNo(t, k) = Num(p.lines[i])
          /\ ReadBefore(t, p.at, p.lines[i])
      BY <2>2 DEF LinesFine
    <3>2. ReadBefore(u, p.at, p.lines[i])
      BY <1>0, <3>1 DEF ReadBefore
    <3>3. \E k \in 1..p.at : LineNo(u, k) = Num(p.lines[i])
      BY <1>3, <3>1
    <3>4. LineFine(u, knd, p, i)
      BY <1>2, <1>3, <2>1, <3>1 DEF LineFine
    <3>5. QED
      BY <3>2, <3>3, <3>4
  <2>4. QED
    BY <2>2, <2>3 DEF LinesFine
<1>5. Gapless(u, p)
  BY <1>1 DEF Gapless, PageFine
<1>6. knd = "plain" => PlainStart(u, p)
  <2> SUFFICES ASSUME knd = "plain", NEW m \in Numbers(p.lines)
               PROVE  /\ p.from < p.at /\ LineNo(u, p.from + 1) <= m
                      /\ \A n \in Nat : Missed(u, p, n) /\ n < m =>
                            n <= LineNo(u, p.from + 1) \/ LeftOut(n, p)
    BY DEF PlainStart
  <2>1. /\ p.from < p.at /\ LineNo(t, p.from + 1) <= m
        /\ \A n \in Nat : Missed(t, p, n) /\ n < m =>
              n <= LineNo(t, p.from + 1) \/ LeftOut(n, p)
    BY DEF PageFine, PlainStart
  <2>2. p.from + 1 \in 1..p.at
    BY <1>0, <2>1
  <2>3. LineNo(u, p.from + 1) = LineNo(t, p.from + 1)
    BY <1>3, <2>2
  <2>4. QED
    BY <1>1, <2>1, <2>3
<1>7. knd = "gzip" => GzipStart(u, p)
  BY <1>1 DEF PageFine, GzipStart
<1>8. ASSUME p.newer, knd = "plain"
      PROVE  /\ NotBelow(p.to) < p.at /\ EndsNear(u, p, NotBelow(p.to))
             /\ p.back \notin Garbled => p.to \in Nat /\ EndsUnder(u, p, p.to)
  <2> DEFINE h == NotBelow(p.to)
  <2>1. /\ h < p.at /\ EndsNear(t, p, h)
        /\ p.back \notin Garbled => p.to \in Nat /\ EndsUnder(t, p, p.to)
    BY <1>8 DEF PageFine
  <2>2. p.to \in Int
    BY DEF PageFine
  <2>3. h \in Nat /\ (p.to \in Nat => h = p.to)
    BY <2>2 DEF NotBelow
  <2> HIDE DEF h
  <2>4. h < Len(t)
    BY <1>0, <2>1, <2>3
  <2>5. EndsNear(u, p, h) /\ (EndsUnder(t, p, h) => EndsUnder(u, p, h))
    BY <1>0, <2>1, <2>3, <2>4, EndsStay
  <2>6. QED
    BY <2>1, <2>3, <2>5 DEF h
<1>8a. p.newer /\ knd = "gzip" => GzipEnd(u, p)
  BY <1>1 DEF PageFine, GzipEnd
<1>9. QED
  BY <1>0, <1>4, <1>5, <1>6, <1>7, <1>8, <1>8a DEF PageFine

LEMMA FollowsStays ==
  ASSUME NEW t, NEW u, InOneRow(t), InOneRow(u), Grows(t, u), NEW knd,
         NEW v, PageFine(t, knd, v), NEW p, PageFine(t, knd, p), Follows(t, knd, v, p)
  PROVE  Follows(u, knd, v, p)
<1>1. /\ p.from \in Nat /\ v.at \in Nat /\ v.at <= Len(t) /\ Len(t) \in Nat
  BY RowPlaces DEF PageFine
<1>2. \A n : Missed(u, v, n) <=> Missed(t, v, n)
  BY <1>1, PlacesStay DEF Missed
<1>3. ASSUME v.dir = "older", knd = "plain", p.from < v.at PROVE EndsBefore(u, v, p.from)
  <2>1. EndsBefore(t, v, p.from)
    BY <1>3 DEF Follows
  <2>2. p.from < Len(t)
    BY <1>1, <1>3
  <2>3. QED
    BY <1>1, <2>1, <2>2, EndsStay DEF EndsBefore
<1>4. QED
  BY <1>2, <1>3 DEF Follows

LEMMA Served ==
  ASSUME InOneRow(text), ReqOK, Ready, kind \in {"plain", "gzip", "journal"},
         PageFine(text, kind, view), NEW p, p = ReadPage
  PROVE  PageFine(text, kind, p) /\ Follows(text, kind, p, view)
<1>1. req.dir \in {"tail", "older", "newer"} /\ req # Idle
  BY DEF ReqOK, Ready
<1>2. CASE kind = "plain"
  <2>1. p = PlainPage
    BY <1>2 DEF ReadPage
  <2>2. QED
    BY <1>1, <1>2, <2>1, PlainTailServed, PlainOlderServed, PlainNewerServed
<1>3. CASE kind = "gzip"
  <2>1. p = GzipPage
    BY <1>3 DEF ReadPage
  <2>2. QED
    BY <1>1, <1>3, <2>1, GzipTailServed, GzipInsideServed
<1>4. CASE kind = "journal"
  <2>1. p = JournalPage
    BY <1>4 DEF ReadPage
  <2>2. QED
    BY <1>1, <1>4, <2>1, JournalServed
<1>5. QED
  BY <1>2, <1>3, <1>4

LEMMA ServedFrom ==
  ASSUME kind \in {"plain", "gzip", "journal"}, req.dir \in {"tail", "older", "newer"}
  PROVE  ReadPage.at = Len(text) /\ ReadPage.dir = req.dir
<1>1. \A r, to, older, newer :
        LET p == PageOf(r, to, older, newer) IN p.at = Len(text) /\ p.dir = req.dir
  BY DEF PageOf, NoPage
<1>2. \A r, newer : LET p == InsidePage(r, newer) IN p.at = Len(text) /\ p.dir = req.dir
  BY <1>1 DEF InsidePage
<1>3. \A r, to : LET p == TailPage(r, to) IN p.at = Len(text) /\ p.dir = req.dir
  BY TailFields
<1>4. CASE kind = "plain"
  <2>1. ReadPage = PlainPage
    BY <1>4 DEF ReadPage
  <2>2. \A r : LET p == PlainInside(r) IN p.at = Len(text) /\ p.dir = req.dir
    BY PlainFields
  <2>3. QED
    BY <1>3, <2>1, <2>2 DEF PlainPage
<1>5. CASE kind = "gzip"
  <2>1. ReadPage = GzipPage
    BY <1>5 DEF ReadPage
  <2>2. QED
    BY <1>2, <1>3, <2>1 DEF GzipPage, GzipTailPage, GzipInside
<1>6. CASE kind = "journal"
  <2>1. ReadPage = JournalPage
    BY <1>6 DEF ReadPage
  <2>2. QED
    BY <1>1, <2>1 DEF JournalPage, LastPage
<1>7. QED
  BY <1>4, <1>5, <1>6

-----------------------------------------------------------------------------
(* The session. *)

Still(p) == p.dir = "none" => ~p.newer

GzipOK ==
  kind = "gzip" =>
    /\ asked = 0 => req = Idle /\ view.dir = "none" /\ prev.dir = "none"
    /\ \A p \in {view, prev} : p.dir # "none" => p.at = Len(text)

PagesInv ==
  /\ kind \in {"plain", "gzip", "journal"} /\ asked \in Nat
  /\ InOneRow(text) /\ Lined(text) /\ Len(text) <= MaxText
  /\ ReqOK
  /\ PageFine(text, kind, view) /\ PageFine(text, kind, prev)
  /\ Still(view) /\ Still(prev)
  /\ Follows(text, kind, view, prev)
  /\ GzipOK

LEMMA PagesInvInit == PagesInit => PagesInv
<1> SUFFICES ASSUME PagesInit PROVE PagesInv
  OBVIOUS
<1> USE DEF PagesInit
<1>1. text = <<>> /\ Len(text) = 0 /\ DOMAIN text = {}
  OBVIOUS
<1>2. InOneRow(text)
  BY <1>1 DEF InOneRow
<1>3. Lined(text)
  <2>1. Newlines(text) = {}
    BY <1>1 DEF Newlines
  <2>2. QED
    BY <1>1, <2>1, FS_EmptySet DEF Lined
<1>4. /\ NoPage.from = 0 /\ NoPage.to = 0 /\ NoPage.at = 0 /\ NoPage.lines = <<>>
      /\ NoPage.end = 0 /\ ~NoPage.older /\ ~NoPage.newer /\ NoPage.dir = "none"
  BY DEF NoPage
<1>5. Numbers(NoPage.lines) = {} /\ DOMAIN NoPage.lines = {} /\ NoPage.lines \in Seq(Seq(Nat))
  BY <1>4 DEF Numbers
<1>6. PageFine(text, kind, NoPage)
  <2>1. LinesFine(text, kind, NoPage)
    BY <1>5 DEF LinesFine
  <2>2. Gapless(text, NoPage) /\ PlainStart(text, NoPage) /\ GzipStart(text, NoPage)
    BY <1>5 DEF Gapless, PlainStart, GzipStart
  <2>3. QED
    BY <1>1, <1>4, <2>1, <2>2 DEF PageFine
<1>7. Follows(text, kind, NoPage, NoPage)
  BY <1>4 DEF Follows
<1>8. ReqOK
  <2>1. /\ Idle \in Requests
        /\ Idle.dir = "none" /\ Idle.since = 0 /\ Idle.size = 0 /\ Idle.seen = 0
        /\ Idle.width = 0 /\ ~Idle.looked
    BY DEF Idle, Requests
  <2>2. QED
    BY <1>1, <2>1 DEF ReqOK
<1>9. Still(NoPage) /\ GzipOK
  BY <1>4 DEF Still, GzipOK
<1>10. Len(text) <= MaxText
  BY <1>1, PagesAssumption
<1>11. QED
  BY <1>2, <1>3, <1>6, <1>7, <1>8, <1>9, <1>10 DEF PagesInv

LEMMA PagesInvLog ==
  ASSUME PagesInv, Log PROVE PagesInv'
<1> USE DEF PagesInv
<1>1. PICK piece : /\ LET line == Cardinality(Newlines(text)) + 1
                      IN  piece \in {2 * line - 1, 2 * line}
                   /\ text' = Append(text, piece)
  BY DEF Log
<1>2. UNCHANGED <<kind, req, view, prev, asked>> /\ (kind = "gzip" => asked = 0)
  BY DEF Log
<1>3. /\ InOneRow(text') /\ Lined(text') /\ Len(text') = Len(text) + 1 /\ Len(text) < Len(text')
      /\ \A k \in 1..Len(text) : text'[k] = text[k]
  BY <1>1, RowGrows
<1>4. Len(text) \in Nat /\ Len(text') \in Nat
  BY <1>3, RowPlaces
<1>5. Grows(text, text')
  BY <1>3, <1>4 DEF Grows
<1>6. PageFine(text', kind, view) /\ PageFine(text', kind, prev)
  BY <1>3, <1>5, PageStays
<1>7. Follows(text', kind, view, prev)
  BY <1>3, <1>5, FollowsStays
<1>8. ReqOK'
  BY <1>2, <1>3, <1>4 DEF ReqOK
<1>9. GzipOK' /\ Still(view)' /\ Still(prev)'
  BY <1>2 DEF GzipOK, Still
<1>10. Len(text') <= MaxText
  <2>1. Len(text) < MaxText /\ MaxText \in Nat
    BY PagesAssumption DEF Log
  <2>2. QED
    BY <1>3, <1>4, <2>1
<1>11. QED
  BY <1>2, <1>3, <1>6, <1>7, <1>8, <1>9, <1>10

LEMMA WidthsAre ==
  /\ PageBytes \in Nat /\ PageBytes > 0
  /\ WindowCap \in Nat /\ WindowCap > 0 /\ FirstRead \in Nat /\ FirstRead > 0
BY PagesAssumption DEF WindowCap, FirstRead, Smaller

LEMMA PagesInvAsk ==
  ASSUME PagesInv, NEW dir \in {"tail", "older", "newer"}, NEW since \in Sinces, AskPage(dir, since)
  PROVE  PagesInv'
<1> USE DEF PagesInv
<1>1. /\ req' = [Idle EXCEPT !.dir = dir, !.since = since, !.size = Len(text),
                             !.looked = kind # "plain",
                             !.width = IF since > 0 THEN FirstRead ELSE PageBytes]
      /\ asked' = asked + 1 /\ UNCHANGED <<kind, text, view, prev>>
  BY DEF AskPage
<1>2. (dir = "older" => view.older) /\ (dir = "newer" => view.newer)
  BY DEF AskPage
<1>3. Len(text) \in Nat /\ since \in Nat
  BY RowPlaces, PagesAssumption
<1>4. /\ req'.dir = dir /\ req'.since = since /\ req'.size = Len(text) /\ req'.seen = 0
      /\ (req'.looked <=> kind # "plain")
      /\ req'.width = IF since > 0 THEN FirstRead ELSE PageBytes
  BY <1>1 DEF Idle
<1>5. req'.width \in Nat /\ req'.width > 0
  <2>1. /\ PageBytes \in Nat /\ PageBytes > 0 /\ FirstRead \in Nat /\ FirstRead > 0
    BY WidthsAre
  <2>2. QED
    BY <1>4, <2>1
<1>6. view.at <= Len(text)
  BY DEF PageFine
<1>7. ReqOK'
  <2>1. req' \in Requests
    BY <1>1, <1>3, <1>5 DEF Requests, Idle
  <2>2. QED
    BY <1>1, <1>2, <1>3, <1>4, <1>5, <1>6, <2>1 DEF ReqOK
<1>8. GzipOK' /\ Still(view)' /\ Still(prev)'
  BY <1>1 DEF GzipOK, Still
<1>9. QED
  BY <1>1, <1>7, <1>8

\* Looking, reading more and falling back change the request alone.
LEMMA PagesInvReq ==
  ASSUME PagesInv, ReqOK', kind = "gzip" => asked # 0, UNCHANGED <<kind, text, view, prev, asked>>
  PROVE  PagesInv'
<1> USE DEF PagesInv
<1>1. GzipOK' /\ Still(view)' /\ Still(prev)'
  BY DEF GzipOK, Still
<1>2. QED
  BY <1>1

LEMMA PagesInvTakeSize ==
  ASSUME PagesInv, TakeSize PROVE PagesInv'
<1>1. /\ req # Idle /\ req' = [req EXCEPT !.looked = TRUE, !.seen = Len(text)]
      /\ UNCHANGED <<kind, text, view, prev, asked>>
  BY DEF TakeSize
<1>2. ReqOK /\ req \in Requests /\ Len(text) \in Nat
  BY RowPlaces DEF PagesInv, ReqOK
<1>3. /\ req' \in Requests /\ req'.seen = Len(text) /\ req'.looked /\ ~Idle.looked
      /\ req'.dir = req.dir /\ req'.since = req.since /\ req'.size = req.size
      /\ req'.width = req.width
  BY <1>1, <1>2 DEF Requests, Idle
<1>4. ReqOK'
  <2>1. /\ req.dir \in {"tail", "older", "newer"} /\ req.width > 0 /\ view.at <= req.size
        /\ req.size \in Nat /\ req.size <= Len(text) /\ req.since \in Nat /\ req.width \in Nat
        /\ (req.dir = "older" => view.older) /\ (req.dir = "newer" => view.newer)
    BY <1>1, <1>2 DEF ReqOK
  <2>2. req' # Idle
    BY <1>3
  <2>3. QED
    BY <1>1, <1>2, <1>3, <2>1, <2>2 DEF ReqOK
<1>5. kind = "gzip" => asked # 0
  BY <1>1 DEF PagesInv, GzipOK
<1>6. QED
  BY <1>1, <1>4, <1>5, PagesInvReq

\* A request that has looked is one.
LEMMA LookedIs ==
  ASSUME PagesInv, req.looked
  PROVE  req # Idle /\ (kind = "gzip" => asked # 0)
<1>1. ~Idle.looked
  BY DEF Idle
<1>2. req # Idle
  BY <1>1
<1>3. QED
  BY <1>2 DEF PagesInv, GzipOK

LEMMA PagesInvWiden ==
  ASSUME PagesInv, Widen PROVE PagesInv'
<1> DEFINE w == IF kind = "gzip" THEN Smaller(2 * req.width, WindowCap) ELSE req.width + FirstRead
<1>1. /\ req.looked /\ req' = [req EXCEPT !.width = w]
      /\ UNCHANGED <<kind, text, view, prev, asked>>
  BY DEF Widen
<1>2. ReqOK /\ req \in Requests /\ req # Idle /\ (kind = "gzip" => asked # 0)
  BY <1>1, LookedIs DEF PagesInv, ReqOK
<1>3. w \in Nat /\ w > 0
  BY <1>2, WidthsAre DEF ReqOK, Smaller
<1> HIDE DEF w
<1>4. /\ req' \in Requests /\ req'.seen = req.seen /\ req'.looked /\ ~Idle.looked
      /\ req'.dir = req.dir /\ req'.since = req.since /\ req'.size = req.size
      /\ req'.width = w
  BY <1>1, <1>2, <1>3 DEF Requests, Idle
<1>5. ReqOK'
  BY <1>1, <1>2, <1>3, <1>4 DEF ReqOK
<1>6. QED
  BY <1>1, <1>2, <1>5, PagesInvReq

LEMMA PagesInvFallBack ==
  ASSUME PagesInv, FallBack PROVE PagesInv'
<1>1. /\ req.looked
      /\ req' = [req EXCEPT !.fell = TRUE, !.looked = kind # "plain", !.seen = 0, !.width = PageBytes]
      /\ UNCHANGED <<kind, text, view, prev, asked>>
  BY DEF FallBack
<1>2. ReqOK /\ req \in Requests /\ req # Idle /\ (kind = "gzip" => asked # 0)
  BY <1>1, LookedIs DEF PagesInv, ReqOK
<1>3. PageBytes \in Nat /\ PageBytes > 0 /\ Len(text) \in Nat
  BY WidthsAre, RowPlaces DEF PagesInv
<1>4. /\ req' \in Requests /\ req'.seen = 0 /\ (req'.looked <=> kind # "plain")
      /\ req'.dir = req.dir /\ req'.since = req.since /\ req'.size = req.size
      /\ req'.width = PageBytes
  BY <1>1, <1>2, <1>3 DEF Requests
<1>5. ReqOK'
  BY <1>1, <1>2, <1>3, <1>4 DEF ReqOK
<1>6. QED
  BY <1>1, <1>2, <1>5, PagesInvReq

LEMMA PagesInvServe ==
  ASSUME PagesInv, Serve PROVE PagesInv'
<1> USE DEF PagesInv
<1>1. /\ req.looked /\ view' = ReadPage /\ prev' = view /\ req' = Idle
      /\ UNCHANGED <<kind, text, asked>>
  BY DEF Serve
<1>1a. req # Idle /\ Ready
  BY <1>1, LookedIs DEF Ready
<1> DEFINE p == ReadPage
<1>2. PageFine(text, kind, p) /\ Follows(text, kind, p, view)
  BY <1>1a, Served
<1>3. p.at = Len(text) /\ p.dir = req.dir /\ req.dir \in {"tail", "older", "newer"}
  BY <1>1a, ServedFrom DEF ReqOK
<1> HIDE DEF p
<1>4. view' = p
  BY <1>1 DEF p
<1>5. ReqOK'
  <2>1. /\ Idle \in Requests
        /\ Idle.dir = "none" /\ Idle.since = 0 /\ Idle.size = 0 /\ Idle.seen = 0
        /\ Idle.width = 0 /\ ~Idle.looked
    BY DEF Idle, Requests
  <2>2. Len(text) \in Nat
    BY RowPlaces
  <2>3. QED
    BY <1>1, <2>1, <2>2 DEF ReqOK
<1>6. Still(view') /\ Still(prev')
  BY <1>1, <1>3, <1>4 DEF Still
<1>7. GzipOK'
  BY <1>1, <1>1a, <1>3, <1>4 DEF GzipOK
<1>8. QED
  BY <1>1, <1>2, <1>4, <1>5, <1>6, <1>7

LEMMA PagesInvStep == PagesInv /\ [PagesNext]_pagesVars => PagesInv'
<1> SUFFICES ASSUME PagesInv, [PagesNext]_pagesVars PROVE PagesInv'
  OBVIOUS
<1>1. CASE Log
  BY <1>1, PagesInvLog
<1>2. CASE Serve
  BY <1>2, PagesInvServe
<1>3. ASSUME NEW dir \in {"tail", "older", "newer"}, NEW since \in Sinces, AskPage(dir, since)
      PROVE  PagesInv'
  BY <1>3, PagesInvAsk
<1>4. CASE UNCHANGED pagesVars
  BY <1>4 DEF pagesVars, PagesInv, ReqOK, GzipOK
<1>5. CASE TakeSize
  BY <1>5, PagesInvTakeSize
<1>6. CASE Widen
  BY <1>6, PagesInvWiden
<1>7. CASE FallBack
  BY <1>7, PagesInvFallBack
<1>8. QED
  BY <1>1, <1>2, <1>3, <1>4, <1>5, <1>6, <1>7 DEF PagesNext

\* A line of the page in the browser is whole, or part of one as PageWhole allows.
WholeLine(i) ==
  \/ view.lines[i] = LineThen(Number(view, i), view)
  \/ Unbroken(view)
  \/ /\ ReadPast(view) /\ i = Len(view.lines)
     /\ view.lines[i] = LineTo(Number(view, i), view.end)

LEMMA WholeHolds == PagesInv => PageWhole
<1> SUFFICES ASSUME PagesInv PROVE PageWhole
  OBVIOUS
<1>1. InOneRow(text) /\ LinesFine(text, kind, view) /\ Gapless(text, view)
      /\ view.at \in Nat /\ view.at <= Len(text)
  BY DEF PagesInv, PageFine
<1> SUFFICES ASSUME NEW i \in DOMAIN view.lines, NEW j \in DOMAIN view.lines
             PROVE  /\ WholeLine(i)
                    /\ i < j => Number(view, i) < Number(view, j)
                    /\ \A n \in Written(view) \ Shown(view) :
                          Number(view, i) < n /\ n < Number(view, j) => LeftOut(n, view)
  BY DEF PageWhole, WholeLine
<1>2. Shown(view) = Numbers(view.lines) /\ Number(view, i) = Num(view.lines[i])
      /\ Number(view, j) = Num(view.lines[j])
  BY DEF Shown, Numbers, Number, Num
<1>3. Number(view, i) \in Numbers(view.lines) /\ Number(view, j) \in Numbers(view.lines)
  BY <1>2 DEF Numbers
<1>4. WholeLine(i)
  <2>1. LineFine(text, kind, view, i)
    BY <1>1 DEF LinesFine
  <2>2. \A n, at : LineTo(n, at) = PartOfLine(text, 0, at, n)
    BY DEF LineTo, PartOfLine, OfLine, LineNo
  <2>3. /\ LineThen(Number(view, i), view) = PartOfLine(text, 0, view.at, Num(view.lines[i]))
        /\ LineTo(Number(view, i), view.end) = PartOfLine(text, 0, view.end, Num(view.lines[i]))
    BY <1>2, <2>2 DEF LineThen
  <2>4. Unbroken(view) <=> kind = "plain" /\ \A k \in (view.from + 1)..view.end : ~Ends(text, k)
    BY DEF Unbroken, Ends
  <2>5. QED
    BY <2>1, <2>3, <2>4 DEF LineFine, WholeLine, ReadPast
<1>5. i < j => Number(view, i) < Number(view, j)
  BY <1>1, <1>2 DEF LinesFine
<1>6. ASSUME NEW n \in Written(view) \ Shown(view), Number(view, i) < n, n < Number(view, j)
      PROVE  LeftOut(n, view)
  <2>1. n \in Nat /\ HasChar(text, 0, view.at, n)
    BY <1>1, WrittenIs
  <2>2. Missed(text, view, n)
    BY <1>2, <2>1 DEF Missed
  <2>3. QED
    BY <1>1, <1>3, <1>6, <2>1, <2>2 DEF Gapless
<1>7. QED
  BY <1>4, <1>5, <1>6

LEMMA MovingHolds == PagesInv => PagingMoves
<1> SUFFICES ASSUME PagesInv PROVE PagingMoves
  OBVIOUS
<1>1. Follows(text, kind, view, prev)
  BY DEF PagesInv
<1>2. QED
  BY <1>1 DEF Follows, PagingMoves, Overstepped

LEMMA ShownNumbers ==
  ASSUME NEW p
  PROVE  Shown(p) = Numbers(p.lines)
BY DEF Shown, Numbers, Number, Num

\* Of two neighbours at most two can be lost.
LEMMA AtMostTwo ==
  ASSUME NEW x \in Nat, NEW S, \A n \in S : n \in Nat /\ n <= x /\ x <= n + 1
  PROVE  Cardinality(S) <= 2
<1>1. S \in SUBSET ((x - 1)..x)
  <2>1. \A n \in S : n \in (x - 1)..x
    OBVIOUS
  <2>2. QED
    BY <2>1
<1>2. x - 1 \in Int /\ x \in Int /\ x - 1 <= x /\ x - (x - 1) + 1 = 2
  OBVIOUS
<1>3. IsFiniteSet((x - 1)..x) /\ Cardinality((x - 1)..x) = 2
  <2> DEFINE a == x - 1
  <2>1. a \in Int /\ x \in Int /\ a <= x /\ x - a + 1 = 2
    BY <1>2
  <2> HIDE DEF a
  <2>2. IsFiniteSet(a..x) /\ Cardinality(a..x) = (IF a > x THEN 0 ELSE x - a + 1)
    BY <2>1, FS_Interval
  <2>3. QED
    BY <2>1, <2>2 DEF a
<1>4. Cardinality(S) <= Cardinality((x - 1)..x)
  BY <1>1, <1>3, FS_Subset
<1>5. QED
  BY <1>3, <1>4

\* Between two pages of a plain file that meet at the byte c.
LEMMA PlainSeam ==
  ASSUME PagesInv, kind = "plain", NEW lo \in {view, prev}, NEW hi \in {view, prev},
         NEW c \in Nat, hi.from = c, c < lo.at => EndsNear(text, lo, c),
         prev.at <= view.at, lo = prev => c < prev.at
  PROVE  /\ Cardinality(Between(lo, hi)) <= 2
         /\ (c < lo.at => EndsUnder(text, lo, c)) => Shown(lo) \cap Shown(hi) = {}
<1> DEFINE x == LineNo(text, c + 1)
           B == Between(lo, hi)
<1>1. /\ InOneRow(text) /\ Len(text) \in Nat
      /\ PageFine(text, "plain", lo) /\ PageFine(text, "plain", hi) /\ PageFine(text, "plain", view)
  BY RowPlaces DEF PagesInv
<1>2. /\ view.at \in Nat /\ view.at <= Len(text) /\ lo.at \in Nat /\ hi.at \in Nat
      /\ lo.at <= Len(text) /\ hi.at <= Len(text) /\ lo.at <= view.at /\ hi.at <= view.at
      /\ LinesFine(text, "plain", lo) /\ LinesFine(text, "plain", hi) /\ PlainStart(text, hi)
  <2>1. prev.at \in Nat
    BY DEF PagesInv, PageFine
  <2>2. view.at <= view.at
    BY <1>1 DEF PageFine
  <2>3. QED
    BY <1>1, <2>1, <2>2 DEF PageFine
<1>3. Shown(lo) = Numbers(lo.lines) /\ Shown(hi) = Numbers(hi.lines)
      /\ Shown(lo) \subseteq Nat /\ Shown(hi) \subseteq Nat
  BY <1>2, ShownNumbers, LinesNumbers
<1>4. ASSUME NEW m \in Shown(hi)
      PROVE  /\ c < hi.at /\ c < lo.at /\ c + 1 \in DOMAIN text /\ x \in Nat /\ x <= m
             /\ \A n \in Nat : Missed(text, hi, n) /\ n < m => n <= x \/ LeftOut(n, hi)
  <2>1. /\ c < hi.at /\ x <= m
        /\ \A n \in Nat : Missed(text, hi, n) /\ n < m => n <= x \/ LeftOut(n, hi)
    BY <1>2, <1>3, <1>4 DEF PlainStart
  <2>2. c + 1 \in DOMAIN text
    BY <1>1, <1>2, <2>1, RowPlaces
  <2>3. x \in Nat
    BY <1>1, <2>2 DEF InOneRow
  <2>4. c < lo.at
    BY <1>2, <2>1
  <2>5. QED
    BY <2>1, <2>2, <2>3, <2>4
<1>5. ASSUME c < lo.at => EndsUnder(text, lo, c) PROVE Shown(lo) \cap Shown(hi) = {}
  <2> SUFFICES ASSUME NEW m \in Shown(hi), m \in Shown(lo) PROVE FALSE
    OBVIOUS
  <2>1. c < lo.at /\ x \in Nat /\ x <= m
    BY <1>4
  <2>2. m < x
    BY <1>3, <1>5, <2>1 DEF EndsUnder
  <2>3. m \in Nat
    BY <1>3
  <2>4. QED
    BY <2>1, <2>2, <2>3
<1>6. ASSUME NEW n \in B PROVE n \in Nat /\ x \in Nat /\ n <= x /\ x <= n + 1
  <2>1. /\ n \in Written(view) /\ n \notin Shown(lo) /\ n \notin Shown(hi)
        /\ \E m \in Shown(lo) : m < n
        /\ \E m \in Shown(hi) : n < m
        /\ ~(LeftOut(n, hi) /\ n > x)
    BY <1>6 DEF Between, LineNo
  <2>2. n \in Nat /\ HasChar(text, 0, view.at, n)
    BY <1>1, <1>2, <2>1, WrittenIs
  <2>3. PICK l \in Shown(lo) : l < n
    BY <2>1
  <2>4. PICK m \in Shown(hi) : n < m
    BY <2>1
  <2>5. l \in Nat /\ m \in Nat
    BY <1>3
  <2>6. /\ c < hi.at /\ c < lo.at /\ c + 1 \in DOMAIN text /\ x \in Nat /\ x <= m
        /\ \A k \in Nat : Missed(text, hi, k) /\ k < m => k <= x \/ LeftOut(k, hi)
    BY <1>4
  <2>7. n <= x
    <3>1. PICK b \in 1..hi.at : LineNo(text, b) = m
      <4>1. \E i \in DOMAIN hi.lines : m = Num(hi.lines[i])
        BY <1>3 DEF Numbers
      <4>2. QED
        BY <1>2, <4>1 DEF LinesFine
    <3>2. HasChar(text, 0, hi.at, n)
      BY <1>1, <1>2, <2>2, <2>4, <3>1, CharBefore
    <3>3. Missed(text, hi, n)
      BY <1>3, <2>1, <3>2 DEF Missed
    <3>4. n <= x \/ LeftOut(n, hi)
      BY <2>2, <2>4, <2>6, <3>3
    <3>5. QED
      BY <2>1, <2>2, <2>6, <3>4
  <2>8. x <= n + 1
    <3>1. CASE HasChar(text, 0, lo.at, n)
      <4>1. Missed(text, lo, n)
        BY <1>3, <2>1, <3>1 DEF Missed
      <4>2. QED
        BY <1>3, <2>2, <2>3, <2>6, <4>1 DEF EndsNear
    <3>2. CASE ~HasChar(text, 0, lo.at, n)
      <4>1. PICK y \in OfLine(text, 0, view.at, n) : ~Ends(text, y)
        BY <2>2 DEF HasChar
      <4>2. y \in DOMAIN text /\ LineNo(text, y) = n /\ y \in (0 + 1)..view.at
        BY <1>1, <1>2, RowPlaces DEF OfLine
      <4>3. ~(y <= lo.at)
        <5>1. ASSUME y <= lo.at PROVE y \in OfLine(text, 0, lo.at, n)
          BY <1>2, <4>2, <5>1 DEF OfLine
        <5>2. QED
          BY <3>2, <4>1, <5>1 DEF HasChar
      <4>4. c + 1 <= y
        BY <1>2, <2>6, <4>2, <4>3
      <4>5. x <= n
        BY <1>1, <2>6, <4>2, <4>4, RowRises
      <4>6. QED
        BY <2>2, <2>6, <4>5
    <3>3. QED
      BY <3>1, <3>2
  <2>9. QED
    BY <2>2, <2>6, <2>7, <2>8
<1> HIDE DEF x, B
<1>7. Cardinality(B) <= 2
  <2>1. CASE B = {}
    BY <2>1, FS_EmptySet
  <2>2. CASE B # {}
    <3>1. x \in Nat
      BY <1>6, <2>2
    <3>2. QED
      BY <1>6, <3>1, AtMostTwo
  <2>3. QED
    BY <2>1, <2>2
<1>8. QED
  BY <1>5, <1>7 DEF B

\* A gzip file, of which the next page begins where the last one ended.
LEMMA GzipSeam ==
  ASSUME PagesInv, kind = "gzip", view.dir = "newer"
  PROVE  /\ Between(prev, view) = {}
         /\ Shown(prev) \cap Shown(view) = {} \/ EndsEarly(prev)
<1>1. /\ InOneRow(text) /\ PageFine(text, "gzip", view) /\ PageFine(text, "gzip", prev)
      /\ Follows(text, "gzip", view, prev)
  BY DEF PagesInv
<1>2. /\ prev.newer /\ view.from = prev.to /\ prev.to \in Nat /\ GzipEnd(text, prev)
      /\ \A n \in Nat, m \in Numbers(view.lines) : Missed(text, view, n) /\ n < m => n <= prev.to
  <2>1. prev.newer /\ view.from = NotBelow(prev.to)
    BY <1>1 DEF Follows
  <2>2. prev.to \in Nat /\ GzipEnd(text, prev)
    BY <1>1, <2>1 DEF PageFine
  <2>3. NotBelow(prev.to) = prev.to
    BY <2>2 DEF NotBelow
  <2>4. QED
    BY <1>1, <2>1, <2>2, <2>3 DEF Follows
<1>3. view.at = Len(text) /\ prev.at = Len(text) /\ Len(text) \in Nat
  <2>1. prev.dir # "none"
    BY <1>2 DEF PagesInv, Still
  <2>2. QED
    BY <1>1, <2>1, RowPlaces DEF PagesInv, GzipOK
<1>4. Shown(prev) = Numbers(prev.lines) /\ Shown(view) = Numbers(view.lines)
      /\ Shown(prev) \subseteq Nat /\ Shown(view) \subseteq Nat
  BY <1>1, ShownNumbers, LinesNumbers DEF PageFine
<1>5. Between(prev, view) = {}
  <2> SUFFICES ASSUME NEW n \in Between(prev, view) PROVE FALSE
    OBVIOUS
  <2>1. /\ n \in Written(view) /\ n \notin Shown(prev) /\ n \notin Shown(view)
        /\ \E m \in Shown(prev) : m < n
        /\ \E m \in Shown(view) : n < m
    BY DEF Between
  <2>2. n \in Nat /\ HasChar(text, 0, view.at, n)
    <3>1. view.at \in Nat /\ view.at <= Len(text)
      BY <1>3
    <3>2. QED
      BY <1>1, <2>1, <3>1, WrittenIs
  <2>3. Missed(text, view, n) /\ Missed(text, prev, n)
    BY <1>3, <1>4, <2>1, <2>2 DEF Missed
  <2>4. n <= prev.to
    BY <1>2, <1>4, <2>1, <2>2, <2>3
  <2>5. prev.to < n
    BY <1>2, <1>4, <2>1, <2>2, <2>3 DEF GzipEnd
  <2>6. QED
    BY <1>2, <2>2, <2>4, <2>5
<1>6. ASSUME ~EndsEarly(prev) PROVE Shown(prev) \cap Shown(view) = {}
  <2> SUFFICES ASSUME NEW n \in Shown(view), n \in Shown(prev) PROVE FALSE
    OBVIOUS
  <2>1. ~(n > prev.to)
    BY <1>6 DEF EndsEarly
  <2>2. view.from < n
    BY <1>1, <1>4 DEF PageFine, GzipStart
  <2>3. n \in Nat
    BY <1>4
  <2>4. QED
    BY <1>2, <2>1, <2>2, <2>3
<1>7. QED
  BY <1>5, <1>6

LEMMA SeamsHold == PagesInv => SeamsClose
<1> SUFFICES ASSUME PagesInv PROVE SeamsClose
  OBVIOUS
<1>1. /\ PageFine(text, kind, view) /\ PageFine(text, kind, prev) /\ Follows(text, kind, view, prev)
  BY DEF PagesInv
<1>2. CASE view.dir = "older"
  <2>1. ASSUME kind = "plain"
        PROVE  Cardinality(Between(view, prev)) <= 2 /\ Shown(view) \cap Shown(prev) = {}
    <3> DEFINE c == prev.from
    <3>1. /\ c \in Nat /\ prev.at <= view.at /\ view.from < c
          /\ c < view.at => EndsBefore(text, view, c)
      BY <1>1, <1>2, <2>1 DEF Follows, PageFine
    <3>2. view # prev
      BY <3>1
    <3>3. prev.from = c
      OBVIOUS
    <3> HIDE DEF c
    <3>4. c < view.at => EndsUnder(text, view, c) /\ EndsNear(text, view, c)
      BY <3>1 DEF EndsBefore
    <3>5. QED
      BY <2>1, <3>1, <3>2, <3>3, <3>4, PlainSeam
  <2>2. SeamCloses(view, prev)
    BY <1>2, <2>1 DEF SeamCloses
  <2>3. QED
    BY <1>2, <2>2 DEF SeamsClose
<1>3. CASE view.dir = "newer"
  <2>1. ASSUME kind = "plain"
        PROVE  /\ Cardinality(Between(prev, view)) <= 2
               /\ Shown(prev) \cap Shown(view) = {} \/ Overstepped(prev)
    <3> DEFINE c == NotBelow(prev.to)
    <3>1. /\ prev.newer /\ view.from = c /\ prev.at <= view.at
          /\ c < prev.at /\ EndsNear(text, prev, c)
          /\ ~Overstepped(prev) => prev.to \in Nat /\ EndsUnder(text, prev, prev.to)
      BY <1>1, <1>3, <2>1 DEF Follows, PageFine, Overstepped
    <3>2. prev.to \in Nat => c = prev.to
      BY DEF NotBelow
    <3>3. c \in Nat
      BY <1>1 DEF PageFine, NotBelow
    <3> HIDE DEF c
    <3>4. ~Overstepped(prev) => EndsUnder(text, prev, c)
      BY <3>1, <3>2
    <3>5. QED
      BY <2>1, <3>1, <3>3, <3>4, PlainSeam
  <2>2. SeamCloses(prev, view)
    BY <1>1, <1>3, <2>1, GzipSeam DEF SeamCloses
  <2>3. QED
    BY <1>3, <2>2 DEF SeamsClose
<1>4. CASE view.dir \notin {"older", "newer"}
  BY <1>4 DEF SeamsClose
<1>5. QED
  BY <1>2, <1>3, <1>4

\* Whatever is logged between any two steps of a request, wherever the bytes of a
\* page cut the text and whichever way the reader turns, a page shows whole lines in
\* order and leaves none out in between but by its window; part of a line is shown
\* only by a read that lay inside one line, or that went past the end which the
\* reader had seen, and then last.  At most two lines are lost at the seam of two
\* pages of a plain file and none at that of a gzip file.  None is shown on both
\* sides of a seam and each page gets on, but where the reader stepped back over a
\* line that is not UTF-8, a gzip page ends early, or the journal is read backwards.
THEOREM PagesHold == PagesSpec => []PagesSound
<1>1. PagesInv => PagesSound
  BY WholeHolds, SeamsHold, MovingHolds DEF PagesSound
<1>2. QED
  BY <1>1, PagesInvInit, PagesInvStep, PTL DEF PagesSpec

-----------------------------------------------------------------------------
(* Types. *)

LEMMA SeqRetyped ==
  ASSUME NEW S, NEW T, NEW s \in Seq(S), \A i \in 1..Len(s) : s[i] \in T
  PROVE  s \in Seq(T)
<1>1. Len(s) \in Nat /\ s \in [1..Len(s) -> S]
  BY LenProperties
<1>2. s \in [1..Len(s) -> T]
  BY <1>1
<1>3. QED
  BY <1>1, <1>2, SeqDef

\* The pieces of the lines up to n.
PiecesTo(n) == 1..(2 * n)

LEMMA PieceTyped ==
  ASSUME NEW x \in Nat, NEW n \in Nat, LineOf(x) \in Nat, LineOf(x) >= 1, LineOf(x) <= n
  PROVE  x \in PiecesTo(n)
BY DEF LineOf, PiecesTo

LEMMA TextTyped == PagesInv => \A k \in DOMAIN text : text[k] \in PiecesTo(MaxText)
<1> SUFFICES ASSUME PagesInv, NEW k \in DOMAIN text PROVE text[k] \in PiecesTo(MaxText)
  OBVIOUS
<1>1. InOneRow(text) /\ Len(text) <= MaxText /\ MaxText \in Nat
  BY PagesAssumption DEF PagesInv
<1>2. k \in Nat /\ k <= Len(text) /\ Len(text) \in Nat
  BY <1>1, RowPlaces
<1>3. text[k] \in Nat
  <2>1. text \in Seq(Nat)
    BY <1>1 DEF InOneRow
  <2>2. QED
    BY <2>1, ElementOfSeq, LenProperties
<1>4. LineNo(text, k) \in Nat /\ LineNo(text, k) >= 1
  BY <1>1 DEF InOneRow
<1>5. LineNo(text, k) <= k
  BY <1>1, RowSlow
<1>6. LineNo(text, k) <= MaxText
  BY <1>1, <1>2, <1>4, <1>5
<1>7. QED
  BY <1>1, <1>3, <1>4, <1>6, PieceTyped DEF LineNo

LEMMA PageTyped ==
  ASSUME PagesInv, NEW p, PageFine(text, kind, p)
  PROVE  /\ p.from \in 0..Len(text) /\ p.at \in 0..Len(text) /\ p.end \in 0..p.at
         /\ p.to \in Int /\ p.to <= p.end
         /\ p.lines \in Seq(Seq(PiecesTo(MaxText)))
<1>1. InOneRow(text) /\ Len(text) \in Nat /\ DOMAIN text = 1..Len(text)
  BY RowPlaces DEF PagesInv
<1>2. /\ p.from \in Nat /\ p.at \in Nat /\ p.end \in Nat /\ p.to \in Int
      /\ p.from <= p.at /\ p.end <= p.at /\ p.to <= p.end /\ p.at <= Len(text)
  BY DEF PageFine
<1>3. LinesFine(text, kind, p)
  BY DEF PageFine
<1>4. p.lines \in Seq(Seq(Nat)) /\ \A i \in DOMAIN p.lines : ReadBefore(text, p.at, p.lines[i])
  BY <1>3 DEF LinesFine
<1>5. Len(p.lines) \in Nat /\ DOMAIN p.lines = 1..Len(p.lines)
  BY <1>4, LenProperties
<1>6. ASSUME NEW i \in 1..Len(p.lines) PROVE p.lines[i] \in Seq(PiecesTo(MaxText))
  <2> DEFINE l == p.lines[i]
  <2>1. l \in Seq(Nat) /\ ReadBefore(text, p.at, l)
    BY <1>4, <1>5, ElementOfSeq
  <2> HIDE DEF l
  <2>2. Len(l) \in Nat /\ DOMAIN l = 1..Len(l)
    BY <2>1, LenProperties
  <2>3. \A k \in 1..p.at : k \in DOMAIN text
    BY <1>1, <1>2
  <2>4. \A j \in 1..Len(l) : l[j] \in PiecesTo(MaxText)
    BY <2>1, <2>2, <2>3, TextTyped DEF ReadBefore
  <2>5. l \in Seq(PiecesTo(MaxText))
    BY <2>1, <2>2, <2>4, SeqRetyped
  <2>6. QED
    BY <2>5 DEF l
<1>7. p.lines \in Seq(Seq(PiecesTo(MaxText)))
  <2> DEFINE A == Seq(Nat)
             B == Seq(PiecesTo(MaxText))
             ls == p.lines
  <2>1. ls \in Seq(A) /\ \A i \in 1..Len(ls) : ls[i] \in B
    BY <1>4, <1>6
  <2> HIDE DEF A, B, ls
  <2>2. ls \in Seq(B)
    BY <2>1, SeqRetyped
  <2>3. QED
    BY <2>2 DEF B, ls
<1>8. QED
  BY <1>1, <1>2, <1>7

\* Types: the text stays within its bound, a page lies within the text as it was
\* when the page was read, and shows nothing that was not written.
THEOREM PagesTypeHolds == PagesSpec => []PagesTypeOK
<1>1. PagesInv => PagesTypeOK
  <2> SUFFICES ASSUME PagesInv PROVE PagesTypeOK
    OBVIOUS
  <2>1. kind \in {"plain", "gzip", "journal"}
    BY DEF PagesInv
  <2>2. text \in Seq(PiecesTo(MaxText))
    <3>1. text \in Seq(Nat) /\ Len(text) \in Nat /\ DOMAIN text = 1..Len(text)
      BY RowPlaces DEF PagesInv, InOneRow
    <3>2. QED
      BY <3>1, TextTyped, SeqRetyped
  <2>3. /\ req.dir \in {"none", "tail", "older", "newer"}
        /\ req.size \in 0..Len(text) /\ req.seen \in 0..Len(text)
    <3>1. ReqOK /\ Len(text) \in Nat
      BY RowPlaces DEF PagesInv
    <3>2. QED
      BY <3>1 DEF ReqOK, Requests
  <2>4. PageFine(text, kind, view) /\ PageFine(text, kind, prev)
    BY DEF PagesInv
  <2>5. QED
    BY <2>1, <2>2, <2>3, <2>4, PageTyped DEF PagesTypeOK, PiecesTo
<1>2. QED
  BY <1>1, PagesInvInit, PagesInvStep, PTL DEF PagesSpec
===============================================================================
