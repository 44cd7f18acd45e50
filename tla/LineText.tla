------------------------------- MODULE LineText -------------------------------
(***************************************************************************)
(* Text made of lines, as the tailer and the page reader cut it up.  Line  *)
(* n is written as pieces 2n-1 (characters) and one piece 2n (its newline),*)
(* so that a piece says which line it belongs to and whether it ends it.   *)
(***************************************************************************)
EXTENDS Naturals, Sequences, FiniteSets

EndsLine(piece) == piece % 2 = 0
LineOf(piece) == (piece + 1) \div 2
Smaller(m, n) == IF m < n THEN m ELSE n

Newlines(s) == {i \in DOMAIN s : EndsLine(s[i])}

NthOf(S, n) == CHOOSE i \in S : Cardinality({j \in S : j <= i}) = n
InOrder(S) == [n \in 1..Cardinality(S) |-> NthOf(S, n)]

\* The elements of a sequence at these places, in order.
Picked(s, S) == [n \in 1..Cardinality(S) |-> s[NthOf(S, n)]]

\* The whole lines in a sequence of pieces, with their newlines.
LinesTo(s, ends) ==
  [n \in 1..Cardinality(ends) |->
     SubSeq(s, IF n = 1 THEN 1 ELSE NthOf(ends, n - 1) + 1, NthOf(ends, n))]
Whole(s) == LinesTo(s, Newlines(s))

AfterEnd(s, ends, n) == IF ends = {} THEN s ELSE SubSeq(s, 1 + NthOf(ends, n), Len(s))

\* What is left after the last newline.
Rest(s) == AfterEnd(s, Newlines(s), Cardinality(Newlines(s)))

\* split("\n", 1)[-1]: the text after the first newline, all of it if there is none.
AfterFirst(s) == AfterEnd(s, Newlines(s), 1)

\* splitlines(): the whole lines, and the rest if there is one.
SplitLines(s) == Whole(s) \o IF Rest(s) = <<>> THEN <<>> ELSE <<Rest(s)>>

\* A line with nothing but its newline.
Blank(line) == Len(line) = 1 /\ EndsLine(line[1])

\* The characters of a line, without its newline.
Characters(line) == Len(line) - Cardinality(Newlines(line))
=============================================================================
