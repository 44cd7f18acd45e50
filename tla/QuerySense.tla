------------------------------ MODULE QuerySense ------------------------------
(***************************************************************************)
(* The meaning of a query, said without the parser: a query falls apart at *)
(* its loosest operator outside of parentheses.                            *)
(***************************************************************************)
EXTENDS QueryText

DepthAt(q, i) == Cardinality({j \in 1..i : q[j] = "("}) - Cardinality({j \in 1..i : q[j] = ")"})
Balanced(q) ==
  /\ \A i \in DOMAIN q : Cardinality({j \in 1..i : q[j] = ")"}) <= Cardinality({j \in 1..i : q[j] = "("})
  /\ Cardinality({j \in DOMAIN q : q[j] = ")"}) = Cardinality({j \in DOMAIN q : q[j] = "("})

Outside(q, op) == {i \in DOMAIN q : q[i] = op /\ DepthAt(q, i) = 0}
\* Places between two factors that no operator joins.
Joints(q) == {i \in 1..(Len(q) - 1) : /\ DepthAt(q, i) = 0
                                      /\ q[i] \in Words \cup {")"}
                                      /\ q[i + 1] \in Words \cup {"(", "NOT"}}

NoMeaning == [ok |-> FALSE, is |-> {}]
Means(is) == [ok |-> TRUE, is |-> is]

Joined(a, b, is) == IF a.ok /\ b.ok THEN Means(is) ELSE NoMeaning
Meet(a, b) == Joined(a, b, a.is \cap b.is)
Unite(a, b) == Joined(a, b, a.is \cup b.is)
OthersThan(a) == Joined(a, a, LineSets \ a.is)
AnyOf(S) == CHOOSE i \in S : TRUE

RECURSIVE Meaning(_)
LeftOf(q, i) == Meaning(SubSeq(q, 1, i - 1))
RightOf(q, i) == Meaning(SubSeq(q, i + 1, Len(q)))
Atom(q) ==
  CASE q[1] = "NOT" -> OthersThan(RightOf(q, 1))
    [] q[1] = "(" /\ q[Len(q)] = ")" -> Meaning(SubSeq(q, 2, Len(q) - 1))
    [] Len(q) = 1 /\ q[1] \in Words -> Means(Having(q[1]))
    [] OTHER -> NoMeaning
SplitAt(q, ors, ands, joints) ==
  IF ors # {} THEN Unite(LeftOf(q, AnyOf(ors)), RightOf(q, AnyOf(ors)))
  ELSE IF ands # {} THEN Meet(LeftOf(q, AnyOf(ands)), RightOf(q, AnyOf(ands)))
  ELSE IF joints # {} THEN Meet(LeftOf(q, AnyOf(joints) + 1), RightOf(q, AnyOf(joints)))
  ELSE Atom(q)
Meaning(q) ==
  IF q = <<>> \/ ~Balanced(q) THEN NoMeaning
  ELSE SplitAt(q, Outside(q, "OR"), Outside(q, "AND"), Joints(q))

\* The recursive descent of the parser gives every query its meaning: NOT binds
\* closer than AND, said or implied, and AND closer than OR; what has no meaning
\* is refused.
QueryMeaning ==
  \A p \in {Parse(tokens)} : [ok |-> p.ok, is |-> p.is] = Meaning(tokens)
=============================================================================
