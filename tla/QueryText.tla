------------------------------- MODULE QueryText -------------------------------
(***************************************************************************)
(* The query language of the search box (query_parser.py).  A query is a   *)
(* sequence of tokens: parentheses, AND, OR, NOT, terms, the quoted empty  *)
(* term, and the quote that is never closed.  What it means is the set of  *)
(* lines that match it, a line being the set of the terms that occur in it. *)
(***************************************************************************)
EXTENDS Naturals, Sequences, FiniteSets

CONSTANTS
  Terms,      \* terms without regard to case
  MaxTokens   \* bound on a query

ASSUME QueryAssumption == MaxTokens \in Nat

VARIABLE tokens   \* what has been typed

EmptyTerm == "empty"
Unclosed == "unclosed"
Words == Terms \cup {EmptyTerm}
Tokens == Words \cup {Unclosed, "(", ")", "AND", "OR", "NOT"}
LineSets == SUBSET Terms

Having(t) == IF t = EmptyTerm THEN LineSets ELSE {l \in LineSets : t \in l}
Tok(q, i) == IF i <= Len(q) THEN q[i] ELSE "EOF"

\* What a rule of the grammar returns: the lines that match the part it read,
\* and the token after that part; Error for the ValueError.
Parsed(is, at) == [ok |-> TRUE, is |-> is, at |-> at]
Error == [ok |-> FALSE, is |-> {}, at |-> 0]
Both(a, b) == IF a.ok /\ b.ok THEN Parsed(a.is \cap b.is, b.at) ELSE Error
Either(a, b) == IF a.ok /\ b.ok THEN Parsed(a.is \cup b.is, b.at) ELSE Error

\* The rules of the grammar call one another: p is what each makes of each rest
\* of the query.
Closed(q, inner) ==
  IF inner.ok /\ Tok(q, inner.at) = ")" THEN [inner EXCEPT !.at = @ + 1] ELSE Error

ParsePrimary(p, q, i) ==
  CASE Tok(q, i) = "(" -> Closed(q, p["or", i + 1])
    [] Tok(q, i) \in Words -> Parsed(Having(q[i]), i + 1)
    [] OTHER -> Error

Negated(a) == IF a.ok THEN Parsed(LineSets \ a.is, a.at) ELSE Error

\* Faulty: NOT reaches over everything up to the next OR.
ParseNotWide(p, q, i) ==
  IF Tok(q, i) # "NOT" THEN ParsePrimary(p, q, i) ELSE Negated(p["and", i + 1])

ParseNot(p, q, i) ==
  IF Tok(q, i) # "NOT" THEN ParsePrimary(p, q, i) ELSE Negated(p["not", i + 1])

\* Two factors side by side mean AND.
ImpliesAnd(q, i) == Tok(q, i) \in Words \cup {"(", "NOT"}

AndMore(p, q, a) ==
  CASE a.ok /\ Tok(q, a.at) = "AND" -> Both(a, p["and", a.at + 1])
    [] a.ok /\ ImpliesAnd(q, a.at) -> Both(a, p["and", a.at])
    [] OTHER -> a

ParseAnd(p, q, i) == AndMore(p, q, p["not", i])

OrMore(p, q, a) ==
  IF a.ok /\ Tok(q, a.at) = "OR" THEN Either(a, p["or", a.at + 1]) ELSE a

ParseOr(p, q, i) == OrMore(p, q, p["and", i])

Rules(q) ==
  LET p[rule \in {"or", "and", "not"}, i \in 1..(Len(q) + 1)] ==
        CASE rule = "or"  -> ParseOr(p, q, i)
          [] rule = "and" -> ParseAnd(p, q, i)
          [] rule = "not" -> ParseNot(p, q, i)
  IN p

\* parse_query: the whole query, which has a token.
AllRead(q, a) ==
  IF q # <<>> /\ (\A i \in DOMAIN q : q[i] # Unclosed) /\ a.ok /\ a.at = Len(q) + 1
  THEN a ELSE Error

Parse(q) == AllRead(q, Rules(q)["or", 1])

\* compile_text_query: the terms to highlight, those under a NOT as well.
Highlights(q) == {q[i] : i \in DOMAIN q} \cap Terms
-----------------------------------------------------------------------------
QueryInit == tokens = <<>>

Type(t) == Len(tokens) < MaxTokens /\ tokens' = Append(tokens, t)
ClearBox == tokens # <<>> /\ tokens' = <<>>

QueryNext == ClearBox \/ \E t \in Tokens : Type(t)

QuerySpec == QueryInit /\ [][QueryNext]_tokens
-----------------------------------------------------------------------------
QueryTypeOK == tokens \in Seq(Tokens) /\ Len(tokens) <= MaxTokens
=============================================================================
