------------------------------- MODULE Severity -------------------------------
(***************************************************************************)
(* How severe a log line is (severity.py, fail_filter.py).  A line is      *)
(* reduced to its form: its syslog priority, its JSON level, the first     *)
(* severity word of its text, and whether it speaks of a failure ("denied",*)
(* "timeout", ...).  The classifier ranks a line for the importance filter *)
(* of pages and searches; the failure filter, written apart from it,       *)
(* decides what the failure view and the live feed show.                   *)
(***************************************************************************)
EXTENDS Naturals, Sequences

CONSTANT Priorities   \* syslog priorities that occur

ASSUME SeverityAssumption == Priorities \subseteq 0..999

VARIABLE form

Elements(s) == {s[i] : i \in DOMAIN s}
NoPri == 1000   \* a priority has three digits at most

Names == <<"emergency", "alert", "critical", "error", "warning", "notice", "info", "debug">>
Aliases == {"warn", "err", "crit", "emerg", "fatal", "panic", "major"}
ClassifierWords == Elements(Names) \cup {"emerg", "crit", "err", "warn"}
FailureWords == {"err", "error", "crit", "critical", "alert", "emerg", "emergency", "fatal", "panic"}
AnyWord == Elements(Names) \cup Aliases \cup {"none", "other"}

Forms == [pri : Priorities \cup {NoPri}, json : AnyWord, word : AnyWord, fails : BOOLEAN]

Normalize(w) ==
  CASE w = "warn" -> "warning"
    [] w \in {"err", "major"} -> "error"
    [] w = "emerg" -> "emergency"
    [] w \in {"crit", "fatal", "panic"} -> "critical"
    [] w \notin Aliases -> w

\* The priority decides, or else the JSON level, the word, the failure.
ClassifyLine(f) ==
  IF f.pri # NoPri THEN Names[(f.pri % 8) + 1]
  ELSE IF f.json # "none" THEN Normalize(f.json)
  ELSE IF f.word \in ClassifierWords THEN Normalize(f.word)
  ELSE IF f.fails THEN "error" ELSE "unknown"

\* Levels without a rank count as unknown, which ranks with info.
Rank(level) ==
  IF level \in Elements(Names) THEN 8 - CHOOSE i \in DOMAIN Names : Names[i] = level ELSE 1
MeetsMin(f, min) == min = "none" \/ Rank(ClassifyLine(f)) >= Rank(min)

\* Faulty: a priority of error is no failure.
IsFailureBelow(f) ==
  \/ f.pri # NoPri /\ f.pri - 8 * (f.pri \div 8) < 3
  \/ {f.json, f.word} \cap FailureWords # {}
  \/ f.fails

\* is_failure_line; a level in JSON is a word of the text as well.
IsFailure(f) ==
  \/ f.pri # NoPri /\ f.pri - 8 * (f.pri \div 8) <= 3
  \/ {f.json, f.word} \cap FailureWords # {}
  \/ f.fails

FormInit == form = [pri |-> NoPri, json |-> "none", word |-> "none", fails |-> FALSE]
\* The next line differs in one respect.
NextForm ==
  \/ \E p \in Priorities \cup {NoPri} : form' = [form EXCEPT !.pri = p]
  \/ \E w \in AnyWord : form' = [form EXCEPT !.json = w]
  \/ \E w \in AnyWord : form' = [form EXCEPT !.word = w]
  \/ form' = [form EXCEPT !.fails = ~@]
-----------------------------------------------------------------------------
\* A line that an importance of error or more lets through is a failure to the
\* failure view too, though the two filters share no code; the one exception is
\* a JSON level of "major".
SevereIsFailure ==
  MeetsMin(form, "error") => IsFailure(form) \/ (form.pri = NoPri /\ form.json = "major")
=============================================================================
