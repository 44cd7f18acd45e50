----------------------------- MODULE BoundedLog -----------------------------
(***************************************************************************)
(* What the hub's event table promises to the threads that use it: a log   *)
(* of numbered entries, bounded by a cap, that remembers every key it has  *)
(* been shown.  Nothing is said of reserves, ages or of which entries make *)
(* room; EventStore says how, and implements this.                         *)
(***************************************************************************)
EXTENDS Integers, FiniteSets

CONSTANTS
  AllKeys,  \* keys that can be shown to the log
  AllCaps   \* caps it may be opened with; none when not positive

VARIABLES
  kept,     \* numbers of the entries in the log
  next,     \* the number that the next entry gets
  cap,      \* the cap in force
  known     \* keys that have been shown

logVars == <<kept, next, cap, known>>

LogInit ==
  /\ next \in Nat \ {0} /\ kept \subseteq 1..(next - 1)
  /\ cap \in AllCaps /\ known \subseteq AllKeys

\* A new entry gets a number that was never used and stays; older entries make
\* room only when the log is full, and never more than have to.
Add ==
  /\ next' = next + 1
  /\ next \in kept' /\ kept' \subseteq kept \cup {next}
  /\ IF cap > 0 /\ Cardinality(kept) >= cap
     THEN Cardinality(kept') = cap
     ELSE kept' = kept \cup {next}
  /\ known' \subseteq AllKeys /\ known \subseteq known'
  /\ UNCHANGED cap

\* Entries are dropped; the keys they showed are still known.
Drop == kept' \subseteq kept /\ UNCHANGED <<next, cap, known>>

Learn == known' \subseteq AllKeys /\ known \subseteq known' /\ UNCHANGED <<kept, next, cap>>

\* The log is opened again, with the entries and keys it had.
Open == cap' \in AllCaps /\ UNCHANGED <<kept, next, known>>

LogSpec == LogInit /\ [][Add \/ Drop \/ Learn \/ Open]_logVars
=============================================================================
