------------------------------- MODULE LogSearch -------------------------------
(***************************************************************************)
(* Searching (search.py, EventStore.search, loggy_reader.py,               *)
(* unified_search.py): the search box of the file view, over the journals  *)
(* and the log files, and the unified search of the hub, over the event    *)
(* table, the files and the archive of the retired program.                *)
(*                                                                         *)
(* A line is that of one source: an entry of the journal is a line of each *)
(* listed journal that shows it, and so is a line of a file that is listed *)
(* under two directories.  Lines are numbered in the order of their times, *)
(* those of one entry, whose times are the same, in any order.             *)
(***************************************************************************)
EXTENDS QueryText, Severity, LineText, SequencesExt

CONSTANTS
  HubTypes,      \* source types of the events of the hub
  Journals,      \* list_journal_sources(), in order: system, boot and units
  Files,         \* list_log_files() of all directories, in order
  LocalFiles,    \* those of the localhost group, in order
  Together,      \* the journals, or files, that may show the same entry
  Content,       \* what a line may say: its terms and its form
  TextQueries,   \* queries that are asked
  Patterns,      \* regular expressions that are asked: terms, or Invalid
  Limits,        \* result limits
  TailLines,     \* how far a search reads back in a file or journal
  RegexFetch,    \* events fetched for each that a regular expression may return
  MaxLines       \* bound on the lines logged

Archive == "archive"
Invalid == "invalid"

\* A source is an entry of a list, and none is of two origins.
ASSUME SearchAssumption ==
  /\ Journals \in Seq(Elements(Journals)) /\ Files \in Seq(Elements(Files))
  /\ LocalFiles \in Seq(Elements(Files)) /\ IsInjective(Journals \o Files) /\ IsInjective(LocalFiles)
  /\ \A T \in Together : T \subseteq Elements(Journals) \/ T \subseteq Elements(Files)
  /\ Archive \notin HubTypes
  /\ (HubTypes \cup {Archive}) \cap Elements(Journals \o Files) = {}
  /\ \A c \in Content : c.terms \subseteq Terms
  /\ Limits \subseteq Nat \ {0}
  /\ TailLines \in Nat \ {0} /\ RegexFetch \in Nat \ {0} /\ MaxLines \in Nat

VARIABLES
  lines,   \* [src, terms, form] of every line, in the order they were logged
  answer   \* the last answer, with the request

searchVars == <<lines, answer>>

Sources == HubTypes \cup Elements(Journals \o Files) \cup {Archive}
Of(srcs) == {n \in DOMAIN lines : lines[n].src \in srcs}
Descending(S) == Reverse(InOrder(S))
FirstOf(s, n) == SubSeq(s, 1, Smaller(n, Len(s)))

-----------------------------------------------------------------------------
(* One source at a time *)

\* A request: what is looked for, where and how much of it.
Bad(r) == IF r.regex THEN r.query = Invalid ELSE ~Parse(r.query).ok
Matches(r, n) ==
  IF r.regex THEN r.query \in lines[n].terms ELSE lines[n].terms \in Parse(r.query).is

Newer(srcs, n) == Cardinality({m \in Of(srcs) : m > n})

\* search_file, search_journal: the first that match in what is read.
InSource(r, src, limit) ==
  FirstOf(InOrder({n \in Of({src}) : /\ Newer({src}, n) < TailLines
                                      /\ Matches(r, n) /\ MeetsMin(lines[n].form, r.min)}), limit)

\* Faulty: every source may fill the whole limit.
AndFromUnlimited(found, r, src, limit) == found \o InSource(r, src, limit)

\* What a source adds to what was found in those before it, up to the limit.
AndFrom(found, r, src, limit) == found \o InSource(r, src, limit - Len(found))

\* The journals and files in turn, until the limit is reached.
Collect(r, srcs, limit) ==
  LET found[n \in 0..Len(srcs)] ==
        IF n = 0 THEN <<>> ELSE AndFrom(found[n - 1], r, srcs[n], limit)
  IN  found[Len(srcs)]

InOrderOf(r, ns) ==
  IF r.order = "asc" THEN InOrder(Elements(ns)) ELSE Descending(Elements(ns))

ScopeOf(r) ==
  CASE r.scope = "all" -> Journals \o Files
    [] r.scope = "localhost" -> LocalFiles
    [] r.scope \notin {"all", "localhost"} -> <<r.scope>>

\* search_logs
SearchLogs(r, limit) == InOrderOf(r, Collect(r, ScopeOf(r), limit))

\* EventStore.search knows no operators: every word of the query must occur.
HubHits(r, in, limit) ==
  IF r.regex
  THEN Descending({n \in Elements(FirstOf(Descending(in), RegexFetch * limit)) :
                     r.query # Invalid /\ Matches(r, n)})
  ELSE Descending({n \in in : Elements(r.query) \subseteq lines[n].terms})
InHub(r, limit) == FirstOf(HubHits(r, {n \in Of(HubTypes) : n >= r.since}, limit), limit)

\* LoggyReader.search looks for the query as it stands, also a pattern.
InArchive(r, limit) ==
  FirstOf(Descending({n \in Of({Archive}) :
            n >= r.since /\ IF r.regex THEN r.query \in lines[n].terms
                            ELSE Len(r.query) = 1 /\ r.query[1] \in lines[n].terms}), limit)

-----------------------------------------------------------------------------
(* unified_search *)

Share(r) ==
  LET n == r.limit \div Cardinality(r.ask) IN IF n = 0 THEN 1 ELSE n

Origins == {"hub", "files", "archive"}

\* What an origin contributes.  One whose database is down contributes nothing,
\* and neither do the files when the query is not valid.
PartOf(r, o) ==
  IF o \notin r.ask \ {r.down} THEN <<>>
  ELSE CASE o = "hub" -> Descending({n \in Elements(InHub(r, Share(r))) :
                                       r.type \in {"none", lines[n].src}})
         [] o = "files" -> IF Bad(r) THEN <<>> ELSE SearchLogs(r, Share(r))
         [] o = "archive" -> InArchive(r, Share(r))

\* The errors that are reported; those of the archive are only logged.
ErrorsOf(r) ==
  (IF Bad(r) /\ "files" \in r.ask THEN {"files"} ELSE {}) \cup ({r.down} \cap r.ask \cap {"hub"})

AnswerOf(r, parts) ==
  [request |-> r, errors |-> ErrorsOf(r), counts |-> [o \in Origins |-> Len(parts[o])],
   highlight |-> IF r.regex \/ Bad(r) THEN {} ELSE Highlights(r.query),
   results |-> FirstOf(InOrderOf(r, parts["hub"] \o parts["files"] \o parts["archive"]), r.limit)]
Answer(r) == AnswerOf(r, [o \in Origins |-> PartOf(r, o)])

-----------------------------------------------------------------------------
NoAnswer == [results |-> <<>>]

\* What is logged arrives at the hub, in the archive or in a file, or at all the
\* journals or files that show it.
LogLine ==
  /\ answer = NoAnswer
  /\ \E shown \in {{src} : src \in HubTypes \cup {Archive}} \cup Together, c \in Content :
       \E srcs \in SetToSeqs(shown) :
         /\ Len(lines) + Len(srcs) <= MaxLines
         /\ lines' = lines \o [i \in DOMAIN srcs |->
                                 [src |-> srcs[i], terms |-> c.terms, form |-> c.form]]
  /\ UNCHANGED answer

\* The box is emptied for the next search.
Dismiss == answer # NoAnswer /\ answer' = NoAnswer /\ UNCHANGED lines

Queries == [regex : {FALSE}, query : TextQueries] \cup [regex : {TRUE}, query : Patterns]

\* GET /api/v1/search, while a database may be unavailable.
SearchUnified ==
  /\ answer = NoAnswer
  /\ \E q \in Queries, ask \in (SUBSET Origins) \ {{}}, type \in HubTypes \cup {"none"},
        order \in {"asc", "desc"}, limit \in Limits, since \in {0, 2},
        down \in {"hub", "archive", "none"} :
       /\ Cardinality({type, "none"}) + Cardinality({since, 0}) + Cardinality({down, "none"}) <= 4
       \* bound: at most one of the filters and of the failures at a time
       /\ type # "none" \/ since # 0 => "hub" \in ask
       /\ down \in ask \cup {"none"}
       /\ answer' = Answer([regex |-> q.regex, query |-> q.query, ask |-> ask, type |-> type,
                            order |-> order, limit |-> limit, since |-> since,
                            min |-> "none", scope |-> "all", down |-> down])
  /\ UNCHANGED lines

\* GET /api/search; a query that is not valid is refused.
SearchFiles ==
  /\ answer = NoAnswer
  /\ \E q \in Queries, scope \in {"all", "localhost"} \cup Elements(Journals \o Files),
        order \in {"asc", "desc"}, limit \in Limits, min \in {"none", "error"} :
       LET r == [regex |-> q.regex, query |-> q.query, ask |-> {"files"}, type |-> "none",
                 order |-> order, limit |-> limit, since |-> 0, min |-> min, scope |-> scope,
                 down |-> "none"]
       IN  answer' = IF Bad(r) THEN NoAnswer ELSE Answer(r)
  /\ UNCHANGED lines

SearchInit == lines = <<>> /\ answer = NoAnswer
SearchNext == LogLine \/ Dismiss \/ SearchUnified \/ SearchFiles
SearchSpec == SearchInit /\ [][SearchNext]_searchVars
-----------------------------------------------------------------------------
SearchTypeOK ==
  /\ lines \in Seq([src : Sources, terms : SUBSET Terms, form : {c.form : c \in Content}])
  /\ Elements(answer.results) \subseteq DOMAIN lines

\* What an origin has for a request, in its own reading of the query: the event
\* table knows words and no operators, the archive a single phrase, a pattern is
\* tried on the newest events only and a file or journal is read from its end.
Offer(r, o) ==
  CASE o = "hub" ->
         {n \in Of(HubTypes) : n >= r.since /\
            IF r.regex THEN r.query # Invalid /\ Matches(r, n) /\ Newer(HubTypes, n) < RegexFetch * Share(r)
            ELSE \A i \in DOMAIN r.query : r.query[i] \in lines[n].terms}
    [] o = "files" ->
         {n \in Of(Elements(ScopeOf(r))) : ~Bad(r) /\ Matches(r, n) /\ MeetsMin(lines[n].form, r.min)
                                           /\ Newer({lines[n].src}, n) < TailLines}
    [] o = "archive" ->
         {n \in Of({Archive}) : n >= r.since /\ (IF r.regex THEN r.query ELSE r.query[1]) \in lines[n].terms
                                /\ (r.regex \/ Len(r.query) = 1)}

\* The share of an origin that is asked: as much as all can have, one at least.
FairShare(r) == CHOOSE k \in 1..r.limit : /\ k = 1 \/ k * Cardinality(r.ask) <= r.limit
                                          /\ (k + 1) * Cardinality(r.ask) > r.limit

\* What a database owes: its newest matches up to its share, and of those the
\* ones of the type that is asked for.
Owed(r, o) ==
  {n \in Offer(r, o) : /\ Cardinality({m \in Offer(r, o) : m > n}) < FairShare(r)
                       /\ r.type \in {"none", lines[n].src} \/ o # "hub"}

\* An answer is sorted and within its limit, and shows no line of a source twice;
\* each origin that works contributes its share, or everything it has, whatever
\* the others do, the files also when an entry that several journals show fills
\* their share several times over; nothing is shown that does not match; and while
\* the shares fit into the limit, the newest matches of each database are shown.
SearchSound ==
  answer # NoAnswer =>
    LET r == answer.request
        shown == Elements(answer.results)
        works == r.ask \ {r.down}
        total == answer.counts["hub"] + answer.counts["files"] + answer.counts["archive"]
    IN  /\ Len(answer.results) = Cardinality(shown)
        /\ Len(answer.results) = IF total < r.limit THEN total ELSE r.limit
        /\ \A i, j \in DOMAIN answer.results :
             i < j => (r.order = "asc" <=> answer.results[i] < answer.results[j])
        /\ \A o \in Origins : answer.counts[o] =
             CASE o \notin works -> 0
               [] o \in works /\ o = "files" ->
                    IF Cardinality(Offer(r, o)) < FairShare(r) THEN Cardinality(Offer(r, o))
                    ELSE FairShare(r)
               [] o \in works /\ o # "files" -> Cardinality(Owed(r, o))
        /\ shown \subseteq UNION {Offer(r, o) : o \in works}
        /\ total <= r.limit => \A o \in works \ {"files"} : Owed(r, o) \subseteq shown
=============================================================================
