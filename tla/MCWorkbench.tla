----------------------------- MODULE MCWorkbench -----------------------------
(***************************************************************************)
(* What stands beside the ingest and live paths, on small instances:       *)
(* paging, the query language, severities, searching, the analysis of a    *)
(* file, the settings and the summaries.  They share no state, so a        *)
(* behaviour is one of a single component, with the others at an initial   *)
(* state: part says which.  (LogSearch brings in QueryText and Severity.)  *)
(***************************************************************************)
EXTENDS LogPages, QuerySense, LogSearch, Retrieval, MCSettings, MetaSummary

CONSTANTS a, b, pa, mist, system, booted, local, m1, m2

\* Two terms; a line that is an error by its priority, and one that is a warning.
MCTerms == {a, b}
FormOf(p, w) == [pri |-> p, json |-> "none", word |-> w, fails |-> FALSE]
MCContent == {[terms |-> {a}, form |-> FormOf(3, "none")],
              [terms |-> {a, b}, form |-> FormOf(NoPri, "warn")]}
MCTextQueries == {<<a>>, <<a, "AND", b>>, <<"NOT", b>>, <<"(", a>>}
MCPatterns == {b}
MCHubTypes == {pa, mist}
MCJournals == <<system, booted>>
MCTogether == {{system}, {system, booted}, {local}}
MCFiles == <<local>>
MCLocalFiles == <<local>>
MCModels == {m1, m2}

MCEvery == ("daily" :> 1) @@ ("weekly" :> 2)
MCLeast == ("daily" :> 1) @@ ("weekly" :> 2)

\* The threads that save settings in one part and make summaries in another.
MCSymmetry == Permutations(MCThreads)

VARIABLE part

PagesRest == PagesInit /\ kind = "plain"
RetrievalRest == RetrievalInit /\ provider = "ollama" /\ setting = m1
SettingsRest == SettingsInit /\ ~legacy
MetaRest == MetaInit

Parts == {"pages", "query", "severity", "search", "retrieval", "settings", "summaries"}

MCInit ==
  /\ part \in Parts
  /\ QueryInit /\ FormInit /\ SearchInit
  /\ IF part = "pages" THEN PagesInit ELSE PagesRest
  /\ IF part = "retrieval" THEN RetrievalInit ELSE RetrievalRest
  /\ IF part = "settings" THEN SettingsInit ELSE SettingsRest
  /\ IF part = "summaries" THEN MetaInit ELSE MetaRest

Texts == <<tokens, form, searchVars>>

MCNext ==
  \/ /\ part = "pages" /\ PagesNext
     /\ UNCHANGED <<part, Texts, retrievalVars, settingsVars, metaVars>>
  \/ /\ part = "query" /\ QueryNext
     /\ UNCHANGED <<part, pagesVars, form, searchVars, retrievalVars, settingsVars, metaVars>>
  \/ /\ part = "severity" /\ NextForm
     /\ UNCHANGED <<part, pagesVars, tokens, searchVars, retrievalVars, settingsVars, metaVars>>
  \/ /\ part = "search" /\ SearchNext
     /\ UNCHANGED <<part, pagesVars, tokens, form, retrievalVars, settingsVars, metaVars>>
  \/ /\ part = "retrieval" /\ RetrievalNext
     /\ Cardinality({n \in DOMAIN file' : file'[n]}) <= 1   \* bound
     /\ UNCHANGED <<part, pagesVars, Texts, settingsVars, metaVars>>
  \/ /\ part = "settings" /\ SettingsNext
     /\ UNCHANGED <<part, pagesVars, Texts, retrievalVars, metaVars>>
  \/ /\ part = "summaries" /\ MetaNext
     /\ clock' + Len(made') <= 4   \* bound
     /\ UNCHANGED <<part, pagesVars, Texts, retrievalVars, settingsVars>>

MCSpec == MCInit /\ [][MCNext]_<<part, pagesVars, Texts, retrievalVars, settingsVars, metaVars>>

\* The component that moves keeps its types; the others stay as they began.
MCTypeOK ==
  CASE part = "pages" -> PagesTypeOK
    [] part = "query" -> QueryTypeOK
    [] part = "severity" -> form \in Forms
    [] part = "search" -> SearchTypeOK
    [] part = "retrieval" -> RetrievalTypeOK
    [] part = "settings" -> SettingsTypeOK
    [] part = "summaries" -> MetaTypeOK
=============================================================================
