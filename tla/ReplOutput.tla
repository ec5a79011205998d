----------------------------- MODULE ReplOutput -----------------------------
(***************************************************************************)
(* What a session of rv query prints: results that are listed as they      *)
(* arrive and summed up at the end (query/repl/format.go, runQuery of      *)
(* session.go), in the format and with the verbosity the meta commands set *)
(* (meta.go), and the tables of :fact and :class.                          *)
(*                                                                         *)
(* Backends report a node once per query: FleetRpc and ClusterBackend show *)
(* that.  The wording is left out, who is named where is kept.             *)
(***************************************************************************)
EXTENDS Naturals, Sequences, FiniteSets, SequencesExt

CONSTANTS
    Nodes,          \* nodes of the cluster
    Here,           \* the node of local data
    ErrorTexts,     \* messages a failing expression makes nodes answer with
    StreamLimit,    \* results listed as they arrive, unless verbose
    MaxLines        \* bound on the lines read

LimitAssumption == StreamLimit \in Nat /\ MaxLines \in Nat /\ Here \notin Nodes

Formats == {"human", "csv", "json"}
Tables == {"query", "fact", "class"}

\* NodeResult: what one node made of the expression.
Outcomes == {"matched", "unmatched"} \cup ErrorTexts
Result == [node : Nodes \cup {Here}, is : Outcomes]

VARIABLES
    format, verbose,   \* :out and :verbose
    stream,            \* the backend is a cluster, whose results are worth streaming
    csvHeader,         \* tables whose header is written
    asking,            \* a query is being evaluated
    results,           \* its results so far, or those of the query before
    streamed,          \* how many of them were listed
    suppressed,        \* how many were not, for the limit
    listed,            \* those that were
    page,              \* what the end of the query printed
    sheet,             \* history: how the rows of each table in this format were headed
    lines              \* lines read

vars == <<format, verbose, stream, csvHeader, asking, results, streamed, suppressed, listed,
          page, sheet, lines>>
settings == <<format, verbose, stream>>
query == <<asking, results, streamed, suppressed, listed, page>>

NoPage == [kind |-> "none", verbose |-> FALSE, errors |-> {}, rows |-> <<>>, more |-> 0]

TypeOK ==
    /\ format \in Formats /\ verbose \in BOOLEAN /\ stream \in BOOLEAN
    /\ csvHeader \subseteq Tables
    /\ asking \in BOOLEAN
    /\ results \in Seq(Result) /\ listed \in Seq(Result)
    /\ streamed \in Nat /\ suppressed \in Nat
    /\ page.kind \in Formats \cup {"none", "value"}
    /\ sheet \in [Tables -> {"none", "headed", "broken"}]
    /\ lines \in 0..MaxLines

Init ==
    /\ format \in Formats /\ verbose \in BOOLEAN /\ stream \in BOOLEAN
    /\ csvHeader = {}
    /\ asking = FALSE /\ results = <<>> /\ streamed = 0 /\ suppressed = 0 /\ listed = <<>>
    /\ page = NoPage
    /\ sheet = [t \in Tables |-> "none"]
    /\ lines = 0

ReadLine == ~asking /\ lines < MaxLines /\ lines' = lines + 1

-----------------------------------------------------------------------------
(* Plausible bugs of the actions below                                     *)

\* What was listed for one query counts for the next.
RunQueryCarrying ==
    /\ ReadLine
    /\ asking' = TRUE
    /\ results' = <<>> /\ listed' = <<>> /\ page' = NoPage
    /\ UNCHANGED <<settings, csvHeader, streamed, suppressed, sheet>>

-----------------------------------------------------------------------------
(* Meta commands                                                           *)

\* A format, the same one too, starts new tables.
MetaOut(f) ==
    /\ ReadLine
    /\ format' = f
    /\ csvHeader' = {}
    /\ sheet' = [t \in Tables |-> "none"]
    /\ UNCHANGED <<verbose, stream, query>>

MetaVerbose ==
    /\ ReadLine
    /\ verbose' = ~verbose
    /\ UNCHANGED <<format, stream, csvHeader, query, sheet>>

\* :local; the way back to a cluster is shut (see Repl).
SetBackend ==
    /\ ReadLine
    /\ stream' = FALSE
    /\ UNCHANGED <<format, verbose, csvHeader, query, sheet>>

\* The header of a table, if it is not there, and the rows below it.
WriteTable(t) ==
    /\ csvHeader' = csvHeader \cup {t}
    /\ sheet' = [sheet EXCEPT ![t] =
           IF (t \in csvHeader) = (@ = "headed") THEN "headed" ELSE "broken"]

\* :fact and :class with something to show.
Show(t) ==
    /\ ReadLine
    /\ IF format = "csv" THEN WriteTable(t) ELSE UNCHANGED <<csvHeader, sheet>>
    /\ UNCHANGED <<settings, query>>

-----------------------------------------------------------------------------
(* Queries                                                                 *)

\* The counters are those of one query.
RunQuery ==
    /\ ReadLine
    /\ asking' = TRUE
    /\ results' = <<>> /\ listed' = <<>> /\ page' = NoPage
    /\ streamed' = 0 /\ suppressed' = 0
    /\ UNCHANGED <<settings, csvHeader, sheet>>

\* Results that are listed at all: errors are summed up later, non-matches asked for.
Listable(r) ==
    /\ format = "human" /\ stream
    /\ r.is = "matched" \/ (verbose /\ r.is = "unmatched")

Full == streamed >= StreamLimit /\ ~verbose

\* streamResult, called by the sink of the backend.
StreamResult(r) ==
    /\ streamed' = IF Listable(r) /\ ~Full THEN streamed + 1 ELSE streamed
    /\ suppressed' = IF Listable(r) /\ Full THEN suppressed + 1 ELSE suppressed
    /\ listed' = IF Listable(r) /\ ~Full THEN Append(listed, r) ELSE listed

Sink(r) ==
    /\ asking
    /\ r.node \notin {results[i].node : i \in DOMAIN results}
    /\ IF stream THEN r.node \in Nodes ELSE r.node = Here
    /\ results' = Append(results, r)
    /\ StreamResult(r)
    /\ UNCHANGED <<settings, csvHeader, asking, page, sheet, lines>>

\* collapseErrors: a line per message, about the nodes that gave it (with more than three of
\* them, their number and the first).
CollapseErrors ==
    {[text |-> e, nodes |-> {results[i].node : i \in {j \in DOMAIN results : results[j].is = e}}] :
        e \in ErrorTexts \cap {results[i].is : i \in DOMAIN results}}

\* A local query has a value, and no summary, unless it failed.
PrintHuman ==
    page' = [NoPage EXCEPT !.kind = IF stream THEN "human" ELSE "value", !.verbose = verbose,
                           !.errors = CollapseErrors, !.more = suppressed]

\* One row, or one place in the lists of the record, per result.
PrintRows == page' = [NoPage EXCEPT !.kind = format, !.verbose = verbose, !.rows = results]

\* The backend is done, or failed half way.
PrintQuery ==
    /\ asking /\ (results = <<>> => stream)
    /\ asking' = FALSE
    /\ IF format = "human" THEN PrintHuman ELSE PrintRows
    /\ IF format = "csv" THEN WriteTable("query") ELSE UNCHANGED <<csvHeader, sheet>>
    /\ UNCHANGED <<settings, results, streamed, suppressed, listed, lines>>

\* It failed before anybody answered: the error is all there is.
EvalFails ==
    /\ asking /\ stream /\ results = <<>>
    /\ asking' = FALSE
    /\ UNCHANGED <<settings, csvHeader, results, streamed, suppressed, listed, page, sheet, lines>>

-----------------------------------------------------------------------------
Next == \/ \E f \in Formats : MetaOut(f)
        \/ MetaVerbose \/ SetBackend
        \/ \E t \in {"fact", "class"} : Show(t)
        \/ RunQuery \/ \E r \in Result : Sink(r)
        \/ PrintQuery \/ EvalFails

Spec == Init /\ [][Next]_vars

-----------------------------------------------------------------------------
(* Properties                                                              *)

Are(is) == {r \in ToSet(results) : r.is = is}
ListedAs(is) == {r \in ToSet(listed) : r.is = is}

\* session.go:29-31 and format.go: every node that answered is accounted for once, in any
\* session of queries, formats and settings.  In human output the nodes that are listed and
\* "more not listed" make up the matches, with :verbose every node is listed, and a node
\* that failed is under its own message; csv and json have a row for each and nothing
\* in between, under one header per table.
OutputAddsUp ==
    /\ page.kind = "human" =>
           /\ Cardinality(ListedAs("matched")) + page.more = Cardinality(Are("matched"))
           /\ page.verbose => page.more = 0 /\ ListedAs("unmatched") = Are("unmatched")
           /\ ~page.verbose => Len(listed) <= StreamLimit /\ ListedAs("unmatched") = {}
    /\ page.kind \in {"human", "value"} =>
           \A e \in ErrorTexts : Are(e) =
               UNION {{[node |-> n, is |-> g.text] : n \in g.nodes} :
                          g \in {h \in page.errors : h.text = e}}
    /\ page.kind \in {"csv", "json"} => page.rows = results /\ listed = <<>>
    /\ \A t \in Tables : sheet[t] # "broken"
=============================================================================
