--------------------------------- MODULE Repl ---------------------------------
(***************************************************************************)
(* A session of rv query: how it starts (cmd/rv/commands/query/query.go),  *)
(* the lines it reads (query/repl/session.go), the meta commands that      *)
(* change what queries are evaluated on (meta.go) and the exit code.       *)
(*                                                                         *)
(* A snapshot is one of a few data sets.  A backend is the cluster or      *)
(* local, the latter on one data set with the node metadata its harness    *)
(* was built with: for each key, whether it comes from the facts or from   *)
(* --node-meta.                                                            *)
(***************************************************************************)
EXTENDS Naturals

CONSTANTS
    Data,          \* data sets: of nodes, and in files
    FactKeys,      \* keys of the node metadata that are generated out of the facts
    MetaKeys,      \* keys --node-meta may give
    NoData,        \* no snapshot is loaded
    MaxLines       \* bound on the lines read

VARIABLES
    phase,         \* "starting", "running" or "ended"
    interactive,   \* the input is a terminal
    given,         \* keys of --node-meta
    backend,       \* what evaluates queries
    connected,     \* the client session of a cluster backend is open
    snapshot,      \* data for :fact and :class
    quit,          \* :quit was given
    count,         \* [queries, matched, failed], for the exit code
    answers,       \* history: [failed, matched] of each query, as the nodes told it
    exit,          \* the exit code
    lines          \* lines read so far

vars == <<phase, interactive, given, backend, connected, snapshot, quit, count, answers,
          exit, lines>>

Cluster == [kind |-> "cluster", data |-> NoData, meta |-> <<>>]
Local(d, meta) == [kind |-> "local", data |-> d, meta |-> meta]
NoExit == 99

Init ==
    /\ phase = "starting"
    /\ interactive \in BOOLEAN
    /\ given \in SUBSET MetaKeys
    /\ backend = Cluster /\ connected = FALSE
    /\ snapshot = NoData
    /\ quit = FALSE
    /\ count = [queries |-> 0, matched |-> 0, failed |-> 0]
    /\ answers = {}
    /\ exit = NoExit
    /\ lines = 0

-----------------------------------------------------------------------------
(* Plausible bugs of the definitions below                                 *)

\* A match makes up for a failure.
ExitCodeLenient(c) ==
    CASE c.queries = 0 \/ c.matched > 0 -> 0
      [] c.failed > 0 -> 2
      [] OTHER -> 1

\* The backend that is replaced stays open.
SetBackendLeaking(b) ==
    /\ backend' = b
    /\ UNCHANGED connected

-----------------------------------------------------------------------------
(* Starting                                                                *)

\* NodeMetaFromFacts.
Generated == [k \in FactKeys |-> "facts"]

\* What a harness built by snap.Harness(meta) has in its node variable: nil generates it.
HarnessOf(meta) == IF meta = <<>> THEN Generated ELSE meta
FromFlags == [k \in given |-> "flag"]

\* The flags name no usable data, or there is no broker: the log and exit code 2.
StartFails ==
    /\ phase = "starting"
    /\ phase' = "ended" /\ exit' = 2
    /\ UNCHANGED <<interactive, given, backend, connected, snapshot, quit, count,
                   answers, lines>>

StartLocal(d) ==
    /\ phase = "starting"
    /\ phase' = "running"
    /\ snapshot' = d
    /\ backend' = Local(d, HarnessOf(FromFlags))
    /\ UNCHANGED <<interactive, given, connected, quit, count, answers, exit, lines>>

\* --snapshot may name a node; not getting its data is only logged.
StartCluster(d) ==
    /\ phase = "starting"
    /\ phase' = "running"
    /\ snapshot' = d
    /\ backend' = Cluster /\ connected' = TRUE
    /\ UNCHANGED <<interactive, given, quit, count, answers, exit, lines>>

-----------------------------------------------------------------------------
(* Queries                                                                 *)

\* A line is read and handled; the loop goes on unless it was :quit.
ReadLine == phase = "running" /\ ~quit /\ lines < MaxLines /\ lines' = lines + 1

\* What may come of a query: it does not parse; the cluster could not be asked, or stopped
\* being reachable half way; or so many nodes matched, did not match, failed.
Outcomes ==
    [syntax : {TRUE}, lost : {FALSE}, matched : {0}, noMatch : {0}, errors : {0}, silent : {FALSE}]
    \cup
    (IF backend.kind = "cluster"
     THEN [syntax : {FALSE}, lost : BOOLEAN, matched : 0..1, noMatch : 0..1, errors : 0..1,
           silent : BOOLEAN]
     ELSE {o \in [syntax : {FALSE}, lost : {FALSE}, matched : 0..1, noMatch : 0..1,
                  errors : 0..1, silent : {FALSE}] : o.matched + o.noMatch + o.errors = 1})

Responded(o) == o.matched + o.noMatch + o.errors

\* The counters of runQuery; a query that failed half way still counts for what it has.
Counted(c, o) ==
    IF o.syntax \/ (o.lost /\ Responded(o) = 0)
    THEN [c EXCEPT !.queries = @ + 1, !.failed = @ + 1]
    ELSE [queries |-> c.queries + 1,
          matched |-> c.matched + (IF o.matched > 0 THEN 1 ELSE 0),
          failed |-> c.failed + (IF o.lost THEN 1 ELSE 0) + (IF o.errors > 0 THEN 1 ELSE 0)
                              + (IF Responded(o) = 0 /\ ~o.silent THEN 1 ELSE 0)]

\* What a user would call a failure: no parse, no connection, an error on a node, or nobody
\* there to answer.
Failed(o) == o.syntax \/ o.lost \/ o.errors > 0 \/ (Responded(o) = 0 /\ ~o.silent)

\* On a local backend an expression that is not a boolean is one that does not match.
RunQuery(o) ==
    /\ ReadLine
    /\ count' = Counted(count, o)
    /\ answers' = answers \cup {[failed |-> Failed(o), matched |-> o.matched > 0]}
    /\ UNCHANGED <<phase, interactive, given, backend, connected, snapshot, quit, exit>>

-----------------------------------------------------------------------------
(* Meta commands                                                           *)

\* :snapshot load of a file, or :snapshot of a node: the cluster's, or the only one there is.
MetaSnapshot(d, fromFile) ==
    /\ ReadLine
    /\ fromFile \/ backend.kind = "cluster" \/ d = backend.data
    /\ snapshot' = d
    /\ UNCHANGED <<phase, interactive, given, backend, connected, quit, count, answers,
                   exit>>

\* Start from what the facts say, then apply the overrides.
HarnessMeta ==
    IF given = {} THEN <<>>
    ELSE [k \in FactKeys \cup given |-> IF k \in given THEN "flag" ELSE Generated[k]]

\* The old backend is closed.
SetBackend(b) ==
    /\ backend' = b
    /\ connected' = FALSE

\* :local with files, or on what is loaded.
MetaLocal(d) ==
    /\ ReadLine
    /\ snapshot' = d
    /\ SetBackend(Local(d, HarnessOf(HarnessMeta)))
    /\ UNCHANGED <<phase, interactive, given, quit, count, answers, exit>>

\* The files are read, and no harness can be built from them: the data is there to look at,
\* queries go where they went before.
MetaLocalFails(d) ==
    /\ ReadLine
    /\ snapshot' = d
    /\ UNCHANGED <<phase, interactive, given, backend, connected, quit, count, answers, exit>>

\* An empty line, a comment, a command that only shows something or sets the output format,
\* and one that is refused: an unknown one, and :cluster, as nobody sets Config.NewCluster.
OtherLine ==
    /\ ReadLine
    /\ UNCHANGED <<phase, interactive, given, backend, connected, snapshot, quit, count,
                   answers, exit>>

MetaQuit ==
    /\ ReadLine
    /\ quit' = TRUE
    /\ UNCHANGED <<phase, interactive, given, backend, connected, snapshot, count,
                   answers, exit>>

-----------------------------------------------------------------------------
(* Ending                                                                  *)

ExitCode(c) ==
    CASE c.failed > 0 -> 2
      [] c.failed = 0 /\ (c.queries = 0 \/ c.matched > 0) -> 0
      [] OTHER -> 1

\* :quit or the end of the input.  A session at a terminal has no exit code of its own.
End ==
    /\ phase = "running"
    /\ phase' = "ended"
    /\ connected' = FALSE
    /\ exit' = IF interactive THEN 0 ELSE ExitCode(count)
    /\ UNCHANGED <<interactive, given, backend, snapshot, quit, count, answers, lines>>

\* The input can not be read.
EndBadly ==
    /\ phase = "running" /\ ~quit
    /\ phase' = "ended"
    /\ connected' = FALSE
    /\ exit' = 2
    /\ UNCHANGED <<interactive, given, backend, snapshot, quit, count, answers, lines>>

Line ==
    \/ \E o \in Outcomes : RunQuery(o)
    \/ \E d \in Data, fromFile \in BOOLEAN : MetaSnapshot(d, fromFile)
    \/ \E d \in Data : MetaLocal(d) \/ MetaLocalFails(d)
    \/ OtherLine \/ MetaQuit

Next ==
    \/ StartFails \/ \E d \in Data : StartLocal(d)
    \/ \E d \in Data \cup {NoData} : StartCluster(d)
    \/ Line \/ End \/ EndBadly

Spec == Init /\ [][Next]_vars

-----------------------------------------------------------------------------
(* Properties                                                              *)

\* README:277, "the exit code is 0 when something matched, 1 when nothing did, 2 on error":
\* over all the queries of a script, whatever backend each of them ran on.  A failure is
\* never outvoted by a match, and a script without a query succeeds.
ExitCodeTells == (phase = "ended" /\ ~interactive /\ exit < 2) =>
    /\ \A o \in answers : ~o.failed
    /\ exit = IF answers = {} \/ \E o \in answers : o.matched THEN 0 ELSE 1

\* A session that went from the cluster to local data, and from one data set to another, is
\* sound: queries that go to the cluster have a connection that is open, one that nobody
\* uses any more is closed, and every local backend has the --node-meta overrides
\* (session_test.go:474, ":local rebuilds the harness and has to keep the override").
BackendIsSound == phase = "running" =>
    /\ connected <=> backend.kind = "cluster"
    /\ backend.kind = "local" =>
           \A k \in given : k \in DOMAIN backend.meta /\ backend.meta[k] = "flag"
===============================================================================
