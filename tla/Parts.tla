-------------------------------- MODULE Parts --------------------------------
(***************************************************************************)
(* The components that share no state with any other and that only safety  *)
(* is asked of, side by side: a behaviour is a behaviour of one of them,   *)
(* which focus names, and the others stay in one of their initial states.  *)
(* The state space is the sum of theirs, not the product.                  *)
(***************************************************************************)
EXTENDS Integers, Sequences

\* The parameters of each component; its module says what they are.
CONSTANTS
    Workers, Bad, Blank, None, paMaxWrites, paMaxAnswers,           \* PuppetAnswer
    dtMachines, dtMaxDowntime, dtMaxRequests,                       \* Downtime
    ipNodes, ipGroups, ipNames, ipAddrs, ipConfig, ipMaxCommands,   \* Ipset
    sfSavers, sfLoaders, sfBare, nobody,                            \* SnapshotFile
    cbNodes, cbMaxEvals,                                            \* ClusterBackend
    rlData, rlFactKeys, rlMetaKeys, noData, rlMaxLines,             \* Repl
    roNodes, roHere, roErrorTexts, roStreamLimit, roMaxLines,       \* ReplOutput
    coFactTrees, coValues, coNames, coAtoi, coIndexes, coClasses, coMaxTokens \* Completion

VARIABLES
    focus,                                            \* the component that moves
    paFile, paWrites, paCache, paWorker,              \* PuppetAnswer
    paAt, paPointer, paLooked, paSent, paSince, paLoaded, paHad, paAnswers,
    dtQueue, dtApi, dtScheduled, dtSent,              \* Downtime
    ipSent, ipCommands, ipFeed, ipListens, ipContent, ipSpoilt,   \* Ipset
    sfStage, sfTemp, sfFile, sfSaved, sfLoaded,       \* SnapshotFile
    cbVersion, cbView, cbTruth, cbMode, cbWaiting, cbOut, cbSum, cbEvals,  \* ClusterBackend
    rlPhase, rlInteractive, rlGiven, rlBackend, rlConnected, rlSnapshot, rlQuit,  \* Repl
    rlCount, rlAnswers, rlExit, rlLines,
    roFormat, roVerbose, roStream, roCsvHeader, roAsking, roResults,  \* ReplOutput
    roStreamed, roSuppressed, roListed, roPage, roSheet, roLines,
    coFacts, coText, coCalls, coClass                 \* Completion

paVars == <<paFile, paWrites, paCache, paWorker, paAt, paPointer, paLooked, paSent, paSince,
            paLoaded, paHad, paAnswers>>
dtVars == <<dtQueue, dtApi, dtScheduled, dtSent>>
ipVars == <<ipSent, ipCommands, ipFeed, ipListens, ipContent, ipSpoilt>>
sfVars == <<sfStage, sfTemp, sfFile, sfSaved, sfLoaded>>
cbVars == <<cbVersion, cbView, cbTruth, cbMode, cbWaiting, cbOut, cbSum, cbEvals>>
rlVars == <<rlPhase, rlInteractive, rlGiven, rlBackend, rlConnected, rlSnapshot, rlQuit,
            rlCount, rlAnswers, rlExit, rlLines>>
roVars == <<roFormat, roVerbose, roStream, roCsvHeader, roAsking, roResults, roStreamed,
            roSuppressed, roListed, roPage, roSheet, roLines>>
coVars == <<coFacts, coText, coCalls, coClass>>
vars == <<focus, paVars, dtVars, ipVars, sfVars, cbVars, rlVars, roVars, coVars>>

-----------------------------------------------------------------------------
(* The components                                                          *)

PA == INSTANCE PuppetAnswer WITH
    MaxWrites <- paMaxWrites, MaxAnswers <- paMaxAnswers,
    file <- paFile, writes <- paWrites, cache <- paCache, worker <- paWorker,
    at <- paAt, pointer <- paPointer, looked <- paLooked, sent <- paSent, since <- paSince,
    loaded <- paLoaded, had <- paHad, answers <- paAnswers

DT == INSTANCE Downtime WITH
    Machines <- dtMachines, MaxDowntime <- dtMaxDowntime, MaxRequests <- dtMaxRequests,
    queue <- dtQueue, api <- dtApi, scheduled <- dtScheduled, sent <- dtSent

IP == INSTANCE Ipset WITH
    Nodes <- ipNodes, Groups <- ipGroups, Names <- ipNames, Addrs <- ipAddrs,
    Config <- ipConfig, MaxCommands <- ipMaxCommands,
    sent <- ipSent, commands <- ipCommands, feed <- ipFeed, listens <- ipListens,
    content <- ipContent,
    spoilt <- ipSpoilt

SF == INSTANCE SnapshotFile WITH
    Savers <- sfSavers, Loaders <- sfLoaders, Bare <- sfBare, Nobody <- nobody,
    stage <- sfStage, temp <- sfTemp, file <- sfFile, saved <- sfSaved, loaded <- sfLoaded

CB == INSTANCE ClusterBackend WITH
    Nodes <- cbNodes, MaxEvals <- cbMaxEvals,
    version <- cbVersion, view <- cbView, truth <- cbTruth, mode <- cbMode,
    waiting <- cbWaiting, out <- cbOut, sum <- cbSum, evals <- cbEvals

RL == INSTANCE Repl WITH
    Data <- rlData, FactKeys <- rlFactKeys, MetaKeys <- rlMetaKeys,
    NoData <- noData, MaxLines <- rlMaxLines,
    phase <- rlPhase, interactive <- rlInteractive, given <- rlGiven, backend <- rlBackend,
    connected <- rlConnected, snapshot <- rlSnapshot, quit <- rlQuit, count <- rlCount,
    answers <- rlAnswers, exit <- rlExit, lines <- rlLines

RO == INSTANCE ReplOutput WITH
    Nodes <- roNodes, Here <- roHere, ErrorTexts <- roErrorTexts,
    StreamLimit <- roStreamLimit, MaxLines <- roMaxLines,
    format <- roFormat, verbose <- roVerbose, stream <- roStream, csvHeader <- roCsvHeader,
    asking <- roAsking, results <- roResults, streamed <- roStreamed,
    suppressed <- roSuppressed, listed <- roListed, page <- roPage, sheet <- roSheet,
    lines <- roLines

CO == INSTANCE Completion WITH
    FactTrees <- coFactTrees, Values <- coValues, Names <- coNames, Atoi <- coAtoi, Indexes <- coIndexes,
    Classes <- coClasses, MaxTokens <- coMaxTokens,
    facts <- coFacts, text <- coText, calls <- coCalls, class <- coClass

ASSUME PartsAssumption ==
    /\ PA!BoundAssumption /\ PA!SentinelAssumption /\ PA!AnswersAssumption
    /\ DT!MachinesAssumption /\ DT!LimitAssumption
    /\ IP!ConfigAssumption /\ IP!OneGroupAssumption
    /\ SF!BareAssumption
    /\ CB!FleetAssumption
    /\ RO!LimitAssumption
    /\ CO!TreesAssumption /\ CO!ValuesAssumption /\ CO!NamesAssumption /\ CO!ClassesAssumption

-----------------------------------------------------------------------------
Focuses == {"puppetAnswer", "downtime", "ipset", "snapshotFile", "clusterBackend", "repl",
            "replOutput", "completion"}

\* A component that does not move is in the initial state that shows the least.
Init ==
    /\ focus \in Focuses
    /\ PA!AnswerInit /\ (focus # "puppetAnswer" => paFile = [d \in PA!Data |-> Bad])
    /\ DT!Init /\ IP!Init
    /\ SF!Init /\ (focus # "snapshotFile" => sfFile = SF!NoFile)
    /\ CB!Init /\ (focus # "clusterBackend" => cbVersion = [n \in cbNodes |-> "new"])
    /\ RL!Init /\ (focus # "repl" => ~rlInteractive /\ rlGiven = {})
    /\ RO!Init /\ (focus # "replOutput" => roFormat = "human" /\ ~roVerbose /\ ~roStream)
    /\ CO!Init

Next ==
    \/ focus = "puppetAnswer" /\ PA!AnswerNext
       /\ UNCHANGED <<focus, dtVars, ipVars, sfVars, cbVars, rlVars, roVars, coVars>>
    \/ focus = "downtime" /\ DT!Next
       /\ UNCHANGED <<focus, paVars, ipVars, sfVars, cbVars, rlVars, roVars, coVars>>
    \/ focus = "ipset" /\ IP!Next
       /\ UNCHANGED <<focus, paVars, dtVars, sfVars, cbVars, rlVars, roVars, coVars>>
    \/ focus = "snapshotFile" /\ SF!Next
       /\ UNCHANGED <<focus, paVars, dtVars, ipVars, cbVars, rlVars, roVars, coVars>>
    \/ focus = "clusterBackend" /\ CB!Next
       /\ UNCHANGED <<focus, paVars, dtVars, ipVars, sfVars, rlVars, roVars, coVars>>
    \/ focus = "repl" /\ RL!Next
       /\ UNCHANGED <<focus, paVars, dtVars, ipVars, sfVars, cbVars, roVars, coVars>>
    \/ focus = "replOutput" /\ RO!Next
       /\ UNCHANGED <<focus, paVars, dtVars, ipVars, sfVars, cbVars, rlVars, coVars>>
    \/ focus = "completion" /\ CO!Next
       /\ UNCHANGED <<focus, paVars, dtVars, ipVars, sfVars, cbVars, rlVars, roVars>>

Spec == Init /\ [][Next]_vars

-----------------------------------------------------------------------------
(* The properties of the components, whose modules say what they mean      *)
(* A component that does not move is where it may be initially.            *)

\* query.go:60, server.go:192, facts_test.go:47: an expression sees one version of the facts
\* and one of the classes, of the time its request was handled, and nothing is answered out of
\* facts or classes that a broken file blanked.
AnswersAreSound == focus = "puppetAnswer" => PA!AnswersAreSound

\* downtime.go:89: only a host itself gets downtime scheduled for it.
OnlyItself == focus = "downtime" => DT!OnlyItself

\* README:428: an entry of a set that missed no command on it, from being away while another
\* came, is what the commands of its group made.
InSync == focus = "ipset" => IP!InSync

\* snapshot.go:142-187: what is loaded was saved whole, and was never readable by others.
SavesAreSafe == focus = "snapshotFile" => SF!SavesAreSafe

\* eval_cluster.go:60: what a summary counts is what the nodes evaluated.
SummaryIsTrue == focus = "clusterBackend" => CB!SummaryIsTrue

\* README:277: the exit code of a script is about all of its queries.
ExitCodeTells == focus = "repl" => RL!ExitCodeTells

\* session_test.go:474: no change of the backend leaks a connection or loses the overrides.
BackendIsSound == focus = "repl" => RL!BackendIsSound

\* session.go:29, format.go: every node that answered is printed, summed up or counted as
\* not listed, once.
OutputAddsUp == focus = "replOutput" => RO!OutputAddsUp

\* data.go:13: what TAB offers is what the query will find.
CompletionsResolve == focus = "completion" => CO!CompletionsResolve
==============================================================================
