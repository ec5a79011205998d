-------------------------------- MODULE Loops --------------------------------
(***************************************************************************)
(* The components that are loops of goroutines which share no state with   *)
(* another component, side by side: what each of them must get done        *)
(* eventually, and never do.  A behaviour is a behaviour of the one that   *)
(* focus names; the others stay in one of their initial states.            *)
(***************************************************************************)
EXTENDS Integers, Sequences

\* The parameters of each component; its module says what they are.
CONSTANTS
    Workers, Bad, Blank, psMaxWrites,                       \* PuppetState
    doHosts, doInitialWait, doIdleWait,                     \* DiscoverOnce
    dmSets, dmIcinga, dmMaxHups,                            \* Daemon
    hvHosts, None, Noise, Nameless, hvMaxFaults, hvMaxLines \* HvmInfo

VARIABLES
    focus,                                              \* the component that moves
    psFile, psWrites, psCache, psWorker,                \* PuppetState
    doLeft, doWire, doStarted, doActive, doStale, doDone,  \* DiscoverOnce
    dmMain, dmListener, dmHealth, dmWeb, dmExitCh,      \* Daemon
    dmHups, dmHupCh, dmHup, dmFallback, dmCode,
    hvHost, hvVisited, hvFaults, hvServer, hvPath, hvAsked, hvLine,  \* HvmInfo
    hvReader, hvInfo, hvTemp, hvFact, hvTorn

psVars == <<psFile, psWrites, psCache, psWorker>>
doVars == <<doLeft, doWire, doStarted, doActive, doStale, doDone>>
dmVars == <<dmMain, dmListener, dmHealth, dmWeb, dmExitCh, dmHups, dmHupCh, dmHup, dmFallback,
            dmCode>>
hvVars == <<hvHost, hvVisited, hvFaults, hvServer, hvPath, hvAsked, hvLine, hvReader, hvInfo,
            hvTemp, hvFact, hvTorn>>
vars == <<focus, psVars, doVars, dmVars, hvVars>>

-----------------------------------------------------------------------------
(* The components                                                          *)

PS == INSTANCE PuppetState WITH
    MaxWrites <- psMaxWrites,
    file <- psFile, writes <- psWrites, cache <- psCache, worker <- psWorker

DO == INSTANCE DiscoverOnce WITH
    Hosts <- doHosts, InitialWait <- doInitialWait, IdleWait <- doIdleWait,
    left <- doLeft, wire <- doWire, started <- doStarted, active <- doActive,
    stale <- doStale, done <- doDone

DM == INSTANCE Daemon WITH
    Sets <- dmSets, Icinga <- dmIcinga, MaxHups <- dmMaxHups,
    main <- dmMain, listener <- dmListener, health <- dmHealth, web <- dmWeb,
    exitCh <- dmExitCh, hups <- dmHups, hupCh <- dmHupCh, hup <- dmHup,
    fallback <- dmFallback, code <- dmCode

HV == INSTANCE HvmInfo WITH
    Hosts <- hvHosts, MaxFaults <- hvMaxFaults, MaxLines <- hvMaxLines,
    host <- hvHost, visited <- hvVisited, faults <- hvFaults, server <- hvServer,
    path <- hvPath, asked <- hvAsked, line <- hvLine, reader <- hvReader, info <- hvInfo,
    temp <- hvTemp, fact <- hvFact, torn <- hvTorn

ASSUME LoopsAssumption ==
    /\ PS!BoundAssumption /\ PS!SentinelAssumption
    /\ DO!WaitAssumption
    /\ DM!ConfigAssumption /\ DM!NamesAssumption
    /\ HV!BoundsAssumption /\ HV!NamesAssumption

-----------------------------------------------------------------------------
Focuses == {"puppetState", "discoverOnce", "daemon", "hvmInfo"}

\* A component that does not move is in the initial state that shows the least.
Init ==
    /\ focus \in Focuses
    /\ PS!Init /\ (focus # "puppetState" => psFile = [d \in PS!Data |-> Bad])
    /\ DO!Init /\ DM!Init
    /\ HV!Init /\ (focus # "hvmInfo" => /\ hvHost = CHOOSE h \in hvHosts : TRUE
                                        /\ ~hvPath
                                        /\ hvServer = [h \in hvHosts |-> "up"])

\* A step A of one component.
PSStep(A) == focus = "puppetState" /\ A /\ UNCHANGED <<focus, doVars, dmVars, hvVars>>
DOStep(A) == focus = "discoverOnce" /\ A /\ UNCHANGED <<focus, psVars, dmVars, hvVars>>
DMStep(A) == focus = "daemon" /\ A /\ UNCHANGED <<focus, psVars, doVars, hvVars>>
HVStep(A) == focus = "hvmInfo" /\ A /\ UNCHANGED <<focus, psVars, doVars, dmVars>>

Next == PSStep(PS!Next) \/ DOStep(DO!Next) \/ DMStep(DM!Next) \/ HVStep(HV!Next)

Spec == Init /\ [][Next]_vars

-----------------------------------------------------------------------------
(* The properties of the components, whose modules say what they mean      *)

\* server.go:296-336: a file that stays whole is what the node ends up answering from, although
\* two workers overwrite each other's data and other files may stay broken.
Converges == PS!Converges

\* discovery.go:74: a discovery run ends however many heartbeats keep coming, and neither it
\* nor one that ended blocks the transport's reader.
DiscoveryEnds == ((focus = "discoverOnce") ~> doDone) /\ DO!ReaderNeverBlocks

\* README:322: a module whose health is ok is listening.
HealthIsHonest == DM!HealthIsHonest

\* cobra.go:70-83: a HUP ends the process, wherever the main goroutine is.
HupEndsIt == DM!HupEndsIt

\* daemon.go: a module that lost its channel listens again.
ListenersComeBack == DM!ListenersComeBack

\* hvminfo/client.go:58-69: the fact file is complete and of a host the VM was on.
FactIsSound == HV!FactIsSound

\* README:468: a VM that stays where it is ends up with the fact of that host.
FactFollows == HV!FactFollows
==============================================================================
