-------------------------------- MODULE Daemon --------------------------------
(***************************************************************************)
(* The rvd process: start-up, the listener loops of its modules, the       *)
(* health it reports and how it exits.  cmd/rvd/cobra.go, cmd/rvd/rvd.go   *)
(* and daemon/daemon.go (New).                                             *)
(*                                                                         *)
(* daemon.New starts one goroutine per listener and returns; main then     *)
(* waits for the exit channel.  A HUP goroutine asks for the exit and sets *)
(* a last-resort timer.  The downtime listener is not a goroutine: it runs *)
(* in New itself.                                                          *)
(***************************************************************************)
EXTENDS Naturals, Sequences

CONSTANTS
    Sets,         \* configured ipset sets, each with a listener of its own
    Icinga,       \* the downtime module: "off", "down" (API out of reach) or "up"
    MaxHups       \* bound on the HUP signals

ConfigAssumption == Icinga \in {"off", "down", "up"} /\ MaxHups \in Nat

\* The health component each listener reports to: the sets share one.
Listeners == {"puppet", "fence"} \cup Sets
Component(l) == IF l \in Sets THEN "ipset" ELSE l
Components == {Component(l) : l \in Listeners} \cup {"icinga"}

NamesAssumption == Sets \cap {"puppet", "fence", "ipset", "icinga"} = {}

VARIABLES
    main,         \* where the main goroutine is
    listener,     \* where each listener goroutine is
    health,       \* mon.GlobalStatus, by component
    web,          \* the status socket is served
    exitCh,       \* chan int with room for one
    hups,         \* HUP signals so far
    hupCh,        \* a HUP waits in the signal channel, which has room for one
    hup,          \* where the HUP goroutine is
    fallback,     \* the last-resort timer is armed
    code          \* the exit code, Running while there is none

vars == <<main, listener, health, web, exitCh, hups, hupCh, hup, fallback, code>>

Running == 2
Alive == code = Running

TypeOK ==
    /\ main \in {"connecting", "puppet", "icinga", "downtime", "downtimePause", "web",
                 "failed", "waiting"}
    /\ listener \in [Listeners -> {"off", "connecting", "listening", "pause"}]
    /\ health \in [Components -> {"none", "unknown", "ok", "critical"}]
    /\ web \in BOOLEAN
    /\ exitCh \in Seq({0, 1}) /\ Len(exitCh) <= 1
    /\ hups \in 0..MaxHups /\ hupCh \in BOOLEAN
    /\ hup \in {"idle", "minute", "sending"}
    /\ fallback \in BOOLEAN
    /\ code \in {0, 1, Running}

Init ==
    /\ main = "connecting"
    /\ listener = [l \in Listeners |-> "off"]
    /\ health = [c \in Components |-> "none"]
    /\ web = FALSE
    /\ exitCh = <<>>
    /\ hups = 0 /\ hupCh = FALSE /\ hup = "idle" /\ fallback = FALSE
    /\ code = Running

-----------------------------------------------------------------------------
(* Plausible bugs of the actions below, put in their place to see that the *)
(* properties notice them                                                  *)

\* A listener that lost its channel does not report it.
DisconnectUnreported(l) ==
    /\ Alive /\ listener[l] = "listening"
    /\ listener' = [listener EXCEPT ![l] = "pause"]
    /\ UNCHANGED <<main, health, web, exitCh, hups, hupCh, hup, fallback, code>>

\* A listener that lost its channel is not started again.
RetryNever(l) ==
    /\ Alive /\ listener[l] = "pause"
    /\ UNCHANGED vars

\* HUP relies on the exit channel alone.
HupElapsesUnguarded ==
    /\ Alive /\ hup = "minute"
    /\ hup' = "sending"
    /\ UNCHANGED <<main, listener, health, web, exitCh, hups, hupCh, fallback, code>>

-----------------------------------------------------------------------------
(* main: rootCmd.Run and daemon.New                                        *)

\* common.NewNode.
Connect ==
    /\ Alive /\ main = "connecting"
    /\ main' \in {"puppet", "failed"}
    /\ UNCHANGED <<listener, health, web, exitCh, hups, hupCh, hup, fallback, code>>

\* puppet.New; then the listener goroutines are started, one per module and, if ipset.New
\* works, one per set.
StartModules ==
    /\ Alive /\ main = "puppet"
    /\ \/ /\ main' = "failed"
          /\ UNCHANGED <<listener, health>>
       \/ /\ main' = "icinga"
          /\ \E ipset \in BOOLEAN :
                 /\ listener' = [l \in Listeners |->
                        IF l \in Sets /\ ~ipset THEN "off" ELSE "connecting"]
                 /\ health' = [c \in Components |->
                        CASE c = "icinga" -> "none"
                          [] c = "ipset" /\ ~ipset -> "critical"
                          [] OTHER -> "unknown"]
    /\ UNCHANGED <<web, exitCh, hups, hupCh, hup, fallback, code>>

\* NewDowntimeServer, where it is configured.
StartIcinga ==
    /\ Alive /\ main = "icinga"
    /\ main' = IF Icinga = "up" THEN "downtime" ELSE "web"
    /\ health' = [health EXCEPT !["icinga"] =
           CASE Icinga = "off" -> "none" [] Icinga = "down" -> "critical" [] Icinga = "up" -> "unknown"]
    /\ UNCHANGED <<listener, web, exitCh, hups, hupCh, hup, fallback, code>>

\* The downtime loop: subscribe and serve, or give up for good.
DowntimeListens ==
    /\ Alive /\ main = "downtime" /\ health["icinga"] # "ok"
    /\ \/ health' = [health EXCEPT !["icinga"] = "ok"] /\ UNCHANGED main
       \/ health' = [health EXCEPT !["icinga"] = "critical"] /\ main' = "web"
    /\ UNCHANGED <<listener, web, exitCh, hups, hupCh, hup, fallback, code>>

\* Its channel is closed; after a minute it subscribes again.
DowntimeEnds ==
    /\ Alive /\ main = "downtime" /\ health["icinga"] = "ok"
    /\ health' = [health EXCEPT !["icinga"] = "critical"]
    /\ main' = "downtimePause"
    /\ UNCHANGED <<listener, web, exitCh, hups, hupCh, hup, fallback, code>>

DowntimeRetries ==
    /\ Alive /\ main = "downtimePause"
    /\ main' = "downtime"
    /\ UNCHANGED <<listener, health, web, exitCh, hups, hupCh, hup, fallback, code>>

\* The web goroutine is the last thing New starts.
StartWeb ==
    /\ Alive /\ main = "web"
    /\ web' = TRUE
    /\ main' = "waiting"
    /\ UNCHANGED <<listener, health, exitCh, hups, hupCh, hup, fallback, code>>

\* New returned an error: exit <- 1, which waits for room.
SendFailure ==
    /\ Alive /\ main = "failed"
    /\ exitCh = <<>>
    /\ exitCh' = <<1>>
    /\ main' = "waiting"
    /\ UNCHANGED <<listener, health, web, hups, hupCh, hup, fallback, code>>

\* os.Exit(<-exit)
Exit ==
    /\ Alive /\ main = "waiting"
    /\ exitCh # <<>>
    /\ code' = Head(exitCh)
    /\ exitCh' = Tail(exitCh)
    /\ UNCHANGED <<main, listener, health, web, hups, hupCh, hup, fallback>>

-----------------------------------------------------------------------------
(* The listener goroutines                                                 *)

\* GetEventsCh works and the module's EventListener runs, or it does not.
Subscribe(l) ==
    /\ Alive /\ listener[l] = "connecting"
    /\ listener' = [listener EXCEPT ![l] = "listening"]
    /\ health' = [health EXCEPT ![Component(l)] = "ok"]
    /\ UNCHANGED <<main, web, exitCh, hups, hupCh, hup, fallback, code>>

SubscribeFails(l) ==
    /\ Alive /\ listener[l] = "connecting"
    /\ listener' = [listener EXCEPT ![l] = "pause"]
    /\ health' = [health EXCEPT ![Component(l)] = "critical"]
    /\ UNCHANGED <<main, web, exitCh, hups, hupCh, hup, fallback, code>>

\* EventListener returns: the channel was closed.
Disconnect(l) ==
    /\ Alive /\ listener[l] = "listening"
    /\ listener' = [listener EXCEPT ![l] = "pause"]
    /\ health' = [health EXCEPT ![Component(l)] = "critical"]
    /\ UNCHANGED <<main, web, exitCh, hups, hupCh, hup, fallback, code>>

\* The sleep before the next try is over.
Retry(l) ==
    /\ Alive /\ listener[l] = "pause"
    /\ listener' = [listener EXCEPT ![l] = "connecting"]
    /\ UNCHANGED <<main, health, web, exitCh, hups, hupCh, hup, fallback, code>>

-----------------------------------------------------------------------------
(* HUP                                                                     *)

\* signal.Notify drops what does not fit.
Hup ==
    /\ Alive /\ hups < MaxHups
    /\ hups' = hups + 1
    /\ hupCh' = TRUE
    /\ UNCHANGED <<main, listener, health, web, exitCh, hup, fallback, code>>

HupTaken ==
    /\ Alive /\ hup = "idle" /\ hupCh
    /\ hupCh' = FALSE
    /\ hup' = "minute"
    /\ UNCHANGED <<main, listener, health, web, exitCh, hups, fallback, code>>

\* The minute is over: the last-resort timer is set and the exit asked for.
HupElapses ==
    /\ Alive /\ hup = "minute"
    /\ hup' = "sending"
    /\ fallback' = TRUE
    /\ UNCHANGED <<main, listener, health, web, exitCh, hups, hupCh, code>>

HupSends ==
    /\ Alive /\ hup = "sending"
    /\ exitCh = <<>>
    /\ exitCh' = <<0>>
    /\ hup' = "idle"
    /\ UNCHANGED <<main, listener, health, web, hups, hupCh, fallback, code>>

\* Five minutes later, which is ample for a main goroutine that is on its way to wait for
\* the exit, but not for one that never gets there.
Fallback ==
    /\ Alive /\ fallback
    /\ main \in {"downtime", "downtimePause"} \/ (main = "failed" /\ exitCh # <<>>)
    /\ code' = 0
    /\ fallback' = FALSE
    /\ UNCHANGED <<main, listener, health, web, exitCh, hups, hupCh, hup>>

-----------------------------------------------------------------------------
Main == \/ Connect \/ StartModules \/ StartIcinga \/ StartWeb
        \/ DowntimeListens \/ DowntimeRetries
        \/ SendFailure \/ Exit

HupLoop == HupTaken \/ HupElapses \/ HupSends \/ Fallback

Next == \/ Main \/ DowntimeEnds
        \/ Hup \/ HupLoop
        \/ \E l \in Listeners : Subscribe(l) \/ SubscribeFails(l) \/ Disconnect(l) \/ Retry(l)

Spec == Init /\ [][Next]_vars

\* Goroutines run.  Nobody has to send a HUP, no channel has to close; a broker that is
\* asked over and over does not refuse every subscription.
Fairness ==
    /\ WF_vars(Main) /\ WF_vars(HupTaken) /\ WF_vars(HupElapses) /\ WF_vars(HupSends)
    /\ WF_vars(Fallback)
    /\ \A l \in Listeners : WF_vars(Retry(l)) /\ SF_vars(Subscribe(l))

FairSpec == Spec /\ Fairness

-----------------------------------------------------------------------------
(* Properties                                                              *)

\* README:322, health tells that the "modules are alive": a module that has its health
\* component to itself is listening when it says ok, over any number of reconnects.
HealthIsHonest ==
    /\ \A l \in Listeners \ Sets : health[Component(l)] = "ok" => listener[l] = "listening"
    /\ health["icinga"] = "ok" => main = "downtime"

\* A HUP ends the process, whatever main is doing at the time, also when several come and
\* the exit channel is full already.
HupEndsIt == (hups > 0) ~> ~Alive

\* A module that lost its channel listens again, as long as the process lives.
ListenersComeBack == \A l \in Listeners :
    (listener[l] = "pause") ~> (listener[l] = "listening" \/ ~Alive)
===============================================================================
