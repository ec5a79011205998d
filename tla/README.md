# rodrev in TLA+

Specifications of rodrev, the fleet tool around puppet: the daemon `rvd` on every node, the
client `rv`, and what they say to each other over MQTT. The modules are translated from the Go
source; TLC checks them on small instances and TLAPS proves the safety properties of them for
every instance. `PROJECT.json` gives the source lines behind every definition, the mutation that
breaks every property, and the hazards the properties are for.

## The system and its parts

`rvd` (cmd/rvd, daemon/) connects to the broker through go-zerosvc, announces itself with a
retained heartbeat and runs up to four modules: puppet, fencing, ipset and downtime. `rv`
(cmd/rv, client/) sends requests on topics, collects the replies that come back on a topic of its
own, and learns from the heartbeats which nodes there are. Nothing else connects the two: no
node knows another, nothing is acknowledged beyond the broker, and every reply can be late,
doubled or missing.

| part | state it keeps | operations | what is hard about it | what makes it correct |
|---|---|---|---|---|
| puppet runner (plugin/puppet/run.go) | run semaphore, `RunStatus` flags | accept or refuse a run, delay, attach pipes, start, read output, reset, release | listener, run goroutine, two readers and the agent process interleave; early returns | one run at a time, a status that is of the run, the slot comes back, the listener never waits |
| puppet state readers (facts.go, classes.go, lastrun-schema.go) | facts, classes, last run | two background workers re-read files the agent rewrites | half-written files; an older read stored last; a request that reads while data is replaced | an expression sees one version of the facts, no answer is made of blanked facts or classes; what is on disk for good is what is served in the end |
| puppet request handler (server.go) | none of its own | decide who is addressed, evaluate the filter, execute, answer or stay silent | broadcast, own and foreign unicasts, prefixes | a run happens where, when and as it was meant, counted requests are answered |
| RPC session (client/session.go) | table of calls, their buffers, closed | Call, route, Close | replies after a timeout, full buffers, Close at any time | calls are isolated, the router never blocks, every call returns |
| fleet queries (client/query.go) | outcome lists and counts | FilterMatch, Query, streams, dumps | redelivery, reordering, data that changes between two answers | counts are of nodes, lists are what the nodes saw |
| presence (common/mq.go, go-zerosvc) | retained heartbeats on the broker | start, check in, leave, vanish | a restart leaves an old entry behind | (shared by the next three) |
| heartbeat cleanup (daemon/heartbeat-cleanup.go) | cache of the topics | follow, pass, remove, forget | works on a copy while messages arrive; removals fail | own presence stays, the abandoned goes |
| node watcher (client/watch.go) | last heartbeat per topic | clear, see, Discovery | two entries for one node | the view is what is retained; a live node is active |
| one-shot discovery (client/discovery.go) | nodes seen, deadline | read, extend, return, drain | heartbeats that never stop, nobody reading afterwards | it returns; the transport is never blocked |
| daemon (daemon/daemon.go, cmd/rvd) | module health, exit channel of one | start, subscribe, lose, retry, HUP, exit | goroutines and main around a channel of one | health is honest, HUP ends it, listeners come back |
| fencing (plugin/fence, sysrq, fence_rvd.pl) | configuration, the file systems | check permission, remount, reboot, answer; send, give up, retry | timeouts on three levels, lost replies | no node is fenced by accident; success means read only |
| downtime (downtime/) | requests, the Icinga session | validate, schedule | names from three sources | a host puts only itself into downtime |
| ipset (plugin/ipset) | one kernel set per configured set | add, delete, broadcast | commands in flight, resubscription | the sets of a group agree, entry by entry, for who missed nothing about the entry |
| query repl (query/repl, cmd query) | backend, data, counts | query, `:local`, `:snapshot`, end | a switch that fails half way | backend and data agree, the exit code tells |
| cluster backend (eval_cluster.go) | the watcher's view, results | query or filter, deadline, summary | old and new daemons mixed, upgraded while asked | counts are what the nodes evaluated |
| snapshots (plugin/puppet/snapshot.go) | a file and its temporary | save, load | concurrent saves, failing steps, kill | a load gives something that was saved whole |
| output of the repl (format.go) | counters of the query, format, verbosity, headers written | stream, sum up, tabulate; `:out`, `:verbose` | a list that is cut while results arrive, settings that change between queries | every node that answered is accounted for once |
| completion and lookups (complete.go, data.go, query/functions.go) | the loaded facts and classes | walk a path, children of a path, complete a string | two walkers of the same tree, expressions that are not finished | what is offered is what the query will find |
| hvminfo (hvminfo/) | the fact file and its temporary | ask, answer; read a line, write, rename | a lossy line, migration, failing disk, kill | the fact is of a host the VM was on, and whole unless its own write failed; in the end of the one it is on |
| web, terminal, configuration, wiring | | | | not or only partly modelled, see below |

## Modules and how they correspond to the code

| module | models | state and actions |
|---|---|---|
| `RunSlot` | abstract: what a node promises about runs | `Accept`, `End` on one slot |
| `PuppetRun` | `Puppet.Run` and `run` | `runLock` is the semaphore, `runStatus` the struct, `pc` the run goroutine, `listener` the caller of Run, `readers` the two scanners. One action per region between two lock operations. The agent is external: it prints, exits, or sticks on a pipe nobody reads |
| `PuppetRunProofs` | proofs about `PuppetRun` | |
| `PuppetState` | `backgroundWorker` and the Update functions | `worker` is where each worker is in its pass; `Read`, then `Store` or `Skip`, so that two workers interleave between reading and storing. A file is whole, cut off, cut off ahead of its first value, or unusable, and `Parsed` is what each parser makes of it |
| `PuppetAnswer` | a request answered from that data | extends `PuppetState`; `pointer` is the map each data function of the sandbox was given, `looked` what the expression saw, `sent` what the result was made of |
| `PuppetDispatch` | `HandleEvent` and all it calls | operators, no state: what a node does with a request, from the topic, the command, the flags and the result of the filter |
| `OneRequest` | one request and every node's handling of it | composes `PuppetDispatch` over a fleet |
| `RunCommand` | `rv puppet run` | extends `OneRequest`: flags, defaults, refusal, publish |
| `RunCommandProofs` | proofs about `RunCommand` and the dispatch beneath it | |
| `Session` | client/session.go | `calls` is the table, `sinks` the buffers, `ch` the subscription, `router` the reply between lookup and hand-over |
| `SessionProofs` | proofs about `Session` | |
| `FleetRpc` | the operations of client/query.go with a fleet behind a broker | extends `Session` and `PuppetDispatch`; requests are redelivered, replies doubled and reordered, data changes; `outcome` is what the closure of each client function has counted and listed so far, brought up to date by every `Receive`. Its client side implements `Session` |
| `FleetRpcProofs` | proofs about `FleetRpc` | |
| `Presence` | heartbeats of a fleet on the broker | every start has a topic of its own, as a node name has a uuid |
| `HeartbeatCleanup` | daemon/heartbeat-cleanup.go | extends `Presence`; follow goroutine and pass goroutine, the pass on its copy |
| `NodeWatcher` | client/watch.go | extends `Presence`; `view` is `w.nodes` |
| `PresenceProofs` | proofs about `Presence`, `HeartbeatCleanup` and `NodeWatcher` | |
| `DiscoverOnce` | `DiscoverOnce` in client/discovery.go | `left` is the time to the deadline |
| `Daemon` | daemon.New and the main of rvd | `main`, the listeners, `health`, `exitCh` |
| `Fence` | client, agent script, handler, goroutine | `queue` is the listener's channel, `self` the goroutine of each request |
| `FenceProofs` | proofs about `Fence` | |
| `HvmInfo` | both goroutines of the client, the UDP server, the line between them | `reader` is where the reading loop is, `temp` and `fact` the two files; truncating and writing are two steps |
| `ReplOutput` | format.go and the part of `runQuery` that feeds it | `streamed`, `suppressed`, `csvHeader` as in the session; `page` what the end of a query printed |
| `Completion` | complete.go, data.go, query/functions.go | the two walks, loops of the code, are recursive functions; the completions are operators over them; the state is an expression that is typed token by token |
| `Downtime`, `Ipset`, `ClusterBackend`, `Repl`, `SnapshotFile` | as in the table above | one action per operation |
| `Parts`, `Loops` | | sums of components, see below |
| `PartsProofs`, `LoopsProofs` | proofs about their components | |
| `MC...` | | instances for TLC, and the fairness of `Loops` in `MCLoops` |

Data is abstracted to what the properties tell apart. A filter is the result of evaluating it
(true, false, another value, a failure), facts are a version, a reply is its id, its node and
what the node saw, time is a small number of ticks. Topics keep their structure as sequences of elements,
because addressing compares elements; machine names keep theirs because downtime requests are
matched on the short name.

External, and modelled from how the code uses it: the MQTT broker and go-zerosvc (presence,
delivery), the puppet agent, the kernel behind sysrq and ipset, the Icinga API, the clock.

## What TLC checks

Run a configuration with `tlc -workers 2 -config X.cfg M`, where `M` is the module of the same name
(`MCPuppetRunBusy` is a configuration of `MCPuppetRun`, `MCFenceExit` of `MCFence`,
`MCFleetRpcCoverage` of `MCFleetRpc`).

| run | instance | distinct states | shows |
|---|---|---|---|
| `MCPuppetRun` | 3 requests; delays negative, zero, short and over the cap | 73 569 | `RunInv`, `OneRunAtATime`; `ImplementsRunSlot`; `SlotComesBack`, `ListenerNeverWaits` |
| `MCSession` | 2 calls, buffers of 1, 3 replies, one id unknown | 41 835 | `SessionInv`, `Isolation`, `NothingAfterClose`; `RouterNeverBlocks`, `EveryCallReturns` |
| `MCFleetRpc` | 2 nodes, 1 duplicate, 3 replies; one counted broadcast, or a dump of each of two nodes | 420 668 | `OutcomeCountsNodes`, `OutcomeIsWhatNodesSaw`, `DumpIsOfTheNodeAsked`; `ImplementsSession` |
| `MCRunCommand` | 2 nodes, 4 prefixes, every request and every command line | 238 464 | `RunsAsAsked`, `CountedRequestsAreAnswered` |
| `MCHeartbeatCleanup` | 2 daemons of at most 2 starts, a stuck clock; the other one restarts, or the cleaning one finds an entry of its earlier start | 35 072 | `CleanupInv`, `OwnPresenceStays`; `AbandonedIsRemoved` |
| `MCNodeWatcher` | 2 daemons of at most 2 starts each | 160 884 | `WatcherInv`; `LiveIsActive` |
| `MCFence` | 2 agents, every configuration | 369 890 | `NoAccident`, `SuccessMeansReadonly`; `FencingGoesThrough` |
| `MCParts` | see the configuration | 875 364 | `AnswersAreSound`, `OnlyItself`, `InSync`, `SavesAreSafe`, `SummaryIsTrue`, `ExitCodeTells`, `BackendIsSound`, `OutputAddsUp`, `CompletionsResolve` |
| `MCLoops` | see the configuration | 38 574 | `HealthIsHonest`, `FactIsSound`; `Converges`, `DiscoveryEnds`, `HupEndsIt`, `ListenersComeBack`, `FactFollows` |
| `MCPuppetRunBusy` | 2 requests | | **violated**: `BusyMeansARun` |
| `MCFenceExit` | 1 agent | | **violated**: `ExitZeroMeansFenced` |
| `MCFleetRpcCoverage` | 2 nodes, 1 duplicate, a status request | | **violated**: `CoverageCountsNodes` |

`Parts` and `Loops` put side by side components that share no state with any other: a behaviour is a
behaviour of one of them, named by `focus`, and the others stay where they started. The states
are the sum of the state spaces, so nothing is lost against a run for each, and nothing is claimed
about the components together. `Parts` has those that only safety is asked of, and may therefore
take the two workers of `PuppetAnswer` for one another (`SYMMETRY`); `Loops` has those that must
get something done, with the fairness of each.

Why the bounds are enough. Three run requests are one that runs, one refused meanwhile and one
that runs afterwards; a fourth repeats one of these. Two calls with buffers of one reach a full buffer, a
reply to the other call and a reply to neither; three replies fill a buffer with one to spare.
Two nodes are the addressed one and another; one duplicate is enough to
count twice. Two starts of a daemon are the entry left behind and the live one, and one tick is
the difference between fresh and stale. A pass of the cleanup looks at one topic after the other, so `MCHeartbeatCleanup` uses at
most three topics at a time (`MCInit`): the two of a daemon that restarts beside the cleaning one, or what the cleaning one left in an earlier start, its own
presence, and either a live node or the message of an older daemon; the theorems are about every initial state. Two HUPs fill the exit channel of one. Two agents are a
fencing and a retry of it or a competitor. Three lines are a switch, a failure
and a query after it. One rewrite of a file is enough for one worker to hold the old version while
the other stores the new, or for a request to see both; one request is enough since nothing of it outlives its answer. Three
nodes and room for one in the list are one listed, one cut off and one that is something else. Four tokens
are a call inside a call with an argument before it, or a path of three into a tree of depth three.
Two hypervisors are one migration, with an answer of each on the way; two failing steps
are a failed write and a kill, or a lost packet and a garbled line. Two commands on two addresses of one set are one that
was missed and one that was not. Every bound is a named constant of its module.

Deadlock is not checked where the bounds let the system stop (every request handled, every
line read). It is checked in `MCHeartbeatCleanup`, where the passes go on for ever.

### Fairness

Weak fairness is given to goroutines that are not waiting for anyone, since the Go scheduler
runs them, and to timers and deadlines, since time passes. In particular:

* `PuppetRun`: the run goroutine, its readers, the listener once it has a request, and an agent that is not stuck.
  Nothing obliges a request to come.
* `Session`: the router, the sends and the deadline every `Call` has (session.go:111-115).
  Nobody has to answer, to consume, or to close.
* `HeartbeatCleanup`: both goroutines and the clock. `SF` of `Remove` says that a removal that is tried
  on every pass does not fail for ever; the code relies on the same.
* `NodeWatcher`: the watcher, and `SF` of a live daemon's heartbeat, which is sent from a
  ticker and finds room in the bounded feed again and again.
* `Daemon`: the goroutines, and `SF` of `Subscribe`, a broker that does not refuse every attempt.
  No channel has to close and nobody has to send a HUP.
* `Fence`: the target's listener and goroutines, and the client's timeout. Requests and replies may be lost.
* `HvmInfo`: both goroutines of the client, and a server that broke, whose process panics after an hour and is started
  again by the service manager. `SF` of `Serve`: not every packet is lost. The reader that exited stays so, and `FactFollows` is about one that lives.
* `DiscoverOnce`: `SF` of `Return`, because its `select` chooses at random between a deadline that
  has passed and a heartbeat that is there, so it cannot prefer the heartbeat for ever.

## What is proved

TLAPS proves the theorems below for every value of the constants: every number of nodes, calls,
requests, files and lines, every bound, every configuration. The argument is the same everywhere: the
property is not inductive as it stands, a stronger one is, and one lemma for each process or action
shows that it is kept.

**Puppet runner** (`PuppetRunProofs`). `RunInvariant`: `OneRunAtATime` needs that a live run
goroutine holds the semaphore and that whoever holds it is a live run or the request the listener is
about to hand over (`LockInv`), that readers and agent only exist while their run waits for them
(`PartsInv`), and that the flags are those of the run that holds the semaphore (`StatusShowsTheRun`,
`ApplyingOnlyInARun`). `TypeCorrect`, `MutualExclusion` and `StatusIsTheRuns` follow. `Refinement`:
`PuppetRun` implements `RunSlot`; the slot is the semaphore, `Acquire` is `Accept`, `Release` is `End`,
everything else stutters. `HoldersMove` and `RunsOnlyGoForward` are what `SlotComesBack` asks of single steps:
who holds the semaphore has a step to take, sleeps within the cap, or waits for an agent that was started (which may be stuck, see
below), and a run never goes back.

**Session** (`SessionProofs`). `SessionInvariant`: `Isolation` needs that what is in a sink, and what the router
holds between the lookup and the hand-over, is for the call it was looked up for; `NothingAfterClose`
needs that the router holds nothing that came after Close. `CallsAreIsolated` and `CloseIsFinal` follow.
`RepliesAlwaysAddUp` bounds what a call got and may still get by what arrived, so no reply is handed to a call twice and no
buffer takes more than its capacity. `CallsEndForGood`: a call that is over stays over and gets nothing more.

**Fleet queries** (`FleetRpcProofs`). `FleetImplementsSession`: every step of the client, the daemons and
the broker is a step of `Session` or leaves it alone, which carries `SessionInv` over (`FleetIsolates`).
`WireInvariant`: whatever is on its way is an answer of a node to a request that it got
(`Genuine`), with what the node evaluated. `ClientInvariant` follows the replies through the
subscription, the router and the sinks into the outcomes (`Tally`): the nodes seen are those listed, as many as
the lists are long together, each where what it saw puts it. `OutcomesCountNodes`, `OutcomesAreWhatNodesSaw`
and `DumpsAreOfTheNodeAsked` follow; the last needs `DumpIsAnswered`, that of all the nodes that see the
topic of a unicast only the one it names answers a dump. `OneDumpIsTaken`: there is no second dump, since the first one ends its call.
`VerdictsAlwaysStand`: what was said of a node stands, for a redelivered reply finds the node among those seen. It is an
action property, and follows from `ClientInvariant` for every step because `Receive` alone changes an outcome (`OnlyReceiveGives`).

**Puppet requests and `rv puppet run`** (`RunCommandProofs`). Nearly all of it is about the operators: what
`AddressedToMe` makes of a topic that `Topic` made, for any prefix (`TopicEnds`, `AddressedIsMeant`), and what
`HandleEvent` makes of any request (`AnswerIsRight`). `CmdInvariant` then relates what was sent to the command
line, and answers to requests. `RunsAreAsAsked` and `CountedAreAnswered` follow.

**Presence** (`PresenceProofs`). `CleanupInvariant`: that the cache ends up as what is retained, but for topics
that were raced, needs for a raced topic that the message which mends it is the one retained (`FeedIsCurrent`).
`OwnPresenceIsSafe` needs in addition that the daemon that cleans up is running (`OwnInv`). Any number of starts may have gone
before the first state, of the daemon that cleans up too, and have left their presence behind. `WatcherInvariant`: a first
heartbeat without services is passed over by the watcher, which is sound only because there was
nothing before it on its topic (`FutureIsGone`). Feeds may be compacted or overrun; `LastPosition` and
`WordIsTheLast` are the lemmas about the last word in a feed. `AbandonedNeverComesBack` and `ViewNeverGoesBack` are about single
steps: the topic of a start that is over gets nothing but its removal, and the view, which compares no times, still never goes back to an
older heartbeat. The latter needs that a goodbye is the last message of its topic and that the heartbeats before it are in the order of the
daemon's clock, which holds since topics are never used by two starts (`InOrder`).

**Fencing** (`FenceProofs`). `FenceInvariant`: the handler that is about to answer handles a fencing it
permitted, and an `ok` of the remount means read-only (`HandlesAFencing`, `RemountIsTrue`). `NoAccidents` and `SuccessIsTrue` follow.
`NodesGoDownByFencing`: behind a remount or a reboot there is a request to fence that the configuration permits, and never test mode.

**Components of `Parts`** (`PartsProofs`). `OneMoves`: a step is a step of the component in focus, and the others stay
where they started, so an invariant of a component is one of the sum.
`OnlyItselfIsDown` (Downtime); `SavesStaySafe` (Snapshots: `SFInv` says for every saver and stage what its
temporary file holds); `ExitCodesTell` and `BackendsStaySound` (Repl: `RLCounts` ties the counters to the answers);
`AnswersStaySound` (Puppet state readers: `PAInv` says that the map a data function holds is the one of some moment of this request,
and `PAGot` that no worker holds empty facts or classes to store, so that these are never blanked once they were loaded); `SummariesAreTrue` (Cluster backend: `CBInv` keeps the lists
apart, and each in line with what its nodes evaluate, and with it the cardinalities);
`SetsStayInSync` (Ipset: `IPUnread` says that a channel holds the end of what was published on its topic, `IPEntry` relates an
entry to the last command about it before that; a command moves the one by a step, a lost channel by all that was in it);
`OutputStaysWhole` (Query repl: `ROStreams` counts what was listed and what was not while results come in, and
`ErrorsAreCollapsed` is about the messages).
`CompletionsAlwaysResolve` (Completion) has three parts. The walks of a query and of the repl exist for every path (`WalkExists`) and
agree wherever either comes to something (`StepsAgree`, `LookupsAgree`), so what is offered below a path is
what a query finds one name further (`ChildrenLeadOn`). The completion finds the innermost open call by counting tokens backwards:
`COInv` says of the text that inside of each open call as many calls are opened as closed but for those open in it, and
`StartIsLast` that the count therefore ends at that call. And classes are cut at every `::` (`ClassesComplete`). The induction along a path is
over the set of the lengths for which the fact holds (`NatSet`), with the fact written out, since it cannot be a parameter.

**Components of `Loops`** (`LoopsProofs`). `HealthStaysHonest` (Daemon) and `FactStaysSound` (hvminfo), where `HVInv` follows
hosts from the answers on the line to the file, and `torn` the one way to an incomplete fact, a rename of what its own write did not finish. For three liveness properties there is what they ask of single steps: `WhatSettledStays`
(Puppet state readers: once the node serves a whole file and no worker holds anything else of it, only a new file changes that),
`DiscoveryAlwaysNears` (one-shot discovery: the end is put off once at most, and what was found is never given up) and
`NoHupIsLost` (Daemon: something that ends the process is on its way as long as it lives).

Of the constants the proofs assume what the modules state as ASSUME, which TLC evaluates on every run: that sentinel values are
not requests, replies or nodes, that bounds are natural numbers, that the fleet of a summary is finite
(`FleetAssumption`), that no node is called `all` and no set has an empty name (`FlagsAssumption`, `ConfigAssumption`), that the replies of the fleet are replies of the
session (`RepliesAssumption`), that a node has each ipset in one group only, which no code checks: the sets end up in a map by
name (server.go:25) whatever the configuration says (`OneGroupAssumption`), that facts are documents of maps, lists, values and nulls, that
a list index is written and read back by inverse functions, and that class names are sequences of segments (`ValuesAssumption`,
`NamesAssumption`, `ClassesAssumption`), and that a prefix of several elements does not end in `puppet` (`PrefixAssumption`): with such a prefix
server.go:276 drops what was meant for everybody, see below.

Checked by TLC only is liveness, because the prover has neither ENABLED nor fairness: `SlotComesBack`, `ListenerNeverWaits`,
`RouterNeverBlocks`, `EveryCallReturns`, `AbandonedIsRemoved`, `LiveIsActive`, `FencingGoesThrough`, `Converges`, `DiscoveryEnds`,
`HupEndsIt`, `ListenersComeBack` and `FactFollows`. That something happens in the end is checked on the instances above; that no step
takes back what leads there is proved for `SlotComesBack`, `EveryCallReturns`, `AbandonedIsRemoved`, `LiveIsActive`, `Converges`, `DiscoveryEnds` and `HupEndsIt`
(`RunsOnlyGoForward`, `CallsEndForGood`, `AbandonedNeverComesBack`, `ViewNeverGoesBack`, `WhatSettledStays`, `DiscoveryAlwaysNears`, `NoHupIsLost`).

## Where code and documentation disagree

Three disagreements are runs of their own:

* run.go:76-84 and 113-116 return without the reset of 119-126, so after a run that could not
  start the status stays busy (`MCPuppetRunBusy`). run.go:15: "runner is busy, either running or waiting for
  start time".
* `rv fence run` logs the error and exits 0 (cmd/rv/commands/fence/run.go:17), and a reply is taken for success without
  looking at it (plugin/fence/client.go:38-41), while scripts/fence_rvd.pl:135 retries on a non-zero exit code
  (`MCFenceExit`).
* The streams behind `rv puppet status` and `rv puppet fact` count replies (client/query.go:127), so a reply that is delivered twice
  is two nodes (`MCFleetRpcCoverage`). query.go:92: "Answered is how many nodes replied at all".

Met while modelling, kept in the models as the code has them, and excluded from the properties where a
property mentions them:

* A line of agent output over 64 KiB ends its scanner; the agent blocks and the run never ends (run.go:93).
* With a prefix that ends in `puppet` a fleet-wide run is dropped by every node (server.go:276).
* Unicast status, fact and query requests are answered by every node that hears them (server.go:104; session.go:25-26).
* `rv puppet run --target X` without `--node` is overruled by the default `all` (run.go:16-20), and `-n ""`
  broadcasts without the delay that "do not run all 'all' without delay" asks for (run.go:26-35).
* A pass of the cleanup forgets a topic whose newer heartbeat it has not seen (heartbeat-cleanup.go:177), until the next one;
  `raced` names those topics. Nodes with a slow clock are removed although they check in (README:331).
* While the downtime module listens, in the foreground (daemon.go:199), the status socket is not served and a HUP ends the
  process through its fallback, "critical exit, that should not happen" (cmd/rvd/cobra.go:77). All ipset listeners share one health component.
* The run summary is not looked at as facts and classes are (puppet/server.go:313-320, lastrun-schema.go:46-54): a file cut off after `---` or
  `version:` decodes to the zero summary and replaces a good one, until the next pass. `AnswersAreSound` says nothing is blanked of facts and classes only.
* Of any of the three files a half-written version that decodes is served until the next pass; `Converges` says that it is mended.
* The ipset listener logs a decoding error and goes on (ipset/server.go:62-66), so what did decode is applied: a command that lost its set
  names none and is dropped, and a deletion that lost its first field is an addition, as from an old client.
* A node that was away from the ipset topic never learns what it missed (README:428); `InSync` excepts that entry until the next command on it.
* A downtime request carries os.Hostname, which may be fully qualified, and is matched on the short name; exactly the maximum is refused (downtime.go:98, README:363).
* The first heartbeat of a daemon may lack its services (common/mq.go:96-102), and a watcher may list one node as active and as stale (watch.go:85-89).
* `Silent` of a summary is wrong for a fleet of old and new daemons (eval_cluster.go:105), and with a partial view a query goes to daemons that do not know it (110-112).
* In the repl, a local result that is not boolean exits 1 (README:223, 277), `:cluster` is always refused since nothing sets NewCluster (meta.go:264), and data inspected after `:snapshot load` is not noted as other than evaluated (meta.go:320).
* The reading loop of hvminfo ends for good at a read error or a line over 64 KiB, with an info message only (hvminfo/client.go:45).
* hvminfo renames the temporary file also when writing it failed (62-66), so puppet may read an incomplete fact until the next line is written. `FactIsSound` excuses that
  fact alone: the `torn` flag is of the file last renamed.
* A fact name with a blank in it is split in two by completion, which then offers nothing below it, or what is below another fact (complete.go:220); `CompletionsResolve` is about names without.
  And parentheses are counted inside of string literals as well (complete.go:198-216), so a name with an unbalanced one moves the call that is completed; no name in the model has one.
* One-shot discovery arms its idle timer at the first heartbeat and never again (client/discovery.go:103-107), so it ends IdleWait after the first
  heartbeat and not after a lull. discovery.go:29: "how long to keep listening after the last heartbeat arrived". `DiscoveryAlwaysNears` is about what it does.
* A query that takes exactly the thousand steps it is allowed is refused (query.go:95, 100).
* An error that more than three nodes gave names the first of them (format.go:131).
* A save that is killed leaves its temporary file (snapshot.go:149-155), which no load looks at.

## What is not modelled

The interpreter behind filters and queries (zygomys, a library) and the regexp function it is given, which has no state;
the web routes, which only read (that they are served at all is in `Daemon`); line editing, history and help of the terminal,
and the completion of commands, files and node names, which are prefix matches over lists; reading configuration and
certificates, and the flags and printing of the `rv` commands other than `puppet run`; logging. The meta commands of the
repl that change no state another one reads are one action, `OtherLine`.

## Plan

In this order; all blocks are done.

1. Core: `PuppetRun` with `RunSlot`, `Session`, `PuppetDispatch`, `OneRequest`, `RunCommand`, `FleetRpc`; `Presence`
   with `HeartbeatCleanup` and `NodeWatcher`; `Daemon`, `Fence`, `Downtime`, `Ipset`, `PuppetState`, `DiscoverOnce`,
   `SnapshotFile`, `ClusterBackend`, `Repl`; proofs about `PuppetRun` and `Session`.
2. Extension: `PuppetAnswer`, `HvmInfo`, `ReplOutput`, `Completion`; the coverage of the streams; `InSync` per entry, so that it
   says something about nodes that missed commands; `RunsAsAsked` over the whole way from a command line to the runs of a fleet.
3. Proofs: `FenceProofs`, `PresenceProofs`, `FleetRpcProofs`, `RunCommandProofs`, `PartsProofs`, `LoopsProofs`.
4. Proofs beyond the invariants of the runs: `CompletionsAlwaysResolve`, with the walks as recursive functions; what a step may never take
   back, in `PuppetRunProofs`, `SessionProofs`, `FleetRpcProofs`, `PresenceProofs` and `LoopsProofs`; what brings a node down, in `FenceProofs`.

Left is liveness, which stays with TLC, and the type invariants of `HvmInfo`, `Ipset`, `ClusterBackend` and `ReplOutput`, which no run lists
and the proofs needed only in part.
