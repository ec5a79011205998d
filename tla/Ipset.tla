--------------------------------- MODULE Ipset ---------------------------------
(***************************************************************************)
(* The ipset module: rv ipset add and delete (plugin/ipset/client.go)      *)
(* publish a command on ipset/<group>/<set>; every daemon that has the set *)
(* in that group (plugin/ipset/server.go, and the per-set listeners of     *)
(* daemon/daemon.go) applies it to the set in its kernel.  Nothing is      *)
(* answered and nothing is repeated.                                       *)
(***************************************************************************)
EXTENDS Naturals, Sequences

CONSTANTS
    Nodes,        \* daemons
    Groups,       \* broadcast groups
    Names,        \* names of sets
    Addrs,        \* addresses
    Config,       \* [Nodes -> SUBSET (Groups \X Names)]: the sets of each node
    MaxCommands   \* bound on the commands sent

ConfigAssumption == Config \in [Nodes -> SUBSET (Groups \X Names)] /\ "" \notin Names

\* Every set of a node is in one group.  The sets are a map by name in the end (server.go:25),
\* but nothing checks that the configuration names each of them once.
OneGroupAssumption ==
    \A n \in Nodes : \A s, t \in Config[n] : s[2] = t[2] => s = t

Topics == Groups \X Names

\* IPsetCmd, as far as it decodes: the listener logs the error and goes on with what there is,
\* as with a command of an old client, which leaves the first field empty.  What lacks its set
\* names none.
Commands == [cmd : {"add", "del", ""}, set : Names \cup {""}, addr : Addrs]

VARIABLES
    sent,         \* what was published on each topic, in the order of the broker
    commands,     \* how many there have been
    feed,         \* commands in the channel of each node's listener for a topic
    listens,      \* topics each node is subscribed to at the moment
    content,      \* what is in each kernel set of each node
    spoilt        \* history: entries [set, addr] of a node whose last command it missed or
                  \* failed at, or that expired

vars == <<sent, commands, feed, listens, content, spoilt>>

Init ==
    /\ sent = [t \in Topics |-> <<>>]
    /\ commands = 0
    /\ feed = [n \in Nodes |-> [t \in Topics |-> <<>>]]
    /\ listens = Config
    /\ content = [n \in Nodes |-> [s \in Names |-> {}]]
    /\ spoilt = [n \in Nodes |-> {}]

-----------------------------------------------------------------------------
(* Plausible bugs of the definitions below                                 *)

\* The listener works on the set it is for, whatever the command names and whether or not it
\* was decoded.
TargetOwnSet(t, c) == t[2]

-----------------------------------------------------------------------------
\* An empty command is an old client's add.
Apply(set, c) == IF c.cmd = "del" THEN set \ {c.addr} ELSE set \cup {c.addr}

\* The set a command is for: the one it names.
Target(t, c) == c.set

Entry(c) == IF c.set = "" THEN {} ELSE {[set |-> c.set, addr |-> c.addr]}

\* ipset.Cmd: fire and forget.
Cmd(t, c) ==
    /\ commands < MaxCommands
    /\ commands' = commands + 1
    /\ sent' = [sent EXCEPT ![t] = Append(@, c)]
    /\ feed' = [n \in Nodes |-> [u \in Topics |->
                   IF u = t /\ t \in listens[n] THEN Append(feed[n][u], c) ELSE feed[n][u]]]
    /\ spoilt' = [n \in Nodes |-> IF t \in Config[n] \ listens[n]
                                  THEN spoilt[n] \cup Entry(c) ELSE spoilt[n]]
    /\ UNCHANGED <<listens, content>>

\* EventListener: the command is applied, unless it names no set this node has; ipset may
\* fail, which is logged.
Handle(n, t) ==
    /\ feed[n][t] # <<>>
    /\ feed' = [feed EXCEPT ![n][t] = Tail(@)]
    /\ LET c == Head(feed[n][t])
           s == Target(t, c) IN
       \/ /\ s \in {u[2] : u \in Config[n]}
          /\ content' = [content EXCEPT ![n][s] = Apply(@, c)]
          /\ spoilt' = [spoilt EXCEPT ![n] = @ \ Entry(c)]
       \/ /\ s \in {u[2] : u \in Config[n]}
          /\ spoilt' = [spoilt EXCEPT ![n] = @ \cup Entry(c)]
          /\ UNCHANGED content
       \/ /\ s \notin {u[2] : u \in Config[n]}
          /\ UNCHANGED <<content, spoilt>>
    /\ UNCHANGED <<sent, commands, listens>>

\* The channel closes: what was in it is lost.
Disconnect(n, t) ==
    /\ t \in listens[n]
    /\ listens' = [listens EXCEPT ![n] = @ \ {t}]
    /\ feed' = [feed EXCEPT ![n][t] = <<>>]
    /\ spoilt' = [spoilt EXCEPT ![n] = @ \cup UNION {Entry(feed[n][t][i]) : i \in DOMAIN feed[n][t]}]
    /\ UNCHANGED <<sent, commands, content>>

\* The daemon's loop subscribes again.
Subscribe(n, t) ==
    /\ t \in Config[n] \ listens[n]
    /\ listens' = [listens EXCEPT ![n] = @ \cup {t}]
    /\ UNCHANGED <<sent, commands, feed, content, spoilt>>

\* The kernel (external) drops an entry whose timeout is over.
Expire(n, s, a) ==
    /\ a \in content[n][s]
    /\ content' = [content EXCEPT ![n][s] = @ \ {a}]
    /\ spoilt' = [spoilt EXCEPT ![n] = @ \cup {[set |-> s, addr |-> a]}]
    /\ UNCHANGED <<sent, commands, feed, listens>>

\* What rv sends on a topic names the topic's set.
Sendable(t) == [cmd : {"add", "del", ""}, set : {t[2]}, addr : Addrs]
               \cup [cmd : {""}, set : {""}, addr : Addrs]

Next ==
    \/ \E t \in Topics : \E c \in Sendable(t) : Cmd(t, c)
    \/ \E n \in Nodes, t \in Topics : Handle(n, t) \/ Disconnect(n, t) \/ Subscribe(n, t)
    \/ \E n \in Nodes, s \in Names, a \in Addrs : Expire(n, s, a)

Spec == Init /\ [][Next]_vars

-----------------------------------------------------------------------------
(* Properties                                                              *)

TypeOK ==
    /\ sent \in [Topics -> Seq(Commands)] /\ commands \in Nat
    /\ feed \in [Nodes -> [Topics -> Seq(Commands)]]
    /\ DOMAIN listens = Nodes /\ \A n \in Nodes : listens[n] \subseteq Config[n]
    /\ content \in [Nodes -> [Names -> SUBSET Addrs]]
    /\ spoilt \in [Nodes -> SUBSET [set : Names, addr : Addrs]]

\* A command on a topic about an address.
IsAbout(c, t, a) == c.set = t[2] /\ c.addr = a

\* Addresses whose last command among the first k on a topic was not a delete.
Wanted(t, k) == {a \in Addrs : \E i \in 1..k :
    /\ IsAbout(sent[t][i], t, a) /\ sent[t][i].cmd # "del"
    /\ \A j \in (i + 1)..k : ~IsAbout(sent[t][j], t, a)}

\* README:428, the module "keeps an ipset in sync across a group": an entry is in the set of
\* a node exactly if the last command of its group about it, among those the node got to,
\* left it there - so nodes agree once they have caught up.  A command a node missed while
\* it was subscribing again, or failed at, or a timeout, affects that entry alone and no
\* longer than until the next command about it; a command of another group, for another set or
\* for none affects none.  A command that decodes in part is on every node what was decoded of
\* it, so a delete that lost its first field is an add (server.go:62-66).
InSync == \A n \in Nodes : \A t \in Config[n] : \A a \in Addrs :
    [set |-> t[2], addr |-> a] \notin spoilt[n] =>
        (a \in content[n][t[2]] <=> a \in Wanted(t, Len(sent[t]) - Len(feed[n][t])))
================================================================================
