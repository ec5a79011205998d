---------------------------- MODULE PuppetAnswer ----------------------------
(***************************************************************************)
(* A request that is answered out of the data of PuppetState while the two *)
(* background workers replace it.  The filter runs in a sandbox made for   *)
(* it, which takes the pointer of each data map once (query/query.go,      *)
(* newSandbox); the expression then looks things up any number of times,   *)
(* and the result, a status, a fact or a dump, is read from the cache      *)
(* again (plugin/puppet/server.go, handleCommand).                         *)
(***************************************************************************)
EXTENDS PuppetState, FiniteSets

CONSTANTS
    None,         \* nothing taken or read
    MaxAnswers    \* bound on the requests

AnswersAssumption == MaxAnswers \in Nat /\ None \notin Content \cup {Bad, Blank}

\* The data maps registered with the query engine.
Maps == {"facts", "classes"}

VARIABLES
    at,           \* the listener: "idle", "sandbox", "evaluating", "matched", "answering"
    pointer,      \* the map each data function of the sandbox was given
    looked,       \* what the lookups of the expression saw, per map
    sent,         \* what a result was made of, None without one
    since,        \* history: what was cached since the request was taken
    loaded,       \* history: which maps were ever filled
    had,          \* history: which of them when the request was taken
    answers       \* requests so far

answerVars == <<at, pointer, looked, sent, since, loaded, had, answers>>

AnswerTypeOK ==
    /\ TypeOK
    /\ at \in {"idle", "sandbox", "evaluating", "matched", "answering"}
    /\ pointer \in [Maps -> Content \cup {Blank, None}]
    /\ looked \in [Maps -> SUBSET (Content \cup {Blank})]
    /\ sent \in [data : Data, is : Content \cup {Blank}] \cup {None}
    /\ since \in [Data -> SUBSET (Content \cup {Blank})]
    /\ had \subseteq loaded /\ loaded \subseteq Maps
    /\ answers \in 0..MaxAnswers

AnswerInit ==
    /\ Init
    /\ at = "idle"
    /\ pointer = [m \in Maps |-> None]
    /\ looked = [m \in Maps |-> {}]
    /\ sent = None
    /\ since = [d \in Data |-> {}]
    /\ loaded = {m \in Maps : cache[m] # Blank} /\ had = {}
    /\ answers = 0

-----------------------------------------------------------------------------
(* A plausible bug of an action below                                      *)

\* Every lookup goes to the current map.
LookupCurrent(m) ==
    /\ at = "evaluating"
    /\ looked' = [looked EXCEPT ![m] = @ \cup {cache[m]}]
    /\ UNCHANGED <<vars, at, pointer, sent, since, loaded, had, answers>>

-----------------------------------------------------------------------------
(* The listener, one request at a time                                     *)

\* A request with a filter; one without goes straight to its result.
TakeRequest ==
    /\ at = "idle" /\ answers < MaxAnswers
    /\ answers' = answers + 1
    /\ at' \in {"sandbox", "matched"}
    /\ since' = [d \in Data |-> {cache[d]}]
    /\ had' = loaded
    /\ UNCHANGED <<vars, pointer, looked, sent, loaded>>

\* newSandbox takes the maps one by one, in any order, each under its own lock.
TakeMap(m) ==
    /\ at = "sandbox" /\ pointer[m] = None
    /\ pointer' = [pointer EXCEPT ![m] = cache[m]]
    /\ at' = IF \A k \in Maps \ {m} : pointer[k] # None THEN "evaluating" ELSE "sandbox"
    /\ UNCHANGED <<vars, looked, sent, since, loaded, had, answers>>

\* HashGet: a fact or class call of the expression.
Lookup(m) ==
    /\ at = "evaluating"
    /\ looked' = [looked EXCEPT ![m] = @ \cup {pointer[m]}]
    /\ UNCHANGED <<vars, at, pointer, sent, since, loaded, had, answers>>

\* The sandbox is closed.  The expression holds; or it does not, it failed, or its outcome is
\* all that was asked for.
Evaluated ==
    /\ at = "evaluating"
    /\ at' \in {"matched", "answering"}
    /\ pointer' = [m \in Maps |-> None]
    /\ UNCHANGED <<vars, looked, sent, since, loaded, had, answers>>

\* The result of a status, fact, factlist or classlist, or of none of them.
Result(d) ==
    /\ at = "matched"
    /\ sent' \in {[data |-> d, is |-> cache[d]], None}
    /\ at' = "answering"
    /\ UNCHANGED <<vars, pointer, looked, since, loaded, had, answers>>

\* The answer is out, and with it what it was made of.
Done ==
    /\ at = "answering"
    /\ at' = "idle"
    /\ looked' = [m \in Maps |-> {}] /\ sent' = None
    /\ since' = [d \in Data |-> {}] /\ had' = {}
    /\ UNCHANGED <<vars, pointer, loaded, answers>>

Listener == \/ TakeRequest \/ Evaluated \/ Done
            \/ \E m \in Maps : TakeMap(m) \/ Lookup(m)
            \/ \E d \in Data : Result(d)

\* The workers and the agent meanwhile.
Meanwhile ==
    /\ Next
    /\ since' = IF at \in {"idle", "answering"} THEN since
                ELSE [d \in Data |-> since[d] \cup {cache'[d]}]
    /\ loaded' = loaded \cup {m \in Maps : cache'[m] # Blank}
    /\ UNCHANGED <<at, pointer, looked, sent, had, answers>>

AnswerNext == Listener \/ Meanwhile

AnswerSpec == AnswerInit /\ [][AnswerNext]_<<vars, answerVars>>

-----------------------------------------------------------------------------
(* Properties                                                              *)

\* However often an expression looks at the facts or the classes, and whatever the workers
\* store meanwhile, it sees one version of each, one its node had while the request was
\* handled; the result, which is read again after the filter, is of that time too (the two
\* may differ, and so may the facts and the classes).  And no expression and no answer is made
\* of empty facts or empty classes once there were some (facts_test.go:47, "puppet truncating
\* the file mid-write should not wipe out the facts").  Nothing like it holds of the run
\* summary, which Parsed may blank, and half of a file may be served while it is all there is.
AnswersAreSound ==
    /\ \A m \in Maps : Cardinality(looked[m]) <= 1 /\ looked[m] \subseteq since[m]
    /\ sent # None => sent.is \in since[sent.data]
    /\ \A m \in had : Blank \notin since[m]
=============================================================================
