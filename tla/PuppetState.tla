----------------------------- MODULE PuppetState -----------------------------
(***************************************************************************)
(* What a node knows of its last puppet run, its facts and its classes:    *)
(* plugin/puppet/puppet.go (New), server.go (StartServer, backgroundWorker *)
(* and the update functions), facts.go, classes.go, lastrun-schema.go.     *)
(*                                                                         *)
(* The puppet agent rewrites the files whenever it likes.  The daemon runs *)
(* TWO background workers: puppet.New starts one and StartServer another.  *)
(* A worker opens and parses a file without any lock and then stores the   *)
(* result under the lock, so the steps of the two interleave.              *)
(***************************************************************************)
EXTENDS Integers, Sequences

CONSTANTS
    Workers,      \* the background workers, two in a daemon
    Bad,          \* a missing, empty or unparsable file
    Blank,        \* empty: what a node has before anything was loaded
    MaxWrites     \* bound on the rewrites by the agent, so that versions are finite

BoundAssumption == MaxWrites \in Nat

\* The order of one pass of backgroundWorker.
Pass == <<"summary", "facts", "classes">>
Data == {"summary", "facts", "classes"}

\* What a file can hold that decodes: a version, whole, or cut off by an unfinished write
\* behind some of its values, or ahead of the first of them ("---", "version:", blank lines).
Content == [version : 0..MaxWrites, part : {"whole", "cut", "head"}]

SentinelAssumption == Bad \notin Content /\ Blank \notin Content /\ Bad # Blank

VARIABLES
    file,         \* what is on disk
    writes,       \* rewrites so far, which also number the versions
    cache,        \* lastRunSummary, Facts.facts and Classes.classes
    worker        \* [at, got]: index in Pass of the file a worker is on, 0 while it
                  \* sleeps, and what it has parsed but not stored yet

vars == <<file, writes, cache, worker>>

Sleeping == [at |-> 0, got |-> Bad]

TypeOK ==
    /\ file \in [Data -> Content \cup {Bad}]
    /\ writes \in 0..MaxWrites
    /\ cache \in [Data -> Content \cup {Blank}]
    /\ worker \in [Workers -> [at : 0..Len(Pass), got : Content \cup {Bad, Blank}]]

\* puppet.New: facts and classes are loaded once before the workers start; a load that
\* fails leaves an empty map to be filled in later.
Init ==
    /\ file \in [Data -> {[version |-> 0, part |-> "whole"], Bad}]
    /\ writes = 0
    /\ cache = [d \in Data |-> IF d = "summary" \/ file[d] = Bad THEN Blank ELSE file[d]]
    /\ worker = [w \in Workers |-> Sleeping]

\* On to the next file of the pass, or to sleep after the last.
Advance(w) == IF worker[w].at = Len(Pass)
              THEN Sleeping
              ELSE [at |-> worker[w].at + 1, got |-> Bad]

\* A plausible bug of the next definition: no update function refuses what comes out empty.
ParsedUnchecked(d) == IF file[d] = Bad \/ file[d].part # "head" THEN file[d] ELSE Blank

\* What an update function makes of a file that decodes.  UpdateFacts and UpdateClasses refuse
\* what comes out empty.  The run summary is not looked at: an empty document is the zero
\* summary, the one the node starts with.
Parsed(d) == IF file[d] = Bad \/ file[d].part # "head" THEN file[d]
             ELSE IF d = "summary" THEN Blank ELSE Bad

-----------------------------------------------------------------------------
(* Plausible bugs of the actions below, put in their place to see that the *)
(* properties notice them                                                  *)

\* A failed read ends the pass, so the files after it are not refreshed.
SkipEndsPass(w) ==
    /\ worker[w].at # 0
    /\ worker[w].got = Bad
    /\ file[Pass[worker[w].at]] = Bad
    /\ worker' = [worker EXCEPT ![w] = Sleeping]
    /\ UNCHANGED <<file, writes, cache>>

-----------------------------------------------------------------------------
(* backgroundWorker                                                        *)

\* time.Sleep(RefreshInterval) is over.
StartPass(w) ==
    /\ worker[w].at = 0
    /\ worker' = [worker EXCEPT ![w].at = 1]
    /\ UNCHANGED <<file, writes, cache>>

\* The file is opened and parsed.  A cut-off file may well parse.
Read(w) ==
    /\ worker[w].at # 0
    /\ worker[w].got = Bad
    /\ Parsed(Pass[worker[w].at]) # Bad
    /\ worker' = [worker EXCEPT ![w].got = Parsed(Pass[worker[w].at])]
    /\ UNCHANGED <<file, writes, cache>>

\* It does not open, does not decode as it is cut off in the wrong place, or is refused: the
\* old data stays.
Skip(w) ==
    /\ worker[w].at # 0
    /\ worker[w].got = Bad
    /\ Parsed(Pass[worker[w].at]) # Bad => file[Pass[worker[w].at]].part # "whole"
    /\ worker' = [worker EXCEPT ![w] = Advance(w)]
    /\ UNCHANGED <<file, writes, cache>>

\* The parsed data replaces the old under the lock.
Store(w) ==
    /\ worker[w].got # Bad
    /\ cache' = [cache EXCEPT ![Pass[worker[w].at]] = worker[w].got]
    /\ worker' = [worker EXCEPT ![w] = Advance(w)]
    /\ UNCHANGED <<file, writes>>

-----------------------------------------------------------------------------
(* The puppet agent (external)                                             *)

\* A rewrite that leaves the new version, or part of it, or nothing readable.
AgentWrites(d) ==
    /\ writes < MaxWrites
    /\ writes' = writes + 1
    /\ \E new \in [version : {writes + 1}, part : {"whole", "cut", "head"}] \cup {Bad} :
           file' = [file EXCEPT ![d] = new]
    /\ UNCHANGED <<cache, worker>>

\* The unfinished write is finished.
AgentCompletes(d) ==
    /\ file[d] # Bad
    /\ file[d].part # "whole"
    /\ file' = [file EXCEPT ![d].part = "whole"]
    /\ UNCHANGED <<writes, cache, worker>>

-----------------------------------------------------------------------------
Worker(w) == StartPass(w) \/ Read(w) \/ Skip(w) \/ Store(w)

Next == \/ \E w \in Workers : Worker(w)
        \/ \E d \in Data : AgentWrites(d) \/ AgentCompletes(d)

Spec == Init /\ [][Next]_vars

\* A worker loops for as long as the daemon lives.  Nothing makes the agent write.
FairSpec == Spec /\ \A w \in Workers : WF_vars(Worker(w))

-----------------------------------------------------------------------------
(* Properties                                                              *)

\* Whatever the workers overwrote each other with, and whichever of the other files are
\* broken, a file that is whole for good after the last rewrite is what the node ends up
\* answering from.
Converges == \A d \in Data :
    <>[](file[d] # Bad /\ file[d].part = "whole") => <>[](cache[d] = file[d])
==============================================================================
