----------------------------- MODULE SnapshotFile -----------------------------
(***************************************************************************)
(* Saving a snapshot to a file and loading it back: Snapshot.Save and      *)
(* LoadSnapshotFile of plugin/puppet/snapshot.go, with several rv          *)
(* processes on one path, any of which may fail at any step or be killed.  *)
(***************************************************************************)
EXTENDS Naturals

CONSTANTS
    Savers,        \* processes that save, each a snapshot of its own, once
    Loaders,       \* processes that load
    Bare           \* savers whose snapshot has neither facts nor classes

BareAssumption == Bare \subseteq Savers

CONSTANT Nobody

\* What a file holds, or what a load returns.
Content(w, part) == [of |-> w, part |-> part]
Whole(w) == Content(w, "whole")
Junk == Content(Nobody, "junk")                       \* not written by Save
NotYet == Content(Nobody, "nothing")
Refused == Content(Nobody, "error")

NoFile == [content |-> NotYet, private |-> FALSE]

VARIABLES
    stage,         \* of each saver
    temp,          \* the temporary file of each saver
    file,          \* what the path names
    saved,         \* history: contents ever renamed to the path
    loaded         \* what each loader got

vars == <<stage, temp, file, saved, loaded>>

Init ==
    /\ stage = [w \in Savers |-> "new"]
    /\ temp = [w \in Savers |-> NoFile]
    /\ file \in {NoFile, [content |-> Junk, private |-> FALSE]}
    /\ saved = {}
    /\ loaded = [r \in Loaders |-> NotYet]

Go(w, from, to) == stage[w] = from /\ stage' = [stage EXCEPT ![w] = to]

-----------------------------------------------------------------------------
(* Plausible bugs of the definitions below                                 *)

\* The path is renamed to as soon as something is written.
WriteSomeRenaming(w) ==
    /\ Go(w, "private", "writing")
    /\ temp' = [temp EXCEPT ![w].content = Content(w, "half")]
    /\ file' = [content |-> Content(w, "half"), private |-> TRUE]
    /\ UNCHANGED <<saved, loaded>>

-----------------------------------------------------------------------------
(* Save                                                                    *)

\* os.CreateTemp next to the path: a name no one else has, and private from the start.
CreateTemp(w) ==
    /\ Go(w, "new", "created")
    /\ temp' = [temp EXCEPT ![w] = [content |-> Content(w, "empty"), private |-> TRUE]]
    /\ UNCHANGED <<file, saved, loaded>>

Chmod(w) ==
    /\ Go(w, "created", "private")
    /\ temp' = [temp EXCEPT ![w].private = TRUE]
    /\ UNCHANGED <<file, saved, loaded>>

WriteSome(w) ==
    /\ Go(w, "private", "writing")
    /\ temp' = [temp EXCEPT ![w].content = Content(w, "half")]
    /\ UNCHANGED <<file, saved, loaded>>

WriteRest(w) ==
    /\ Go(w, "writing", "closed")
    /\ temp' = [temp EXCEPT ![w].content = Whole(w)]
    /\ UNCHANGED <<file, saved, loaded>>

\* The path is switched over in one step; nothing is left for the deferred Remove.
Rename(w) ==
    /\ Go(w, "closed", "done")
    /\ file' = temp[w]
    /\ saved' = saved \cup {temp[w].content}
    /\ temp' = [temp EXCEPT ![w] = NoFile]
    /\ UNCHANGED loaded

\* Any of the calls fails: an error, and the deferred Remove.
Fail(w) ==
    /\ stage[w] \in {"new", "created", "private", "writing", "closed"}
    /\ stage' = [stage EXCEPT ![w] = "failed"]
    /\ temp' = [temp EXCEPT ![w] = NoFile]
    /\ UNCHANGED <<file, saved, loaded>>

\* The process is killed: deferred calls do not run.
Kill(w) ==
    /\ stage[w] \in {"created", "private", "writing", "closed"}
    /\ stage' = [stage EXCEPT ![w] = "killed"]
    /\ UNCHANGED <<temp, file, saved, loaded>>

-----------------------------------------------------------------------------
\* It parses, and has facts or classes.
Usable(content) == content \in {Whole(w) : w \in Savers \ Bare}

\* LoadSnapshotFile: one read of whatever the path names at the moment.
Load(r) ==
    /\ loaded[r] = NotYet
    /\ loaded' = [loaded EXCEPT ![r] = IF Usable(file.content) THEN file.content ELSE Refused]
    /\ UNCHANGED <<stage, temp, file, saved>>

Next ==
    \/ \E w \in Savers : \/ CreateTemp(w) \/ Chmod(w) \/ WriteSome(w) \/ WriteRest(w)
                         \/ Rename(w) \/ Fail(w) \/ Kill(w)
    \/ \E r \in Loaders : Load(r)

Spec == Init /\ [][Next]_vars

-----------------------------------------------------------------------------
(* Properties                                                              *)

\* snapshot.go:142, "the file is kept readable by its owner only": nothing of a snapshot is
\* ever in a file that others can read, the temporary one and the one a killed process left
\* included.
FactsStayPrivate == \A f \in {temp[w] : w \in Savers} \cup {file} :
    f.content.part \in {"half", "whole"} => f.private

\* Whoever saves and dies at whatever point, the path names what it named at the start or
\* the whole of one snapshot; after a Save that succeeded it names a whole one.
FileIsWhole ==
    /\ file.content.of # Nobody => file.content.part = "whole"
    /\ (\E w \in Savers : stage[w] = "done") => file.content \in saved

\* snapshot.go:172, "reads a snapshot saved by Save": a load gives a snapshot some Save had
\* finished by then, or an error; never a part of one and never somebody else's file.
LoadsAreSaved == \A r \in Loaders : loaded[r] \in {NotYet, Refused} \cup saved

\* Together: what is loaded was saved whole, and nobody else could read it.
SavesAreSafe == FactsStayPrivate /\ FileIsWhole /\ LoadsAreSaved
===============================================================================
