------------------------------- MODULE HvmInfo -------------------------------
(***************************************************************************)
(* Which hypervisor a VM runs on: the daemon of the VM asks over a serial  *)
(* port (hvminfo/client.go), the daemon of the hypervisor answers over UDP *)
(* (hvminfo/server.go), and the answer becomes a puppet fact file.  The VM *)
(* is migrated at any time.  Two goroutines of the client share the port:  *)
(* one writes a command every five minutes, the other reads lines.         *)
(***************************************************************************)
EXTENDS Naturals, Sequences

CONSTANTS
    Hosts,        \* hypervisors
    None,         \* no file, or nothing read
    Noise,        \* a line that is no JSON, or no object
    Nameless,     \* a line that decodes and has no fqdn
    MaxFaults,    \* bound on failing steps of any kind: lines, disk, servers, processes
    MaxLines      \* room on the way from the hypervisor to the reader

BoundsAssumption == MaxFaults \in Nat /\ MaxLines \in Nat \ {0}
NamesAssumption == Hosts \cap {None, Noise, Nameless} = {} /\ None \notin {Noise, Nameless}

File == [host : Hosts, whole : BOOLEAN] \cup {None}

VARIABLES
    host,         \* where the VM is
    visited,      \* history: where it has been
    faults,       \* failing steps so far
    server,       \* the UDP server of each hypervisor: "up" or "broken" (sleeps an hour)
    path,         \* puppet_fact_path is configured
    asked,        \* a command is on its way to the hypervisor
    line,         \* lines on the way back, in order
    reader,       \* the reader: "scan", "open", "write", "rename", "renameAnyway" when
                  \* WriteFile failed, or "exited"
    info,         \* the host of the line it is working on
    temp,         \* <path>.tmp
    fact,         \* <path>
    torn          \* history: WriteFile failed for what <path> was last renamed from

vars == <<host, visited, faults, server, path, asked, line, reader, info, temp, fact, torn>>
wire == <<asked, line>>
client == <<reader, info, temp, fact, torn>>

TypeOK ==
    /\ host \in Hosts /\ visited \subseteq Hosts
    /\ faults \in 0..MaxFaults
    /\ server \in [Hosts -> {"up", "broken"}]
    /\ path \in BOOLEAN /\ asked \in BOOLEAN
    /\ line \in Seq(Hosts \cup {Noise, Nameless}) /\ Len(line) <= MaxLines
    /\ reader \in {"scan", "open", "write", "rename", "renameAnyway", "exited"}
    /\ info \in Hosts \cup {None}
    /\ temp \in File /\ fact \in File
    /\ torn \in BOOLEAN

\* Both daemons run.  RunClient got the port open, else there is no client at all.
Init ==
    /\ host \in Hosts /\ visited = {host}
    /\ faults = 0
    /\ server \in [Hosts -> {"up", "broken"}]
    /\ path \in BOOLEAN
    /\ asked = FALSE /\ line = <<>>
    /\ reader = "scan" /\ info = None
    /\ temp = None /\ fact = None /\ torn = FALSE

Fault == faults < MaxFaults /\ faults' = faults + 1

-----------------------------------------------------------------------------
(* Plausible bugs of the actions below, put in their place to see that the *)
(* properties notice them                                                  *)

\* The fact file is written in place.
OpenInPlace ==
    /\ reader = "open"
    /\ reader' = "write"
    /\ fact' = [host |-> info, whole |-> FALSE]
    /\ temp' = [host |-> info, whole |-> FALSE]
    /\ UNCHANGED <<host, visited, faults, server, path, wire, info, torn>>

\* A host that is known already is not asked again.
AskOnce ==
    /\ ~asked /\ fact = None
    /\ asked' = TRUE
    /\ UNCHANGED <<host, visited, faults, server, path, line, client>>

-----------------------------------------------------------------------------
(* The client: RunClient and its two goroutines                            *)

\* The writer, every five minutes; a write that fails is logged and tried again next time.
Ask ==
    /\ ~asked
    /\ asked' = TRUE
    /\ UNCHANGED <<host, visited, faults, server, path, line, client>>

\* The next line names a host, and there is a file to keep it in.
TakeLine ==
    /\ reader = "scan" /\ line # <<>>
    /\ Head(line) \in Hosts /\ path
    /\ line' = Tail(line)
    /\ info' = Head(line)
    /\ reader' = "open"
    /\ UNCHANGED <<host, visited, faults, server, path, asked, temp, fact, torn>>

\* It does not decode, names nobody, or nobody wants to know.
SkipLine ==
    /\ reader = "scan" /\ line # <<>>
    /\ Head(line) \in {Noise, Nameless} \/ ~path
    /\ line' = Tail(line)
    /\ UNCHANGED <<host, visited, faults, server, path, asked, client>>

\* ioutil.WriteFile truncates the file, then writes it.
Open ==
    /\ reader = "open"
    /\ reader' = "write"
    /\ temp' = [host |-> info, whole |-> FALSE]
    /\ UNCHANGED <<host, visited, faults, server, path, wire, info, fact, torn>>

Write ==
    /\ reader = "write"
    /\ reader' = "rename"
    /\ temp' = [host |-> info, whole |-> TRUE]
    /\ UNCHANGED <<host, visited, faults, server, path, wire, info, fact, torn>>

\* WriteFile fails, before or after it opened the file; that is logged and no more.
WriteFails ==
    /\ reader \in {"open", "write"}
    /\ Fault
    /\ reader' = "renameAnyway"
    /\ UNCHANGED <<host, visited, server, path, wire, info, temp, fact, torn>>

\* Whatever is there under the temporary name becomes the fact, and nothing does if there is
\* nothing.
Rename ==
    /\ reader \in {"rename", "renameAnyway"}
    /\ reader' = "scan" /\ info' = None
    /\ IF temp = None THEN UNCHANGED <<fact, torn>>
                      ELSE fact' = temp /\ torn' = (reader = "renameAnyway")
    /\ temp' = None
    /\ UNCHANGED <<host, visited, faults, server, path, wire>>

RenameFails ==
    /\ reader \in {"rename", "renameAnyway"}
    /\ Fault
    /\ reader' = "scan" /\ info' = None
    /\ UNCHANGED <<host, visited, server, path, wire, temp, fact, torn>>

\* The port can not be read, or a line is too long: the loop is over, the writer goes on.
ReaderExits ==
    /\ reader = "scan"
    /\ Fault
    /\ reader' = "exited"
    /\ UNCHANGED <<host, visited, server, path, wire, info, temp, fact, torn>>

\* The daemon of the VM is killed at any step, and started again.
Restart ==
    /\ Fault
    /\ reader' = "scan" /\ info' = None
    /\ asked' = FALSE
    /\ UNCHANGED <<host, visited, server, path, line, temp, fact, torn>>

-----------------------------------------------------------------------------
(* The hypervisor: RunServer                                               *)

\* A packet with the command in it is answered with one line.
Serve ==
    /\ asked /\ server[host] = "up" /\ Len(line) < MaxLines
    /\ asked' = FALSE
    /\ line' = Append(line, host)
    /\ UNCHANGED <<host, visited, faults, server, path, client>>

\* Reading a packet fails: an hour later the process panics.
Break(h) ==
    /\ server[h] = "up"
    /\ Fault
    /\ server' = [server EXCEPT ![h] = "broken"]
    /\ UNCHANGED <<host, visited, path, wire, client>>

\* The hour is over and the daemon is started again (external); so is one that found the
\* address in use.
Recover(h) ==
    /\ server[h] = "broken"
    /\ server' = [server EXCEPT ![h] = "up"]
    /\ UNCHANGED <<host, visited, faults, path, wire, client>>

-----------------------------------------------------------------------------
(* The line and the VM (external)                                          *)

\* Nobody listens, there is no room, or the packet or its answer is lost on the way.
Lose ==
    /\ asked
    /\ \/ Fault
       \/ (server[host] # "up" \/ Len(line) = MaxLines) /\ UNCHANGED faults
    /\ asked' = FALSE
    /\ UNCHANGED <<host, visited, server, path, line, client>>

\* Bytes on the serial line that are no answer, or part of one.
Garble ==
    /\ Len(line) < MaxLines
    /\ Fault
    /\ \E n \in {Noise, Nameless} : line' = Append(line, n)
    /\ UNCHANGED <<host, visited, server, path, asked, client>>

\* The VM moves to a hypervisor it was not on before; what is on its way stays on its way.
Migrate(h) ==
    /\ h \notin visited
    /\ host' = h
    /\ visited' = visited \cup {h}
    /\ UNCHANGED <<faults, server, path, wire, client>>

-----------------------------------------------------------------------------
Reader == TakeLine \/ SkipLine \/ Open \/ Write \/ Rename

Next == \/ Ask \/ Reader \/ WriteFails \/ RenameFails \/ ReaderExits \/ Restart
        \/ Serve \/ Lose \/ Garble
        \/ \E h \in Hosts : Break(h) \/ Recover(h) \/ Migrate(h)

Spec == Init /\ [][Next]_vars

\* The goroutines run, and a server that broke is started again; a packet that can be
\* answered again and again is answered.
Fairness ==
    /\ WF_vars(Ask) /\ WF_vars(Reader) /\ SF_vars(Serve)
    /\ \A h \in Hosts : WF_vars(Recover(h))

FairSpec == Spec /\ Fairness

-----------------------------------------------------------------------------
(* Properties                                                              *)

\* The point of the temporary file: the fact puppet reads is of a hypervisor the VM has really
\* been on and complete, whatever moment the VM's daemon is killed and whatever that left
\* under the temporary name.  The one way to an incomplete fact is the rename that follows a
\* WriteFile that failed (client.go:62-66), and the fact of the next line that can be written
\* is complete again.
FactIsSound == fact # None =>
    /\ fact.host \in visited
    /\ fact.whole \/ torn

\* README:468, "The client asks every 5 minutes and writes vm_host": a VM that stays where
\* it is ends up with the fact of that host, whatever was lost, garbled, half written or
\* still on its way from the host before - as long as the reader lives, which nothing
\* starts again.
FactFollows == \A h \in Hosts :
    <>[](host = h /\ path /\ reader # "exited") => <>[](fact = [host |-> h, whole |-> TRUE])
==============================================================================
