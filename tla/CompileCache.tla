---------------------------- MODULE CompileCache ----------------------------
(***************************************************************************)
(* The on-demand build of the worker (computerUseWorkerPath in             *)
(* computeruse/worker_darwin.go): processes of the program share a cache   *)
(* directory with the published binary, the source the compiler reads and  *)
(* a staging file per process id.  A process may crash anywhere, and a     *)
(* later one may have its process id and find its staging file.            *)
(***************************************************************************)
CONSTANT Process    \* process ids

VARIABLES
    phase,      \* where each process is in computerUseWorkerPath
    source,     \* main.swift in the cache directory
    read,       \* the source as each process's compiler read it
    staged,     \* the staging files
    binary,     \* herbie-computer, the published worker
    overlapped  \* history: two processes have been in here at once

cacheVars == <<phase, source, read, staged, binary, overlapped>>

Source == {"absent", "torn", "full"}            \* torn: empty or cut short
Binary == {"absent", "partial", "broken", "good"} \* broken: built of torn source

Active(p) == phase[p] \notin {"idle", "found", "failed"}

CacheTypeOK ==
    /\ phase \in [Process -> {"idle", "stat", "open", "write", "compile", "link", "publish",
                             "found", "failed"}]
    /\ source \in Source
    /\ read \in [Process -> Source]
    /\ staged \in [Process -> Binary]
    /\ binary \in Binary
    /\ overlapped \in BOOLEAN

CacheInit ==
    /\ phase = [p \in Process |-> "idle"]
    /\ source = "absent"
    /\ read = [p \in Process |-> "absent"]
    /\ staged = [p \in Process |-> "absent"]
    /\ binary = "absent"
    /\ overlapped = FALSE

Goto(p, label) == phase' = [phase EXCEPT ![p] = label]

\* A process needs the worker.
Enter(p) ==
    /\ phase[p] = "idle"
    /\ Goto(p, "stat")
    /\ overlapped' = (overlapped \/ \E q \in Process : Active(q))
    /\ UNCHANGED <<source, read, staged, binary>>

\* os.Stat finds an executable: nothing is built.
Hit(p) ==
    /\ phase[p] = "stat"
    /\ binary # "absent"
    /\ Goto(p, "found")
    /\ UNCHANGED <<source, read, staged, binary, overlapped>>

Miss(p) ==
    /\ phase[p] = "stat"
    /\ binary = "absent"
    /\ Goto(p, "open")
    /\ UNCHANGED <<source, read, staged, binary, overlapped>>

\* Mutant: a source that is there already is not written again.
TruncateOnce(p) ==
    /\ phase[p] = "open"
    /\ source' = IF source = "absent" THEN "torn" ELSE source
    /\ Goto(p, IF source = "absent" THEN "write" ELSE "compile")
    /\ UNCHANGED <<read, staged, binary, overlapped>>

\* os.WriteFile truncates the source that all processes share ...
Truncate(p) ==
    /\ phase[p] = "open"
    /\ source' = "torn"
    /\ Goto(p, "write")
    /\ UNCHANGED <<read, staged, binary, overlapped>>

\* ... and writes it.
WriteSource(p) ==
    /\ phase[p] = "write"
    /\ source' = "full"
    /\ Goto(p, "compile")
    /\ UNCHANGED <<read, staged, binary, overlapped>>

\* Mutant: one staging file for all.
SharedSlot(p) == CHOOSE q \in Process : TRUE

\* The staging file of a process has its process id in its name.
Slot(p) == p

\* swiftc reads the source and starts on its output.
Compile(p) ==
    /\ phase[p] = "compile"
    /\ read' = [read EXCEPT ![p] = source]
    /\ staged' = [staged EXCEPT ![Slot(p)] = "partial"]
    /\ Goto(p, "link")
    /\ UNCHANGED <<source, binary, overlapped>>

\* An empty file is a valid program; it just is not the worker.
Built(p) == IF read[p] = "full" THEN "good" ELSE "broken"

\* swiftc succeeds.
Link(p) ==
    /\ phase[p] = "link"
    /\ staged' = [staged EXCEPT ![Slot(p)] = Built(p)]
    /\ Goto(p, "publish")
    /\ UNCHANGED <<source, read, binary, overlapped>>

\* Mutant: the source is renamed, not the output.
PublishSource(p) ==
    /\ phase[p] = "publish"
    /\ staged[Slot(p)] # "absent"
    /\ binary' = source
    /\ source' = "absent"
    /\ Goto(p, "found")
    /\ UNCHANGED <<staged, read, overlapped>>

\* os.Chmod and os.Rename
Publish(p) ==
    /\ phase[p] = "publish"
    /\ staged[Slot(p)] # "absent"
    /\ binary' = staged[Slot(p)]
    /\ staged' = [staged EXCEPT ![Slot(p)] = "absent"]
    /\ Goto(p, "found")
    /\ UNCHANGED <<source, read, overlapped>>

\* A step fails (no toolchain, a full disk, source that does not compile, two
\* minutes gone by): the staging file is removed, the source left as it is.
Fail(p) ==
    /\ phase[p] \in {"open", "write", "compile", "link", "publish"}
    /\ staged' = IF phase[p] \in {"open", "write"} THEN staged
                                                ELSE [staged EXCEPT ![Slot(p)] = "absent"]
    /\ Goto(p, "failed")
    /\ UNCHANGED <<source, read, binary, overlapped>>

\* The process exits or crashes; all its files stay.
Leave(p) ==
    /\ phase[p] # "idle"
    /\ Goto(p, "idle")
    /\ UNCHANGED <<source, read, staged, binary, overlapped>>

CacheNext == \E p \in Process :
    \/ Enter(p) \/ Hit(p) \/ Miss(p) \/ Truncate(p) \/ WriteSource(p)
    \/ Compile(p) \/ Link(p) \/ Publish(p) \/ Fail(p) \/ Leave(p)

CacheSpec == CacheInit /\ [][CacheNext]_cacheVars

-----------------------------------------------------------------------------
\* Whatever crashes or overlaps, the published binary is one that a compiler
\* finished: it is staged in a file of the process's own and renamed.
NeverPartial == binary # "partial"

\* A worker built of a torn source is published only after two processes have
\* been in computerUseWorkerPath at once; crashes alone never lead there.
SoundUnlessConcurrent == binary = "broken" => overlapped

\* "A process-unique staging name lets concurrent processes compile without
\* clobbering each other": what is published is the worker.
PublishedIsSound == binary \in {"absent", "good"}
=============================================================================
