------------------------------- MODULE RunLock -------------------------------
(***************************************************************************)
(* The run lock of the version store: a directory, made with mkdir, that   *)
(* holds a file with the pid of the run that made it.  Several runs of the *)
(* updater contend for it, each a process of its own that may be killed    *)
(* anywhere; a run ends and never comes back (a pid names one run).        *)
(*                                                                         *)
(* pc of a run: new; claim (about to mkdir), create and write (making the  *)
(* pid file), read (the lock exists: whose is it?), break (removing a      *)
(* stale lock), reclaim (mkdir again), held, and then over (released,      *)
(* refused or failed with an error) or dead.                               *)
(*                                                                         *)
(* An operator named Bug... is the definition after it as a plausible      *)
(* mistake would have it; nothing uses it.  It serves to show that the     *)
(* properties notice the mistake.                                          *)
(***************************************************************************)
EXTENDS Integers, FiniteSets

CONSTANTS
    Runs,       \* the updater processes
    NoDir,      \* the lock directory does not exist
    NoFile,     \* it exists, the pid file in it does not
    Empty       \* the pid file exists and holds nothing yet

ASSUME RunLockAssumption == {NoDir, NoFile, Empty} \cap Runs = {}

VARIABLES
    pc,
    lock,   \* NoDir, NoFile, Empty, or the run whose pid the file holds
    writers \* the runs that have this file open: a removed file may have others

vars == <<pc, lock, writers>>

Ended == {"over", "dead"}

TypeOK ==
    /\ pc \in [Runs -> {"new", "claim", "create", "write", "read", "break", "reclaim",
                        "held"} \cup Ended]
    /\ lock \in {NoDir, NoFile, Empty} \cup Runs
    /\ writers \subseteq {p \in Runs : pc[p] \in {"write", "dead"}}

Init ==
    /\ pc = [p \in Runs |-> "new"]
    /\ lock = NoDir
    /\ writers = {}

Goto(p, where) == pc' = [pc EXCEPT ![p] = where]

alive(p) == pc[p] \notin Ended

-----------------------------------------------------------------------------
(* acquireRunLock *)

\* A run of the updater starts.
Start(p) ==
    /\ pc[p] = "new"
    /\ Goto(p, "claim")
    /\ UNCHANGED <<lock, writers>>

\* claim: mkdir.  A failure at the first attempt leads to the holder's pid, at
\* the second it is thrown.
Mkdir(p) ==
    /\ pc[p] \in {"claim", "reclaim"}
    /\ IF lock = NoDir THEN lock' = NoFile /\ Goto(p, "create")
       ELSE Goto(p, IF pc[p] = "claim" THEN "read" ELSE "over") /\ UNCHANGED lock
    /\ UNCHANGED writers

\* claim: writeFileSync opens and truncates the file, if there is a directory ...
CreatePidFile(p) ==
    /\ pc[p] = "create"
    /\ IF lock = NoDir THEN Goto(p, "over") /\ UNCHANGED <<lock, writers>>
       ELSE Goto(p, "write") /\ lock' = Empty /\ writers' = writers \cup {p}

\* ... and writes the pid to it, and closes it.
WritePid(p) ==
    /\ pc[p] = "write"
    /\ lock' = IF p \in writers THEN p ELSE lock
    /\ writers' = writers \ {p}
    /\ Goto(p, "held")

\* The holder is not looked for.
BugStale == TRUE

\* holderPid names no live process: the file is not there (the code takes it for
\* released), its run is dead, or it stays empty over all the attempts, which
\* it does not when the run that has it open lives.
Stale ==
    \/ lock \in {NoDir, NoFile}
    \/ lock = Empty /\ \A q \in writers : ~alive(q)
    \/ lock \in Runs /\ ~alive(lock)

\* Every lock bars.
BugReadPid(p) ==
    /\ pc[p] = "read"
    /\ Goto(p, IF lock = NoDir THEN "break" ELSE "over")
    /\ UNCHANGED <<lock, writers>>

\* holderPid, and the refusal when the holder lives.
ReadPid(p) ==
    /\ pc[p] = "read"
    /\ \/ Stale /\ Goto(p, "break")
       \/ lock \in Runs /\ ~Stale /\ Goto(p, "over")
    /\ UNCHANGED <<lock, writers>>

\* rmSync of the directory, whatever it holds by now.
Remove == lock' = NoDir /\ writers' = {}

Break(p) ==
    /\ pc[p] = "break"
    /\ Remove
    /\ Goto(p, "reclaim")

\* release, in the finally of runUpdate.
Release(p) ==
    /\ pc[p] = "held"
    /\ Remove
    /\ Goto(p, "over")

\* SIGKILL or a power cut: the lock stays as it is.
Die(p) ==
    /\ pc[p] \notin Ended \cup {"new"}
    /\ Goto(p, "dead")
    /\ UNCHANGED <<lock, writers>>

Step(p) ==
    \/ Mkdir(p) \/ CreatePidFile(p) \/ WritePid(p)
    \/ ReadPid(p) \/ Break(p) \/ Release(p)

Next == \E p \in Runs : Start(p) \/ Step(p) \/ Die(p)

(* A run that was started goes on by itself; nobody has to start one.      *)
Spec == Init /\ [][Next]_vars /\ \A p \in Runs : WF_vars(Step(p))

-----------------------------------------------------------------------------

(* q holds a lock that says so, and nobody is half way through taking one. *)
Settled(q) ==
    /\ pc[q] = "held" /\ lock = q
    /\ \A p \in Runs \ {q} : pc[p] \notin {"create", "write", "break", "reclaim", "held"}

(* A settled lock stays its holder's until the holder releases it or dies: *)
(* whoever comes later, alone or together, is refused (acquireRunLock).    *)
SettledLockHolds ==
    [][\A q \in Runs : Settled(q) => Settled(q)' \/ pc'[q] \in Ended]_vars

(* A lock left by killed runs is never waited on for ever: a run that finds*)
(* nobody else alive gets it, wherever the others died - between mkdir and *)
(* pid, while breaking or releasing - unless it is killed itself or yet    *)
(* another run starts.                                                     *)
NeverStranded ==
    \A p \in Runs :
        pc[p] = "claim" /\ (\A q \in Runs \ {p} : pc[q] \in Ended \cup {"new"})
          ~> pc[p] \in {"held", "dead"} \/ \E q \in Runs \ {p} : pc[q] \notin Ended \cup {"new"}

-----------------------------------------------------------------------------
(* What a comment says, and the code does not do *)

(* ADR 0025: "Only one run at a time."  run-lock.ts of an owner between its*)
(* mkdir and its pid: a second run "must NOT conclude 'died mid-write,     *)
(* steal it' on the first read".                                           *)
OneRunAtATime == Cardinality({p \in Runs : pc[p] = "held"}) <= 1
==============================================================================
