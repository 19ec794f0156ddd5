------------------------------- MODULE Cutover -------------------------------
(***************************************************************************)
(* Self-update: runs of the updater, each of which first recovers what an  *)
(* interrupted run left behind and then may cut over to a newer version    *)
(* (snapshot, drain, switch, start, probe, confirm or revert), against the *)
(* daemon they stop and start, which meanwhile serves mail, migrates its   *)
(* databases when a newer version opens them, and may die.                 *)
(*                                                                         *)
(* A run is one process (RunLock): pc says what it does next, and it may   *)
(* die anywhere, alone or with the whole machine.  What lasts is on disk:  *)
(* the state file `rec`, the symlink `current`, the live databases, those  *)
(* moved aside, and the snapshots.  The databases are the control database *)
(* and one account's mail; a copy that was torn counts as a missing file.  *)
(*                                                                         *)
(* An operator named Bug... is the definition after it as a plausible      *)
(* mistake would have it; nothing uses it.  It serves to show that the     *)
(* properties notice the mistake.                                          *)
(***************************************************************************)
EXTENDS Integers, FiniteSets

CONSTANTS
    Versions,    \* the versions, a newer one a descendant of an older one
    First,       \* the one adopted
    SchemaOf,    \* the schema a version migrates a database to
    Mails,
    None,        \* null: no version, no snapshot directory
    NoFile,      \* no such database, or a torn one
    Home, Aside, \* a mail database's place: with the control database, or moved aside
    MaxCrashes, MaxFaults

MailDb == [schema : Nat, main : SUBSET Mails, wal : SUBSET Mails]
ControlDb == [schema : Nat, path : Versions \cup {Home}]
Snapshot == [schema : Nat, mail : MailDb \cup {NoFile}]

ASSUME CutoverAssumption ==
    /\ Versions \subseteq Nat /\ First \in Versions
    /\ SchemaOf \in [Versions -> Nat]
    /\ \A v, w \in Versions : v <= w => SchemaOf[v] <= SchemaOf[w]
    /\ {None, Home, Aside} \cap Versions = {} /\ Home # Aside
    /\ NoFile \notin MailDb \cup ControlDb /\ None \notin Snapshot
    /\ MaxCrashes \in Nat /\ MaxFaults \in Nat

VARIABLES
    \* the updater
    pc,         \* what the run at hand does next; "none": no run
    build,      \* the version whose code the run executes
    ending,     \* why the snapshot is dropped: "recover", "abandon", "revert", "confirm"
    rec,        \* the state file
    current,    \* the symlink
    snaps,      \* the directory pre-<version>, or None
    \* the daemon
    daemon,     \* "down", "up" or "stopping"
    wanted,     \* systemd (re)starts it
    store,      \* where the mail database is that it has open
    \* its databases
    control,    \* schema, and the directory its account's mail is in, or NoFile
    mail,       \* schema, checkpointed mail, mail in the write-ahead log, or NoFile
    aside,      \* the mail in databases moved aside
    \* history and bounds
    delivered,  \* answered 250
    confirmed,  \* the versions that passed a watch, and the one adopted
    told,       \* the snapshots the operator was told to restore by hand
    crashes, faults

diskVars == <<control, mail, aside>>
daemonVars == <<daemon, wanted, store>>
historyVars == <<delivered, confirmed, told, crashes, faults>>
vars == <<pc, build, ending, rec, current, snaps, daemonVars, diskVars, historyVars>>

Phases == {"idle", "verified", "snapshotted", "draining", "switching", "probing",
           "reverting", "confirmed"}

TypeOK ==
    /\ pc \in {"none", "recover", "check", "snapshot", "snapshotted", "draining",
               "drain", "switching", "switch", "probing", "start", "probe", "reverting",
               "stop", "back", "restore", "copyControl", "restoreMail", "copyMail",
               "restart", "drop", "idle", "ensure", "confirm"}
    /\ build \in Versions
    /\ ending \in {"recover", "abandon", "revert", "confirm"}
    /\ rec \in [phase : Phases, candidate : Versions \cup {None},
                previous : Versions \cup {None}, dir : Versions \cup {None},
                moved : BOOLEAN]
    /\ rec.phase \in {"switching", "probing", "reverting"} =>
          None \notin {rec.candidate, rec.previous, rec.dir}
    /\ current \in Versions
    /\ snaps \in [Versions -> Snapshot \cup {None}]
    /\ daemon \in {"down", "up", "stopping"} /\ wanted \in BOOLEAN
    /\ store \in {Home, Aside}
    /\ control \in ControlDb \cup {NoFile} /\ mail \in MailDb \cup {NoFile}
    /\ aside \subseteq Mails /\ delivered \subseteq Mails
    /\ confirmed \subseteq Versions /\ told \subseteq Versions
    /\ crashes \in Nat /\ faults \in Nat

\* A version was adopted and serves.
Init ==
    /\ pc = "none" /\ build = First /\ ending = "recover"
    /\ rec = [phase |-> "idle", candidate |-> None, previous |-> None, dir |-> None,
              moved |-> FALSE]
    /\ current = First
    /\ snaps = [v \in Versions |-> None]
    /\ daemon = "up" /\ wanted = TRUE /\ store = Home
    /\ control = [schema |-> SchemaOf[First], path |-> Home]
    /\ mail = [schema |-> SchemaOf[First], main |-> {}, wal |-> {}]
    /\ aside = {}
    /\ delivered = {} /\ confirmed = {First} /\ told = {}
    /\ crashes = 0 /\ faults = 0

-----------------------------------------------------------------------------
(* The daemon and its supervisor *)

Held(db) == IF db = NoFile THEN {} ELSE db.main \cup db.wal

\* A build refuses a database from the future.  One that is not there it creates:
\* a control database without an account, with which it refuses to serve ...
CanOpen(v, db) == db # NoFile /\ db.schema <= SchemaOf[v]

\* ... and an account's empty mail database.
Fits(v, db) == db = NoFile \/ db.schema <= SchemaOf[v]
Opened(v, db) ==
    IF db = NoFile THEN [schema |-> SchemaOf[v], main |-> {}, wal |-> {}]
                   ELSE [db EXCEPT !.schema = SchemaOf[v]]

\* Whoever opens the control database brings it to the schema of its own code.
Stamp(v) == control' = [control EXCEPT !.schema = SchemaOf[v]]

\* The account's mail can be opened where the control database says it is; a
\* snapshot directory is the updater's own, or gone.
MailOpens(v) == control.path = Home /\ Fits(v, mail)

\* The process starts from the symlink and migrates what it opens: the control
\* database, then the mail of every account.
Boot ==
    /\ daemon = "down" /\ wanted
    /\ CanOpen(current, control) /\ MailOpens(current)
    /\ daemon' = "up" /\ store' = Home
    /\ Stamp(current) /\ mail' = Opened(current, mail)
    /\ UNCHANGED <<pc, build, ending, rec, current, snaps, wanted, aside, historyVars>>

\* It exits when a mail database does not open; the control database is migrated.
BootFails ==
    /\ daemon = "down" /\ wanted
    /\ CanOpen(current, control) /\ ~MailOpens(current)
    /\ Stamp(current)
    /\ UNCHANGED <<pc, build, ending, rec, current, snaps, daemonVars, mail, aside, historyVars>>

\* A message is stored, then answered 250; a session under way ends in a drain.
Deliver(m) ==
    /\ daemon # "down"
    /\ m \notin delivered
    /\ \/ store = Home /\ mail' = [mail EXCEPT !.wal = @ \cup {m}] /\ UNCHANGED aside
       \/ store = Aside /\ aside' = aside \cup {m} /\ UNCHANGED mail
    /\ delivered' = delivered \cup {m}
    /\ UNCHANGED <<pc, build, ending, rec, current, snaps, daemonVars, control, confirmed, told,
                   crashes, faults>>

Down == daemon' = "down" /\ store' = Home

\* The last connection closed cleanly checkpoints the log.
Checkpoint ==
    mail' = IF store = Home /\ mail # NoFile
            THEN [mail EXCEPT !.main = mail.main \cup mail.wal, !.wal = {}] ELSE mail

\* It dies of itself; the log stays as it is.
Die ==
    /\ daemon # "down"
    /\ Down
    /\ UNCHANGED <<pc, build, ending, rec, current, snaps, wanted, diskVars, historyVars>>

\* A stop that outlasted the updater's deadline completes.
Stopped ==
    /\ daemon = "stopping"
    /\ Down
    /\ Checkpoint
    /\ UNCHANGED <<pc, build, ending, rec, current, snaps, wanted, control, aside, historyVars>>

\* service.start: a daemon that is stopping comes up again afterwards.
StartService == wanted' = TRUE

\* service.stop: a clean exit, a kill with the log hot, or no answer in time.
StopService(drained) ==
    /\ wanted' = FALSE
    /\ \/ drained /\ Down /\ Checkpoint
       \/ ~drained /\ Down /\ UNCHANGED mail
       \/ /\ ~drained /\ daemon # "down" /\ daemon' = "stopping"
          /\ UNCHANGED <<store, mail>>

-----------------------------------------------------------------------------
(* A run: recovery *)

Goto(from, to) == pc = from /\ pc' = to
Enter(phase) == rec' = [rec EXCEPT !.phase = phase]
Destroy(dir) == snaps' = IF dir = None THEN snaps ELSE [snaps EXCEPT ![dir] = None]

runFrame == <<daemonVars, diskVars, historyVars>>

Begin ==
    /\ Goto("none", "recover")
    /\ build' = current
    /\ UNCHANGED <<ending, rec, current, snaps, runFrame>>

RecoverNothing ==
    /\ Goto("recover", "check")
    /\ rec.phase \in {"idle", "confirmed"}
    /\ UNCHANGED <<build, ending, rec, current, snaps, runFrame>>

\* Nothing is suspect before the drain is over.
BugUnconfirmed == rec.phase \in {"probing", "reverting"} /\ current # rec.previous

\* `current` is a version nobody confirmed.
Unconfirmed ==
    rec.phase \in {"switching", "probing", "reverting"} /\ current # rec.previous

\* The swap never happened, or a revert got as far as the symlink.
RecoverUnchanged ==
    /\ Goto("recover", "idle")
    /\ rec.phase \notin {"idle", "confirmed"} /\ ~Unconfirmed
    /\ Destroy(rec.dir)
    /\ ending' = "recover"
    /\ UNCHANGED <<build, rec, current, runFrame>>

RecoverUnconfirmed ==
    /\ Goto("recover", "stop")
    /\ Unconfirmed
    /\ ending' = "recover"
    /\ UNCHANGED <<build, rec, current, snaps, runFrame>>

-----------------------------------------------------------------------------
(* A run: the way forward *)

\* The ladder, which works on a snapshot of its own: it fails, or is all there was
\* to do, or the run goes on to the cutover.
Check(v) ==
    /\ v > current
    /\ IF CanOpen(build, control) THEN Stamp(build) ELSE UNCHANGED control
    /\ \/ /\ Goto("check", "none")
          /\ rec' = [rec EXCEPT !.candidate = None, !.previous = current, !.phase = "idle"]
       \/ /\ pc = "check" /\ pc' \in {"none", "snapshot"}
          /\ CanOpen(build, control)
          /\ rec' = [rec EXCEPT !.candidate = v, !.previous = current, !.phase = "verified"]
    /\ UNCHANGED <<build, ending, current, snaps, daemonVars, mail, aside, historyVars>>

\* No newer version, or no answer from the remote.
UpToDate ==
    /\ Goto("check", "none")
    /\ UNCHANGED <<build, ending, rec, current, snaps, runFrame>>

\* A consistent copy of every database.  An account whose mail does not exist is
\* left out; one whose mail is outside the data directory is refused.
TakeSnapshot ==
    /\ Goto("snapshot", "snapshotted")
    /\ CanOpen(build, control)
    /\ \A v \in Versions \ {rec.candidate} : control.path = v => snaps[v] = None
    /\ snaps' = [snaps EXCEPT ![rec.candidate] =
                   [schema |-> control.schema,
                    mail |-> IF control.path # Home \/ mail = NoFile THEN NoFile
                             ELSE [mail EXCEPT !.main = Held(mail), !.wal = {}]]]
    /\ UNCHANGED <<build, ending, rec, current, runFrame>>

SnapshotFails ==
    /\ Goto("snapshot", "none")
    /\ snaps' = [snaps EXCEPT ![rec.candidate] = None]
    /\ UNCHANGED <<build, ending, rec, current, runFrame>>

EnterSnapshotted ==
    /\ Goto("snapshotted", "draining")
    /\ rec' = [rec EXCEPT !.phase = "snapshotted", !.dir = rec.candidate,
                          !.moved = SchemaOf[rec.candidate] > control.schema]
    /\ UNCHANGED <<build, ending, current, snaps, runFrame>>

EnterDraining ==
    /\ Goto("draining", "drain") /\ Enter("draining")
    /\ UNCHANGED <<build, ending, current, snaps, runFrame>>

\* The daemon finished and stopped; else the cutover is abandoned.
Drain ==
    /\ \/ Goto("drain", "switching") /\ StopService(TRUE) /\ UNCHANGED ending
       \/ Goto("drain", "drop") /\ StopService(FALSE) /\ ending' = "abandon"
    /\ UNCHANGED <<build, rec, current, snaps, control, aside, historyVars>>

EnterSwitching ==
    /\ Goto("switching", "switch") /\ Enter("switching")
    /\ UNCHANGED <<build, ending, current, snaps, runFrame>>

Switch ==
    /\ Goto("switch", "probing")
    /\ current' = rec.candidate
    /\ UNCHANGED <<build, ending, rec, snaps, runFrame>>

EnterProbing ==
    /\ Goto("probing", "start") /\ Enter("probing")
    /\ UNCHANGED <<build, ending, current, snaps, runFrame>>

StartCandidate ==
    /\ Goto("start", "probe") /\ StartService
    /\ UNCHANGED <<build, ending, rec, current, snaps, daemon, store, diskVars, historyVars>>

\* Both probes and the watch between them succeed.  The probe takes its account
\* from the live control database, which this run's code must be able to open.
ProbeOk ==
    /\ Goto("probe", "drop")
    /\ daemon = "up"
    /\ CanOpen(build, control)
    /\ ending' = "confirm"
    /\ UNCHANGED <<build, rec, current, snaps, runFrame>>

\* It did not start, stopped running, or mail did not come back.
ProbeFails ==
    /\ Goto("probe", "reverting")
    /\ UNCHANGED <<build, ending, rec, current, snaps, runFrame>>

Confirm ==
    /\ Goto("confirm", "none")
    /\ rec' = [rec EXCEPT !.phase = "confirmed", !.previous = rec.candidate,
                          !.candidate = None, !.dir = None]
    /\ confirmed' = confirmed \cup {rec.candidate}
    /\ UNCHANGED <<build, ending, current, snaps, daemonVars, diskVars, delivered, told, crashes,
                   faults>>

-----------------------------------------------------------------------------
(* A run: the way back *)

EnterReverting ==
    /\ Goto("reverting", "stop") /\ Enter("reverting")
    /\ ending' = "revert"
    /\ UNCHANGED <<build, current, snaps, runFrame>>

\* revertTo does not look at the answer.
RevertStop ==
    /\ Goto("stop", "back")
    /\ \E drained \in BOOLEAN : StopService(drained)
    /\ UNCHANGED <<build, ending, rec, current, snaps, control, aside, historyVars>>

\* The databases stay as the candidate left them.
BugSwitchBack ==
    /\ Goto("back", "restart")
    /\ current' = rec.previous
    /\ UNCHANGED <<build, ending, rec, snaps, runFrame>>

SwitchBack ==
    /\ Goto("back", IF rec.moved THEN "restore" ELSE "restart")
    /\ current' = rec.previous
    /\ UNCHANGED <<build, ending, rec, snaps, runFrame>>

restoreFrame == <<build, ending, rec, current, snaps, historyVars>>

\* The control database is renamed aside ...
MoveControlAside ==
    /\ Goto("restore", "copyControl")
    /\ snaps[rec.dir] # None
    /\ control' = NoFile
    /\ UNCHANGED <<restoreFrame, daemonVars, mail, aside>>

\* ... and the copy put in its place, in which the accounts' mail was redirected
\* into the snapshot when it was taken.
CopyControl ==
    /\ Goto("copyControl", IF snaps[rec.dir].mail = NoFile THEN "restart" ELSE "restoreMail")
    /\ control' = [schema |-> snaps[rec.dir].schema, path |-> rec.dir]
    /\ UNCHANGED <<restoreFrame, daemonVars, mail, aside>>

\* The write-ahead log is unlinked.
BugMoveMailAside ==
    /\ Goto("restoreMail", "copyMail")
    /\ aside' = aside \cup (IF mail = NoFile THEN {} ELSE mail.main)
    /\ mail' = NoFile
    /\ store' = IF daemon # "down" /\ store = Home THEN Aside ELSE store
    /\ UNCHANGED <<restoreFrame, daemon, wanted, control>>

\* The mail database is renamed aside with its log; who has it open keeps it open.
MoveMailAside ==
    /\ Goto("restoreMail", "copyMail")
    /\ aside' = aside \cup Held(mail)
    /\ mail' = NoFile
    /\ store' = IF daemon # "down" /\ store = Home THEN Aside ELSE store
    /\ UNCHANGED <<restoreFrame, daemon, wanted, control>>

CopyMail ==
    /\ Goto("copyMail", "restart")
    /\ mail' = snaps[rec.dir].mail
    /\ UNCHANGED <<restoreFrame, daemonVars, control, aside>>

\* The snapshot is not there, or a rename or copy throws: tell, and do not start.
RestoreFails ==
    /\ pc \in {"restore", "copyControl", "restoreMail", "copyMail"}
    /\ pc' = "drop"
    /\ \/ pc = "restore" /\ snaps[rec.dir] = None /\ UNCHANGED faults
       \/ faults < MaxFaults /\ faults' = faults + 1
    /\ told' = told \cup {rec.dir}
    /\ UNCHANGED <<build, ending, rec, current, snaps, daemonVars, diskVars, delivered, confirmed,
                   crashes>>

RevertStart ==
    /\ Goto("restart", "drop") /\ StartService
    /\ UNCHANGED <<build, ending, rec, current, snaps, daemon, store, diskVars, historyVars>>

\* The snapshot of a failed cutover is left behind.
BugDropSnapshot ==
    /\ Goto("drop", IF ending = "confirm" THEN "confirm" ELSE "idle")
    /\ IF ending = "confirm" THEN Destroy(rec.dir) ELSE UNCHANGED snaps
    /\ UNCHANGED <<build, ending, rec, current, runFrame>>

DropSnapshot ==
    /\ Goto("drop", IF ending = "confirm" THEN "confirm" ELSE "idle")
    /\ Destroy(rec.dir)
    /\ UNCHANGED <<build, ending, rec, current, runFrame>>

ToIdle ==
    /\ Goto("idle", IF ending = "revert" THEN "none" ELSE "ensure")
    /\ rec' = [rec EXCEPT !.phase = "idle", !.candidate = None, !.dir = None]
    /\ UNCHANGED <<build, ending, current, snaps, runFrame>>

\* The run returns; whoever stopped the daemon did not mean to.
BugEnsureUp ==
    /\ Goto("ensure", IF ending = "recover" THEN "check" ELSE "none")
    /\ UNCHANGED <<build, ending, rec, current, snaps, runFrame>>

\* After an abandoned drain, and after every recovery, the daemon is started.
EnsureUp ==
    /\ Goto("ensure", IF ending = "recover" THEN "check" ELSE "none")
    /\ StartService
    /\ UNCHANGED <<build, ending, rec, current, snaps, daemon, store, diskVars, historyVars>>

-----------------------------------------------------------------------------
(* Crashes *)

\* The updater dies, at the bounds' discretion: a copy under way stays torn.
UpdaterDies ==
    /\ pc # "none"
    /\ crashes < MaxCrashes
    /\ crashes' = crashes + 1
    /\ pc' = "none"
    /\ UNCHANGED <<build, ending, rec, current, snaps, daemonVars, diskVars, delivered, confirmed,
                   told, faults>>

\* The machine loses power; the unit is started at boot.  Commits are durable.
PowerCut ==
    /\ crashes < MaxCrashes
    /\ crashes' = crashes + 1
    /\ pc' = "none"
    /\ Down /\ wanted' = TRUE
    /\ UNCHANGED <<build, ending, rec, current, snaps, diskVars, delivered, confirmed, told, faults>>

Run ==
    \/ RecoverNothing \/ RecoverUnchanged \/ RecoverUnconfirmed
    \/ \E v \in Versions : Check(v)
    \/ UpToDate
    \/ TakeSnapshot \/ SnapshotFails \/ EnterSnapshotted \/ EnterDraining \/ Drain
    \/ EnterSwitching \/ Switch \/ EnterProbing \/ StartCandidate
    \/ ProbeOk \/ ProbeFails \/ Confirm
    \/ EnterReverting \/ RevertStop \/ SwitchBack
    \/ MoveControlAside \/ CopyControl \/ MoveMailAside \/ CopyMail \/ RestoreFails
    \/ RevertStart \/ DropSnapshot \/ ToIdle \/ EnsureUp

Next ==
    \/ Begin \/ Run
    \/ Boot \/ BootFails \/ (\E m \in Mails : Deliver(m)) \/ Die \/ Stopped
    \/ UpdaterDies \/ PowerCut

(* A run goes on by itself (all its waits have deadlines), and systemd     *)
(* completes a stop and starts the unit.  The timer's runs are hours apart *)
(* and a start takes seconds, hence SF for the boot.                       *)
Spec == Init /\ [][Next]_vars /\ WF_vars(Run) /\ WF_vars(Stopped) /\ SF_vars(Boot)

-----------------------------------------------------------------------------

Resting == pc = "none"

(* However runs are interrupted, a version nobody confirmed is left in     *)
(* place only under a recorded phase from which the next run goes back to  *)
(* one that was (recoverPhase).                                            *)
OnlyConfirmedStays ==
    Resting /\ current \notin confirmed =>
        /\ rec.phase \in {"switching", "probing", "reverting"}
        /\ rec.previous \in confirmed

(* No message answered 250 is lost by an update, an abandoned one, a       *)
(* revert or a recovery: it is in the live mail database or in one moved   *)
(* aside, whatever becomes of the snapshots - also when the daemon was     *)
(* killed with its write-ahead log hot, or still ran while its files were  *)
(* moved (restoreOne).                                                     *)
MailKept == delivered \subseteq Held(mail) \cup aside

(* A run that was not interrupted leaves no snapshot behind: each is a     *)
(* copy of every secret of the deployment.                                 *)
NoSnapshotLeft == Resting /\ crashes = 0 => \A v \in Versions : snaps[v] = None

(* The daemon's accounts are still where the live deployment keeps them.    *)
AtHome == control # NoFile => control.path = Home

(* A run that was not interrupted, and whose restore did not fail, leaves  *)
(* no database from the future: neither the control database nor the       *)
(* account's mail is at a schema that the version in place refuses, also   *)
(* after the candidate migrated them (schemaMovedForward).  Whether that   *)
(* version finds the mail is another question: see AccountsFindTheirMail.  *)
NothingFromTheFuture ==
    Resting /\ crashes + faults = 0 => CanOpen(current, control) /\ Fits(current, mail)

(* ... and the daemon keeps coming back up, whether the drain timed out,   *)
(* the candidate died or the probe failed - unless a revert put the        *)
(* control database of the snapshot back, with which no version starts:    *)
(* see DaemonComesBack.                                                    *)
ServesAgain == []<>(daemon = "up" \/ ~AtHome \/ crashes + faults > 0)

-----------------------------------------------------------------------------
(* What comments and documents say, and the code does not do *)

(* cutover.ts, restoreSnapshot's step: "the pre-cutover databases were put *)
(* back".  Whoever is not interrupted leaves accounts that find their mail.*)
AccountsFindTheirMail == Resting /\ crashes + faults = 0 => AtHome

(* ADR 0025: "If the probe fails, or the new version stops running inside  *)
(* the watchdog window, the updater flips the symlink back and restarts."  *)
DaemonComesBack == []<>(daemon = "up" \/ crashes + faults > 0)

(* cutover.ts: "RESTORE FAILED ... The snapshot is still at ...; restore   *)
(* it by hand".                                                            *)
FailedRestoreKeepsSnapshot ==
    Resting /\ crashes = 0 => \A v \in told : snaps[v] # None

(* ADR 0025: "Recovery always leaves the mail server running."  Whoever    *)
(* recovered starts a version that can open the databases.                 *)
RecoveryLeavesServable ==
    pc = "ensure" /\ ending = "recover" => CanOpen(current, control)
==============================================================================
