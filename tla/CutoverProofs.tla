----------------------------- MODULE CutoverProofs -----------------------------
(***************************************************************************)
(* Machine-checked theorems about Cutover, for any versions, schemas and   *)
(* mails, and however often a run or the machine dies.                     *)
(*                                                                         *)
(* PlaceInv says which version is in place and where a run would go back   *)
(* to, MovingInv and HomeInv where the mail is while files are moved; they *)
(* survive a death anywhere.  SnapshotsInv and SchemaInv are about runs    *)
(* that were not interrupted, as the two properties they are for.          *)
(***************************************************************************)
EXTENDS Cutover, TLAPS

\* The recorded phases from which a run goes back.
Suspect == {"switching", "probing", "reverting"}

\* Before the swap, after it, and after the way back's swap.
Ahead == {"snapshot", "snapshotted", "draining", "drain", "switching", "switch"}
Trial == {"probing", "start", "probe", "confirm"}
Restoring == {"restore", "copyControl", "restoreMail", "copyMail"}
Returned == Restoring \cup {"restart"}

(* The version in place was confirmed, or the record names one that was.   *)
PlaceInv ==
    /\ rec.phase \in Suspect => rec.previous \in confirmed
    /\ rec.phase \notin Suspect => current \in confirmed
    /\ pc \in {"check", "idle", "ensure"} \cup Ahead \cup Returned => current \in confirmed
    /\ pc = "drop" /\ ending # "confirm" => current \in confirmed
    /\ pc \in Ahead => rec.candidate \in Versions /\ rec.previous = current
    /\ pc \in Ahead \ {"snapshot", "snapshotted"} => rec.dir = rec.candidate
    /\ pc = "switch" => rec.phase = "switching"
    /\ pc \in Trial \/ (pc = "drop" /\ ending = "confirm") =>
          rec.phase \in Suspect /\ current = rec.candidate
    /\ pc \in {"reverting", "stop", "back"} \cup Returned => rec.phase \in Suspect
    /\ pc \in {"stop", "back"} \cup Returned => ending # "confirm"

(* What is put back is still there while it is copied.                     *)
CopyInv == pc \in Restoring \ {"restore"} => snaps[rec.dir] # None

(* While files are moved nobody starts the daemon, and one still stopping  *)
(* writes where its file went.                                             *)
MovingInv ==
    /\ pc \in {"back"} \cup Returned => ~wanted
    /\ pc = "copyMail" => mail = NoFile
    /\ mail = NoFile /\ daemon # "down" => store = Aside
    /\ MailKept

(* The live control database has its account's mail at home, where it is;  *)
(* the mail is moved only once a copy that points elsewhere is in place.   *)
HasHome == control # NoFile /\ control.path = Home
HomeInv ==
    /\ HasHome => mail # NoFile
    /\ pc \in {"restoreMail", "copyMail"} => ~HasHome

(* The only snapshot is the one of the cutover under way.                  *)
SnapshotsInv ==
    crashes = 0 =>
        /\ pc \in {"none", "recover", "check", "snapshot", "idle", "ensure", "confirm"} =>
              \A v \in Versions : snaps[v] = None
        /\ pc = "snapshotted" => \A v \in Versions : snaps[v] # None => v = rec.candidate
        /\ pc # "snapshotted" => \A v \in Versions : snaps[v] # None => v = rec.dir

(* The snapshot's databases are none from the future for v; mail that is   *)
(* not in it is mail nobody can migrate.                                   *)
CopyFits(dir, v) ==
    /\ snaps[dir] # None
    /\ snaps[dir].schema <= SchemaOf[v]
    /\ snaps[dir].mail # NoFile => snaps[dir].mail.schema <= SchemaOf[v]
    /\ snaps[dir].mail = NoFile => ~HasHome /\ Fits(v, mail)

(* A revert puts back databases that fit the version it goes back to.      *)
RevertReady ==
    /\ rec.dir \in Versions
    /\ CopyFits(rec.dir, rec.previous)
    /\ rec.moved \/ SchemaOf[rec.candidate] <= SchemaOf[rec.previous]

(* The databases fit the version in place, except while the candidate's    *)
(* are still there for the previous version or none is there.              *)
SchemaInv ==
    crashes + faults = 0 =>
        /\ pc \notin {"restore", "copyControl"} => CanOpen(current, control)
        /\ pc \notin {"restore", "copyControl", "restoreMail"} => Fits(current, mail)
        /\ pc \in {"none", "recover", "check", "snapshot", "snapshotted", "ensure"} =>
              rec.phase \notin Suspect
        /\ pc \in {"recover", "check"} \cup Ahead => build = current
        /\ pc \in {"idle", "ensure"} /\ ending = "recover" => build = current
        /\ pc \in {"stop", "back", "drop"} \cup Returned => ending # "recover"
        /\ pc \in Ahead => SchemaOf[current] <= SchemaOf[rec.candidate]
        /\ pc = "snapshotted" => CopyFits(rec.candidate, current)
        /\ pc \in (Ahead \ {"snapshot", "snapshotted"}) \cup Restoring
                  \cup {"probing", "start", "probe", "reverting", "stop", "back"} => RevertReady
        /\ pc \in {"restoreMail", "copyMail"} => snaps[rec.dir].mail # NoFile
        /\ pc \in {"reverting", "stop", "back"} => current = rec.candidate
        /\ pc \in Returned => current = rec.previous

SafetyInv == TypeOK /\ PlaceInv /\ CopyInv /\ MovingInv /\ HomeInv

-----------------------------------------------------------------------------
(* Types *)

LEMMA InitTypes == Init => TypeOK
<1> USE CutoverAssumption
<1>1. ASSUME Init PROVE control \in ControlDb /\ mail \in MailDb
  BY <1>1 DEF Init, ControlDb, MailDb
<1> QED BY <1>1 DEF Init, TypeOK, Phases

LEMMA HeldType == ASSUME mail \in MailDb \cup {NoFile} PROVE Held(mail) \subseteq Mails
BY DEF Held, MailDb

\* What happens to the mail database when nobody opens or moves it.
SameSchema ==
    /\ mail' = NoFile <=> mail = NoFile
    /\ mail # NoFile => mail'.schema = mail.schema

\* A mail database closed cleanly is still one.
LEMMA CheckpointType ==
  ASSUME TypeOK, Checkpoint
  PROVE mail' \in MailDb \cup {NoFile} /\ Held(mail') = Held(mail) /\ SameSchema
<1>1. CASE store = Home /\ mail # NoFile
  <2>1. mail \in MailDb
    BY <1>1 DEF TypeOK
  <2>2. mail' = [schema |-> mail.schema, main |-> mail.main \cup mail.wal, wal |-> {}]
    BY <1>1, <2>1 DEF Checkpoint, MailDb
  <2>3. mail' \in MailDb
    BY <2>1, <2>2 DEF MailDb
  <2>4. mail' # NoFile
    BY <2>3, CutoverAssumption
  <2> QED BY <1>1, <2>2, <2>3, <2>4 DEF Held, SameSchema
<1>2. CASE ~(store = Home /\ mail # NoFile)
  BY <1>2 DEF Checkpoint, TypeOK, SameSchema
<1> QED BY <1>1, <1>2

\* Neither a stop nor a step of the daemon makes anything else of the databases.
LEMMA StopType ==
  ASSUME TypeOK, NEW d \in BOOLEAN, StopService(d)
  PROVE /\ mail' \in MailDb \cup {NoFile} /\ Held(mail') = Held(mail) /\ SameSchema
        /\ wanted' = FALSE
        /\ daemon' \in {"down", "up", "stopping"}
        /\ store' \in {Home, Aside}
        /\ daemon' # "down" => store' = store /\ daemon # "down"
<1>1. CASE d /\ Down /\ Checkpoint
  BY <1>1, CheckpointType DEF StopService, Down
<1>2. CASE Down /\ UNCHANGED mail
  BY <1>2 DEF StopService, Down, TypeOK, SameSchema
<1>3. CASE daemon # "down" /\ daemon' = "stopping" /\ UNCHANGED <<store, mail>>
  BY <1>3 DEF StopService, TypeOK, SameSchema
<1> QED BY <1>1, <1>2, <1>3 DEF StopService

LEMMA StampType ==
  ASSUME NEW v \in Versions, control \in ControlDb, Stamp(v)
  PROVE control' \in ControlDb /\ control'.schema = SchemaOf[v] /\ control'.path = control.path
<1>1. control' = [schema |-> SchemaOf[v], path |-> control.path]
  BY DEF Stamp, ControlDb
<1> QED BY <1>1, CutoverAssumption DEF ControlDb

LEMMA OpenedType ==
  ASSUME NEW v \in Versions, mail \in MailDb \cup {NoFile}
  PROVE /\ Opened(v, mail) \in MailDb /\ Opened(v, mail).schema = SchemaOf[v]
        /\ Held(Opened(v, mail)) = Held(mail)
<1>1. Opened(v, mail) \in MailDb /\ Opened(v, mail).schema = SchemaOf[v]
  BY CutoverAssumption DEF Opened, MailDb
<1>2. Opened(v, mail) # NoFile
  BY <1>1, CutoverAssumption
<1>3. ASSUME mail = NoFile PROVE Held(Opened(v, mail)) = Held(mail)
  <2>1. Opened(v, mail).main = {} /\ Opened(v, mail).wal = {}
    BY <1>3 DEF Opened
  <2> QED BY <1>2, <1>3, <2>1 DEF Held
<1>4. ASSUME mail # NoFile PROVE Held(Opened(v, mail)) = Held(mail)
  <2>1. Opened(v, mail).main = mail.main /\ Opened(v, mail).wal = mail.wal
    BY <1>4 DEF Opened, MailDb
  <2> QED BY <1>2, <1>4, <2>1 DEF Held
<1> QED BY <1>1, <1>3, <1>4

\* A message is stored in a mail database that is there.
LEMMA DeliverType ==
  ASSUME TypeOK, MovingInv, NEW m \in Mails, Deliver(m)
  PROVE /\ mail' \in MailDb \cup {NoFile} /\ aside' \subseteq Mails /\ SameSchema
        /\ Held(mail') \cup aside' = Held(mail) \cup aside \cup {m}
<1>1. CASE store = Home /\ mail' = [mail EXCEPT !.wal = @ \cup {m}] /\ UNCHANGED aside
  <2>1. mail \in MailDb
    BY <1>1, CutoverAssumption DEF TypeOK, MovingInv, Deliver
  <2>2. /\ mail' = [schema |-> mail.schema, main |-> mail.main, wal |-> mail.wal \cup {m}]
        /\ mail' \in MailDb
    BY <1>1, <2>1 DEF MailDb
  <2>3. mail # NoFile /\ mail' # NoFile
    BY <2>1, <2>2, CutoverAssumption
  <2> QED BY <1>1, <2>2, <2>3 DEF Held, SameSchema, TypeOK
<1>2. CASE store = Aside /\ aside' = aside \cup {m} /\ UNCHANGED mail
  BY <1>2 DEF TypeOK, SameSchema
<1> QED BY <1>1, <1>2 DEF Deliver

LEMMA SnapshotType ==
  ASSUME TypeOK, TakeSnapshot
  PROVE LET taken == [schema |-> control.schema,
                      mail |-> IF control.path # Home \/ mail = NoFile THEN NoFile
                               ELSE [mail EXCEPT !.main = Held(mail), !.wal = {}]]
        IN taken \in Snapshot /\ snaps' = [snaps EXCEPT ![rec.candidate] = taken]
<1>1. control \in ControlDb
  BY DEF TakeSnapshot, CanOpen, TypeOK
<1>2. ASSUME mail # NoFile PROVE [mail EXCEPT !.main = Held(mail), !.wal = {}] \in MailDb
  <2>1. mail \in MailDb
    BY <1>2 DEF TypeOK
  <2>2. Held(mail) \in SUBSET Mails
    BY <2>1, HeldType
  <2> QED BY <2>1, <2>2 DEF MailDb
<1> QED BY <1>1, <1>2 DEF TakeSnapshot, Snapshot, ControlDb

LEMMA StepTypes ==
  ASSUME TypeOK, PlaceInv, CopyInv, MovingInv, [Next]_vars
  PROVE TypeOK'
<1> USE CutoverAssumption
<1> USE DEF Goto
<1>1. ASSUME Begin \/ RecoverNothing \/ RecoverUnconfirmed \/ UpToDate \/ ProbeOk \/ ProbeFails
      PROVE TypeOK'
  BY <1>1 DEF TypeOK, Begin, RecoverNothing, RecoverUnconfirmed, UpToDate, ProbeOk, ProbeFails,
     runFrame, daemonVars, diskVars, historyVars
<1>2. ASSUME RecoverUnchanged \/ DropSnapshot \/ SnapshotFails
      PROVE TypeOK'
  <2>1. snaps' \in [Versions -> Snapshot \cup {None}]
    BY <1>2 DEF TypeOK, RecoverUnchanged, DropSnapshot, SnapshotFails, Destroy
  <2> QED BY <1>2, <2>1 DEF TypeOK, RecoverUnchanged, DropSnapshot, SnapshotFails, runFrame,
     daemonVars, diskVars, historyVars
<1>3. ASSUME NEW v \in Versions, Check(v) PROVE TypeOK'
  <2>1. control' \in ControlDb \cup {NoFile}
    BY <1>3, StampType DEF TypeOK, Check, CanOpen
  <2>2. PICK c \in Versions \cup {None}, p \in {"idle", "verified"} :
            rec' = [rec EXCEPT !.candidate = c, !.previous = current, !.phase = p]
    BY <1>3 DEF Check
  <2>3. /\ rec' \in [phase : Phases, candidate : Versions \cup {None},
                     previous : Versions \cup {None}, dir : Versions \cup {None}, moved : BOOLEAN]
        /\ rec'.phase \in {"idle", "verified"}
    BY <2>2 DEF TypeOK, Phases
  <2> QED BY <1>3, <2>1, <2>3 DEF TypeOK, Check, daemonVars, historyVars
<1>4. ASSUME TakeSnapshot PROVE TypeOK'
  <2>1. snaps' \in [Versions -> Snapshot \cup {None}]
    BY <1>4, SnapshotType DEF TypeOK
  <2> QED BY <1>4, <2>1 DEF TypeOK, TakeSnapshot, runFrame, daemonVars, diskVars, historyVars
<1>5. ASSUME EnterSnapshotted \/ EnterDraining \/ EnterSwitching \/ EnterProbing
             \/ EnterReverting \/ ToIdle
      PROVE TypeOK'
  <2>1. /\ rec' \in [phase : Phases, candidate : Versions \cup {None},
                     previous : Versions \cup {None}, dir : Versions \cup {None}, moved : BOOLEAN]
        /\ rec'.phase \in Suspect => None \notin {rec'.candidate, rec'.previous, rec'.dir}
    <3> USE DEF TypeOK, Phases, Suspect
    <3>1. CASE EnterSnapshotted
      <4> DEFINE ahead == SchemaOf[rec.candidate] > control.schema
      <4>1. ahead \in BOOLEAN
        OBVIOUS
      <4>2. rec' = [rec EXCEPT !.phase = "snapshotted", !.dir = rec.candidate, !.moved = ahead]
        BY <3>1 DEF EnterSnapshotted
      <4> HIDE DEF ahead
      <4> QED BY <4>1, <4>2
    <3>2. CASE EnterDraining
      BY <3>2 DEF EnterDraining, Enter
    <3>3. CASE EnterSwitching
      BY <3>3 DEF EnterSwitching, Enter, PlaceInv, Ahead
    <3>4. CASE EnterProbing
      BY <3>4 DEF EnterProbing, Enter, PlaceInv, Trial
    <3>5. CASE EnterReverting
      BY <3>5 DEF EnterReverting, Enter, PlaceInv
    <3>6. CASE ToIdle
      BY <3>6 DEF ToIdle
    <3> QED BY <1>5, <3>1, <3>2, <3>3, <3>4, <3>5, <3>6
  <2> QED BY <1>5, <2>1 DEF TypeOK, EnterSnapshotted, EnterDraining, EnterSwitching, EnterProbing,
       EnterReverting, ToIdle, Suspect, runFrame, daemonVars, diskVars, historyVars
<1>6. ASSUME Confirm PROVE TypeOK'
  <2>1. rec.candidate \in Versions
    BY <1>6 DEF Confirm, PlaceInv, Trial, Suspect, TypeOK
  <2>2. /\ rec' \in [phase : Phases, candidate : Versions \cup {None},
                     previous : Versions \cup {None}, dir : Versions \cup {None}, moved : BOOLEAN]
        /\ rec'.phase = "confirmed"
    BY <1>6 DEF TypeOK, Confirm, Phases
  <2> QED BY <1>6, <2>1, <2>2 DEF TypeOK, Confirm, daemonVars, diskVars
<1>7. ASSUME Drain \/ RevertStop PROVE TypeOK'
  <2>1. \E d \in BOOLEAN : StopService(d)
    BY <1>7 DEF Drain, RevertStop
  <2>2. pc' \in {"switching", "drop", "back"} /\ ending' \in {ending, "abandon"}
    BY <1>7 DEF Drain, RevertStop
  <2> QED BY <1>7, <2>1, <2>2, StopType DEF TypeOK, Drain, RevertStop, historyVars
<1>8. ASSUME Switch \/ SwitchBack PROVE TypeOK'
  <2>1. current' \in Versions
    BY <1>8 DEF Switch, SwitchBack, PlaceInv, Ahead, Suspect, TypeOK
  <2> QED BY <1>8, <2>1 DEF TypeOK, Switch, SwitchBack, runFrame, daemonVars, diskVars, historyVars
<1>9. ASSUME StartCandidate \/ RevertStart \/ EnsureUp PROVE TypeOK'
  BY <1>9 DEF TypeOK, StartCandidate, RevertStart, EnsureUp, StartService, diskVars, historyVars
<1>10. ASSUME MoveControlAside PROVE TypeOK'
  BY <1>10 DEF TypeOK, MoveControlAside, restoreFrame, daemonVars, historyVars
<1>11. ASSUME CopyControl \/ CopyMail PROVE TypeOK'
  <2>1. rec.dir \in Versions /\ snaps[rec.dir] \in Snapshot
    BY <1>11 DEF CopyControl, CopyMail, PlaceInv, CopyInv, Returned, Restoring, Suspect, TypeOK
  <2>2. control' \in ControlDb \cup {NoFile} /\ mail' \in MailDb \cup {NoFile}
    BY <1>11, <2>1 DEF TypeOK, CopyControl, CopyMail, Snapshot, ControlDb
  <2> QED BY <1>11, <2>2 DEF TypeOK, CopyControl, CopyMail, restoreFrame, daemonVars, historyVars
<1>12. ASSUME MoveMailAside PROVE TypeOK'
  BY <1>12, HeldType DEF TypeOK, MoveMailAside, restoreFrame, historyVars
<1>13. ASSUME RestoreFails PROVE TypeOK'
  <2>1. rec.dir \in Versions
    BY <1>13 DEF RestoreFails, PlaceInv, Returned, Restoring, Suspect, TypeOK
  <2>2. faults' \in Nat /\ pc' = "drop"
    BY <1>13 DEF TypeOK, RestoreFails
  <2>3. /\ UNCHANGED <<build, ending, rec, current, snaps, daemonVars, diskVars, delivered,
                        confirmed, crashes>>
    BY <1>13 DEF RestoreFails
  <2>4. told' \subseteq Versions
    BY <1>13, <2>1 DEF RestoreFails, TypeOK
  <2> QED BY <2>2, <2>3, <2>4 DEF TypeOK, daemonVars, diskVars
<1>14. ASSUME Boot \/ BootFails PROVE TypeOK'
  <2>1. control' \in ControlDb
    BY <1>14, StampType DEF TypeOK, Boot, BootFails, CanOpen
  <2>2. Boot => mail' \in MailDb
    BY OpenedType DEF TypeOK, Boot
  <2>3. CASE Boot
    BY <2>1, <2>2, <2>3 DEF TypeOK, Boot, historyVars
  <2>4. CASE BootFails
    BY <2>1, <2>4 DEF TypeOK, BootFails, daemonVars, historyVars
  <2> QED BY <1>14, <2>3, <2>4
<1>15. ASSUME NEW m \in Mails, Deliver(m) PROVE TypeOK'
  BY <1>15, DeliverType DEF TypeOK, Deliver, daemonVars
<1>16. ASSUME Die PROVE TypeOK'
  BY <1>16 DEF TypeOK, Die, Down, diskVars, historyVars
<1>17. ASSUME Stopped PROVE TypeOK'
  BY <1>17, CheckpointType DEF TypeOK, Stopped, Down, historyVars
<1>18. ASSUME UpdaterDies \/ PowerCut PROVE TypeOK'
  <2>1. crashes' \in Nat /\ pc' = "none"
    BY <1>18 DEF TypeOK, UpdaterDies, PowerCut
  <2>2. CASE UpdaterDies
    BY <2>1, <2>2 DEF TypeOK, UpdaterDies, daemonVars, diskVars
  <2>3. CASE PowerCut
    BY <2>1, <2>3 DEF TypeOK, PowerCut, Down, diskVars
  <2> QED BY <1>18, <2>2, <2>3
<1>19. CASE UNCHANGED vars
  BY <1>19 DEF TypeOK, vars, daemonVars, diskVars, historyVars
<1> QED BY <1>1, <1>2, <1>3, <1>4, <1>5, <1>6, <1>7, <1>8, <1>9, <1>10, <1>11, <1>12, <1>13,
           <1>14, <1>15, <1>16, <1>17, <1>18, <1>19 DEF Next, Run

-----------------------------------------------------------------------------
(* Which version is in place *)

LEMMA StepPlace ==
  ASSUME TypeOK, PlaceInv, [Next]_vars
  PROVE PlaceInv'
<1> USE CutoverAssumption
<1> USE DEF PlaceInv, Suspect, Ahead, Trial, Restoring, Returned
<1>1. ASSUME UNCHANGED <<pc, ending, rec, current, confirmed>> PROVE PlaceInv'
  BY <1>1
<1>2. ASSUME Begin \/ UpdaterDies \/ PowerCut PROVE PlaceInv'
  BY <1>2 DEF Begin, UpdaterDies, PowerCut, Goto, runFrame, historyVars
<1>3. ASSUME RecoverNothing \/ UpToDate PROVE PlaceInv'
  BY <1>3 DEF RecoverNothing, UpToDate, Goto, runFrame, historyVars
<1>4. ASSUME RecoverUnchanged \/ RecoverUnconfirmed PROVE PlaceInv'
  BY <1>4 DEF RecoverUnchanged, RecoverUnconfirmed, Unconfirmed, Goto, runFrame, historyVars, TypeOK,
     Phases
<1>5. ASSUME NEW v \in Versions, Check(v) PROVE PlaceInv'
  <2>1. PICK c \in Versions \cup {None}, p \in {"idle", "verified"} :
            /\ rec' = [rec EXCEPT !.candidate = c, !.previous = current, !.phase = p]
            /\ pc' \in {"none", "snapshot"}
            /\ pc' = "snapshot" => c = v
    BY <1>5 DEF Check, Goto
  <2>2. /\ rec'.phase = p /\ rec'.candidate = c /\ rec'.previous = current
        /\ current \in confirmed
    BY <1>5, <2>1 DEF TypeOK, Check, Goto
  <2> QED BY <1>5, <2>1, <2>2 DEF Check, historyVars
<1>6. ASSUME TakeSnapshot \/ SnapshotFails PROVE PlaceInv'
  BY <1>6 DEF TakeSnapshot, SnapshotFails, Goto, runFrame, historyVars
<1>7. ASSUME EnterSnapshotted PROVE PlaceInv'
  <2>1. /\ rec'.phase = "snapshotted" /\ rec'.candidate = rec.candidate
        /\ rec'.dir = rec.candidate /\ rec'.previous = rec.previous
    BY <1>7 DEF EnterSnapshotted, TypeOK
  <2> QED BY <1>7, <2>1 DEF EnterSnapshotted, Goto, runFrame, historyVars
<1>8. ASSUME EnterDraining \/ EnterSwitching \/ EnterProbing \/ EnterReverting PROVE PlaceInv'
  <2>1. /\ rec'.candidate = rec.candidate /\ rec'.dir = rec.dir /\ rec'.previous = rec.previous
        /\ rec'.phase = CASE EnterDraining -> "draining" [] EnterSwitching -> "switching"
                          [] EnterProbing -> "probing" [] EnterReverting -> "reverting"
    BY <1>8 DEF EnterDraining, EnterSwitching, EnterProbing, EnterReverting, Enter, Goto, TypeOK
  <2> QED BY <1>8, <2>1 DEF EnterDraining, EnterSwitching, EnterProbing, EnterReverting, Goto,
     runFrame, historyVars
<1>9. ASSUME Drain PROVE PlaceInv'
  BY <1>9 DEF Drain, Goto, historyVars
<1>10. ASSUME Switch \/ SwitchBack PROVE PlaceInv'
  BY <1>10 DEF Switch, SwitchBack, Goto, runFrame, historyVars
<1>11. ASSUME StartCandidate \/ RevertStart \/ EnsureUp PROVE PlaceInv'
  BY <1>11 DEF StartCandidate, RevertStart, EnsureUp, Goto, historyVars
<1>12. ASSUME ProbeOk \/ ProbeFails PROVE PlaceInv'
  BY <1>12 DEF ProbeOk, ProbeFails, Goto, runFrame, historyVars
<1>13. ASSUME Confirm PROVE PlaceInv'
  <2>1. rec'.phase = "confirmed" /\ current \in confirmed'
    BY <1>13 DEF Confirm, Goto, TypeOK
  <2> QED BY <1>13, <2>1 DEF Confirm, Goto
<1>14. ASSUME RevertStop PROVE PlaceInv'
  BY <1>14 DEF RevertStop, Goto, historyVars
<1>15. ASSUME MoveControlAside \/ CopyControl \/ MoveMailAside \/ CopyMail PROVE PlaceInv'
  BY <1>15 DEF MoveControlAside, CopyControl, MoveMailAside, CopyMail, restoreFrame, Goto,
     historyVars
<1>16. ASSUME RestoreFails PROVE PlaceInv'
  BY <1>16 DEF RestoreFails
<1>17. ASSUME DropSnapshot PROVE PlaceInv'
  BY <1>17 DEF DropSnapshot, Goto, runFrame, historyVars
<1>18. ASSUME ToIdle PROVE PlaceInv'
  <2>1. rec'.phase = "idle" /\ current \in confirmed
    BY <1>18 DEF ToIdle, Goto, TypeOK
  <2> QED BY <1>18, <2>1 DEF ToIdle, Goto, runFrame, historyVars
<1>19. ASSUME Boot \/ BootFails \/ (\E m \in Mails : Deliver(m)) \/ Die \/ Stopped
              \/ UNCHANGED vars
       PROVE PlaceInv'
  BY <1>1, <1>19 DEF Boot, BootFails, Deliver, Die, Stopped, vars, daemonVars, diskVars, historyVars
<1> QED BY <1>2, <1>3, <1>4, <1>5, <1>6, <1>7, <1>8, <1>9, <1>10, <1>11, <1>12, <1>13, <1>14,
           <1>15, <1>16, <1>17, <1>18, <1>19 DEF Next, Run

LEMMA StepCopy ==
  ASSUME TypeOK, CopyInv, [Next]_vars
  PROVE CopyInv'
<1> USE DEF CopyInv, Restoring
<1>1. ASSUME pc' \notin {"copyControl", "restoreMail", "copyMail"} PROVE CopyInv'
  BY <1>1
<1>2. ASSUME UNCHANGED <<pc, rec, snaps>> PROVE CopyInv'
  BY <1>2
<1>3. ASSUME MoveControlAside \/ CopyControl \/ MoveMailAside PROVE CopyInv'
  BY <1>3 DEF MoveControlAside, CopyControl, MoveMailAside, restoreFrame, Goto
<1>4. ASSUME Run PROVE CopyInv' \/ MoveControlAside \/ CopyControl \/ MoveMailAside
  BY <1>1, <1>4 DEF Run, RecoverNothing, RecoverUnchanged, RecoverUnconfirmed, Check, UpToDate,
     TakeSnapshot, SnapshotFails, EnterSnapshotted, EnterDraining, Drain, EnterSwitching, Switch,
     EnterProbing, StartCandidate, ProbeOk, ProbeFails, Confirm, EnterReverting, RevertStop,
     SwitchBack, CopyMail, RestoreFails, RevertStart, DropSnapshot, ToIdle, EnsureUp, Goto
<1>5. ASSUME Begin \/ UpdaterDies \/ PowerCut PROVE CopyInv'
  BY <1>1, <1>5 DEF Begin, UpdaterDies, PowerCut, Goto
<1>6. ASSUME Boot \/ BootFails \/ (\E m \in Mails : Deliver(m)) \/ Die \/ Stopped
             \/ UNCHANGED vars
      PROVE CopyInv'
  BY <1>2, <1>6 DEF Boot, BootFails, Deliver, Die, Stopped, vars, daemonVars, diskVars, historyVars
<1> QED BY <1>3, <1>4, <1>5, <1>6 DEF Next

-----------------------------------------------------------------------------
(* Where the mail is *)

\* No start of the daemon between the stop of a revert and the start after it.
LEMMA StepMoving ==
  ASSUME TypeOK, CopyInv, MovingInv, [Next]_vars
  PROVE MovingInv'
<1> USE CutoverAssumption
<1> USE DEF Returned, Restoring, Goto
<1> DEFINE Still == /\ pc' \in {"back"} \cup Returned => ~wanted'
                    /\ pc' = "copyMail" => mail' = NoFile
                    /\ mail' = NoFile /\ daemon' # "down" => store' = Aside
<1>1. ASSUME Still, Held(mail) \subseteq Held(mail') \cup aside', aside \subseteq aside',
             delivered' = delivered
      PROVE MovingInv'
  BY <1>1 DEF MovingInv, MailKept, Held
<1>2. ASSUME Begin \/ RecoverNothing \/ RecoverUnchanged \/ RecoverUnconfirmed
             \/ (\E v \in Versions : Check(v)) \/ UpToDate \/ TakeSnapshot \/ SnapshotFails
             \/ EnterSnapshotted \/ EnterDraining \/ EnterSwitching \/ Switch \/ EnterProbing
             \/ StartCandidate \/ ProbeOk \/ ProbeFails \/ Confirm \/ EnterReverting
             \/ RevertStart \/ DropSnapshot \/ ToIdle \/ EnsureUp \/ UpdaterDies
      PROVE MovingInv'
  <2>1. pc' \notin {"back"} \cup Returned
    BY <1>2 DEF Begin, RecoverNothing, RecoverUnchanged, RecoverUnconfirmed, Check, UpToDate,
       TakeSnapshot, SnapshotFails, EnterSnapshotted, EnterDraining, EnterSwitching, Switch,
       EnterProbing, StartCandidate, ProbeOk, ProbeFails, Confirm, EnterReverting, RevertStart,
       DropSnapshot, ToIdle, EnsureUp, UpdaterDies
  <2>2. UNCHANGED <<mail, aside, delivered>>
    BY <1>2 DEF Begin, RecoverNothing, RecoverUnchanged, RecoverUnconfirmed, Check, UpToDate,
       TakeSnapshot, SnapshotFails, EnterSnapshotted, EnterDraining, EnterSwitching, Switch,
       EnterProbing, StartCandidate, ProbeOk, ProbeFails, Confirm, EnterReverting, RevertStart,
       DropSnapshot, ToIdle, EnsureUp, UpdaterDies, runFrame, diskVars, historyVars
  <2>3. UNCHANGED <<daemon, store>>
    BY <1>2 DEF Begin, RecoverNothing, RecoverUnchanged, RecoverUnconfirmed, Check, UpToDate,
       TakeSnapshot, SnapshotFails, EnterSnapshotted, EnterDraining, EnterSwitching, Switch,
       EnterProbing, StartCandidate, ProbeOk, ProbeFails, Confirm, EnterReverting, RevertStart,
       DropSnapshot, ToIdle, EnsureUp, UpdaterDies, runFrame, daemonVars
  <2> QED BY <1>1, <2>1, <2>2, <2>3 DEF MovingInv
<1>3. ASSUME SwitchBack \/ MoveControlAside \/ CopyControl \/ RestoreFails PROVE MovingInv'
  BY <1>1, <1>3 DEF SwitchBack, MoveControlAside, CopyControl, RestoreFails, MovingInv,
     restoreFrame, runFrame, daemonVars, diskVars, historyVars
<1>4. ASSUME Drain \/ RevertStop PROVE MovingInv'
  <2>1. \E d \in BOOLEAN : StopService(d)
    BY <1>4 DEF Drain, RevertStop
  <2>2. pc' # "copyMail" /\ UNCHANGED <<aside, delivered>>
    BY <1>4 DEF Drain, RevertStop, historyVars
  <2>3. /\ wanted' = FALSE /\ Held(mail') = Held(mail) /\ SameSchema
        /\ daemon' # "down" => store' = store /\ daemon # "down"
    BY <2>1, StopType
  <2> QED BY <1>1, <2>2, <2>3 DEF MovingInv, SameSchema
<1>5. ASSUME MoveMailAside PROVE MovingInv'
  <2>1. mail' = NoFile /\ (daemon' # "down" => store' = Aside)
    BY <1>5 DEF MoveMailAside, TypeOK
  <2>2. Still
    BY <1>5, <2>1 DEF MoveMailAside, MovingInv
  <2> QED BY <1>1, <1>5, <2>2 DEF MoveMailAside, restoreFrame, historyVars
<1>6. ASSUME CopyMail PROVE MovingInv'
  BY <1>1, <1>6 DEF CopyMail, MovingInv, Held, restoreFrame, daemonVars, historyVars
<1>7. ASSUME Boot \/ BootFails PROVE MovingInv'
  <2>1. CASE Boot
    <3>1. mail' # NoFile /\ Held(mail') = Held(mail)
      BY <2>1, OpenedType DEF Boot, TypeOK
    <3> QED BY <1>1, <2>1, <3>1 DEF Boot, MovingInv, historyVars
  <2>2. CASE BootFails
    BY <1>1, <2>2 DEF BootFails, MovingInv, daemonVars, historyVars
  <2> QED BY <1>7, <2>1, <2>2
<1>8. ASSUME NEW m \in Mails, Deliver(m) PROVE MovingInv'
  <2>1. SameSchema /\ Held(mail') \cup aside' = Held(mail) \cup aside \cup {m}
    BY <1>8, DeliverType
  <2>2. delivered' = delivered \cup {m} /\ UNCHANGED <<pc, daemonVars>>
    BY <1>8 DEF Deliver
  <2>3. MailKept'
    BY <2>1, <2>2 DEF MovingInv, MailKept, Held
  <2> QED BY <2>1, <2>2, <2>3 DEF MovingInv, SameSchema, daemonVars
<1>9. ASSUME Die \/ PowerCut \/ UNCHANGED vars PROVE MovingInv'
  BY <1>1, <1>9 DEF Die, PowerCut, Down, MovingInv, vars, daemonVars, diskVars, historyVars
<1>10. ASSUME Stopped PROVE MovingInv'
  <2>1. Held(mail') = Held(mail) /\ SameSchema
    BY <1>10, CheckpointType DEF Stopped
  <2>2. Still
    BY <1>10, <2>1 DEF Stopped, Down, MovingInv, SameSchema
  <2> QED BY <1>1, <1>10, <2>1, <2>2 DEF Stopped, historyVars
<1> QED BY <1>2, <1>3, <1>4, <1>5, <1>6, <1>7, <1>8, <1>9, <1>10 DEF Next, Run

\* The path of the control database never leads home again once it led elsewhere.
LEMMA StepHome ==
  ASSUME TypeOK, PlaceInv, MovingInv, HomeInv, [Next]_vars
  PROVE HomeInv'
<1> USE CutoverAssumption
<1> USE DEF Goto
<1>1. ASSUME pc' \in {"restoreMail", "copyMail"} => pc' = pc, HasHome' => HasHome,
             mail' = NoFile <=> mail = NoFile
      PROVE HomeInv'
  BY <1>1 DEF HomeInv
<1>2. ASSUME Begin \/ RecoverNothing \/ RecoverUnchanged \/ RecoverUnconfirmed
             \/ UpToDate \/ TakeSnapshot \/ SnapshotFails
             \/ EnterSnapshotted \/ EnterDraining \/ EnterSwitching \/ Switch \/ EnterProbing
             \/ StartCandidate \/ ProbeOk \/ ProbeFails \/ Confirm \/ EnterReverting \/ SwitchBack
             \/ RevertStart \/ DropSnapshot \/ ToIdle \/ EnsureUp \/ UpdaterDies \/ PowerCut
             \/ RestoreFails \/ Die \/ UNCHANGED vars
      PROVE HomeInv'
  <2>1. UNCHANGED <<control, mail>>
    BY <1>2 DEF Begin, RecoverNothing, RecoverUnchanged, RecoverUnconfirmed, UpToDate,
       TakeSnapshot, SnapshotFails, EnterSnapshotted, EnterDraining, EnterSwitching, Switch,
       EnterProbing, StartCandidate, ProbeOk, ProbeFails, Confirm, EnterReverting, SwitchBack,
       RevertStart, DropSnapshot, ToIdle, EnsureUp, UpdaterDies, PowerCut, RestoreFails, Die, vars,
       runFrame, diskVars
  <2>2. pc' \in {"restoreMail", "copyMail"} => pc' = pc
    BY <1>2 DEF Begin, RecoverNothing, RecoverUnchanged, RecoverUnconfirmed, UpToDate,
       TakeSnapshot, SnapshotFails, EnterSnapshotted, EnterDraining, EnterSwitching, Switch,
       EnterProbing, StartCandidate, ProbeOk, ProbeFails, Confirm, EnterReverting, SwitchBack,
       RevertStart, DropSnapshot, ToIdle, EnsureUp, UpdaterDies, PowerCut, RestoreFails, Die, vars
  <2> QED BY <1>1, <2>1, <2>2 DEF HasHome
<1>3. ASSUME NEW v \in Versions, Check(v) PROVE HomeInv'
  <2>1. pc' \in {"none", "snapshot"} /\ UNCHANGED mail
    BY <1>3 DEF Check
  <2>2. HasHome' => HasHome
    BY <1>3, StampType DEF Check, CanOpen, TypeOK, HasHome
  <2> QED BY <1>1, <2>1, <2>2
<1>4. ASSUME Drain \/ RevertStop \/ Stopped \/ (\E m \in Mails : Deliver(m)) PROVE HomeInv'
  <2>1. SameSchema
    BY <1>4, StopType, CheckpointType, DeliverType DEF Drain, RevertStop, Stopped
  <2>2. UNCHANGED control
    BY <1>4 DEF Drain, RevertStop, Stopped, Deliver
  <2>3. pc' \in {"restoreMail", "copyMail"} => pc' = pc
    BY <1>4 DEF Drain, RevertStop, Stopped, Deliver
  <2> QED BY <1>1, <2>1, <2>2, <2>3 DEF HasHome, SameSchema
<1>5. ASSUME MoveControlAside \/ CopyControl PROVE HomeInv'
  <2>1. rec.dir \in Versions
    BY <1>5 DEF MoveControlAside, CopyControl, PlaceInv, Returned, Restoring, Suspect, TypeOK
  <2> QED BY <1>5, <2>1 DEF MoveControlAside, CopyControl, HomeInv, HasHome
<1>6. ASSUME MoveMailAside \/ CopyMail PROVE HomeInv'
  BY <1>6 DEF MoveMailAside, CopyMail, HomeInv, HasHome
<1>7. ASSUME Boot \/ BootFails PROVE HomeInv'
  <2>1. HasHome' => HasHome
    BY <1>7, StampType DEF Boot, BootFails, CanOpen, TypeOK, HasHome
  <2>2. Boot => mail' # NoFile
    BY OpenedType DEF Boot, TypeOK
  <2> QED BY <1>7, <2>1, <2>2 DEF Boot, BootFails, HomeInv
<1> QED BY <1>2, <1>3, <1>4, <1>5, <1>6, <1>7 DEF Next, Run

-----------------------------------------------------------------------------
(* What holds of every run *)

LEMMA InitSafety == Init => SafetyInv
<1> SUFFICES ASSUME Init PROVE SafetyInv
  OBVIOUS
<1>1. TypeOK
  BY InitTypes
<1>2. PlaceInv /\ CopyInv
  BY DEF Init, PlaceInv, CopyInv, Suspect, Ahead, Trial, Restoring, Returned
<1>3. mail # NoFile
  <2>1. mail \in MailDb
    BY CutoverAssumption DEF Init, MailDb
  <2> QED BY <2>1, CutoverAssumption
<1>4. MovingInv /\ HomeInv
  BY <1>3 DEF Init, MovingInv, HomeInv, MailKept, Returned, Restoring
<1> QED BY <1>1, <1>2, <1>4 DEF SafetyInv

LEMMA StepSafety == SafetyInv /\ [Next]_vars => SafetyInv'
BY StepTypes, StepPlace, StepCopy, StepMoving, StepHome DEF SafetyInv

\* Cutover's state is what the code can leave: types, the version in place and the
\* one recorded, the copies a restore makes, the mail while files move (cutover.ts).
THEOREM CutoverCorrect == Spec => []SafetyInv
BY InitSafety, StepSafety, PTL DEF Spec

\* However runs are interrupted, a version nobody confirmed stays in place only
\* under a record from which the next run goes back (cutover.ts, recoverPhase).
THEOREM OnlyConfirmedStaysAlways == Spec => []OnlyConfirmedStays
<1>1. SafetyInv => OnlyConfirmedStays
  BY DEF SafetyInv, PlaceInv, OnlyConfirmedStays, Suspect
<1> QED BY <1>1, CutoverCorrect, PTL

\* No update, revert or recovery loses a message answered 250, wherever it is cut
\* short (cutover.ts, snapshot.ts restoreOne).
THEOREM MailKeptAlways == Spec => []MailKept
<1>1. SafetyInv => MailKept
  BY DEF SafetyInv, MovingInv
<1> QED BY <1>1, CutoverCorrect, PTL

-----------------------------------------------------------------------------
(* What a run that was not interrupted leaves: no snapshot ... *)

LEMMA StepSnapshots ==
  ASSUME TypeOK, SnapshotsInv, [Next]_vars
  PROVE SnapshotsInv'
<1> USE CutoverAssumption
<1> USE DEF SnapshotsInv, Goto
<1>1. ASSUME UNCHANGED <<pc, rec, snaps, crashes>> PROVE SnapshotsInv'
  BY <1>1
<1>2. ASSUME UpdaterDies \/ PowerCut PROVE SnapshotsInv'
  BY <1>2 DEF UpdaterDies, PowerCut, TypeOK
<1>3. ASSUME Begin \/ RecoverNothing \/ RecoverUnconfirmed \/ UpToDate \/ EnterDraining \/ Drain
             \/ EnterSwitching \/ Switch \/ EnterProbing \/ StartCandidate \/ ProbeOk \/ ProbeFails
             \/ Confirm \/ EnterReverting \/ RevertStop \/ SwitchBack \/ RevertStart \/ ToIdle
             \/ EnsureUp
      PROVE SnapshotsInv'
  <2>1. /\ UNCHANGED <<snaps, crashes>>
        /\ pc' \in {"none", "recover", "check", "snapshot", "idle", "ensure", "confirm"} =>
              pc \in {"none", "recover", "check", "snapshot", "idle", "ensure", "confirm"}
        /\ pc' # "snapshotted"
        /\ pc # "snapshotted"
        /\ pc \in {"none", "recover", "check", "snapshot", "idle", "ensure", "confirm"}
              \/ rec'.dir = rec.dir
    BY <1>3 DEF Begin, RecoverNothing, RecoverUnconfirmed, UpToDate, EnterDraining, Drain,
       EnterSwitching, Switch, EnterProbing, StartCandidate, ProbeOk, ProbeFails, Confirm,
       EnterReverting, RevertStop, SwitchBack, RevertStart, ToIdle, EnsureUp, Enter, TypeOK,
       runFrame, historyVars
  <2> QED BY <2>1
<1>4. ASSUME RecoverUnchanged \/ DropSnapshot PROVE SnapshotsInv'
  <2>1. crashes = 0 => \A v \in Versions : snaps'[v] = None
    BY <1>4 DEF RecoverUnchanged, DropSnapshot, Destroy, TypeOK
  <2> QED BY <1>4, <2>1 DEF RecoverUnchanged, DropSnapshot, runFrame, historyVars
<1>5. ASSUME NEW v \in Versions, Check(v) PROVE SnapshotsInv'
  BY <1>5 DEF Check, historyVars
<1>6. ASSUME TakeSnapshot \/ SnapshotFails PROVE SnapshotsInv'
  <2>1. \A v \in Versions : v # rec.candidate => snaps'[v] = snaps[v]
    BY <1>6 DEF TakeSnapshot, SnapshotFails, TypeOK
  <2>2. SnapshotFails => \A v \in Versions : v = rec.candidate => snaps'[v] = None
    BY <1>6 DEF SnapshotFails, TypeOK
  <2> QED BY <1>6, <2>1, <2>2 DEF TakeSnapshot, SnapshotFails, runFrame, historyVars
<1>7. ASSUME EnterSnapshotted PROVE SnapshotsInv'
  <2>1. rec'.dir = rec.candidate
    BY <1>7 DEF EnterSnapshotted, TypeOK
  <2> QED BY <1>7, <2>1 DEF EnterSnapshotted, runFrame, historyVars
<1>8. ASSUME MoveControlAside \/ CopyControl \/ MoveMailAside \/ CopyMail \/ RestoreFails
      PROVE SnapshotsInv'
  BY <1>8 DEF MoveControlAside, CopyControl, MoveMailAside, CopyMail, RestoreFails, restoreFrame,
     historyVars
<1>9. ASSUME Boot \/ BootFails \/ (\E m \in Mails : Deliver(m)) \/ Die \/ Stopped
             \/ UNCHANGED vars
      PROVE SnapshotsInv'
  BY <1>1, <1>9 DEF Boot, BootFails, Deliver, Die, Stopped, vars, daemonVars, diskVars, historyVars
<1> QED BY <1>2, <1>3, <1>4, <1>5, <1>6, <1>7, <1>8, <1>9 DEF Next, Run

\* A run that was not interrupted destroys the copies it made of every secret
\* (cutover.ts, snapshot.destroy on every path).
THEOREM NoSnapshotLeftAlways == Spec => []NoSnapshotLeft
<1>1. Init => SnapshotsInv
  BY DEF Init, SnapshotsInv
<1>2. SnapshotsInv => NoSnapshotLeft
  BY DEF SnapshotsInv, NoSnapshotLeft, Resting
<1>3. TypeOK /\ SnapshotsInv /\ [Next]_vars => SnapshotsInv'
  BY StepSnapshots
<1>4. SafetyInv => TypeOK
  BY DEF SafetyInv
<1> QED BY <1>1, <1>2, <1>3, <1>4, CutoverCorrect, PTL DEF Spec

-----------------------------------------------------------------------------
(* ... and no database from the future *)

\* Mail nobody opened or moved fits whom it fitted.
LEMMA SameFits == ASSUME SameSchema, NEW v PROVE Fits(v, mail') <=> Fits(v, mail)
BY DEF SameSchema, Fits

\* While nobody opens or moves the databases a snapshot is as good as it was.
LEMMA CopyFrame ==
  ASSUME UNCHANGED snaps, HasHome' => HasHome, SameSchema, NEW dir, NEW v, CopyFits(dir, v)
  PROVE CopyFits(dir, v)'
<1>1. Fits(v, mail)' <=> Fits(v, mail)
  BY SameFits DEF Fits
<1> QED BY <1>1 DEF CopyFits

LEMMA ReadyFrame ==
  ASSUME UNCHANGED <<rec, snaps>>, HasHome' => HasHome, SameSchema, RevertReady
  PROVE RevertReady'
<1>1. CopyFits(rec.dir, rec.previous)'
  <2>1. CopyFits(rec.dir, rec.previous)
    BY DEF RevertReady
  <2>2. \A dir, v : CopyFits(dir, v) => CopyFits(dir, v)'
    BY CopyFrame
  <2> QED BY <2>1, <2>2 DEF CopyFits, Fits
<1> QED BY <1>1 DEF RevertReady

\* What SchemaInv speaks of, except the databases' schemas, is as it was.
LEMMA SchemaFrame ==
  ASSUME SchemaInv, UNCHANGED <<pc, build, ending, rec, current, snaps, crashes, faults>>,
         CanOpen(current, control) => CanOpen(current, control'),
         Fits(current, mail) => Fits(current, mail'),
         \A dir, v : CopyFits(dir, v) => CopyFits(dir, v)'
  PROVE SchemaInv'
<1>1. RevertReady => RevertReady'
  <2>1. CopyFits(rec.dir, rec.previous) => CopyFits(rec.dir, rec.previous)'
    OBVIOUS
  <2> QED BY <2>1 DEF RevertReady
<1>2. CopyFits(rec.candidate, current) => CopyFits(rec.candidate, current)'
  OBVIOUS
<1>3. /\ CanOpen(current, control)' <=> CanOpen(current, control')
      /\ Fits(current, mail)' <=> Fits(current, mail')
  BY DEF CanOpen, Fits
<1> QED BY <1>1, <1>2, <1>3 DEF SchemaInv

LEMMA StepSchema ==
  ASSUME SafetyInv, SchemaInv, [Next]_vars
  PROVE SchemaInv'
<1> USE CutoverAssumption
<1> USE DEF Goto, Ahead, Returned, Restoring, Suspect
<1> TypeOK /\ PlaceInv /\ CopyInv
  BY DEF SafetyInv
<1>1. ASSUME UpdaterDies \/ PowerCut PROVE SchemaInv'
  <2>1. crashes' + faults' # 0
    BY <1>1 DEF UpdaterDies, PowerCut, TypeOK
  <2> QED BY <2>1 DEF SchemaInv
<1>2. ASSUME RecoverUnconfirmed PROVE SchemaInv'
  BY <1>2 DEF RecoverUnconfirmed, Unconfirmed, SchemaInv, runFrame, historyVars
<1>3. ASSUME Begin \/ RecoverNothing \/ UpToDate \/ SnapshotFails \/ StartCandidate \/ ProbeOk
             \/ RevertStart \/ DropSnapshot \/ EnsureUp \/ RecoverUnchanged
      PROVE SchemaInv'
  <2>1. UNCHANGED <<rec, current, control, mail, crashes, faults>>
    BY <1>3 DEF Begin, RecoverNothing, UpToDate, SnapshotFails, StartCandidate, ProbeOk,
       RevertStart, DropSnapshot, EnsureUp, RecoverUnchanged, runFrame, diskVars, historyVars
  <2>2. /\ CanOpen(current, control)' <=> CanOpen(current, control)
        /\ Fits(current, mail)' <=> Fits(current, mail)
    BY <2>1 DEF CanOpen, Fits
  <2>3. CASE Begin \/ RecoverNothing \/ UpToDate
    BY <2>1, <2>2, <2>3 DEF SchemaInv, Begin, RecoverNothing, UpToDate, runFrame
  <2>4. CASE SnapshotFails \/ ProbeOk \/ RevertStart
    BY <2>1, <2>2, <2>4 DEF SchemaInv, SnapshotFails, ProbeOk, RevertStart, runFrame
  <2>5. CASE StartCandidate
    <3>1. RevertReady => RevertReady'
      BY <2>1, <2>5, ReadyFrame DEF StartCandidate, HasHome, SameSchema
    <3> QED BY <2>1, <2>2, <2>5, <3>1 DEF SchemaInv, StartCandidate
  <2>6. CASE DropSnapshot
    BY <2>1, <2>2, <2>6 DEF SchemaInv, DropSnapshot, runFrame
  <2>7. CASE EnsureUp \/ RecoverUnchanged
    BY <2>1, <2>2, <2>7 DEF SchemaInv, EnsureUp, RecoverUnchanged, runFrame, TypeOK, Phases
  <2> QED BY <1>3, <2>3, <2>4, <2>5, <2>6, <2>7
<1>4. ASSUME NEW v \in Versions, Check(v) PROVE SchemaInv'
  <2>1. PICK c \in Versions \cup {None}, p \in {"idle", "verified"} :
            /\ rec' = [rec EXCEPT !.candidate = c, !.previous = current, !.phase = p]
            /\ pc' \in {"none", "snapshot"}
            /\ pc' = "snapshot" => c = v
    BY <1>4 DEF Check
  <2>2. rec'.phase = p /\ rec'.candidate = c
    BY <2>1 DEF TypeOK
  <2>3. pc = "check" /\ UNCHANGED <<build, ending, current, snaps, crashes, faults>>
    BY <1>4 DEF Check, historyVars
  <2>4. crashes + faults = 0 => build = current /\ CanOpen(current, control)
    BY <2>3 DEF SchemaInv
  <2>5. crashes + faults = 0 => CanOpen(current, control)'
    <3> SUFFICES ASSUME crashes + faults = 0 PROVE CanOpen(current, control)'
      OBVIOUS
    <3>1. control \in ControlDb /\ Stamp(current)
      BY <1>4, <2>4 DEF Check, CanOpen, TypeOK
    <3>2. control' \in ControlDb /\ control'.schema = SchemaOf[current] /\ current \in Versions
      BY <3>1, StampType DEF TypeOK
    <3> QED BY <2>3, <3>2 DEF CanOpen
  <2>6. pc' = "snapshot" => SchemaOf[current] <= SchemaOf[rec'.candidate]
    BY <1>4, <2>1, <2>2 DEF Check, TypeOK
  <2>7. crashes + faults = 0 => Fits(current, mail)'
    BY <1>4, <2>3 DEF Check, SchemaInv, Fits
  <2> QED BY <2>1, <2>2, <2>3, <2>4, <2>5, <2>6, <2>7 DEF SchemaInv
<1>5. ASSUME TakeSnapshot PROVE SchemaInv'
  <2> DEFINE taken == [schema |-> control.schema,
                       mail |-> IF control.path # Home \/ mail = NoFile THEN NoFile
                                ELSE [mail EXCEPT !.main = Held(mail), !.wal = {}]]
  <2>1. rec.candidate \in Versions /\ snaps' = [snaps EXCEPT ![rec.candidate] = taken]
        /\ taken \in Snapshot
    BY <1>5, SnapshotType DEF TakeSnapshot, PlaceInv
  <2>2. snaps'[rec.candidate] = taken
    BY <2>1 DEF TypeOK
  <2>3. UNCHANGED <<build, ending, rec, current, control, mail, crashes, faults>>
    BY <1>5 DEF TakeSnapshot, runFrame, diskVars, historyVars
  <2>4. /\ CanOpen(current, control)' <=> CanOpen(current, control)
        /\ Fits(current, mail)' <=> Fits(current, mail)
    BY <2>3 DEF CanOpen, Fits
  <2>5. ASSUME crashes + faults = 0 PROVE CopyFits(rec.candidate, current)'
    <3>1. CanOpen(current, control) /\ Fits(current, mail)
      BY <1>5, <2>5 DEF SchemaInv, TakeSnapshot
    <3>2. taken # None
      BY <2>1
    <3>3. taken.mail = NoFile => ~HasHome
      <4>1. CASE control.path # Home
        BY <4>1 DEF HasHome
      <4>2. CASE mail = NoFile
        BY <4>2 DEF SafetyInv, HomeInv
      <4>3. CASE control.path = Home /\ mail # NoFile
        <5>1. mail \in MailDb /\ Held(mail) \in SUBSET Mails
          BY <4>3, HeldType DEF TypeOK
        <5>2. [mail EXCEPT !.main = Held(mail), !.wal = {}] \in MailDb
          BY <5>1 DEF MailDb
        <5> QED BY <4>3, <5>2
      <4> QED BY <4>1, <4>2, <4>3
    <3>4. taken.mail # NoFile => taken.mail.schema = mail.schema /\ mail # NoFile
      <4>1. mail # NoFile => [mail EXCEPT !.main = Held(mail), !.wal = {}].schema = mail.schema
        BY DEF TypeOK, MailDb
      <4> QED BY <4>1
    <3>5. HasHome' <=> HasHome
      BY <2>3 DEF HasHome
    <3> HIDE DEF taken
    <3>6. taken.schema = control.schema
      BY DEF taken
    <3> QED BY <2>2, <2>3, <2>4, <3>1, <3>2, <3>3, <3>4, <3>5, <3>6 DEF CopyFits, CanOpen, Fits
  <2> QED BY <1>5, <2>3, <2>4, <2>5 DEF SchemaInv, TakeSnapshot
<1>6. ASSUME EnterSnapshotted PROVE SchemaInv'
  <2> SUFFICES ASSUME crashes + faults = 0 PROVE SchemaInv'
    BY <1>6 DEF SchemaInv, EnterSnapshotted, runFrame, historyVars
  <2>1. /\ rec'.phase = "snapshotted" /\ rec'.dir = rec.candidate
        /\ rec'.candidate = rec.candidate /\ rec'.previous = rec.previous
        /\ rec'.moved <=> SchemaOf[rec.candidate] > control.schema
    BY <1>6 DEF EnterSnapshotted, TypeOK
  <2>2. UNCHANGED <<build, ending, current, snaps, control, mail, crashes, faults>>
    BY <1>6 DEF EnterSnapshotted, runFrame, diskVars, historyVars
  <2>3. /\ rec.candidate \in Versions /\ rec.previous = current
        /\ CanOpen(current, control) /\ Fits(current, mail)
        /\ CopyFits(rec.candidate, current)
    BY <1>6 DEF EnterSnapshotted, PlaceInv, SchemaInv
  <2>4. control.schema \in Nat /\ SchemaOf[rec.candidate] \in Nat /\ SchemaOf[current] \in Nat
    BY <2>3 DEF CanOpen, TypeOK, ControlDb
  <2>5. RevertReady'
    <3>1. CopyFits(rec.candidate, current)'
      BY <2>1, <2>2, <2>3 DEF CopyFits, HasHome, Fits
    <3>2. CopyFits(rec.dir, rec.previous)'
      BY <2>1, <2>2, <2>3, <3>1 DEF CopyFits, HasHome, Fits
    <3> QED BY <2>1, <2>2, <2>3, <2>4, <3>2 DEF RevertReady, CanOpen
  <2>6. CanOpen(current, control)' /\ Fits(current, mail)'
    BY <2>2, <2>3 DEF CanOpen, Fits
  <2> QED BY <1>6, <2>1, <2>2, <2>3, <2>5, <2>6 DEF SchemaInv, EnterSnapshotted
<1>7. ASSUME EnterDraining \/ EnterSwitching \/ EnterProbing \/ EnterReverting PROVE SchemaInv'
  <2>1. /\ rec'.candidate = rec.candidate /\ rec'.dir = rec.dir /\ rec'.previous = rec.previous
        /\ rec'.moved = rec.moved
        /\ UNCHANGED <<build, current, snaps, control, mail, crashes, faults>>
    BY <1>7 DEF EnterDraining, EnterSwitching, EnterProbing, EnterReverting, Enter, TypeOK,
       runFrame, diskVars, historyVars
  <2>2. RevertReady' <=> RevertReady
    BY <2>1 DEF RevertReady, CopyFits, HasHome, Fits
  <2>3. /\ CanOpen(current, control)' <=> CanOpen(current, control)
        /\ Fits(current, mail)' <=> Fits(current, mail)
    BY <2>1 DEF CanOpen, Fits
  <2>4. CASE EnterDraining \/ EnterSwitching \/ EnterProbing
    BY <2>1, <2>2, <2>3, <2>4 DEF SchemaInv, EnterDraining, EnterSwitching, EnterProbing
  <2>5. CASE EnterReverting
    BY <2>1, <2>2, <2>3, <2>5 DEF SchemaInv, EnterReverting
  <2> QED BY <1>7, <2>4, <2>5
<1>8. ASSUME Drain \/ RevertStop \/ ProbeFails PROVE SchemaInv'
  <2>1. UNCHANGED <<build, rec, current, snaps, control, crashes, faults>>
    BY <1>8 DEF Drain, RevertStop, ProbeFails, runFrame, diskVars, historyVars
  <2>2. SameSchema
    BY <1>8, StopType DEF Drain, RevertStop, ProbeFails, SameSchema, runFrame, diskVars
  <2>3. RevertReady => RevertReady'
    BY <2>1, <2>2, ReadyFrame DEF HasHome
  <2>4. /\ CanOpen(current, control)' <=> CanOpen(current, control)
        /\ Fits(current, mail)' <=> Fits(current, mail)
    BY <2>1, <2>2, SameFits DEF CanOpen, Fits
  <2>5. CASE Drain \/ RevertStop
    BY <2>1, <2>3, <2>4, <2>5 DEF SchemaInv, Drain, RevertStop
  <2>6. CASE ProbeFails
    BY <2>1, <2>3, <2>4, <2>6 DEF SchemaInv, ProbeFails, PlaceInv, Trial
  <2> QED BY <1>8, <2>5, <2>6
<1>9. ASSUME Switch PROVE SchemaInv'
  <2>1. /\ rec.candidate \in Versions /\ current' = rec.candidate
        /\ UNCHANGED <<build, ending, rec, snaps, control, mail, crashes, faults>>
    BY <1>9 DEF Switch, PlaceInv, runFrame, diskVars, historyVars
  <2>2. RevertReady' <=> RevertReady
    BY <2>1 DEF RevertReady, CopyFits, HasHome, Fits
  <2>3. crashes + faults = 0 => CanOpen(current, control)' /\ Fits(current, mail)'
    <3> SUFFICES ASSUME crashes + faults = 0
                 PROVE CanOpen(current, control)' /\ Fits(current, mail)'
      OBVIOUS
    <3>1. /\ CanOpen(current, control) /\ Fits(current, mail)
          /\ SchemaOf[current] <= SchemaOf[rec.candidate]
      BY <1>9 DEF Switch, SchemaInv
    <3>2. SchemaOf[current] \in Nat /\ SchemaOf[rec.candidate] \in Nat
      BY <2>1 DEF TypeOK
    <3>3. control.schema \in Nat /\ (mail # NoFile => mail.schema \in Nat)
      BY <3>1 DEF CanOpen, TypeOK, ControlDb, MailDb
    <3> QED BY <2>1, <3>1, <3>2, <3>3 DEF CanOpen, Fits
  <2> QED BY <1>9, <2>1, <2>2, <2>3 DEF SchemaInv, Switch
<1>10. ASSUME Confirm \/ ToIdle PROVE SchemaInv'
  <2>1. /\ rec'.phase \in {"idle", "confirmed"}
        /\ UNCHANGED <<build, ending, current, control, mail, crashes, faults>>
    BY <1>10 DEF Confirm, ToIdle, TypeOK, runFrame, daemonVars, diskVars, historyVars
  <2>2. /\ CanOpen(current, control)' <=> CanOpen(current, control)
        /\ Fits(current, mail)' <=> Fits(current, mail)
    BY <2>1 DEF CanOpen, Fits
  <2> QED BY <1>10, <2>1, <2>2 DEF SchemaInv, Confirm, ToIdle
<1>11. ASSUME SwitchBack PROVE SchemaInv'
  <2>1. /\ rec.previous \in Versions /\ current' = rec.previous
        /\ UNCHANGED <<build, ending, rec, snaps, control, mail, crashes, faults>>
    BY <1>11 DEF SwitchBack, PlaceInv, TypeOK, runFrame, diskVars, historyVars
  <2>2. RevertReady' <=> RevertReady
    BY <2>1 DEF RevertReady, CopyFits, HasHome, Fits
  <2>3. crashes + faults = 0 /\ ~rec.moved => CanOpen(current, control)' /\ Fits(current, mail)'
    <3> SUFFICES ASSUME crashes + faults = 0, ~rec.moved
                 PROVE CanOpen(current, control)' /\ Fits(current, mail)'
      OBVIOUS
    <3>1. /\ CanOpen(current, control) /\ Fits(current, mail) /\ current = rec.candidate
          /\ SchemaOf[rec.candidate] <= SchemaOf[rec.previous]
      BY <1>11 DEF SwitchBack, SchemaInv, RevertReady
    <3>2. SchemaOf[current] \in Nat /\ SchemaOf[rec.previous] \in Nat
      BY <2>1 DEF TypeOK
    <3>3. control.schema \in Nat /\ (mail # NoFile => mail.schema \in Nat)
      BY <3>1 DEF CanOpen, TypeOK, ControlDb, MailDb
    <3> QED BY <2>1, <3>1, <3>2, <3>3 DEF CanOpen, Fits
  <2> QED BY <1>11, <2>1, <2>2, <2>3 DEF SchemaInv, SwitchBack
<1>12. ASSUME MoveControlAside PROVE SchemaInv'
  <2>1. UNCHANGED <<build, ending, rec, current, snaps, crashes, faults>>
    BY <1>12 DEF MoveControlAside, restoreFrame, historyVars
  <2>2. RevertReady => RevertReady'
    BY <1>12, <2>1, ReadyFrame DEF MoveControlAside, HasHome, SameSchema
  <2> QED BY <1>12, <2>1, <2>2 DEF SchemaInv, MoveControlAside
<1>13. ASSUME CopyControl PROVE SchemaInv'
  <2>1. /\ rec.dir \in Versions /\ snaps[rec.dir] \in Snapshot
        /\ control' = [schema |-> snaps[rec.dir].schema, path |-> rec.dir]
    BY <1>13 DEF CopyControl, PlaceInv, CopyInv, TypeOK
  <2>2. control' # NoFile /\ ~HasHome'
    BY <2>1 DEF ControlDb, Snapshot, HasHome
  <2>3. UNCHANGED <<build, ending, rec, current, snaps, mail, crashes, faults>>
    BY <1>13 DEF CopyControl, restoreFrame, historyVars
  <2>4. RevertReady => RevertReady'
    BY <2>2, <2>3, ReadyFrame DEF SameSchema
  <2>5. ASSUME crashes + faults = 0
        PROVE /\ CanOpen(current, control)'
              /\ snaps[rec.dir].mail = NoFile => Fits(current, mail)'
    <3>1. CopyFits(rec.dir, current)
      BY <1>13, <2>5 DEF SchemaInv, RevertReady, CopyControl
    <3> QED BY <2>1, <2>2, <2>3, <3>1 DEF CopyFits, CanOpen, Fits
  <2> QED BY <1>13, <2>3, <2>4, <2>5 DEF SchemaInv, CopyControl
<1>14. ASSUME MoveMailAside PROVE SchemaInv'
  <2> SUFFICES ASSUME crashes + faults = 0 PROVE SchemaInv'
    BY <1>14 DEF SchemaInv, MoveMailAside, restoreFrame, historyVars
  <2>1. mail' = NoFile
        /\ UNCHANGED <<build, ending, rec, current, snaps, control, crashes, faults>>
    BY <1>14 DEF MoveMailAside, restoreFrame, historyVars
  <2>2. RevertReady /\ snaps[rec.dir].mail # NoFile
    BY <1>14 DEF MoveMailAside, SchemaInv
  <2>3. RevertReady' /\ Fits(current, mail)'
    BY <2>1, <2>2 DEF RevertReady, CopyFits, Fits
  <2>4. CanOpen(current, control)' <=> CanOpen(current, control)
    BY <2>1 DEF CanOpen
  <2> QED BY <1>14, <2>1, <2>2, <2>3, <2>4 DEF SchemaInv, MoveMailAside
<1>18. ASSUME CopyMail PROVE SchemaInv'
  <2> SUFFICES ASSUME crashes + faults = 0 PROVE SchemaInv'
    BY <1>18 DEF SchemaInv, CopyMail, restoreFrame, historyVars
  <2>1. mail' = snaps[rec.dir].mail
        /\ UNCHANGED <<build, ending, rec, current, snaps, control, crashes, faults>>
    BY <1>18 DEF CopyMail, restoreFrame, historyVars
  <2>2. CopyFits(rec.dir, current) /\ snaps[rec.dir].mail # NoFile
    BY <1>18 DEF CopyMail, SchemaInv, RevertReady
  <2>3. Fits(current, mail)'
    BY <2>1, <2>2 DEF CopyFits, Fits
  <2>4. CanOpen(current, control)' <=> CanOpen(current, control)
    BY <2>1 DEF CanOpen
  <2> QED BY <1>18, <2>1, <2>3, <2>4 DEF SchemaInv, CopyMail
<1>15. ASSUME RestoreFails PROVE SchemaInv'
  <2>1. CASE faults' = faults + 1
    <3>1. crashes' + faults' # 0
      BY <1>15, <2>1 DEF RestoreFails, TypeOK
    <3> QED BY <3>1 DEF SchemaInv
  <2>2. CASE pc = "restore" /\ snaps[rec.dir] = None /\ UNCHANGED faults
    <3>1. crashes + faults # 0
      BY <1>15, <2>2 DEF SchemaInv, RevertReady, CopyFits
    <3> QED BY <1>15, <2>2, <3>1 DEF RestoreFails, SchemaInv
  <2> QED BY <1>15, <2>1, <2>2 DEF RestoreFails
<1>16. ASSUME Boot \/ BootFails PROVE SchemaInv'
  <2>1. control \in ControlDb /\ Stamp(current)
    BY <1>16 DEF Boot, BootFails, CanOpen, TypeOK, Stamp
  <2>2. current \in Versions /\ control # NoFile
    BY <1>16 DEF TypeOK, Boot, BootFails, CanOpen
  <2>3. /\ control' \in ControlDb /\ control'.schema = SchemaOf[current]
        /\ control'.path = control.path
    BY <2>1, <2>2, StampType
  <2>4. control' # NoFile /\ SchemaOf[current] \in Nat
    BY <2>2, <2>3
  <2>5. CanOpen(current, control') /\ (HasHome' => HasHome)
    BY <2>2, <2>3, <2>4 DEF CanOpen, HasHome
  <2>6. UNCHANGED <<pc, build, ending, rec, current, snaps, crashes, faults>>
    BY <1>16 DEF Boot, BootFails, historyVars
  <2>7. CASE Boot
    <3>1. Fits(current, mail')
      BY <2>7, OpenedType DEF Boot, Fits, TypeOK
    <3>2. HasHome
      BY <2>7 DEF Boot, CanOpen, MailOpens, HasHome
    <3>3. \A dir, v : CopyFits(dir, v) => CopyFits(dir, v)'
      BY <2>6, <3>2 DEF CopyFits
    <3> QED BY <2>5, <2>6, <3>1, <3>3, SchemaFrame
  <2>8. CASE BootFails
    <3>1. mail' = mail
      BY <2>8 DEF BootFails
    <3>2. \A dir, v : CopyFits(dir, v) => CopyFits(dir, v)'
      BY <2>5, <2>6, <3>1, CopyFrame DEF SameSchema
    <3> QED BY <2>5, <2>6, <3>1, <3>2, SchemaFrame
  <2> QED BY <1>16, <2>7, <2>8
<1>17. ASSUME (\E m \in Mails : Deliver(m)) \/ Die \/ Stopped \/ UNCHANGED vars PROVE SchemaInv'
  <2>1. SameSchema
    BY <1>17, DeliverType, CheckpointType DEF SafetyInv, Die, Stopped, SameSchema, vars, diskVars
  <2>2. UNCHANGED <<pc, build, ending, rec, current, snaps, control, crashes, faults>>
    BY <1>17 DEF Deliver, Die, Stopped, vars, daemonVars, diskVars, historyVars
  <2>3. \A dir, v : CopyFits(dir, v) => CopyFits(dir, v)'
    BY <2>1, <2>2, CopyFrame DEF HasHome
  <2> QED BY <2>1, <2>2, <2>3, SameFits, SchemaFrame
<1> QED BY <1>1, <1>2, <1>3, <1>4, <1>5, <1>6, <1>7, <1>8, <1>9, <1>10, <1>11, <1>12, <1>13,
           <1>14, <1>15, <1>16, <1>17, <1>18 DEF Next, Run

\* No update, revert or recovery that nothing interrupted, and whose restore did
\* not fail, leaves a control or mail database whose schema the version in place
\* refuses (schemaMovedForward, open-mail-db.ts).  Whether that version finds the
\* mail is another question, and the answer is no: see DaemonComesBack.
THEOREM NothingFromTheFutureAlways == Spec => []NothingFromTheFuture
<1>1. Init => SchemaInv
  <2> SUFFICES ASSUME Init PROVE SchemaInv
    OBVIOUS
  <2>1. /\ control = [schema |-> SchemaOf[First], path |-> Home] /\ current = First
        /\ mail = [schema |-> SchemaOf[First], main |-> {}, wal |-> {}]
    BY DEF Init
  <2>2. control # NoFile /\ SchemaOf[First] \in Nat
    BY <2>1, CutoverAssumption DEF ControlDb
  <2>3. CanOpen(current, control) /\ Fits(current, mail)
    BY <2>1, <2>2 DEF CanOpen, Fits
  <2> QED BY <2>3 DEF Init, SchemaInv, Suspect, Ahead, Returned, Restoring
<1>2. SchemaInv => NothingFromTheFuture
  BY DEF SchemaInv, NothingFromTheFuture, Resting
<1>3. SafetyInv /\ SchemaInv /\ [Next]_vars => SchemaInv'
  BY StepSchema
<1> QED BY <1>1, <1>2, <1>3, CutoverCorrect, PTL DEF Spec

==============================================================================
