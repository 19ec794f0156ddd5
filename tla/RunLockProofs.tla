---------------------------- MODULE RunLockProofs ----------------------------
(* What is proved of RunLock, for any number of contending runs.           *)
EXTENDS RunLock, TLAPS

LEMMA InitTypes == Init => TypeOK
BY DEF Init, TypeOK, Ended

LEMMA StepTypes == TypeOK /\ [Next]_vars => TypeOK'
<1> SUFFICES ASSUME TypeOK, [Next]_vars PROVE TypeOK'
  OBVIOUS
<1> USE DEF TypeOK, Ended, Goto
<1>1. ASSUME NEW p \in Runs, Start(p) PROVE TypeOK'
  BY <1>1 DEF Start
<1>2. ASSUME NEW p \in Runs, Mkdir(p) PROVE TypeOK'
  <2>1. CASE lock = NoDir
    BY <1>2, <2>1 DEF Mkdir
  <2>2. CASE lock # NoDir /\ pc[p] = "claim"
    BY <1>2, <2>2 DEF Mkdir
  <2>3. CASE lock # NoDir /\ pc[p] = "reclaim"
    BY <1>2, <2>3 DEF Mkdir
  <2> QED BY <1>2, <2>1, <2>2, <2>3 DEF Mkdir
<1>3. ASSUME NEW p \in Runs, CreatePidFile(p) PROVE TypeOK'
  BY <1>3 DEF CreatePidFile
<1>4. ASSUME NEW p \in Runs, WritePid(p) PROVE TypeOK'
  BY <1>4 DEF WritePid
<1>5. ASSUME NEW p \in Runs, ReadPid(p) PROVE TypeOK'
  BY <1>5 DEF ReadPid
<1>6. ASSUME NEW p \in Runs, Break(p) \/ Release(p) PROVE TypeOK'
  BY <1>6 DEF Break, Release, Remove
<1>7. ASSUME NEW p \in Runs, Die(p) PROVE TypeOK'
  BY <1>7 DEF Die
<1>8. CASE UNCHANGED vars
  BY <1>8 DEF vars
<1> QED BY <1>1, <1>2, <1>3, <1>4, <1>5, <1>6, <1>7, <1>8 DEF Next, Step

\* Only a run that is writing, or was killed while it wrote, has a pid file open
\* (run-lock.ts, claim).
THEOREM TypesHold == Spec => []TypeOK
BY InitTypes, StepTypes, PTL DEF Spec

\* A run that comes across a settled lock goes on to read it, and is refused.
LEMMA SettledBars ==
    ASSUME TypeOK, NEW q \in Runs, Settled(q), NEW p \in Runs \ {q}, Start(p) \/ Step(p) \/ Die(p)
    PROVE  Settled(q)'
<1>1. /\ pc \in [Runs -> {"new", "claim", "create", "write", "read", "break", "reclaim", "held"}
                           \cup Ended]
      /\ pc[q] = "held" /\ lock = q /\ lock # NoDir /\ lock # NoFile /\ lock # Empty
      /\ \A r \in Runs \ {q} : pc[r] \notin {"create", "write", "break", "reclaim", "held"}
  BY RunLockAssumption DEF TypeOK, Settled
<1>2. ~Stale
  BY <1>1 DEF Stale, alive, Ended
<1>3. /\ lock' = lock
      /\ \E where \in {"claim", "read", "over", "dead"} : pc' = [pc EXCEPT ![p] = where]
  <2>1. CASE Start(p)
    BY <2>1 DEF Start, Goto
  <2>2. CASE Mkdir(p)
    BY <1>1, <2>2 DEF Mkdir, Goto
  <2>3. CASE ReadPid(p)
    BY <1>2, <2>3 DEF ReadPid, Goto
  <2>4. CASE Die(p)
    BY <2>4 DEF Die, Goto
  <2>5. ~CreatePidFile(p) /\ ~WritePid(p) /\ ~Break(p) /\ ~Release(p)
    BY <1>1 DEF CreatePidFile, WritePid, Break, Release
  <2> QED BY <2>1, <2>2, <2>3, <2>4, <2>5 DEF Step
<1> QED BY <1>1, <1>3 DEF Settled

\* Its holder, still working, can only release it or die.
LEMMA HolderEnds ==
    ASSUME TypeOK, NEW q \in Runs, Settled(q), Start(q) \/ Step(q) \/ Die(q)
    PROVE  pc'[q] \in Ended
<1>1. pc[q] = "held" /\ q \in DOMAIN pc
  BY DEF TypeOK, Settled
<1> QED
  BY <1>1 DEF Start, Step, Mkdir, CreatePidFile, WritePid, ReadPid, Break, Release, Die, Goto, Ended

\* A lock that says whose it is stays its holder's until that run ends, however
\* many others contend for it (acquireRunLock, holderPid).
THEOREM SettledLockStays == Spec => SettledLockHolds
<1>1. TypeOK /\ [Next]_vars
        => [\A q \in Runs : Settled(q) => Settled(q)' \/ pc'[q] \in Ended]_vars
  <2> SUFFICES ASSUME TypeOK, Next, NEW q \in Runs, Settled(q)
               PROVE  Settled(q)' \/ pc'[q] \in Ended
    OBVIOUS
  <2>1. PICK p \in Runs : Start(p) \/ Step(p) \/ Die(p)
    BY DEF Next
  <2>2. CASE p = q
    BY <2>1, <2>2, HolderEnds
  <2>3. CASE p # q
    BY <2>1, <2>3, SettledBars
  <2> QED BY <2>2, <2>3
<1> QED BY <1>1, TypesHold, PTL DEF Spec, SettledLockHolds
==============================================================================
