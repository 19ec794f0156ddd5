--------------------------- MODULE RelayLoopProofs ---------------------------
(***************************************************************************)
(* Machine-checked theorems about RelayLoop, for every value of its        *)
(* constants.  In order: the types; nothing accepted is lost before a      *)
(* verdict, by the inductive invariant IInv; a message is in one table at  *)
(* a time; the loop implements MailCustody; held mail stays; no failure is *)
(* reported twice, and (nobody cancelling, no crash) each is reported; no  *)
(* recipient is sent a second copy; a submission is attempted promptly;    *)
(* and the backoff stays near the retry window.  The last four hold under  *)
(* the assumptions their statements name, and each property has its own    *)
(* inductive strengthening on top of IInv.                                 *)
(***************************************************************************)
EXTENDS RelayLoop, FiniteSetTheorems, TLAPS

(* Powers of two are naturals: counting the subsets of 1..n.               *)
LEMMA PowerOfTwo == ASSUME NEW n \in Nat PROVE 2 ^ n \in Nat
<1>1. IsFiniteSet(1..n) /\ Cardinality(1..n) = n
  BY FS_Interval
<1>2. IsFiniteSet(SUBSET (1..n)) /\ Cardinality(SUBSET (1..n)) = 2 ^ n
  BY <1>1, FS_SUBSET
<1>3. QED
  BY <1>2, FS_CardinalityType

(* The backoff of backoffMs is a duration whatever the attempt count.      *)
LEMMA BackoffType == ASSUME NEW n \in Nat PROVE BackoffMs(n) \in Nat
<1> DEFINE k == IF n > 1 THEN n - 1 ELSE 0
<1>1. k \in Nat
  OBVIOUS
<1>2. 2 ^ k \in Nat
  BY <1>1, PowerOfTwo
<1> HIDE DEF k
<1>3. MinRetry * 2 ^ k \in Nat
  BY <1>2, QueueAssumption
<1>4. QED
  BY <1>3 DEF BackoffMs, k

-----------------------------------------------------------------------------
(* Each write of the queue keeps the tables well-typed. *)

LEMMA EnqueueType ==
  ASSUME QueueTypeOK, NEW id, NEW mail \in Mails, NEW from \in {Owner, NullSender},
         NEW R \in SUBSET Addrs, NEW t \in Nat, Enqueue(id, mail, from, R, t)
  PROVE  live' \in [Ids -> LiveRow \cup {NoRow}] /\ minted' \subseteq Ids
  BY DEF QueueTypeOK, Enqueue, LiveRow

LEMMA RescheduleType ==
  ASSUME QueueTypeOK, NEW id \in Ids, NEW R \in SUBSET Addrs, NEW n \in Nat,
         NEW t \in Nat, Reschedule(id, R, n, t)
  PROVE  QueueTypeOK'
  BY DEF QueueTypeOK, Reschedule, LiveRow

LEMMA RemoveType ==
  ASSUME QueueTypeOK, NEW id \in Ids, Remove(id)
  PROVE  QueueTypeOK'
  BY DEF QueueTypeOK, Remove

LEMMA DeadLetterType ==
  ASSUME QueueTypeOK, NEW id \in Ids, NEW row \in LiveRow,
         NEW R \in SUBSET Addrs, DeadLetter(id, row, R)
  PROVE  QueueTypeOK'
  BY DEF QueueTypeOK, DeadLetter, AsDeadRow, LiveRow, DeadRow

LEMMA RetryNowType ==
  ASSUME QueueTypeOK, NEW S \in SUBSET LiveIds, NEW t \in Nat, RetryNow(S, t)
  PROVE  QueueTypeOK'
  BY DEF QueueTypeOK, RetryNow, LiveIds, LiveRow

-----------------------------------------------------------------------------
(* Type correctness *)

(* The pairs of a row are recipients of a message.                         *)
LEMMA PairsOfType == ASSUME NEW row, NEW R PROVE PairsOf(row, R) \subseteq Pairs
  BY DEF PairsOf

(* A step of the tick works on a well-typed copy of a row.                 *)
TypeInv == TypeOK /\ EntryLoaded

(* Every step of the daemon, the operator and the clock keeps the types.   *)
LEMMA TypeStep == ASSUME TypeInv, [Next]_vars PROVE TypeInv'
<1> USE DEF TypeInv, EntryLoaded,
            loopVars, boundVars, sentVars, noticeVars, historyVars, queueVars,
            loopFrame, procFrame, opFrame
<1>1. ASSUME NEW mail \in Mails, NEW R \in SUBSET Rcpts, Submit(mail, R)
      PROVE  TypeInv'
  <2>1. R \in SUBSET Addrs /\ now \in Nat /\ Owner \in {Owner, NullSender}
    BY DEF Addrs, TypeOK
  <2>2. PICK id \in Ids : Enqueue(id, mail, Owner, R, now)
    BY <1>1 DEF Submit
  <2>3. live' \in [Ids -> LiveRow \cup {NoRow}] /\ minted' \subseteq Ids
    BY <2>1, <2>2, EnqueueType DEF TypeOK
  <2>4. QueueTypeOK'
    BY <1>1, <2>3 DEF Submit, TypeOK, QueueTypeOK
  <2>5. QED
    BY <1>1, <2>4 DEF Submit, RequestTick, TypeOK
<1>2. CASE TimerTick
  BY <1>2 DEF TimerTick, RequestTick, TypeOK, QueueTypeOK
<1>3. CASE StartBatch
  BY <1>3 DEF StartBatch, DueIds, LiveIds, TypeOK, QueueTypeOK
<1>4. CASE EndTick
  BY <1>4 DEF EndTick, Quiet, TypeOK, QueueTypeOK
<1>5. CASE EndBatch
  BY <1>5 DEF EndBatch, TypeOK, QueueTypeOK
<1>6. ASSUME NEW id \in Ids, SkipGone(id) PROVE TypeInv'
  BY <1>6 DEF SkipGone, TypeOK, QueueTypeOK
<1>7. ASSUME NEW id \in Ids, LoadEntry(id) PROVE TypeInv'
  BY <1>7 DEF LoadEntry, TypeOK, QueueTypeOK
<1>8. ASSUME NEW out \in [entry.rcpts -> Outcomes], pc = "relaying", RelayReturns(out)
      PROVE  TypeInv'
  <2>1. entry.rcpts \subseteq Addrs
    BY <1>8 DEF LiveRow
  <2>2. QED
    BY <1>8, <2>1, PairsOfType DEF RelayReturns, TypeOK, QueueTypeOK
<1>9. CASE SettleDelivered
  BY <1>9, RemoveType DEF SettleDelivered, Committed, TypeOK
<1>10. CASE SettleRefused
  BY <1>10, DeadLetterType DEF SettleRefused, Committed, TypeOK
<1>11. CASE SettleDeferred
  <2>1. Attempts \in Nat /\ at + BackoffMs(Attempts) \in Nat
    BY <1>11, BackoffType, QueueAssumption DEF SettleDeferred, Attempts, TypeOK, LiveRow
  <2>2. QueueTypeOK'
    BY <1>11, <2>1, RescheduleType DEF SettleDeferred, TypeOK
  <2>3. QED
    BY <1>11, <2>2 DEF SettleDeferred, Committed, TypeOK
<1>12. CASE SettleGaveUp
  BY <1>12, DeadLetterType DEF SettleGaveUp, Committed, TypeOK
<1>13. CASE SettleFails
  BY <1>13 DEF SettleFails, TypeOK, QueueTypeOK
<1>14. CASE Defer
  <2>1. Attempts \in Nat /\ at + SettleBackoff \in Nat
    BY <1>14, RelayAssumption DEF Defer, Attempts, TypeOK, LiveRow
  <2>2. QueueTypeOK'
    BY <1>14, <2>1, RescheduleType DEF Defer, TypeOK
  <2>3. QED
    BY <1>14, <2>2 DEF Defer, NextEntry, TypeOK
<1>15. CASE DeferFails
  BY <1>15 DEF DeferFails, NextEntry, TypeOK, QueueTypeOK
<1>16. CASE NoBounce
  BY <1>16 DEF NoBounce, NextEntry, TypeOK, QueueTypeOK
<1>17. CASE Bounce
  <2>1. entry.mail \in Mails /\ NullSender \in {Owner, NullSender} /\ now \in Nat
    BY <1>17 DEF Bounce, LiveRow, TypeOK
  <2>2. {entry.from} \in SUBSET Addrs
    BY <1>17 DEF Bounce, NothingToReport, LiveRow, Addrs
  <2>3. QueueTypeOK'
    <3>1. CASE UNCHANGED queueVars
      BY <3>1 DEF TypeOK, QueueTypeOK
    <3>2. CASE UNCHANGED dead /\ \E id \in Ids :
                 Enqueue(id, entry.mail, NullSender, {entry.from}, now)
      BY <2>1, <2>2, <3>2, EnqueueType DEF TypeOK, QueueTypeOK
    <3>3. QED
      BY <1>17, <3>1, <3>2 DEF Bounce
  <2>4. {cur} \X PairsOf(entry, toBounce) \subseteq Ids \X Pairs
    BY <1>17, PairsOfType DEF Bounce
  <2>5. QED
    BY <1>17, <2>3, <2>4 DEF Bounce, NextEntry, TypeOK
<1>18. CASE Boot
  BY <1>18, RelayAssumption DEF Boot, RequestTick, TypeOK, QueueTypeOK
<1>19. CASE Stop
  BY <1>19 DEF Stop, TypeOK, QueueTypeOK
<1>20. CASE Close \/ Crash
  BY <1>20 DEF Close, Crash, Quiet, TypeOK, QueueTypeOK
<1>21. CASE CliRetry
  <2>1. PICK S \in SUBSET LiveIds : RetryNow(S, now)
    BY <1>21 DEF CliRetry
  <2>2. QueueTypeOK'
    BY <2>1, RetryNowType DEF TypeOK
  <2>3. QED
    BY <1>21, <2>2 DEF CliRetry, Command, TypeOK
<1>22. ASSUME NEW id \in Ids, CliCancelRead(id) PROVE TypeInv'
  <2>1. live[id] \in LiveRow
    BY <1>22 DEF CliCancelRead, TypeOK, QueueTypeOK
  <2>2. QED
    BY <1>22, <2>1 DEF CliCancelRead, Command, TypeOK, QueueTypeOK
<1>23. CASE CliCancelCommit
  <2>1. cli.id \in Ids /\ cli.row \in LiveRow /\ cli.row.rcpts \in SUBSET Addrs
    BY <1>23 DEF CliCancelCommit, TypeOK, LiveRow
  <2>2. QueueTypeOK'
    <3>1. CASE DeadLetter(cli.id, cli.row, cli.row.rcpts)
      BY <2>1, <3>1, DeadLetterType DEF TypeOK
    <3>2. CASE UNCHANGED queueVars
      BY <3>2 DEF TypeOK, QueueTypeOK
    <3>3. QED
      BY <1>23, <3>1, <3>2 DEF CliCancelCommit
  <2>3. QED
    BY <1>23, <2>2 DEF CliCancelCommit, TypeOK
<1>24. ASSUME NEW id \in Ids, CliRequeue(id) PROVE TypeInv'
  <2>1. PICK newId \in Ids : RequeueDeadLetter(id, newId, now)
    BY <1>24 DEF CliRequeue
  <2>2. /\ dead[id].mail \in Mails /\ dead[id].from \in {Owner, NullSender}
        /\ dead[id].rcpts \in SUBSET Addrs /\ now \in Nat
    BY <1>24 DEF CliRequeue, TypeOK, QueueTypeOK, DeadRow
  <2>3. live' \in [Ids -> LiveRow \cup {NoRow}] /\ minted' \subseteq Ids
    <3>1. Enqueue(newId, dead[id].mail, dead[id].from, dead[id].rcpts, now)
      BY <2>1 DEF RequeueDeadLetter
    <3>2. QED
      BY <2>2, <3>1, EnqueueType DEF TypeOK
  <2>4. QueueTypeOK'
    BY <2>1, <2>3 DEF RequeueDeadLetter, TypeOK, QueueTypeOK
  <2>5. QED
    BY <1>24, <2>4 DEF CliRequeue, Command, TypeOK
<1>25. ASSUME NEW id \in Ids, CliPurge(id) PROVE TypeInv'
  BY <1>25, PairsOfType DEF CliPurge, Command, PurgeDeadLetter, TypeOK, QueueTypeOK
<1>26. CASE Clock
  BY <1>26 DEF Clock, TypeOK, QueueTypeOK
<1>27. CASE UNCHANGED vars
  BY <1>27 DEF vars, TypeOK, QueueTypeOK
<1>28. QED
  BY <1>1, <1>2, <1>3, <1>4, <1>5, <1>6, <1>7, <1>8, <1>9, <1>10, <1>11, <1>12,
     <1>13, <1>14, <1>15, <1>16, <1>17, <1>18, <1>19, <1>20, <1>21, <1>22, <1>23,
     <1>24, <1>25, <1>26, <1>27
     DEF Next, Tick, Relay, Operator

LEMMA TypeInit == ASSUME Init PROVE TypeInv
<1>1. QueueTypeOK
  BY DEF Init, QueueInit, QueueTypeOK
<1>2. QED
  BY <1>1 DEF Init, TypeInv, TypeOK, EntryLoaded

(* Type correctness of the whole system: the rows of both tables, the      *)
(* tick's copy of one and the operator's, for every value of the constants.*)
THEOREM TypeCorrect == Spec => []TypeOK
<1>1. TypeInv => TypeOK
  BY DEF TypeInv
<1>2. QED
  BY <1>1, TypeInit, TypeStep, PTL DEF Spec

-----------------------------------------------------------------------------
(* Nothing is lost *)

(* The part of IInv beyond the types.                                      *)
Bookkeeping == MintedIds /\ FreshEntry /\ Classified /\ CancelCovers /\ NothingLost

(* A step that leaves the tables and the histories alone, and does not     *)
(* begin to work on a row, disturbs nothing.                               *)
SameWork ==
    /\ cur' \in {cur, NoRow}
    /\ pc' \in {"relaying", "settle", "defer"} =>
          /\ pc' = pc \/ (pc = "settle" /\ pc' = "defer")
          /\ UNCHANGED <<cur, entry, retryLater, permanentFailures>>

LEMMA IdleStep ==
  ASSUME IInv, SameWork, UNCHANGED <<queueVars, cli, accepted, sent, rejected, purged>>
  PROVE  Bookkeeping'
<1> USE DEF IInv, SameWork, queueVars
<1>1. MintedIds'
  BY DEF MintedIds, LiveIds, DeadIds
<1>2. FreshEntry'
  BY DEF FreshEntry, SameMail
<1>3. Classified'
  BY DEF Classified, Elsewhere, OnDead, Holds, PairsOf
<1>4. CancelCovers'
  BY DEF CancelCovers, SameMail
<1>5. NothingLost'
  BY DEF NothingLost, OnLive, OnDead, Holds, PairsOf
<1>6. QED
  BY <1>1, <1>2, <1>3, <1>4, <1>5 DEF Bookkeeping

(* A fresh id names no row of either table, nor the row the tick or the    *)
(* operator is about to move.                                              *)
LEMMA FreshId ==
  ASSUME IInv, NEW id \in Ids \ minted
  PROVE  /\ live[id] = NoRow /\ dead[id] = NoRow /\ id # cur
         /\ cli # NoCli => id # cli.id
  BY QueueAssumption DEF IInv, MintedIds, LiveIds, DeadIds

(* A new row adds a recipient to custody and takes none away.              *)
LEMMA NewRowStep ==
  ASSUME IInv, SameWork, NEW id \in Ids, NEW mail, NEW from, NEW R, NEW t,
         Enqueue(id, mail, from, R, t),
         live'[id] # NoRow,
         accepted' \subseteq accepted \cup PairsOf(live'[id], live'[id].rcpts),
         UNCHANGED <<dead, cli, sent, rejected, purged>>
  PROVE  Bookkeeping'
<1> USE DEF IInv, SameWork
<1>1. /\ live[id] = NoRow /\ dead[id] = NoRow /\ id # cur /\ id \notin minted
      /\ cli # NoCli => id # cli.id
  BY FreshId DEF Enqueue
<1>2. \A j \in Ids : j # id => live'[j] = live[j]
  BY DEF Enqueue, TypeOK, QueueTypeOK
<1>3. MintedIds'
  BY <1>1, <1>2 DEF Enqueue, MintedIds, LiveIds, DeadIds
<1>4. FreshEntry'
  BY <1>1, <1>2 DEF FreshEntry, SameMail, EntryLoaded
<1>5. \A p : OnDead(p) => OnDead(p)'
  BY DEF OnDead
<1>6. Classified'
  <2>1. ASSUME pc' \in {"settle", "defer"} PROVE pc \in {"settle", "defer"} /\ cur \in Ids
    BY <2>1 DEF EntryLoaded
  <2>2. ASSUME pc' \in {"settle", "defer"}, NEW p, Elsewhere(p) PROVE Elsewhere(p)'
    BY <1>1, <1>2, <1>5, <2>1, <2>2 DEF Elsewhere, Holds
  <2>3. QED
    BY <1>1, <1>2, <2>1, <2>2 DEF Classified, PairsOf
<1>7. CancelCovers'
  BY <1>1, <1>2 DEF CancelCovers, SameMail, TypeOK
<1>8. NothingLost'
  <2>1. \A p : OnLive(p) => OnLive(p)'
    BY <1>1, <1>2 DEF OnLive, Holds
  <2>2. \A p \in PairsOf(live'[id], live'[id].rcpts) : OnLive(p)'
    BY DEF OnLive, Holds, PairsOf
  <2>3. QED
    BY <1>5, <2>1, <2>2 DEF NothingLost
<1>9. QED
  BY <1>3, <1>4, <1>6, <1>7, <1>8 DEF Bookkeeping

(* When the relay has answered, a recipient on the row is to be retried,   *)
(* refused (and, as such, answered for elsewhere), or has its copy.        *)
LEMMA AnsweredRow ==
  ASSUME IInv, pc \in {"settle", "defer"}, NEW p, Holds(live[cur], p)
  PROVE  \/ p \in PairsOf(entry, retryLater)
         \/ p \in PairsOf(entry, permanentFailures) /\ Elsewhere(p)
         \/ p \in sent
<1>1. live[cur] # NoRow /\ p \in PairsOf(live[cur], live[cur].rcpts)
  BY DEF Holds
<1>2. p \in PairsOf(entry, entry.rcpts)
  BY <1>1 DEF IInv, FreshEntry, SameMail, PairsOf
<1>3. \/ p \in PairsOf(entry, retryLater) \/ p \in PairsOf(entry, permanentFailures)
      \/ p \in PairsOf(entry, entry.rcpts \ (retryLater \cup permanentFailures))
  BY <1>2 DEF PairsOf
<1>4. QED
  BY <1>1, <1>3 DEF IInv, Classified

(* Whoever was on a row still is, or needs no further custody.             *)
Kept ==
    \A p : OnLive(p) \/ OnDead(p) =>
        OnLive(p)' \/ OnDead(p)' \/ p \in sent \cup rejected \cup purged

(* A transition of the current row loses nobody when it keeps, live or     *)
(* dead, those to retry and any refused one not answered for elsewhere.    *)
LEMMA SettleStep ==
  ASSUME IInv, pc \in {"settle", "defer"}, cur' \in {cur, NoRow},
         pc' \in {"drain", "bounce"},
         \A id \in Ids \ {cur} : live'[id] = live[id] /\ dead'[id] = dead[id],
         live[cur] = NoRow => live'[cur] = NoRow,
         live'[cur] # NoRow => /\ SameMail(live'[cur], live[cur])
                              /\ live'[cur].rcpts \subseteq live[cur].rcpts,
         dead[cur] # NoRow => dead'[cur] = dead[cur],
         dead'[cur] # NoRow => cur \in minted,
         \A p \in PairsOf(entry, retryLater) :
            Holds(live[cur], p) => OnLive(p)' \/ OnDead(p)',
         UNCHANGED <<minted, cli, accepted, sent, rejected, purged>>
  PROVE  Bookkeeping' /\ Kept
<1> USE DEF IInv
<1>1. cur \in Ids /\ entry \in LiveRow
  BY DEF EntryLoaded
<1>2. MintedIds'
  BY <1>1 DEF MintedIds, LiveIds, DeadIds
<1>3. FreshEntry' /\ Classified'
  BY DEF FreshEntry, Classified
<1>4. CancelCovers'
  BY <1>1 DEF CancelCovers, SameMail, TypeOK
<1>5. ASSUME NEW p, OnDead(p) PROVE OnDead(p)'
  BY <1>1, <1>5 DEF OnDead, Holds
<1>6. ASSUME NEW p, Elsewhere(p) PROVE OnLive(p)' \/ OnDead(p)' \/ p \in rejected \cup purged
  BY <1>5, <1>6 DEF Elsewhere, OnLive, Holds
<1>7. ASSUME NEW p, OnLive(p)
      PROVE  OnLive(p)' \/ OnDead(p)' \/ p \in sent \cup rejected \cup purged
  <2>1. CASE Holds(live[cur], p)
    BY <1>6, <2>1, AnsweredRow
  <2>2. CASE \E id \in Ids \ {cur} : Holds(live[id], p)
    BY <2>2 DEF OnLive, Holds
  <2>3. QED
    BY <1>1, <1>7, <2>1, <2>2 DEF OnLive
<1>8. Kept /\ NothingLost'
  BY <1>5, <1>7 DEF Kept, NothingLost
<1>9. QED
  BY <1>2, <1>3, <1>4, <1>8 DEF Bookkeeping

(* An operator command that moves recipients between the tables keeps what *)
(* the tick relies on: the current row keeps its recipients or goes, and   *)
(* no recipient in custody besides the current row's leaves it unpurged.   *)
LEMMA CommandStep ==
  ASSUME IInv, MintedIds', CancelCovers',
         cur \in Ids /\ live'[cur] # NoRow =>
            /\ live[cur] # NoRow /\ SameMail(live'[cur], live[cur])
            /\ live'[cur].rcpts = live[cur].rcpts,
         cur \in Ids => \A p : Holds(live[cur], p) => Holds(live'[cur], p) \/ OnDead(p)',
         \A p : Elsewhere(p) => Elsewhere(p)',
         UNCHANGED <<loopVars, accepted, sent>>
  PROVE  Bookkeeping'
<1> USE DEF IInv, loopVars
<1>1. FreshEntry'
  BY DEF FreshEntry, SameMail, EntryLoaded
<1>2. Classified'
  BY DEF Classified, PairsOf, EntryLoaded
<1>3. NothingLost'
  <2>1. ASSUME NEW p, OnLive(p) \/ OnDead(p) \/ p \in rejected \cup purged
        PROVE  OnLive(p)' \/ OnDead(p)' \/ p \in rejected' \cup purged'
    <3>1. CASE cur \in Ids
      <4>1. Holds(live[cur], p) \/ Elsewhere(p)
        BY <2>1 DEF OnLive, Elsewhere
      <4>2. QED
        BY <3>1, <4>1 DEF Elsewhere, OnLive
    <3>2. CASE cur \notin Ids
      BY <2>1, <3>2 DEF Elsewhere, OnLive
    <3>3. QED
      BY <3>1, <3>2
  <2>2. QED
    BY <2>1 DEF NothingLost
<1>4. QED
  BY <1>1, <1>2, <1>3 DEF Bookkeeping

LEMMA RetryStep == ASSUME IInv, CliRetry PROVE Bookkeeping'
<1> USE DEF IInv
<1>1. PICK S \in SUBSET LiveIds : RetryNow(S, now)
  BY DEF CliRetry
<1>2. UNCHANGED <<dead, minted, cli, loopVars, accepted, sent, rejected, purged>>
  BY <1>1 DEF CliRetry, opFrame, RetryNow
<1>3. \A id \in Ids :
         /\ live'[id] = NoRow <=> live[id] = NoRow
         /\ live[id] # NoRow => SameMail(live'[id], live[id]) /\ live'[id].rcpts = live[id].rcpts
  <2>1. ASSUME NEW id \in S
        PROVE  /\ live[id] # NoRow /\ live'[id] # NoRow
               /\ SameMail(live'[id], live[id]) /\ live'[id].rcpts = live[id].rcpts
    <3>1. id \in Ids /\ live[id] \in LiveRow
      BY DEF LiveIds, TypeOK, QueueTypeOK
    <3>2. live'[id] = [live[id] EXCEPT !.next = now]
      BY <1>1, <3>1 DEF RetryNow
    <3>3. live'[id] \in LiveRow
      BY <3>1, <3>2 DEF LiveRow, TypeOK
    <3>4. QED
      BY <3>1, <3>2, <3>3, QueueAssumption DEF LiveRow, SameMail, LiveIds
  <2>2. ASSUME NEW id \in Ids \ S PROVE live'[id] = live[id]
    BY <1>1 DEF RetryNow
  <2>3. QED
    BY <2>1, <2>2 DEF SameMail
<1>4. ASSUME NEW id \in Ids, NEW p, Holds(live[id], p) PROVE Holds(live'[id], p)
  BY <1>3, <1>4 DEF Holds, PairsOf, SameMail
<1>5. MintedIds'
  BY <1>2, <1>3 DEF MintedIds, LiveIds, DeadIds, loopVars
<1>6. CancelCovers'
  BY <1>2, <1>3 DEF CancelCovers, SameMail, TypeOK
<1>7. \A p : Elsewhere(p) => Elsewhere(p)'
  BY <1>2, <1>4 DEF Elsewhere, OnDead, loopVars
<1>8. QED
  BY <1>2, <1>3, <1>4, <1>5, <1>6, <1>7, CommandStep

LEMMA CancelReadStep == ASSUME IInv, NEW id \in Ids, CliCancelRead(id) PROVE Bookkeeping'
<1> USE DEF IInv
<1>1. UNCHANGED <<queueVars, loopVars, accepted, sent, rejected, purged>>
  BY DEF CliCancelRead, opFrame
<1>2. MintedIds'
  BY <1>1 DEF CliCancelRead, MintedIds, LiveIds, DeadIds, queueVars, loopVars
<1>3. CancelCovers'
  BY <1>1 DEF CliCancelRead, CancelCovers, SameMail, queueVars
<1>4. \A p : Elsewhere(p) => Elsewhere(p)'
  BY <1>1 DEF Elsewhere, OnDead, Holds, queueVars, loopVars
<1>5. QED
  BY <1>1, <1>2, <1>3, <1>4, CommandStep DEF queueVars, SameMail

LEMMA CancelCommitStep == ASSUME IInv, CliCancelCommit PROVE Bookkeeping'
<1> USE DEF IInv
<1>1. UNCHANGED <<loopVars, minted, accepted, sent, rejected, purged>> /\ cli' = NoCli
  BY DEF CliCancelCommit, opFrame, DeadLetter, queueVars
<1>2. cli.id \in Ids /\ cli.row \in LiveRow /\ cli.id \in minted
  BY DEF CliCancelCommit, TypeOK, MintedIds
<1>3. CancelCovers'
  BY <1>1 DEF CancelCovers
<1>4. CASE UNCHANGED queueVars
  <2>1. MintedIds'
    BY <1>1, <1>4 DEF MintedIds, LiveIds, DeadIds, queueVars, loopVars
  <2>2. \A p : Elsewhere(p) => Elsewhere(p)'
    BY <1>1, <1>4 DEF Elsewhere, OnDead, Holds, queueVars, loopVars
  <2>3. QED
    BY <1>1, <1>3, <1>4, <2>1, <2>2, CommandStep DEF queueVars, SameMail
<1>5. CASE DeadLetter(cli.id, cli.row, cli.row.rcpts)
  <2>1. /\ live'[cli.id] = NoRow
        /\ dead[cli.id] = NoRow /\ dead'[cli.id] = AsDeadRow(cli.row, cli.row.rcpts)
        /\ \A id \in Ids \ {cli.id} : live'[id] = live[id] /\ dead'[id] = dead[id]
    BY <1>2, <1>5 DEF DeadLetter, CanDeadLetter, TypeOK, QueueTypeOK
  <2>2. dead'[cli.id] # NoRow
    BY <1>2, <2>1, QueueAssumption DEF AsDeadRow, LiveRow, DeadRow
  <2>3. MintedIds'
    BY <1>1, <1>2, <2>1 DEF MintedIds, LiveIds, DeadIds, loopVars
  <2>4. \A p : OnDead(p) => OnDead(p)'
    BY <2>1 DEF OnDead, Holds
  <2>5. ASSUME NEW p, Holds(live[cli.id], p) PROVE OnDead(p)'
    <3>1. p \in PairsOf(cli.row, cli.row.rcpts)
      BY <2>5 DEF CliCancelCommit, CancelCovers, Holds, PairsOf, SameMail
    <3>2. Holds(dead'[cli.id], p)
      BY <2>1, <2>2, <3>1 DEF Holds, AsDeadRow, PairsOf
    <3>3. QED
      BY <1>2, <3>2 DEF OnDead
  <2>6. \A p : Elsewhere(p) => Elsewhere(p)'
    BY <1>1, <2>1, <2>4, <2>5 DEF Elsewhere, loopVars
  <2>7. cur \in Ids => \A p : Holds(live[cur], p) => Holds(live'[cur], p) \/ OnDead(p)'
    BY <2>1, <2>5
  <2>8. QED
    BY <1>1, <1>3, <2>1, <2>3, <2>6, <2>7, CommandStep DEF SameMail
<1>6. QED
  BY <1>4, <1>5 DEF CliCancelCommit

(* A requeued dead letter's recipients are on a row of a fresh id, so also *)
(* the refusal they lose is no longer needed.                              *)
LEMMA RequeueStep == ASSUME IInv, NEW id \in Ids, CliRequeue(id) PROVE Bookkeeping'
<1> USE DEF IInv
<1>1. PICK newId \in Ids : RequeueDeadLetter(id, newId, now)
  BY DEF CliRequeue
<1>2. UNCHANGED <<loopVars, cli, accepted, sent, purged>>
      /\ rejected' = rejected \ PairsOf(dead[id], dead[id].rcpts) /\ dead[id] # NoRow
  BY DEF CliRequeue, opFrame
<1>3. dead[id] \in DeadRow
  BY <1>2 DEF TypeOK, QueueTypeOK
<1>4. /\ newId \notin minted /\ live[newId] = NoRow /\ newId # cur
      /\ cli # NoCli => newId # cli.id
  BY <1>1, FreshId DEF RequeueDeadLetter, Enqueue
<1>5. /\ live'[newId] = [mail |-> dead[id].mail, from |-> dead[id].from,
                         rcpts |-> dead[id].rcpts, first |-> now, attempts |-> 0,
                         next |-> now]
      /\ \A j \in Ids \ {newId} : live'[j] = live[j]
      /\ dead'[id] = NoRow
      /\ \A j \in Ids \ {id} : dead'[j] = dead[j]
      /\ minted' = minted \cup {newId}
  BY <1>1 DEF RequeueDeadLetter, Enqueue, TypeOK, QueueTypeOK
<1>6. live'[newId] \in LiveRow
  BY <1>3, <1>5 DEF LiveRow, DeadRow, TypeOK
<1>7. live'[newId] # NoRow
  BY <1>6, QueueAssumption
<1>8. ASSUME NEW p, p \in PairsOf(dead[id], dead[id].rcpts) PROVE Holds(live'[newId], p)
  BY <1>5, <1>7, <1>8 DEF Holds, PairsOf
<1>9. MintedIds'
  BY <1>2, <1>5 DEF MintedIds, LiveIds, DeadIds, loopVars
<1>10. CancelCovers'
  BY <1>2, <1>4, <1>5 DEF CancelCovers, SameMail, TypeOK
<1>11. ASSUME NEW p, Elsewhere(p) PROVE Elsewhere(p)'
  <2>1. CASE \E j \in Ids \ {cur} : Holds(live[j], p)
    BY <1>2, <1>4, <1>5, <2>1 DEF Elsewhere, Holds, loopVars
  <2>2. CASE p \in PairsOf(dead[id], dead[id].rcpts)
    BY <1>2, <1>4, <1>8, <2>2 DEF Elsewhere, loopVars
  <2>3. CASE \E j \in Ids \ {id} : Holds(dead[j], p)
    BY <1>5, <2>3 DEF Elsewhere, OnDead
  <2>4. CASE p \in (rejected \cup purged) \ PairsOf(dead[id], dead[id].rcpts)
    BY <1>2, <2>4 DEF Elsewhere
  <2>5. QED
    BY <1>11, <2>1, <2>2, <2>3, <2>4 DEF Elsewhere, OnDead, Holds
<1>12. QED
  BY <1>2, <1>4, <1>5, <1>9, <1>10, <1>11, CommandStep DEF SameMail

LEMMA PurgeStep == ASSUME IInv, NEW id \in Ids, CliPurge(id) PROVE Bookkeeping'
<1> USE DEF IInv
<1>1. /\ UNCHANGED <<live, minted, loopVars, cli, accepted, sent, rejected>>
      /\ dead' = [dead EXCEPT ![id] = NoRow]
      /\ purged' = purged \cup PairsOf(dead[id], dead[id].rcpts)
  BY DEF CliPurge, PurgeDeadLetter, opFrame
<1>2. MintedIds'
  BY <1>1 DEF MintedIds, LiveIds, DeadIds, loopVars, TypeOK, QueueTypeOK
<1>3. CancelCovers'
  BY <1>1 DEF CancelCovers, SameMail
<1>4. ASSUME NEW p, Elsewhere(p) PROVE Elsewhere(p)'
  <2>1. CASE OnDead(p)
    BY <1>1, <2>1 DEF Elsewhere, OnDead, Holds, TypeOK, QueueTypeOK
  <2>2. CASE ~OnDead(p)
    BY <1>1, <1>4, <2>2 DEF Elsewhere, Holds, loopVars
  <2>3. QED
    BY <2>1, <2>2
<1>5. QED
  BY <1>1, <1>2, <1>3, <1>4, CommandStep DEF SameMail

(* The relay's answer sorts the row's recipients; the refused ones become  *)
(* known as such in the same step.                                         *)
LEMMA RelayStep ==
  ASSUME IInv, pc = "relaying", NEW out \in [entry.rcpts -> Outcomes], RelayReturns(out)
  PROVE  Bookkeeping'
<1> USE DEF IInv
<1>1. /\ UNCHANGED <<queueVars, cli, cur, entry, accepted, purged>>
      /\ pc' = "settle" /\ sent \subseteq sent' /\ rejected \subseteq rejected'
  BY DEF RelayReturns, loopFrame
<1>2. MintedIds'
  BY <1>1 DEF MintedIds, LiveIds, DeadIds, queueVars
<1>3. FreshEntry'
  BY <1>1 DEF FreshEntry, SameMail, queueVars
<1>4. CancelCovers'
  BY <1>1 DEF CancelCovers, SameMail, queueVars
<1>5. NothingLost'
  BY <1>1 DEF NothingLost, OnLive, OnDead, Holds, queueVars
<1>6. Classified'
  <2>1. (retryLater \cup permanentFailures)' \subseteq entry'.rcpts
    BY DEF RelayReturns
  <2>2. PairsOf(entry, entry.rcpts \ (retryLater' \cup permanentFailures')) \subseteq sent'
    <3>1. ASSUME NEW r \in entry.rcpts, r \notin retryLater', r \notin permanentFailures'
          PROVE  out[r] = "success"
      BY <3>1, RelayAssumption DEF RelayReturns, Transient, AllOutcomes
    <3>2. QED
      BY <3>1 DEF RelayReturns, Transient, PairsOf
  <2>3. PairsOf(entry, permanentFailures') \subseteq rejected'
    BY DEF RelayReturns
  <2>4. QED
    BY <1>1, <2>1, <2>2, <2>3 DEF Classified, Elsewhere
<1>7. QED
  BY <1>2, <1>3, <1>4, <1>5, <1>6 DEF Bookkeeping

(* Both ways a settle or its deferral keeps the row: whoever is to be      *)
(* retried stays on it.                                                    *)
LEMMA RescheduleStep ==
  ASSUME IInv, pc \in {"settle", "defer"}, cur' \in {cur, NoRow},
         pc' \in {"drain", "bounce"}, NEW R, NEW n \in Nat, NEW t \in Nat,
         retryLater \subseteq R, R \subseteq retryLater \cup permanentFailures,
         Reschedule(cur, R, n, t),
         UNCHANGED <<cli, accepted, sent, rejected, purged>>
  PROVE  Bookkeeping' /\ Kept
<1> USE DEF IInv
<1>1. cur \in Ids /\ entry \in LiveRow /\ (retryLater \cup permanentFailures) \subseteq entry.rcpts
  BY DEF EntryLoaded, Classified
<1>2. live[cur] # NoRow => live[cur] \in LiveRow /\ live[cur].rcpts = entry.rcpts /\ SameMail(live[cur], entry)
  BY <1>1 DEF FreshEntry, TypeOK, QueueTypeOK
<1>3. /\ \A id \in Ids \ {cur} : live'[id] = live[id]
      /\ UNCHANGED <<dead, minted>>
      /\ live[cur] = NoRow => live'[cur] = NoRow
      /\ live[cur] # NoRow =>
            live'[cur] = [live[cur] EXCEPT !.rcpts = R, !.attempts = n, !.next = t]
  BY <1>1 DEF Reschedule, TypeOK, QueueTypeOK
<1>4. live[cur] # NoRow =>
         /\ live'[cur] \in LiveRow /\ live'[cur].rcpts = R /\ SameMail(live'[cur], live[cur])
  <2>1. R \subseteq Addrs
    BY <1>1 DEF LiveRow
  <2>2. QED
    BY <1>2, <1>3, <2>1 DEF LiveRow, SameMail
<1>5. ASSUME NEW p \in PairsOf(entry, retryLater), Holds(live[cur], p) PROVE OnLive(p)'
  <2>1. live[cur] # NoRow /\ live'[cur] # NoRow
    BY <1>4, <1>5, QueueAssumption DEF Holds
  <2>2. p \in PairsOf(live'[cur], R)
    BY <1>2, <1>4, <1>5, <2>1 DEF PairsOf, SameMail
  <2>3. QED
    BY <1>1, <1>4, <2>1, <2>2 DEF OnLive, Holds
<1>6. live'[cur] # NoRow => /\ SameMail(live'[cur], live[cur])
                           /\ live'[cur].rcpts \subseteq live[cur].rcpts
  BY <1>1, <1>2, <1>3, <1>4
<1>7. dead'[cur] # NoRow => cur \in minted
  BY <1>1, QueueAssumption DEF MintedIds
<1>8. QED
  BY <1>3, <1>5, <1>6, <1>7, SettleStep

(* A move to the dead letters keeps whoever it names there.                *)
LEMMA DeadLetterStep ==
  ASSUME IInv, pc \in {"settle", "defer"}, cur' \in {cur, NoRow},
         pc' \in {"drain", "bounce"}, NEW R \in SUBSET Addrs, retryLater \subseteq R,
         DeadLetter(cur, entry, R),
         UNCHANGED <<cli, accepted, sent, rejected, purged>>
  PROVE  Bookkeeping' /\ Kept
<1> USE DEF IInv
<1>1. cur \in Ids /\ entry \in LiveRow /\ cur \in minted
  BY QueueAssumption DEF EntryLoaded, MintedIds
<1>2. /\ \A id \in Ids \ {cur} : live'[id] = live[id] /\ dead'[id] = dead[id]
      /\ live'[cur] = NoRow /\ dead[cur] = NoRow
      /\ dead'[cur] = AsDeadRow(entry, R) /\ UNCHANGED minted
  BY <1>1 DEF DeadLetter, CanDeadLetter, TypeOK, QueueTypeOK
<1>3. AsDeadRow(entry, R) # NoRow
  BY <1>1, QueueAssumption DEF AsDeadRow, LiveRow, DeadRow
<1>4. ASSUME NEW p \in PairsOf(entry, retryLater) PROVE OnDead(p)'
  BY <1>1, <1>2, <1>3, <1>4 DEF OnDead, Holds, PairsOf, AsDeadRow
<1>5. QED
  BY <1>1, <1>2, <1>4, SettleStep

(* Each way a settle commits, and the deferral of one that failed.         *)
LEMMA SettlingStep ==
  ASSUME IInv, SettleDelivered \/ SettleRefused \/ SettleDeferred \/ SettleGaveUp \/ Defer
  PROVE  Bookkeeping' /\ Kept
<1> USE DEF sentVars, noticeVars, loopFrame
<1>1. CASE SettleDelivered
  <2>1. cur \in Ids /\ (dead[cur] # NoRow => cur \in minted)
    BY <1>1 DEF SettleDelivered, IInv, EntryLoaded, MintedIds, DeadIds
  <2>2. /\ live'[cur] = NoRow /\ \A id \in Ids \ {cur} : live'[id] = live[id]
        /\ UNCHANGED <<dead, minted>>
    BY <1>1, <2>1 DEF SettleDelivered, Remove, IInv, TypeOK, QueueTypeOK
  <2>3. PairsOf(entry, retryLater) = {}
    BY <1>1 DEF SettleDelivered, PairsOf
  <2>4. QED
    BY <1>1, <2>1, <2>2, <2>3, SettleStep DEF SettleDelivered, Committed
<1>2. CASE SettleRefused
  <2>1. permanentFailures \in SUBSET Addrs
    BY DEF IInv, TypeOK
  <2>2. QED
    BY <1>2, <2>1, DeadLetterStep DEF SettleRefused, Committed
<1>3. CASE SettleDeferred
  <2>1. Attempts \in Nat /\ at + BackoffMs(Attempts) \in Nat
    BY <1>3, BackoffType, QueueAssumption
       DEF SettleDeferred, Attempts, IInv, EntryLoaded, TypeOK, LiveRow
  <2>2. QED
    BY <1>3, <2>1, RescheduleStep DEF SettleDeferred, Committed
<1>4. CASE SettleGaveUp
  <2>1. retryLater \in SUBSET Addrs
    BY DEF IInv, TypeOK
  <2>2. QED
    BY <1>4, <2>1, DeadLetterStep DEF SettleGaveUp, Committed
<1>5. CASE Defer
  <2>1. Attempts \in Nat /\ at + SettleBackoff \in Nat
    BY <1>5, RelayAssumption DEF Defer, Attempts, IInv, EntryLoaded, TypeOK, LiveRow
  <2>2. QED
    BY <1>5, <2>1, RescheduleStep DEF Defer, NextEntry
<1>6. QED
  BY <1>1, <1>2, <1>3, <1>4, <1>5

(* Every step of the daemon, the operator and the clock keeps the books.   *)
LEMMA BookkeepingStep == ASSUME IInv, [Next]_vars PROVE Bookkeeping'
<1> USE DEF loopVars, boundVars, sentVars, noticeVars, historyVars, queueVars,
            loopFrame, procFrame
<1>a. ASSUME UNCHANGED loopVars PROVE SameWork
  BY <1>a DEF SameWork
<1>b. ASSUME RequestTick PROVE SameWork
  BY <1>b DEF RequestTick, SameWork
<1>1. ASSUME NEW mail \in Mails, NEW R \in SUBSET Rcpts, Submit(mail, R)
      PROVE  Bookkeeping'
  <2>1. PICK id \in Ids : Enqueue(id, mail, Owner, R, now)
    BY <1>1 DEF Submit
  <2>2. /\ live'[id].mail = mail /\ live'[id].from = Owner /\ live'[id].rcpts = R
        /\ live'[id] \in LiveRow
    BY <1>1, <2>1 DEF Enqueue, IInv, TypeOK, QueueTypeOK, LiveRow, Addrs
  <2>3. accepted' = accepted \cup PairsOf(live'[id], live'[id].rcpts)
    BY <1>1, <2>2, QueueAssumption DEF Submit, PairsOf
  <2>4. SameWork
    BY <1>1, <1>a, <1>b DEF Submit
  <2>5. QED
    BY <1>1, <2>1, <2>2, <2>3, <2>4, QueueAssumption, NewRowStep DEF Submit
<1>2. CASE TimerTick
  BY <1>2, IdleStep DEF TimerTick, RequestTick, SameWork
<1>3. CASE StartBatch
  BY <1>3, IdleStep DEF StartBatch, SameWork
<1>4. CASE EndTick
  BY <1>4, IdleStep DEF EndTick, Quiet, SameWork
<1>5. CASE EndBatch
  BY <1>5, IdleStep DEF EndBatch, SameWork
<1>6. ASSUME NEW id \in Ids, SkipGone(id) PROVE Bookkeeping'
  BY <1>6, IdleStep DEF SkipGone, SameWork
<1>7. ASSUME NEW id \in Ids, LoadEntry(id) PROVE Bookkeeping'
  <2>1. MintedIds'
    BY <1>7 DEF LoadEntry, IInv, MintedIds, LiveIds, DeadIds
  <2>2. FreshEntry' /\ Classified'
    BY <1>7 DEF LoadEntry, FreshEntry, Classified, SameMail
  <2>3. CancelCovers' /\ NothingLost'
    BY <1>7 DEF LoadEntry, IInv, CancelCovers, SameMail, NothingLost, OnLive, OnDead, Holds
  <2>4. QED
    BY <2>1, <2>2, <2>3 DEF Bookkeeping
<1>8. ASSUME NEW out \in [entry.rcpts -> Outcomes], pc = "relaying", RelayReturns(out)
      PROVE  Bookkeeping'
  BY <1>8, RelayStep
<1>9. CASE SettleDelivered \/ SettleRefused \/ SettleDeferred \/ SettleGaveUp \/ Defer
  BY <1>9, SettlingStep
<1>10. CASE SettleFails
  BY <1>10, IdleStep DEF SettleFails, SameWork
<1>11. CASE DeferFails \/ NoBounce
  BY <1>11, IdleStep DEF DeferFails, NoBounce, NextEntry, SameWork
<1>12. CASE Bounce
  <2>1. SameWork
    BY <1>12 DEF Bounce, NextEntry, SameWork
  <2>2. CASE UNCHANGED queueVars
    BY <1>12, <2>1, <2>2, IdleStep DEF Bounce
  <2>3. ASSUME NEW id \in Ids, UNCHANGED dead,
               Enqueue(id, entry.mail, NullSender, {entry.from}, now)
        PROVE  Bookkeeping'
    <3>1. live'[id] \in LiveRow
      BY <1>12, <2>3 DEF Bounce, NothingToReport, Enqueue, IInv, EntryLoaded, TypeOK, QueueTypeOK, LiveRow, Addrs
    <3>2. QED
      BY <1>12, <2>1, <2>3, <3>1, QueueAssumption, NewRowStep DEF Bounce
  <2>4. QED
    BY <1>12, <2>2, <2>3 DEF Bounce
<1>13. CASE Boot
  BY <1>13, <1>a, <1>b, IdleStep DEF Boot
<1>14. CASE Stop
  BY <1>14, <1>a, IdleStep DEF Stop
<1>15. CASE Close \/ Crash
  BY <1>15, IdleStep DEF Close, Crash, Quiet, SameWork
<1>16. CASE Operator
  BY <1>16, RetryStep, CancelReadStep, CancelCommitStep, RequeueStep, PurgeStep
     DEF Operator
<1>17. CASE Clock \/ UNCHANGED vars
  BY <1>17, <1>a, IdleStep DEF Clock, vars
<1>18. QED
  BY <1>1, <1>2, <1>3, <1>4, <1>5, <1>6, <1>7, <1>8, <1>9, <1>10, <1>11, <1>12,
     <1>13, <1>14, <1>15, <1>16, <1>17
     DEF Next, Tick, Relay

LEMMA InvariantInit == ASSUME Init PROVE IInv
<1>1. TypeInv
  BY TypeInit
<1>2. QED
  BY <1>1, QueueAssumption DEF Init, QueueInit, TypeInv, IInv, MintedIds, LiveIds, DeadIds, FreshEntry,
     Classified, CancelCovers, NothingLost

LEMMA InvariantStep == ASSUME IInv, [Next]_vars PROVE IInv'
  BY TypeStep, BookkeepingStep DEF IInv, TypeInv, Bookkeeping

(* The inductive invariant: what the tick and the operator know of the     *)
(* rows they read is still true enough when they act on it.                *)
THEOREM InvariantCorrect == Spec => []IInv
  BY InvariantInit, InvariantStep, PTL DEF Spec

(* No accepted recipient is lost before a verdict, whatever crash, failed  *)
(* write, shutdown or operator command interleaves with the processing of  *)
(* its row (#processEntry, deadLetter, cancel, requeueDeadLetter).         *)
THEOREM NothingLostAlways == Spec => []NothingLost
<1>1. IInv => NothingLost
  BY DEF IInv
<1>2. QED
  BY <1>1, InvariantCorrect, PTL

-----------------------------------------------------------------------------
(* One store at a time *)

(* A row enters a table under a fresh id, or under the id it leaves the    *)
(* other table with.                                                       *)
LEMMA OneStoreStep ==
  ASSUME IInv, QueueOrDeadLetter, [Next]_vars
  PROVE  QueueOrDeadLetter'
<1> USE DEF QueueOrDeadLetter, LiveIds, DeadIds
<1>1. ASSUME NEW id, NEW mail, NEW from, NEW R, NEW t, Enqueue(id, mail, from, R, t),
             \A j \in Ids : dead'[j] # NoRow => dead[j] # NoRow
      PROVE  QueueOrDeadLetter'
  <2>1. id \in Ids /\ dead[id] = NoRow
    BY <1>1, FreshId DEF Enqueue
  <2>2. \A j \in Ids \ {id} : live'[j] = live[j]
    BY <1>1 DEF Enqueue, IInv, TypeOK, QueueTypeOK
  <2>3. QED
    BY <1>1, <2>1, <2>2
<1>2. ASSUME NEW id \in Ids, NEW row, NEW R, DeadLetter(id, row, R) PROVE QueueOrDeadLetter'
  BY <1>2 DEF DeadLetter, IInv, TypeOK, QueueTypeOK
<1>3. ASSUME UNCHANGED dead, \A j \in Ids : live'[j] # NoRow => live[j] # NoRow
      PROVE  QueueOrDeadLetter'
  BY <1>3
<1>4. CASE UNCHANGED queueVars
  BY <1>3, <1>4 DEF queueVars
<1>5. ASSUME NEW mail \in Mails, NEW R \in SUBSET Rcpts, Submit(mail, R)
      PROVE  QueueOrDeadLetter'
  BY <1>1, <1>5 DEF Submit
<1>6. ASSUME pc \in {"settle", "defer", "bounce"} PROVE cur \in Ids
  BY <1>6 DEF IInv, EntryLoaded
<1>7. CASE SettleDelivered \/ SettleDeferred \/ Defer
  BY <1>3, <1>6, <1>7
     DEF SettleDelivered, SettleDeferred, Defer, Remove, Reschedule, IInv, TypeOK, QueueTypeOK
<1>8. CASE SettleRefused \/ SettleGaveUp
  BY <1>2, <1>6, <1>8 DEF SettleRefused, SettleGaveUp
<1>9. CASE Bounce
  BY <1>1, <1>4, <1>9 DEF Bounce
<1>10. CASE CliRetry
  <2>1. PICK S \in SUBSET LiveIds : RetryNow(S, now)
    BY <1>10 DEF CliRetry
  <2>2. QED
    BY <1>3, <2>1 DEF RetryNow
<1>11. CASE CliCancelCommit
  BY <1>2, <1>4, <1>11 DEF CliCancelCommit, IInv, TypeOK
<1>12. ASSUME NEW id \in Ids, CliRequeue(id) PROVE QueueOrDeadLetter'
  BY <1>1, <1>12 DEF CliRequeue, RequeueDeadLetter, IInv, TypeOK, QueueTypeOK
<1>13. ASSUME NEW id \in Ids, CliPurge(id) PROVE QueueOrDeadLetter'
  BY <1>13 DEF CliPurge, PurgeDeadLetter, IInv, TypeOK, QueueTypeOK
<1>14. CASE Relay
  BY <1>4, <1>14 DEF Relay, RelayReturns
<1>15. CASE Boot \/ Stop \/ Close \/ Crash \/ TimerTick \/ Clock \/ UNCHANGED vars
  BY <1>4, <1>15 DEF Boot, Stop, Close, Crash, TimerTick, Clock, procFrame, vars
<1>16. CASE StartBatch \/ EndTick \/ EndBatch \/ SettleFails \/ DeferFails \/ NoBounce
  BY <1>4, <1>16 DEF StartBatch, EndTick, EndBatch, SettleFails, DeferFails, NoBounce
<1>17. ASSUME NEW id \in Ids, SkipGone(id) \/ LoadEntry(id) \/ CliCancelRead(id)
       PROVE  QueueOrDeadLetter'
  BY <1>4, <1>17 DEF SkipGone, LoadEntry, CliCancelRead
<1>18. QED
  BY <1>5, <1>7, <1>8, <1>9, <1>10, <1>11, <1>12, <1>13, <1>14, <1>15, <1>16, <1>17
     DEF Next, Tick, Operator

(* A message is in the queue or in the dead-letter store, never in both,   *)
(* although the operator's process and the tick move the same rows.        *)
THEOREM OneStoreAlways == Spec => []QueueOrDeadLetter
<1>1. Init => QueueOrDeadLetter
  BY DEF Init, QueueInit, QueueOrDeadLetter, LiveIds
<1>2. QED
  BY <1>1, InvariantCorrect, OneStoreStep, PTL DEF Spec

-----------------------------------------------------------------------------
(* Custody: the loop implements MailCustody *)

(* Whoever a row names - a live one, a dead letter, the tick's copy or the *)
(* operator's - was accepted once.                                         *)
Accounted ==
    /\ \A p : OnLive(p) \/ OnDead(p) => p \in accepted
    /\ pc \in {"relaying", "settle", "defer", "bounce"} =>
          PairsOf(entry, entry.rcpts) \subseteq accepted
    /\ cli # NoCli => PairsOf(cli.row, cli.row.rcpts) \subseteq accepted

(* The tick goes on with the copy it has, or with none.                    *)
SameEntry ==
    pc' \in {"relaying", "settle", "defer", "bounce"} =>
        pc \in {"relaying", "settle", "defer", "bounce"} /\ UNCHANGED entry

(* No row names anybody who was not accepted.                              *)
NamesAccepted ==
    \A id \in Ids : \A p : Holds(live'[id], p) \/ Holds(dead'[id], p) => p \in accepted'

LEMMA AccountedKept ==
  ASSUME Accounted, SameEntry, NamesAccepted, cli' \in {cli, NoCli}, accepted \subseteq accepted'
  PROVE  Accounted'
<1>1. \A p : OnLive(p)' \/ OnDead(p)' => p \in accepted'
  BY DEF NamesAccepted, OnLive, OnDead, Holds, PairsOf
<1>2. QED
  BY <1>1 DEF Accounted, SameEntry, PairsOf

LEMMA AccountedIdle ==
  ASSUME Accounted, SameEntry, cli' \in {cli, NoCli}, UNCHANGED <<live, dead, accepted>>
  PROVE  Accounted'
<1>1. NamesAccepted
  BY DEF Accounted, NamesAccepted, OnLive, OnDead
<1>2. QED
  BY <1>1, AccountedKept

(* A new row names the newly accepted, those of a row before, or nobody.   *)
LEMMA AccountedNewRow ==
  ASSUME IInv, Accounted, SameEntry, NEW id, NEW mail, NEW from, NEW R, NEW t,
         Enqueue(id, mail, from, R, t), PairsOf(live'[id], R) \subseteq accepted',
         \A j \in Ids : dead'[j] \in {dead[j], NoRow},
         UNCHANGED cli, accepted \subseteq accepted'
  PROVE  Accounted'
<1>1. /\ id \in Ids /\ live'[id].rcpts = R
      /\ \A j \in Ids \ {id} : live'[j] = live[j]
  BY DEF Enqueue, IInv, TypeOK, QueueTypeOK
<1>2. NamesAccepted
  BY <1>1 DEF NamesAccepted, Accounted, OnLive, OnDead, Holds
<1>3. QED
  BY <1>2, AccountedKept

(* A transition of a row names, live or dead, no more than it did.         *)
LEMMA AccountedMove ==
  ASSUME IInv, Accounted, SameEntry, NEW id \in Ids, NEW row, NEW R,
         PairsOf(row, R) \subseteq accepted, DeadLetter(id, row, R),
         cli' \in {cli, NoCli}, UNCHANGED accepted
  PROVE  Accounted'
<1>1. /\ live'[id] = NoRow /\ dead'[id] = AsDeadRow(row, R)
      /\ \A j \in Ids \ {id} : live'[j] = live[j] /\ dead'[j] = dead[j]
  BY DEF DeadLetter, IInv, TypeOK, QueueTypeOK
<1>2. PairsOf(AsDeadRow(row, R), R) = PairsOf(row, R) /\ AsDeadRow(row, R).rcpts = R
  BY DEF PairsOf, AsDeadRow
<1>3. NamesAccepted
  BY <1>1, <1>2 DEF NamesAccepted, Accounted, OnLive, OnDead, Holds
<1>4. QED
  BY <1>3, AccountedKept

LEMMA AccountedReschedule ==
  ASSUME IInv, Accounted, SameEntry, pc \in {"settle", "defer"}, NEW R, NEW n, NEW t,
         R \subseteq retryLater \cup permanentFailures, Reschedule(cur, R, n, t),
         UNCHANGED <<cli, accepted>>
  PROVE  Accounted'
<1>1. cur \in Ids /\ R \subseteq entry.rcpts
  BY DEF IInv, EntryLoaded, Classified
<1>2. /\ \A j \in Ids \ {cur} : live'[j] = live[j]
      /\ UNCHANGED dead
      /\ live[cur] = NoRow => live'[cur] = NoRow
      /\ live[cur] # NoRow =>
            live'[cur] = [live[cur] EXCEPT !.rcpts = R, !.attempts = n, !.next = t]
  BY <1>1 DEF Reschedule, IInv, TypeOK, QueueTypeOK
<1>3. live[cur] # NoRow => live[cur] \in LiveRow /\ R \subseteq live[cur].rcpts
  BY <1>1 DEF IInv, TypeOK, QueueTypeOK, FreshEntry
<1>4. ASSUME NEW p, Holds(live'[cur], p) PROVE Holds(live[cur], p)
  <2>1. live[cur] # NoRow
    BY <1>2, <1>4 DEF Holds
  <2>2. live'[cur].mail = live[cur].mail /\ live'[cur].from = live[cur].from
        /\ live'[cur].rcpts = R
    BY <1>2, <1>3, <2>1 DEF LiveRow
  <2>3. QED
    BY <1>3, <1>4, <2>1, <2>2 DEF Holds, PairsOf
<1>5. NamesAccepted
  BY <1>1, <1>2, <1>4 DEF NamesAccepted, Accounted, OnLive, OnDead
<1>6. QED
  BY <1>5, AccountedKept

LEMMA AccountedStep == ASSUME IInv, Accounted, [Next]_vars PROVE Accounted'
<1> USE DEF loopVars, boundVars, sentVars, noticeVars, historyVars, queueVars,
            loopFrame, procFrame, opFrame
<1>1. ASSUME NEW mail \in Mails, NEW R \in SUBSET Rcpts, Submit(mail, R)
      PROVE  Accounted'
  <2>1. PICK id \in Ids : Enqueue(id, mail, Owner, R, now)
    BY <1>1 DEF Submit
  <2>2. PairsOf(live'[id], R) \subseteq accepted'
    BY <1>1, <2>1 DEF Submit, Enqueue, PairsOf, IInv, TypeOK, QueueTypeOK
  <2>3. SameEntry
    BY <1>1 DEF Submit, RequestTick, SameEntry
  <2>4. QED
    BY <1>1, <2>1, <2>2, <2>3, AccountedNewRow DEF Submit
<1>2. CASE TimerTick \/ Boot \/ Stop \/ Close \/ Crash \/ Clock \/ UNCHANGED vars
  <2>1. SameEntry /\ UNCHANGED <<live, dead, cli, accepted>>
    BY <1>2 DEF TimerTick, Boot, Stop, Close, Crash, Clock, vars, RequestTick, Quiet, SameEntry
  <2>2. QED
    BY <2>1, AccountedIdle
<1>3. CASE StartBatch \/ EndTick \/ EndBatch \/ SettleFails \/ DeferFails \/ NoBounce
  <2>1. SameEntry /\ UNCHANGED <<live, dead, cli, accepted>>
    BY <1>3 DEF StartBatch, EndTick, EndBatch, SettleFails, DeferFails, NoBounce,
                NextEntry, Quiet, SameEntry
  <2>2. QED
    BY <2>1, AccountedIdle
<1>4. ASSUME NEW id \in Ids, SkipGone(id) \/ LoadEntry(id) PROVE Accounted'
  <2>1. CASE SkipGone(id)
    BY <2>1, AccountedIdle DEF SkipGone, SameEntry
  <2>2. CASE LoadEntry(id)
    <3>1. /\ UNCHANGED <<live, dead, cli, accepted>>
          /\ entry' = live[id] /\ live[id] # NoRow
      BY <2>2 DEF LoadEntry
    <3>2. PairsOf(entry', entry'.rcpts) \subseteq accepted
      BY <3>1 DEF Accounted, OnLive, Holds
    <3>3. QED
      BY <3>1, <3>2 DEF Accounted, OnLive, OnDead, Holds, PairsOf
  <2>3. QED
    BY <1>4, <2>1, <2>2
<1>5. CASE Relay
  <2>1. SameEntry /\ UNCHANGED <<live, dead, cli, accepted>>
    BY <1>5 DEF Relay, RelayReturns, SameEntry
  <2>2. QED
    BY <2>1, AccountedIdle
<1>6. CASE SettleDelivered
  <2>1. SameEntry /\ UNCHANGED <<dead, cli, accepted>>
    BY <1>6 DEF SettleDelivered, Committed, Remove, SameEntry
  <2>2. \A j \in Ids : live'[j] \in {live[j], NoRow}
    BY <1>6 DEF SettleDelivered, Remove, IInv, TypeOK, QueueTypeOK
  <2>3. NamesAccepted
    BY <2>1, <2>2 DEF NamesAccepted, Accounted, OnLive, OnDead, Holds
  <2>4. QED
    BY <2>1, <2>3, AccountedKept
<1>7. CASE SettleRefused \/ SettleGaveUp
  <2>1. SameEntry /\ UNCHANGED <<cli, accepted>>
    BY <1>7 DEF SettleRefused, SettleGaveUp, Committed, SameEntry
  <2>2. PICK R \in SUBSET (retryLater \cup permanentFailures) : DeadLetter(cur, entry, R)
    BY <1>7 DEF SettleRefused, SettleGaveUp
  <2>3. cur \in Ids /\ R \subseteq entry.rcpts
    BY <1>7 DEF SettleRefused, SettleGaveUp, IInv, EntryLoaded, Classified
  <2>4. PairsOf(entry, R) \subseteq accepted
    BY <1>7, <2>3 DEF SettleRefused, SettleGaveUp, Accounted, PairsOf
  <2>5. QED
    BY <2>1, <2>2, <2>3, <2>4, AccountedMove
<1>8. CASE SettleDeferred \/ Defer
  <2>1. SameEntry /\ UNCHANGED <<cli, accepted>> /\ pc \in {"settle", "defer"}
    BY <1>8 DEF SettleDeferred, Defer, Committed, NextEntry, SameEntry
  <2>2. \E R \in SUBSET (retryLater \cup permanentFailures) : \E n, t : Reschedule(cur, R, n, t)
    BY <1>8 DEF SettleDeferred, Defer
  <2>3. QED
    BY <2>1, <2>2, AccountedReschedule
<1>9. CASE Bounce
  <2>1. SameEntry /\ UNCHANGED <<dead, cli, accepted>>
    BY <1>9 DEF Bounce, NextEntry, SameEntry
  <2>2. CASE UNCHANGED live
    BY <2>1, <2>2, AccountedIdle
  <2>3. ASSUME NEW id \in Ids, Enqueue(id, entry.mail, NullSender, {entry.from}, now)
        PROVE  Accounted'
    <3>1. PairsOf(live'[id], {entry.from}) = {}
      BY <2>3 DEF Enqueue, PairsOf, IInv, TypeOK, QueueTypeOK
    <3>2. QED
      BY <2>1, <2>3, <3>1, AccountedNewRow
  <2>4. QED
    BY <1>9, <2>2, <2>3 DEF Bounce
<1>10. CASE CliRetry
  <2>1. PICK S \in SUBSET LiveIds : RetryNow(S, now)
    BY <1>10 DEF CliRetry
  <2>2. \A id \in Ids : \A p : Holds(live'[id], p) => Holds(live[id], p)
    BY <2>1 DEF RetryNow, Holds, PairsOf, LiveIds, IInv, TypeOK, QueueTypeOK, LiveRow
  <2>3. SameEntry /\ UNCHANGED <<dead, cli, accepted>>
    BY <1>10, <2>1 DEF CliRetry, RetryNow, SameEntry
  <2>4. NamesAccepted
    BY <2>2, <2>3 DEF NamesAccepted, Accounted, OnLive, OnDead
  <2>5. QED
    BY <2>3, <2>4, AccountedKept
<1>11. ASSUME NEW id \in Ids, CliCancelRead(id) PROVE Accounted'
  <2>1. /\ UNCHANGED <<live, dead, pc, entry, accepted>>
        /\ cli'.row = live[id] /\ live[id] # NoRow
    BY <1>11 DEF CliCancelRead
  <2>2. PairsOf(cli'.row, cli'.row.rcpts) \subseteq accepted
    BY <2>1 DEF Accounted, OnLive, Holds
  <2>3. QED
    BY <2>1, <2>2 DEF Accounted, OnLive, OnDead, Holds, PairsOf
<1>12. CASE CliCancelCommit
  <2>1. SameEntry /\ cli' = NoCli /\ UNCHANGED accepted
    BY <1>12 DEF CliCancelCommit, SameEntry
  <2>2. CASE UNCHANGED <<live, dead>>
    BY <2>1, <2>2, AccountedIdle
  <2>3. CASE DeadLetter(cli.id, cli.row, cli.row.rcpts)
    <3>1. cli.id \in Ids /\ PairsOf(cli.row, cli.row.rcpts) \subseteq accepted
      BY <1>12 DEF CliCancelCommit, IInv, TypeOK, Accounted
    <3>2. QED
      BY <2>1, <2>3, <3>1, AccountedMove
  <2>4. QED
    BY <1>12, <2>2, <2>3 DEF CliCancelCommit
<1>13. ASSUME NEW id \in Ids, CliRequeue(id) PROVE Accounted'
  <2>1. PICK newId \in Ids : RequeueDeadLetter(id, newId, now)
    BY <1>13 DEF CliRequeue
  <2>2. SameEntry /\ UNCHANGED <<cli, accepted>> /\ dead[id] # NoRow
    BY <1>13 DEF CliRequeue, SameEntry
  <2>3. Enqueue(newId, dead[id].mail, dead[id].from, dead[id].rcpts, now)
        /\ \A j \in Ids : dead'[j] \in {dead[j], NoRow}
    BY <2>1 DEF RequeueDeadLetter, IInv, TypeOK, QueueTypeOK
  <2>4. PairsOf(live'[newId], dead[id].rcpts) = PairsOf(dead[id], dead[id].rcpts)
    BY <2>3 DEF Enqueue, PairsOf, IInv, TypeOK, QueueTypeOK
  <2>5. PairsOf(dead[id], dead[id].rcpts) \subseteq accepted
    BY <2>2 DEF Accounted, OnDead, Holds
  <2>6. QED
    BY <2>2, <2>3, <2>4, <2>5, AccountedNewRow
<1>14. ASSUME NEW id \in Ids, CliPurge(id) PROVE Accounted'
  <2>1. SameEntry /\ UNCHANGED <<live, cli, accepted>>
        /\ \A j \in Ids : dead'[j] \in {dead[j], NoRow}
    BY <1>14 DEF CliPurge, PurgeDeadLetter, SameEntry, IInv, TypeOK, QueueTypeOK
  <2>2. NamesAccepted
    BY <2>1 DEF NamesAccepted, Accounted, OnLive, OnDead, Holds
  <2>3. QED
    BY <2>1, <2>2, AccountedKept
<1>15. QED
  BY <1>1, <1>2, <1>3, <1>4, <1>5, <1>6, <1>7, <1>8, <1>9, <1>10, <1>11, <1>12,
     <1>13, <1>14
     DEF Next, Tick, Operator

THEOREM AccountedCorrect == Spec => []Accounted
<1>1. Init => Accounted
  BY DEF Init, QueueInit, Accounted, OnLive, OnDead, Holds
<1>2. QED
  BY <1>1, InvariantCorrect, AccountedStep, PTL DEF Spec

(* Nothing the promise is about changes.                                   *)
LEMMA CustodyStutter ==
  ASSUME UNCHANGED <<accepted, sent, rejected, purged>>,
         \A p : OnLive(p)' <=> OnLive(p), \A p : OnDead(p)' <=> OnDead(p)
  PROVE  UNCHANGED Custody!vars
  BY DEF Custody!vars

LEMMA SameTables ==
  ASSUME UNCHANGED <<live, dead>>
  PROVE  \A p : (OnLive(p)' <=> OnLive(p)) /\ (OnDead(p)' <=> OnDead(p))
  BY DEF OnLive, OnDead, Holds, PairsOf

(* A transition between the tables that loses nobody is a Move.            *)
LEMMA CustodyMove ==
  ASSUME Kept, Accounted', UNCHANGED <<accepted, sent, rejected, purged>>
  PROVE  Custody!Next
<1> DEFINE O == {p \in Pairs : OnLive(p)}'
           R == {p \in Pairs : OnDead(p)}'
<1>1. O \in SUBSET accepted /\ R \in SUBSET accepted
  BY DEF Accounted
<1>2. ({p \in Pairs : OnLive(p)} \cup {p \in Pairs : OnDead(p)}) \ (O \cup R)
         \subseteq sent \cup rejected \cup purged
  BY DEF Kept
<1>3. Custody!Move(O, R)
  BY <1>2 DEF Custody!Move
<1>4. QED
  BY <1>1, <1>3 DEF Custody!Next

(* Enqueuing a row under a fresh id adds its recipients, and only those.   *)
LEMMA NewRowHolds ==
  ASSUME IInv, NEW id, NEW mail \in Mails, NEW from \in {Owner, NullSender},
         NEW R \in SUBSET Addrs, Enqueue(id, mail, from, R, now)
  PROVE  \A p : OnLive(p)' <=> OnLive(p) \/ p \in PairsOf([mail |-> mail, from |-> from], R)
<1> DEFINE row == [mail |-> mail, from |-> from, rcpts |-> R, first |-> now,
                   attempts |-> 0, next |-> now]
<1>1. /\ id \in Ids /\ live[id] = NoRow /\ live'[id] = row
      /\ \A j \in Ids \ {id} : live'[j] = live[j]
  BY FreshId DEF Enqueue, IInv, TypeOK, QueueTypeOK
<1>2. row # NoRow
  BY QueueAssumption DEF LiveRow, IInv, TypeOK
<1>3. PairsOf(row, row.rcpts) = PairsOf([mail |-> mail, from |-> from], R)
  BY DEF PairsOf
<1> HIDE DEF row
<1>4. \A p : Holds(row, p) <=> p \in PairsOf([mail |-> mail, from |-> from], R)
  BY <1>2, <1>3 DEF Holds
<1>5. \A p : Holds(NoRow, p) <=> FALSE
  BY DEF Holds
<1>6. \A p : OnLive(p)' <=> \E j \in Ids : Holds(live'[j], p)
  BY DEF OnLive, Holds, PairsOf
<1>7. QED
  BY <1>1, <1>4, <1>5, <1>6 DEF OnLive

(* An accepted submission is an Accept of the recipients it names.         *)
LEMMA CustodySubmit ==
  ASSUME IInv, NEW mail \in Mails, NEW R \in SUBSET Rcpts, Submit(mail, R)
  PROVE  Custody!Next
<1> DEFINE P == {p \in Pairs : p[1] = mail /\ p[2] \in R}
<1>1. P \in SUBSET Pairs /\ P \cap accepted = {}
  BY DEF Submit, Pairs
<1>2. PairsOf([mail |-> mail, from |-> Owner], R) = P
  BY QueueAssumption DEF PairsOf
<1>3. \A p : OnLive(p)' <=> OnLive(p) \/ p \in P
  <2>1. PICK id \in Ids : Enqueue(id, mail, Owner, R, now)
    BY DEF Submit
  <2>2. R \in SUBSET Addrs
    BY DEF Addrs
  <2>3. QED
    BY <1>2, <2>1, <2>2, NewRowHolds
<1>4. \A p : OnDead(p)' <=> OnDead(p)
  BY DEF Submit, OnDead, Holds, PairsOf
<1>5. accepted' = accepted \cup P /\ UNCHANGED <<sent, rejected, purged>>
  BY DEF Submit, sentVars
<1> HIDE DEF P
<1>6. Custody!Accept(P)
  BY <1>1, <1>3, <1>4, <1>5 DEF Custody!Accept
<1>7. QED
  BY <1>1, <1>6 DEF Custody!Next

(* A relay's results are an Answer about recipients of the entry.          *)
LEMMA CustodyRelay ==
  ASSUME IInv, Accounted, pc = "relaying", NEW out \in [entry.rcpts -> Outcomes],
         RelayReturns(out)
  PROVE  Custody!Next
<1> DEFINE classed(c) == {r \in entry.rcpts : out[r] \in c}
           D == PairsOf(entry, classed({"success", "indeterminate"}))
           F == PairsOf(entry, classed({"permanent"}))
<1>1. D \in SUBSET accepted /\ F \in SUBSET accepted
  BY DEF Accounted, PairsOf
<1>2. sent' = sent \cup D /\ rejected' = rejected \cup F
      /\ UNCHANGED <<live, dead, accepted, purged>>
  BY DEF RelayReturns, loopFrame, queueVars
<1> HIDE DEF D, F
<1>3. Custody!Answer(D, F)
  BY <1>2, SameTables DEF Custody!Answer
<1>4. QED
  BY <1>1, <1>3 DEF Custody!Next

LEMMA CustodyRequeue ==
  ASSUME IInv, NEW id \in Ids, CliRequeue(id)
  PROVE  Custody!Next
<1> DEFINE P == PairsOf(dead[id], dead[id].rcpts)
           R == {p \in Pairs : OnDead(p)}'
<1>1. PICK newId \in Ids : RequeueDeadLetter(id, newId, now)
  BY DEF CliRequeue
<1>2. dead[id] \in DeadRow /\ dead[id] # NoRow
  BY DEF CliRequeue, IInv, TypeOK, QueueTypeOK
<1>3. /\ rejected' = rejected \ P
      /\ UNCHANGED <<accepted, sent, purged>>
  BY DEF CliRequeue, opFrame
<1>4. dead'[id] = NoRow /\ \A j \in Ids \ {id} : dead'[j] = dead[j]
  BY <1>1 DEF RequeueDeadLetter, IInv, TypeOK, QueueTypeOK
<1>5. \A p : OnLive(p)' <=> OnLive(p) \/ p \in P
  <2>1. /\ dead[id].mail \in Mails /\ dead[id].from \in {Owner, NullSender}
        /\ dead[id].rcpts \in SUBSET Addrs
    BY <1>2 DEF DeadRow
  <2>2. PairsOf([mail |-> dead[id].mail, from |-> dead[id].from], dead[id].rcpts) = P
    BY DEF PairsOf
  <2>3. Enqueue(newId, dead[id].mail, dead[id].from, dead[id].rcpts, now)
    BY <1>1 DEF RequeueDeadLetter
  <2>4. QED
    BY <2>1, <2>2, <2>3, NewRowHolds
<1>6. P \subseteq {p \in Pairs : OnDead(p)}
  BY <1>2, PairsOfType DEF OnDead, Holds
<1>7. {p \in Pairs : OnDead(p)} \ P \subseteq R /\ R \subseteq {p \in Pairs : OnDead(p)}
  BY <1>4 DEF OnDead, Holds, PairsOf
<1> HIDE DEF P
<1>8. Custody!TryAgain(P, R)
  BY <1>3, <1>5, <1>6, <1>7 DEF Custody!TryAgain
<1>9. QED
  BY <1>6, <1>7, <1>8 DEF Custody!Next

LEMMA CustodyPurge ==
  ASSUME IInv, NEW id \in Ids, CliPurge(id)
  PROVE  Custody!Next
<1> DEFINE P == PairsOf(dead[id], dead[id].rcpts)
           R == {p \in Pairs : OnDead(p)}'
<1>1. /\ purged' = purged \cup P
      /\ UNCHANGED <<live, accepted, sent, rejected>>
  BY DEF CliPurge, PurgeDeadLetter, opFrame
<1>2. dead[id] # NoRow /\ dead'[id] = NoRow /\ \A j \in Ids \ {id} : dead'[j] = dead[j]
  BY DEF CliPurge, PurgeDeadLetter, IInv, TypeOK, QueueTypeOK
<1>3. P \subseteq {p \in Pairs : OnDead(p)}
  BY <1>2, PairsOfType DEF OnDead, Holds
<1>4. {p \in Pairs : OnDead(p)} \ P \subseteq R /\ R \subseteq {p \in Pairs : OnDead(p)}
  BY <1>2 DEF OnDead, Holds, PairsOf
<1>5. \A p : OnLive(p)' <=> OnLive(p)
  BY <1>1 DEF OnLive, Holds, PairsOf
<1> HIDE DEF P
<1>6. Custody!Discard(P, R)
  BY <1>1, <1>3, <1>4, <1>5 DEF Custody!Discard
<1>7. QED
  BY <1>3, <1>4, <1>6 DEF Custody!Next

(* Every step of the daemon, the operator or the clock is a step of        *)
(* MailCustody or leaves it alone.                                         *)
LEMMA CustodyStep ==
  ASSUME IInv, Accounted, Accounted', [Next]_vars
  PROVE  [Custody!Next]_(Custody!vars)
<1> USE DEF loopVars, boundVars, sentVars, noticeVars, historyVars, queueVars,
            loopFrame, procFrame, opFrame
<1>1. ASSUME NEW mail \in Mails, NEW R \in SUBSET Rcpts, Submit(mail, R)
      PROVE  Custody!Next
  BY <1>1, CustodySubmit
<1>2. CASE TimerTick \/ Boot \/ Stop \/ Close \/ Crash \/ Clock \/ UNCHANGED vars
  <2>1. UNCHANGED <<live, dead, accepted, sent, rejected, purged>>
    BY <1>2 DEF TimerTick, Boot, Stop, Close, Crash, Clock, vars
  <2>2. QED
    BY <2>1, SameTables, CustodyStutter
<1>3. CASE StartBatch \/ EndTick \/ EndBatch \/ SettleFails \/ DeferFails \/ NoBounce
  <2>1. UNCHANGED <<live, dead, accepted, sent, rejected, purged>>
    BY <1>3 DEF StartBatch, EndTick, EndBatch, SettleFails, DeferFails, NoBounce
  <2>2. QED
    BY <2>1, SameTables, CustodyStutter
<1>4. ASSUME NEW id \in Ids, SkipGone(id) \/ LoadEntry(id) \/ CliCancelRead(id)
      PROVE  UNCHANGED Custody!vars
  <2>1. UNCHANGED <<live, dead, accepted, sent, rejected, purged>>
    BY <1>4 DEF SkipGone, LoadEntry, CliCancelRead
  <2>2. QED
    BY <2>1, SameTables, CustodyStutter
<1>5. CASE Relay
  BY <1>5, CustodyRelay DEF Relay
<1>6. CASE SettleDelivered \/ SettleRefused \/ SettleDeferred \/ SettleGaveUp \/ Defer
  <2>1. UNCHANGED <<accepted, sent, rejected, purged>>
    BY <1>6 DEF SettleDelivered, SettleRefused, SettleDeferred, SettleGaveUp, Defer, Committed
  <2>2. QED
    BY <1>6, <2>1, SettlingStep, CustodyMove
<1>7. CASE Bounce
  <2>1. UNCHANGED <<dead, accepted, sent, rejected, purged>>
    BY <1>7 DEF Bounce
  <2>2. \A p : OnDead(p)' <=> OnDead(p)
    BY <2>1 DEF OnDead, Holds, PairsOf
  <2>3. CASE UNCHANGED queueVars
    BY <2>1, <2>3, SameTables, CustodyStutter
  <2>4. ASSUME NEW id \in Ids, Enqueue(id, entry.mail, NullSender, {entry.from}, now)
        PROVE  UNCHANGED Custody!vars
    <3>1. entry.mail \in Mails /\ {entry.from} \in SUBSET Addrs
      BY <1>7 DEF Bounce, NothingToReport, IInv, EntryLoaded, LiveRow, Addrs
    <3>2. PairsOf([mail |-> entry.mail, from |-> NullSender], {entry.from}) = {}
      BY DEF PairsOf
    <3>3. \A p : OnLive(p)' <=> OnLive(p)
      BY <2>4, <3>1, <3>2, NewRowHolds
    <3>4. QED
      BY <2>1, <2>2, <3>3, CustodyStutter
  <2>5. QED
    BY <1>7, <2>3, <2>4 DEF Bounce
<1>8. CASE CliRetry
  <2>1. PICK S \in SUBSET LiveIds : RetryNow(S, now)
    BY <1>8 DEF CliRetry
  <2>2. \A id \in Ids : \A p : Holds(live'[id], p) <=> Holds(live[id], p)
    <3>1. ASSUME NEW id \in S, NEW p PROVE Holds(live'[id], p) <=> Holds(live[id], p)
      <4>1. live[id] \in LiveRow /\ live[id] # NoRow /\ id \in Ids /\ now \in Nat
        BY DEF LiveIds, IInv, TypeOK, QueueTypeOK
      <4>2. live'[id] = [live[id] EXCEPT !.next = now] /\ live'[id] \in LiveRow
        BY <2>1, <4>1 DEF RetryNow, LiveRow
      <4>3. QED
        BY <4>1, <4>2, QueueAssumption DEF Holds, PairsOf, LiveRow
    <3>2. ASSUME NEW id \in Ids \ S PROVE live'[id] = live[id]
      BY <2>1 DEF RetryNow
    <3>3. QED
      BY <3>1, <3>2
  <2>3. UNCHANGED <<dead, accepted, sent, rejected, purged>>
    BY <1>8, <2>1 DEF CliRetry, RetryNow
  <2>4. \A p : (OnLive(p)' <=> OnLive(p)) /\ (OnDead(p)' <=> OnDead(p))
    <3>1. \A p : OnLive(p)' <=> \E id \in Ids : Holds(live'[id], p)
      BY DEF OnLive, Holds, PairsOf
    <3>2. QED
      BY <2>2, <2>3, <3>1 DEF OnLive, OnDead, Holds, PairsOf
  <2>5. QED
    BY <2>3, <2>4, CustodyStutter
<1>9. CASE CliCancelCommit
  <2>1. UNCHANGED <<accepted, sent, rejected, purged>>
    BY <1>9 DEF CliCancelCommit
  <2>2. CASE UNCHANGED queueVars
    BY <2>1, <2>2, SameTables, CustodyStutter
  <2>3. CASE DeadLetter(cli.id, cli.row, cli.row.rcpts)
    <3>1. cli.id \in Ids /\ cli.row \in LiveRow
      BY <1>9 DEF CliCancelCommit, IInv, TypeOK
    <3>2. /\ dead[cli.id] = NoRow /\ dead'[cli.id] = AsDeadRow(cli.row, cli.row.rcpts)
          /\ \A j \in Ids \ {cli.id} : live'[j] = live[j] /\ dead'[j] = dead[j]
      BY <2>3, <3>1 DEF DeadLetter, CanDeadLetter, IInv, TypeOK, QueueTypeOK
    <3>3. AsDeadRow(cli.row, cli.row.rcpts) # NoRow
      BY <3>1, QueueAssumption DEF AsDeadRow, LiveRow, DeadRow
    <3>4. ASSUME NEW p, Holds(live[cli.id], p) PROVE Holds(dead'[cli.id], p)
      BY <1>9, <3>2, <3>3, <3>4
         DEF CliCancelCommit, IInv, CancelCovers, SameMail, Holds, PairsOf, AsDeadRow
    <3>5. Kept
      BY <3>1, <3>2, <3>4 DEF Kept, OnLive, OnDead, Holds, PairsOf
    <3>6. QED
      BY <2>1, <3>5, CustodyMove
  <2>4. QED
    BY <1>9, <2>2, <2>3 DEF CliCancelCommit
<1>10. ASSUME NEW id \in Ids, CliRequeue(id) \/ CliPurge(id) PROVE Custody!Next
  BY <1>10, CustodyRequeue, CustodyPurge
<1>11. QED
  BY <1>1, <1>2, <1>3, <1>4, <1>5, <1>6, <1>7, <1>8, <1>9, <1>10
     DEF Next, Tick, Operator

(* The loop, the operator's commands and any crash implement the promise   *)
(* of MailCustody: from its 250 on, a recipient leaves the queue and the   *)
(* dead letters only answered or purged, and none appears unaccepted.      *)
THEOREM CustodyKept == Spec => KeepsCustody
<1>1. Init => Custody!Init
  BY DEF Init, QueueInit, Custody!Init, OnLive, OnDead, Holds
<1>2. QED
  BY <1>1, InvariantCorrect, AccountedCorrect, CustodyStep, PTL
     DEF Spec, KeepsCustody, Custody!Spec

-----------------------------------------------------------------------------
(* What a step does to the recipients of the rows *)

(* Nothing but the phase of the tick, the clock and the requests changes,  *)
(* and no row begins to be worked on or reported.                          *)
Steady ==
    /\ SameWork
    /\ pc' = "bounce" => pc = "bounce" /\ UNCHANGED <<cur, entry, toBounce>>
    /\ UNCHANGED <<queueVars, historyVars>>

LEMMA SteadyStep ==
  ASSUME \/ TimerTick \/ Boot \/ Stop \/ Close \/ Crash \/ Clock \/ UNCHANGED vars
         \/ StartBatch \/ EndTick \/ EndBatch \/ SettleFails \/ DeferFails \/ NoBounce
         \/ \E id \in Ids : SkipGone(id) \/ CliCancelRead(id)
  PROVE  Steady
<1> USE DEF Steady, SameWork, historyVars, sentVars, noticeVars, queueVars, loopVars, loopFrame
<1>1. CASE TimerTick \/ Boot \/ Stop \/ Clock \/ UNCHANGED vars
  BY <1>1 DEF TimerTick, Boot, Stop, Clock, vars, RequestTick, procFrame
<1>2. CASE Close \/ Crash
  BY <1>2 DEF Close, Crash, Quiet, procFrame
<1>3. CASE StartBatch \/ EndTick \/ EndBatch
  BY <1>3 DEF StartBatch, EndTick, EndBatch, Quiet
<1>4. CASE SettleFails \/ DeferFails \/ NoBounce
  BY <1>4 DEF SettleFails, DeferFails, NoBounce, NextEntry
<1>5. CASE \E id \in Ids : SkipGone(id) \/ CliCancelRead(id)
  BY <1>5 DEF SkipGone, CliCancelRead, opFrame
<1>6. QED
  BY <1>1, <1>2, <1>3, <1>4, <1>5

(* A new row names the recipients it was made for, under an id nothing     *)
(* else knows.                                                             *)
LEMMA NewRowEffect ==
  ASSUME IInv, NEW id, NEW mail \in Mails, NEW from \in {Owner, NullSender},
         NEW R \in SUBSET Addrs, Enqueue(id, mail, from, R, now)
  PROVE  /\ id \in Ids \ minted /\ id # cur
         /\ minted' = minted \cup {id}
         /\ \A j \in Ids \ {id} : live'[j] = live[j]
         /\ \A p : Holds(live'[id], p) <=> p \in PairsOf([mail |-> mail, from |-> from], R)
         /\ \A p : ~Holds(live[id], p) /\ ~Holds(dead[id], p)
<1> DEFINE row == [mail |-> mail, from |-> from, rcpts |-> R, first |-> now,
                   attempts |-> 0, next |-> now]
<1>1. /\ id \in Ids \ minted /\ id # cur /\ minted' = minted \cup {id}
      /\ live[id] = NoRow /\ dead[id] = NoRow /\ live'[id] = row
      /\ \A j \in Ids \ {id} : live'[j] = live[j]
  BY FreshId DEF Enqueue, IInv, TypeOK, QueueTypeOK
<1>2. row # NoRow
  BY QueueAssumption DEF LiveRow, IInv, TypeOK
<1>3. PairsOf(row, row.rcpts) = PairsOf([mail |-> mail, from |-> from], R)
  BY DEF PairsOf
<1> HIDE DEF row
<1>4. QED
  BY <1>1, <1>2, <1>3 DEF Holds

(* The current row, if still there, keeps those it is rescheduled for.     *)
LEMMA RescheduleEffect ==
  ASSUME IInv, pc \in {"settle", "defer"}, NEW R, NEW n \in Nat, NEW t \in Nat,
         R \subseteq retryLater \cup permanentFailures, Reschedule(cur, R, n, t)
  PROVE  /\ cur \in Ids
         /\ \A j \in Ids \ {cur} : live'[j] = live[j]
         /\ UNCHANGED <<dead, minted>>
         /\ live[cur] = NoRow <=> live'[cur] = NoRow
         /\ \A p : Holds(live'[cur], p) <=> live[cur] # NoRow /\ p \in PairsOf(entry, R)
         /\ \A p : Holds(live'[cur], p) => Holds(live[cur], p)
<1>1. cur \in Ids /\ R \subseteq entry.rcpts
  BY DEF IInv, EntryLoaded, Classified
<1>2. /\ \A j \in Ids \ {cur} : live'[j] = live[j]
      /\ UNCHANGED <<dead, minted>>
      /\ live[cur] = NoRow => live'[cur] = NoRow
      /\ live[cur] # NoRow =>
            live'[cur] = [live[cur] EXCEPT !.rcpts = R, !.attempts = n, !.next = t]
  BY <1>1 DEF Reschedule, IInv, TypeOK, QueueTypeOK
<1>3. CASE live[cur] = NoRow
  BY <1>1, <1>2, <1>3 DEF Holds
<1>4. CASE live[cur] # NoRow
  <2>1. live[cur] \in LiveRow /\ live[cur].rcpts = entry.rcpts /\ SameMail(live[cur], entry)
    BY <1>1, <1>4 DEF IInv, TypeOK, QueueTypeOK, FreshEntry
  <2>2. /\ live'[cur].mail = live[cur].mail /\ live'[cur].from = live[cur].from
        /\ live'[cur].rcpts = R
    BY <1>2, <1>4, <2>1 DEF LiveRow
  <2>3. live'[cur] # NoRow
    <3>1. R \in SUBSET Addrs
      BY <1>1, <2>1 DEF LiveRow
    <3>2. live'[cur] \in LiveRow
      BY <1>2, <1>4, <2>1, <3>1 DEF LiveRow
    <3>3. QED
      BY <3>2, QueueAssumption
  <2>4. QED
    BY <1>1, <1>2, <1>4, <2>1, <2>2, <2>3 DEF Holds, PairsOf, SameMail
<1>5. QED
  BY <1>3, <1>4

(* A move to the dead letters: the live row is gone, and the dead letter   *)
(* names those it was made for.                                            *)
LEMMA DeadLetterEffect ==
  ASSUME IInv, NEW id \in Ids, NEW row \in LiveRow, NEW R \in SUBSET Addrs,
         DeadLetter(id, row, R)
  PROVE  /\ \A j \in Ids \ {id} : live'[j] = live[j] /\ dead'[j] = dead[j]
         /\ UNCHANGED minted
         /\ live'[id] = NoRow /\ dead[id] = NoRow
         /\ \A p : Holds(dead'[id], p) <=> p \in PairsOf(row, R)
<1>1. /\ \A j \in Ids \ {id} : live'[j] = live[j] /\ dead'[j] = dead[j]
      /\ live'[id] = NoRow /\ dead[id] = NoRow
      /\ dead'[id] = AsDeadRow(row, R) /\ UNCHANGED minted
  BY DEF DeadLetter, CanDeadLetter, IInv, TypeOK, QueueTypeOK
<1>2. AsDeadRow(row, R) # NoRow
  BY QueueAssumption DEF AsDeadRow, LiveRow, DeadRow
<1>3. QED
  BY <1>1, <1>2 DEF Holds, AsDeadRow, PairsOf

(* queue retry changes no row's recipients.                                *)
LEMMA RetryEffect ==
  ASSUME IInv, CliRetry
  PROVE  /\ \A id \in Ids : live'[id] = NoRow <=> live[id] = NoRow
         /\ \A id \in Ids : \A p : Holds(live'[id], p) <=> Holds(live[id], p)
         /\ UNCHANGED <<dead, minted>>
<1>1. PICK S \in SUBSET LiveIds : RetryNow(S, now)
  BY DEF CliRetry
<1>2. ASSUME NEW id \in S
      PROVE  /\ live'[id] = NoRow <=> live[id] = NoRow
             /\ \A p : Holds(live'[id], p) <=> Holds(live[id], p)
  <2>1. live[id] \in LiveRow /\ live[id] # NoRow /\ id \in Ids /\ now \in Nat
    BY DEF LiveIds, IInv, TypeOK, QueueTypeOK
  <2>2. live'[id] = [live[id] EXCEPT !.next = now] /\ live'[id] \in LiveRow
    BY <1>1, <2>1 DEF RetryNow, LiveRow
  <2>3. QED
    BY <2>1, <2>2, QueueAssumption DEF Holds, PairsOf, LiveRow
<1>3. ASSUME NEW id \in Ids \ S PROVE live'[id] = live[id]
  BY <1>1 DEF RetryNow
<1>4. QED
  BY <1>1, <1>2, <1>3 DEF RetryNow

(* A requeue moves a dead letter's recipients to a row of a fresh id.      *)
LEMMA RequeueEffect ==
  ASSUME IInv, NEW id \in Ids, CliRequeue(id)
  PROVE  \E newId \in Ids \ minted :
            /\ newId # cur /\ minted' = minted \cup {newId}
            /\ \A j \in Ids \ {newId} : live'[j] = live[j]
            /\ \A p : Holds(live'[newId], p) <=> Holds(dead[id], p)
            /\ \A p : ~Holds(live[newId], p) /\ ~Holds(dead[newId], p)
            /\ dead'[id] = NoRow /\ \A j \in Ids \ {id} : dead'[j] = dead[j]
<1>1. PICK newId \in Ids : RequeueDeadLetter(id, newId, now)
  BY DEF CliRequeue
<1>2. dead[id] \in DeadRow /\ dead[id] # NoRow
  BY DEF CliRequeue, IInv, TypeOK, QueueTypeOK
<1>3. /\ newId \in Ids \ minted /\ newId # cur /\ minted' = minted \cup {newId}
      /\ live[newId] = NoRow /\ dead[newId] = NoRow
      /\ live'[newId] = [mail |-> dead[id].mail, from |-> dead[id].from,
                         rcpts |-> dead[id].rcpts, first |-> now, attempts |-> 0,
                         next |-> now]
      /\ \A j \in Ids \ {newId} : live'[j] = live[j]
      /\ dead'[id] = NoRow /\ \A j \in Ids \ {id} : dead'[j] = dead[j]
  BY <1>1, FreshId DEF RequeueDeadLetter, Enqueue, IInv, TypeOK, QueueTypeOK
<1>4. live'[newId] \in LiveRow
  BY <1>2, <1>3 DEF LiveRow, DeadRow, IInv, TypeOK
<1>5. live'[newId] # NoRow
  BY <1>4, QueueAssumption
<1>6. \A p : Holds(live'[newId], p) <=> Holds(dead[id], p)
  BY <1>2, <1>3, <1>5 DEF PairsOf, Holds
<1>7. \A p : ~Holds(live[newId], p) /\ ~Holds(dead[newId], p)
  BY <1>3 DEF Holds
<1>8. QED
  BY <1>3, <1>6, <1>7

-----------------------------------------------------------------------------
(* Held mail stays *)

(* In hold mode, as before the boot, no tick runs.                         *)
HoldIdle ==
    /\ lifecycle = "down" => pc = "idle"
    /\ hold => pc = "idle"

LEMMA HoldIdleStep == ASSUME HoldIdle, [Next]_vars PROVE HoldIdle'
<1> USE DEF HoldIdle, loopVars
<1>1. ASSUME UNCHANGED <<lifecycle, hold>>, pc = "idle" => pc' = "idle" PROVE HoldIdle'
  BY <1>1
<1>2. CASE \E mail \in Mails, R \in SUBSET Rcpts : Submit(mail, R)
  BY <1>2 DEF Submit, JsTurn, RequestTick
<1>3. CASE TimerTick
  BY <1>3 DEF TimerTick, JsTurn, RequestTick
<1>4. CASE Tick \/ Relay
  <2>1. pc # "idle" /\ UNCHANGED <<lifecycle, hold>>
    BY <1>4 DEF Tick, Relay, StartBatch, EndTick, EndBatch, SkipGone, LoadEntry,
       RelayReturns, SettleDelivered, SettleRefused, SettleDeferred, SettleGaveUp,
       Committed, SettleFails, Defer, DeferFails, NoBounce, Bounce, loopFrame
  <2>2. QED
    BY <2>1
<1>5. CASE Boot
  BY <1>5 DEF Boot, RequestTick
<1>6. CASE Stop \/ Close \/ Crash
  BY <1>6 DEF Stop, Close, Crash, Quiet
<1>7. CASE Operator
  BY <1>1, <1>7 DEF Operator, CliRetry, CliCancelRead, CliCancelCommit, CliRequeue,
     CliPurge, opFrame
<1>8. CASE Clock \/ UNCHANGED vars
  BY <1>1, <1>8 DEF Clock, vars
<1>9. QED
  BY <1>2, <1>3, <1>4, <1>5, <1>6, <1>7, <1>8 DEF Next

(* Only a relay that was started puts a copy at a peer.                    *)
LEMMA OnlyRelaySends ==
  ASSUME [Next]_vars PROVE pc = "relaying" \/ UNCHANGED <<sent, resent>>
<1> USE DEF sentVars, historyVars, procFrame, opFrame
<1>1. CASE Relay
  BY <1>1 DEF Relay
<1>2. CASE Tick
  BY <1>2 DEF Tick, StartBatch, EndTick, EndBatch, SkipGone, LoadEntry,
     SettleDelivered, SettleRefused, SettleDeferred, SettleGaveUp,
     Committed, SettleFails, Defer, DeferFails, NoBounce, Bounce
<1>3. CASE Operator
  BY <1>3 DEF Operator, CliRetry, CliCancelRead, CliCancelCommit, CliRequeue, CliPurge
<1>4. QED
  BY <1>1, <1>2, <1>3 DEF Next, Submit, TimerTick, Boot, Stop, Close, Crash, Clock, vars

(* In hold mode nothing leaves the machine: neither the boot, the timer    *)
(* nor a submission starts a tick (main.ts, holdOutbound).                 *)
THEOREM HeldMailStaysAlways == Spec => HeldMailStays
<1>1. Init => HoldIdle
  BY DEF Init, HoldIdle
<1>2. HoldIdle /\ [Next]_vars => [hold => sent' = sent /\ resent' = resent]_vars
  BY OnlyRelaySends DEF HoldIdle
<1>3. QED
  BY <1>1, <1>2, HoldIdleStep, PTL DEF Spec, HeldMailStays

-----------------------------------------------------------------------------
(* No second notice *)

Working == {"relaying", "settle", "defer"}

(* A recipient reported as failed on a row is not on that row any more,    *)
(* nor in the tick's copy of it; and a drawn id is never drawn again.      *)
NoticeInv ==
    /\ renotified = {}
    /\ \A id, p : <<id, p>> \in notified => id \in minted
    /\ \A id \in Ids : \A p : Holds(live[id], p) => <<id, p>> \notin notified
    /\ pc \in Working => \A p \in PairsOf(entry, entry.rcpts) : <<cur, p>> \notin notified
    /\ pc \in {"settle", "defer"} => retryLater \cap permanentFailures = {}
    /\ pc = "bounce" =>
          \A p \in PairsOf(entry, toBounce) : <<cur, p>> \notin notified /\ ~Holds(live[cur], p)

(* The tick goes on with its row, or drops it.                             *)
SameTurn == SameWork /\ (pc' = "bounce" => pc = "bounce" /\ UNCHANGED <<cur, entry, toBounce>>)

(* Nobody appears on a row, except on one of a fresh id.                   *)
NobodyBack ==
    \A id \in Ids : \A p : Holds(live'[id], p) => Holds(live[id], p) \/ id \notin minted

LEMMA NoticeTables ==
  ASSUME IInv, NoticeInv, SameTurn, NobodyBack, UNCHANGED noticeVars, minted \subseteq minted'
  PROVE  NoticeInv'
<1> USE DEF NoticeInv, SameTurn, SameWork, NobodyBack, noticeVars
<1>1. pc = "bounce" => cur \in Ids /\ cur \in minted
  BY QueueAssumption DEF IInv, EntryLoaded, MintedIds
<1>2. \A id \in Ids : \A p : Holds(live'[id], p) => <<id, p>> \notin notified
  OBVIOUS
<1>3. pc' \in Working =>
         /\ \A p \in PairsOf(entry', entry'.rcpts) : <<cur', p>> \notin notified
         /\ pc' \in {"settle", "defer"} => retryLater' \cap permanentFailures' = {}
  BY DEF Working
<1>4. pc' = "bounce" =>
         \A p \in PairsOf(entry', toBounce') : <<cur', p>> \notin notified /\ ~Holds(live'[cur'], p)
  BY <1>1
<1>5. QED
  BY <1>2, <1>3, <1>4 DEF Holds, PairsOf

(* A transition of the current row leads to the bounce of recipients it    *)
(* no longer names, or back to the loop.                                   *)
LEMMA NoticeSettle ==
  ASSUME IInv, NoticeInv, pc \in {"settle", "defer"}, UNCHANGED <<minted, noticeVars>>,
         \A id \in Ids : \A p : Holds(live'[id], p) => Holds(live[id], p),
         pc' \in {"drain", "bounce"},
         pc' = "bounce" =>
            /\ UNCHANGED <<cur, entry>> /\ toBounce' \subseteq entry.rcpts
            /\ \A p \in PairsOf(entry, toBounce') : ~Holds(live'[cur], p)
  PROVE  NoticeInv'
<1> USE DEF NoticeInv, noticeVars, Working
<1>1. pc' = "bounce" =>
         \A p \in PairsOf(entry', toBounce') : <<cur', p>> \notin notified /\ ~Holds(live'[cur'], p)
  BY DEF PairsOf
<1>2. QED
  BY <1>1 DEF Holds, PairsOf

LEMMA NoticeStep == ASSUME IInv, NoticeInv, [Next]_vars PROVE NoticeInv'
<1> USE DEF loopVars, boundVars, sentVars, noticeVars, historyVars, queueVars,
            loopFrame, procFrame, opFrame
<1>1. ASSUME Steady PROVE NoticeInv'
  BY <1>1, NoticeTables DEF Steady, SameTurn, NobodyBack
<1>2. ASSUME NEW mail \in Mails, NEW R \in SUBSET Rcpts, Submit(mail, R)
      PROVE  NoticeInv'
  <2>1. PICK id \in Ids : Enqueue(id, mail, Owner, R, now)
    BY <1>2 DEF Submit
  <2>2. R \in SUBSET Addrs
    BY DEF Addrs
  <2>3. NobodyBack /\ minted \subseteq minted'
    BY <2>1, <2>2, NewRowEffect DEF NobodyBack
  <2>4. SameTurn
    BY <1>2 DEF Submit, JsTurn, RequestTick, SameTurn, SameWork
  <2>5. QED
    BY <1>2, <2>3, <2>4, NoticeTables DEF Submit
<1>3. ASSUME NEW id \in Ids, LoadEntry(id) PROVE NoticeInv'
  <2>1. /\ UNCHANGED <<live, minted, notified, renotified>>
        /\ cur' = id /\ entry' = live[id] /\ pc' = "relaying" /\ live[id] # NoRow
    BY <1>3 DEF LoadEntry
  <2>2. \A p \in PairsOf(entry', entry'.rcpts) : <<cur', p>> \notin notified
    BY <2>1 DEF NoticeInv, Holds
  <2>3. QED
    BY <2>1, <2>2 DEF NoticeInv, Holds, PairsOf
<1>4. CASE Relay
  <2>1. /\ UNCHANGED <<live, minted, notified, renotified, cur, entry>>
        /\ pc = "relaying" /\ pc' = "settle" /\ retryLater' \cap permanentFailures' = {}
    BY <1>4 DEF Relay, RelayReturns, Transient
  <2>2. QED
    BY <2>1 DEF NoticeInv, Working, Holds, PairsOf
<1>5. CASE SettleDelivered
  <2>1. /\ pc = "settle" /\ pc' = "bounce" /\ toBounce' = {}
        /\ UNCHANGED <<minted, noticeVars, cur, entry>>
    BY <1>5 DEF SettleDelivered, Remove, Committed
  <2>2. \A id \in Ids : \A p : Holds(live'[id], p) => Holds(live[id], p)
    BY <1>5 DEF SettleDelivered, Remove, Holds, IInv, TypeOK, QueueTypeOK
  <2>3. PairsOf(entry, toBounce') = {}
    BY <2>1 DEF PairsOf
  <2>4. QED
    BY <2>1, <2>2, <2>3, NoticeSettle
<1>6. CASE SettleRefused \/ SettleGaveUp
  <2>1. /\ pc = "settle" /\ pc' = "bounce"
        /\ UNCHANGED <<minted, noticeVars, cur, entry>>
        /\ toBounce' \subseteq retryLater \cup permanentFailures
    BY <1>6 DEF SettleRefused, SettleGaveUp, Committed, DeadLetter
  <2>2. cur \in Ids /\ entry \in LiveRow /\ toBounce' \subseteq entry.rcpts
    BY <2>1 DEF IInv, EntryLoaded, Classified
  <2>3. PICK R \in SUBSET Addrs : DeadLetter(cur, entry, R)
    BY <1>6 DEF SettleRefused, SettleGaveUp, IInv, TypeOK
  <2>4. live'[cur] = NoRow /\ \A j \in Ids \ {cur} : live'[j] = live[j]
    BY <2>2, <2>3, DeadLetterEffect
  <2>5. \A id \in Ids : \A p : Holds(live'[id], p) => Holds(live[id], p)
    BY <2>4 DEF Holds
  <2>6. \A p : ~Holds(live'[cur], p)
    BY <2>4 DEF Holds
  <2>7. QED
    BY <2>1, <2>2, <2>5, <2>6, NoticeSettle
<1>7. CASE SettleDeferred
  <2>1. /\ pc = "settle" /\ pc' = "bounce" /\ toBounce' = permanentFailures
        /\ UNCHANGED <<noticeVars, cur, entry>>
        /\ Reschedule(cur, retryLater, Attempts, at + BackoffMs(Attempts))
    BY <1>7 DEF SettleDeferred, Committed
  <2>2. Attempts \in Nat /\ at + BackoffMs(Attempts) \in Nat
    BY <2>1, BackoffType DEF Attempts, IInv, EntryLoaded, TypeOK, LiveRow
  <2>3. /\ cur \in Ids /\ UNCHANGED minted
        /\ \A j \in Ids \ {cur} : live'[j] = live[j]
        /\ \A p : Holds(live'[cur], p) <=> live[cur] # NoRow /\ p \in PairsOf(entry, retryLater)
        /\ \A p : Holds(live'[cur], p) => Holds(live[cur], p)
    BY <2>1, <2>2, RescheduleEffect
  <2>4. toBounce' \subseteq entry.rcpts /\ retryLater \cap permanentFailures = {}
    BY <2>1 DEF IInv, Classified, NoticeInv
  <2>5. \A p \in PairsOf(entry, toBounce') : ~Holds(live'[cur], p)
    BY <2>1, <2>3, <2>4 DEF PairsOf
  <2>6. QED
    BY <2>1, <2>3, <2>4, <2>5, NoticeSettle
<1>8. CASE Defer
  <2>1. /\ pc = "defer" /\ pc' = "drain"
        /\ UNCHANGED noticeVars
        /\ Reschedule(cur, retryLater \cup permanentFailures, Attempts, at + SettleBackoff)
    BY <1>8 DEF Defer, NextEntry
  <2>2. Attempts \in Nat /\ at + SettleBackoff \in Nat
    BY <2>1, RelayAssumption DEF Attempts, IInv, EntryLoaded, TypeOK, LiveRow
  <2>3. /\ cur \in Ids /\ UNCHANGED minted
        /\ \A j \in Ids \ {cur} : live'[j] = live[j]
        /\ \A p : Holds(live'[cur], p) => Holds(live[cur], p)
    BY <2>1, <2>2, RescheduleEffect
  <2>4. QED
    BY <2>1, <2>3, NoticeSettle
<1>9. CASE Bounce
  <2>1. /\ pc = "bounce" /\ pc' = "drain" /\ cur \in Ids /\ cur \in minted
        /\ notified' = notified \cup ({cur} \X PairsOf(entry, toBounce))
        /\ renotified' = renotified \cup (notified \cap ({cur} \X PairsOf(entry, toBounce)))
    BY <1>9, QueueAssumption DEF Bounce, NextEntry, IInv, EntryLoaded, MintedIds
  <2>2. notified \cap ({cur} \X PairsOf(entry, toBounce)) = {}
    BY <2>1 DEF NoticeInv
  <2>3. NobodyBack /\ minted \subseteq minted'
    <3>1. CASE UNCHANGED queueVars
      BY <3>1 DEF NobodyBack
    <3>2. ASSUME NEW id \in Ids, Enqueue(id, entry.mail, NullSender, {entry.from}, now)
          PROVE  NobodyBack /\ minted \subseteq minted'
      <4>1. /\ id \notin minted /\ minted' = minted \cup {id}
            /\ \A j \in Ids \ {id} : live'[j] = live[j]
        BY <3>2 DEF Enqueue, IInv, TypeOK, QueueTypeOK
      <4>2. QED
        BY <4>1 DEF NobodyBack
    <3>3. QED
      BY <1>9, <3>1, <3>2 DEF Bounce
  <2>4. \A id \in Ids : \A p : Holds(live'[id], p) => <<id, p>> \notin notified'
    BY <2>1, <2>3 DEF NobodyBack, NoticeInv
  <2>5. \A id, p : <<id, p>> \in notified' => id \in minted'
    BY <2>1, <2>3 DEF NoticeInv
  <2>6. QED
    BY <2>1, <2>2, <2>4, <2>5 DEF NoticeInv, Working, Holds, PairsOf
<1>10. CASE CliRetry
  <2>1. NobodyBack /\ minted \subseteq minted'
    BY <1>10, RetryEffect DEF NobodyBack
  <2>2. QED
    BY <1>10, <2>1, NoticeTables DEF CliRetry, SameTurn, SameWork
<1>11. CASE CliCancelCommit
  <2>1. NobodyBack /\ minted \subseteq minted'
    BY <1>11 DEF CliCancelCommit, DeadLetter, NobodyBack, Holds, IInv, TypeOK, QueueTypeOK
  <2>2. QED
    BY <1>11, <2>1, NoticeTables DEF CliCancelCommit, SameTurn, SameWork
<1>12. ASSUME NEW id \in Ids, CliRequeue(id) PROVE NoticeInv'
  <2>1. NobodyBack /\ minted \subseteq minted'
    BY <1>12, RequeueEffect DEF NobodyBack
  <2>2. QED
    BY <1>12, <2>1, NoticeTables DEF CliRequeue, SameTurn, SameWork
<1>13. ASSUME NEW id \in Ids, CliPurge(id) PROVE NoticeInv'
  BY <1>13, NoticeTables DEF CliPurge, PurgeDeadLetter, NobodyBack, SameTurn, SameWork
<1>14. QED
  BY <1>1, <1>2, <1>3, <1>4, <1>5, <1>6, <1>7, <1>8, <1>9, <1>10, <1>11, <1>12,
     <1>13, SteadyStep
     DEF Next, Tick, Operator

(* A row's failed recipient is reported at most once, whatever writes fail *)
(* and whatever the operator or a crash does to the row meanwhile          *)
(* (relay-loop.ts, #settle and #bounce).                                   *)
THEOREM NoSecondNoticeAlways == Spec => []NoSecondNotice
<1>1. Init => NoticeInv
  BY DEF Init, QueueInit, NoticeInv, Holds, Working
<1>2. NoticeInv => NoSecondNotice
  BY DEF NoticeInv, NoSecondNotice
<1>3. QED
  BY <1>1, <1>2, InvariantCorrect, NoticeStep, PTL DEF Spec

-----------------------------------------------------------------------------
(* Without a cancel, the row the tick works on stays in the queue *)

RowStays == cli = NoCli /\ (pc \in Working => live[cur] # NoRow)

LEMMA RowStaysStep ==
  ASSUME "cancel" \notin Commands, IInv, RowStays, [Next]_vars
  PROVE  RowStays'
<1> USE DEF loopVars, boundVars, sentVars, noticeVars, historyVars, queueVars,
            loopFrame, procFrame, opFrame, RowStays, Working
<1>1. CASE \/ TimerTick \/ Boot \/ Stop \/ Close \/ Crash \/ Clock \/ UNCHANGED vars
           \/ StartBatch \/ EndTick \/ EndBatch \/ SettleFails \/ DeferFails \/ NoBounce
           \/ \E id \in Ids : SkipGone(id)
  <2>1. Steady
    BY <1>1, SteadyStep
  <2>2. cli' = cli
    BY <1>1 DEF TimerTick, Boot, Stop, Close, Crash, Clock, vars, StartBatch, EndTick,
       EndBatch, SettleFails, DeferFails, NoBounce, SkipGone
  <2>3. QED
    BY <2>1, <2>2 DEF Steady, SameWork
<1>2. ASSUME NEW mail \in Mails, NEW R \in SUBSET Rcpts, Submit(mail, R)
      PROVE  RowStays'
  <2>1. PICK id \in Ids : Enqueue(id, mail, Owner, R, now)
    BY <1>2 DEF Submit
  <2>2. R \in SUBSET Addrs
    BY DEF Addrs
  <2>3. id # cur /\ \A j \in Ids \ {id} : live'[j] = live[j]
    BY <2>1, <2>2, NewRowEffect
  <2>4. pc' \in Working => pc = "relaying" /\ cur' = cur /\ cur \in Ids
    BY <1>2 DEF Submit, JsTurn, RequestTick, IInv, EntryLoaded
  <2>5. QED
    BY <1>2, <2>3, <2>4 DEF Submit
<1>3. ASSUME NEW id \in Ids, LoadEntry(id) PROVE RowStays'
  BY <1>3 DEF LoadEntry
<1>4. CASE Relay
  BY <1>4 DEF Relay, RelayReturns
<1>5. CASE SettleDelivered \/ SettleRefused \/ SettleDeferred \/ SettleGaveUp
  BY <1>5 DEF SettleDelivered, SettleRefused, SettleDeferred, SettleGaveUp, Committed
<1>6. CASE Defer \/ Bounce
  BY <1>6 DEF Defer, Bounce, NextEntry
<1>7. CASE CliRetry
  BY <1>7, RetryEffect DEF CliRetry, IInv, EntryLoaded
<1>8. ASSUME NEW id \in Ids, CliCancelRead(id) \/ CliCancelCommit PROVE FALSE
  BY <1>8 DEF CliCancelRead, CliCancelCommit, Command
<1>9. ASSUME NEW id \in Ids, CliRequeue(id) PROVE RowStays'
  <2>1. PICK newId \in Ids : newId # cur /\ \A j \in Ids \ {newId} : live'[j] = live[j]
    BY <1>9, RequeueEffect
  <2>2. QED
    BY <1>9, <2>1 DEF CliRequeue, IInv, EntryLoaded
<1>10. ASSUME NEW id \in Ids, CliPurge(id) PROVE RowStays'
  BY <1>10 DEF CliPurge, PurgeDeadLetter
<1>11. CASE CliCancelCommit
  BY <1>11 DEF CliCancelCommit
<1>12. QED
  BY <1>1, <1>2, <1>3, <1>4, <1>5, <1>6, <1>7, <1>8, <1>9, <1>10, <1>11
     DEF Next, Tick, Operator

(* ... so what the tick holds of the row is what the row says.             *)
LEMMA CurrentRow ==
  ASSUME IInv, RowStays, pc \in Working
  PROVE  cur \in Ids /\ entry \in LiveRow
         /\ \A p : Holds(live[cur], p) <=> p \in PairsOf(entry, entry.rcpts)
  BY DEF IInv, EntryLoaded, FreshEntry, RowStays, Working, SameMail, Holds, PairsOf

LEMMA RowStaysInit == ASSUME Init PROVE RowStays
  BY DEF Init, RowStays, Working

-----------------------------------------------------------------------------
(* Every failure is reported *)

(* The report of this recipient's failure is about to be emitted.          *)
AwaitsNotice(id, p) == pc = "bounce" /\ id = cur /\ p \in PairsOf(entry, toBounce)

(* Dead letters and refusals have been reported, or are about to be.       *)
FailureInv ==
    /\ \A id \in Ids : \A p : Holds(dead[id], p) => <<id, p>> \in notified \/ AwaitsNotice(id, p)
    /\ \A p \in rejected : \/ p \in sent \/ OnLive(p)
                           \/ \E id \in Ids : <<id, p>> \in notified \/ AwaitsNotice(id, p)

(* A report once due stays due until it is emitted.                        *)
ReportKept ==
    /\ notified \subseteq notified'
    /\ \A id \in Ids : \A p : AwaitsNotice(id, p) => AwaitsNotice(id, p)' \/ <<id, p>> \in notified'

(* Only whoever is about to be reported becomes a dead letter.             *)
DeadReported ==
    \A id \in Ids : \A p : Holds(dead'[id], p) => Holds(dead[id], p) \/ AwaitsNotice(id, p)'

(* A refused recipient leaves the queue delivered or about to be reported. *)
RefusedReported ==
    \A p \in rejected' : \/ p \in sent' \/ OnLive(p)' \/ \E id \in Ids : AwaitsNotice(id, p)'
                         \/ p \in rejected /\ ~OnLive(p)

LEMMA FailureFrame ==
  ASSUME FailureInv, ReportKept, DeadReported, RefusedReported, sent \subseteq sent'
  PROVE  FailureInv'
<1>1. \A id \in Ids : \A p : Holds(dead'[id], p) => <<id, p>> \in notified' \/ AwaitsNotice(id, p)'
  BY DEF FailureInv, ReportKept, DeadReported
<1>2. \A p \in rejected' : \/ p \in sent' \/ OnLive(p)'
                           \/ \E id \in Ids : <<id, p>> \in notified' \/ AwaitsNotice(id, p)'
  BY DEF FailureInv, ReportKept, RefusedReported
<1>3. QED
  BY <1>1, <1>2 DEF FailureInv, Holds, PairsOf

(* The tables and the report stay as they are, or rows are added.          *)
LEMMA FailureTables ==
  ASSUME IInv, FailureInv, UNCHANGED <<sent, notified>>, rejected' \subseteq rejected,
         pc = "bounce" => pc' = "bounce" /\ UNCHANGED <<cur, entry, toBounce>>,
         \A id \in Ids : \A p : Holds(live[id], p) => Holds(live'[id], p),
         \A id \in Ids : \A p : Holds(dead'[id], p) => Holds(dead[id], p)
  PROVE  FailureInv'
<1>1. ReportKept
  BY DEF ReportKept, AwaitsNotice, PairsOf
<1>2. DeadReported
  BY DEF DeadReported
<1>3. \A p : OnLive(p) => OnLive(p)'
  BY DEF OnLive, Holds, PairsOf
<1>4. RefusedReported
  BY <1>3 DEF RefusedReported
<1>5. QED
  BY <1>1, <1>2, <1>4, FailureFrame

(* A transition of the current row: whoever leaves the queue is delivered  *)
(* or in the report, and so is whoever becomes a dead letter.              *)
LEMMA FailureSettle ==
  ASSUME IInv, RowStays, FailureInv, pc \in {"settle", "defer"},
         UNCHANGED <<sent, rejected, notified>>, cur' = cur \/ pc' # "bounce",
         \A id \in Ids \ {cur} : live'[id] = live[id] /\ dead'[id] = dead[id],
         \A p : Holds(dead'[cur], p) => Holds(dead[cur], p) \/ AwaitsNotice(cur, p)',
         \A p \in PairsOf(entry, retryLater \cup permanentFailures) :
            Holds(live'[cur], p) \/ AwaitsNotice(cur, p)'
  PROVE  FailureInv'
<1>1. cur \in Ids /\ \A p : Holds(live[cur], p) <=> p \in PairsOf(entry, entry.rcpts)
  BY CurrentRow DEF Working
<1>2. ReportKept
  BY DEF ReportKept, AwaitsNotice
<1>3. DeadReported
  BY <1>1 DEF DeadReported, AwaitsNotice
<1>4. \A p : OnLive(p)' <=> \E id \in Ids : Holds(live'[id], p)
  BY DEF OnLive, Holds, PairsOf
<1>5. ASSUME NEW p \in rejected, OnLive(p)
      PROVE  p \in sent \/ OnLive(p)' \/ AwaitsNotice(cur, p)'
  <2>1. CASE \E id \in Ids \ {cur} : Holds(live[id], p)
    BY <1>4, <2>1
  <2>2. CASE Holds(live[cur], p)
    <3>1. p \in sent \/ p \in PairsOf(entry, retryLater \cup permanentFailures)
      BY <1>1, <2>2 DEF IInv, Classified, PairsOf
    <3>2. QED
      BY <1>1, <1>4, <3>1
  <2>3. QED
    BY <1>5, <2>1, <2>2 DEF OnLive
<1>6. RefusedReported
  BY <1>1, <1>5 DEF RefusedReported, AwaitsNotice
<1>7. QED
  BY <1>2, <1>3, <1>6, FailureFrame

LEMMA FailureStep ==
  ASSUME "cancel" \notin Commands, MaxCrashes = 0, IInv, RowStays, FailureInv, [Next]_vars
  PROVE  FailureInv'
<1> USE DEF loopVars, boundVars, sentVars, noticeVars, historyVars, queueVars,
            loopFrame, procFrame, opFrame
<1>1. CASE TimerTick \/ Boot \/ Stop \/ Close \/ Clock \/ UNCHANGED vars
  <2>1. UNCHANGED <<live, dead, sent, rejected, notified>>
        /\ (pc = "bounce" => pc' = "bounce" /\ UNCHANGED <<cur, entry, toBounce>>)
    BY <1>1 DEF TimerTick, Boot, Stop, Close, Clock, vars, RequestTick
  <2>2. QED
    BY <2>1, FailureTables
<1>2. CASE Crash
  BY <1>2 DEF Crash, IInv, TypeOK
<1>3. CASE StartBatch \/ EndTick \/ EndBatch \/ SettleFails \/ DeferFails
           \/ \E id \in Ids : SkipGone(id) \/ LoadEntry(id)
  <2>1. UNCHANGED <<live, dead, sent, rejected, notified>> /\ pc # "bounce"
    BY <1>3 DEF StartBatch, EndTick, EndBatch, SettleFails, DeferFails, SkipGone, LoadEntry
  <2>2. QED
    BY <2>1, FailureTables
<1>4. CASE NoBounce
  <2>1. UNCHANGED <<live, dead, sent, rejected, notified>> /\ PairsOf(entry, toBounce) = {}
    BY <1>4 DEF NoBounce, NothingToReport, PairsOf
  <2>2. ReportKept /\ DeadReported
    BY <2>1 DEF ReportKept, AwaitsNotice, DeadReported
  <2>3. RefusedReported
    BY <2>1, SameTables DEF RefusedReported
  <2>4. QED
    BY <2>1, <2>2, <2>3, FailureFrame
<1>5. ASSUME NEW mail \in Mails, NEW R \in SUBSET Rcpts, Submit(mail, R)
      PROVE  FailureInv'
  <2>1. PICK id \in Ids : Enqueue(id, mail, Owner, R, now)
    BY <1>5 DEF Submit
  <2>2. R \in SUBSET Addrs
    BY DEF Addrs
  <2>3. /\ \A j \in Ids \ {id} : live'[j] = live[j]
        /\ \A p : ~Holds(live[id], p)
    BY <2>1, <2>2, NewRowEffect
  <2>4. \A j \in Ids : \A p : Holds(live[j], p) => Holds(live'[j], p)
    BY <2>3
  <2>5. UNCHANGED <<dead, sent, rejected, notified>> /\ pc # "bounce"
    BY <1>5 DEF Submit, JsTurn
  <2>6. QED
    BY <2>4, <2>5, FailureTables
<1>6. CASE Relay
  <2>1. PICK out \in [entry.rcpts -> Outcomes] : RelayReturns(out)
    BY <1>6 DEF Relay
  <2>2. /\ UNCHANGED <<live, dead, notified>> /\ pc = "relaying" /\ sent \subseteq sent'
        /\ rejected' \subseteq rejected \cup PairsOf(entry, entry.rcpts)
    BY <1>6, <2>1 DEF Relay, RelayReturns, PairsOf
  <2>3. \A p \in PairsOf(entry, entry.rcpts) : OnLive(p)
    BY <2>2, CurrentRow DEF Working, OnLive
  <2>4. ReportKept /\ DeadReported
    BY <2>2 DEF ReportKept, AwaitsNotice, DeadReported
  <2>5. RefusedReported
    BY <2>2, <2>3, SameTables DEF RefusedReported
  <2>6. QED
    BY <2>2, <2>4, <2>5, FailureFrame
<1>7. CASE SettleDelivered
  <2>1. /\ pc = "settle" /\ UNCHANGED <<dead, sent, rejected, notified, cur>>
        /\ PairsOf(entry, retryLater \cup permanentFailures) = {}
        /\ Remove(cur)
    BY <1>7 DEF SettleDelivered, Remove, Committed, PairsOf
  <2>2. \A j \in Ids \ {cur} : live'[j] = live[j]
    BY <2>1 DEF Remove, IInv, TypeOK, QueueTypeOK
  <2>3. QED
    BY <2>1, <2>2, FailureSettle
<1>8. CASE SettleRefused \/ SettleGaveUp
  <2>1. /\ pc = "settle" /\ pc' = "bounce" /\ UNCHANGED <<cur, entry, sent, rejected, notified>>
        /\ toBounce' = retryLater \cup permanentFailures
    BY <1>8 DEF SettleRefused, SettleGaveUp, Committed
  <2>2. PICK R \in SUBSET Addrs :
           DeadLetter(cur, entry, R) /\ R \subseteq retryLater \cup permanentFailures
    BY <1>8 DEF SettleRefused, SettleGaveUp, IInv, TypeOK
  <2>3. cur \in Ids /\ entry \in LiveRow
    BY <2>1 DEF IInv, EntryLoaded
  <2>4. /\ \A j \in Ids \ {cur} : live'[j] = live[j] /\ dead'[j] = dead[j]
        /\ \A p : Holds(dead'[cur], p) <=> p \in PairsOf(entry, R)
    BY <2>2, <2>3, DeadLetterEffect
  <2>5. \A p : AwaitsNotice(cur, p)' <=> p \in PairsOf(entry, retryLater \cup permanentFailures)
    BY <2>1 DEF AwaitsNotice, PairsOf
  <2>6. \A p : Holds(dead'[cur], p) => AwaitsNotice(cur, p)'
    BY <2>2, <2>4, <2>5 DEF PairsOf
  <2>7. QED
    BY <2>1, <2>4, <2>5, <2>6, FailureSettle
<1>9. CASE SettleDeferred
  <2>1. /\ pc = "settle" /\ pc' = "bounce" /\ UNCHANGED <<cur, entry, sent, rejected, notified>>
        /\ toBounce' = permanentFailures
        /\ Reschedule(cur, retryLater, Attempts, at + BackoffMs(Attempts))
    BY <1>9 DEF SettleDeferred, Committed
  <2>2. Attempts \in Nat /\ at + BackoffMs(Attempts) \in Nat
    BY <2>1, BackoffType DEF Attempts, IInv, EntryLoaded, TypeOK, LiveRow
  <2>3. /\ \A j \in Ids \ {cur} : live'[j] = live[j]
        /\ UNCHANGED dead
        /\ \A p : Holds(live'[cur], p) <=> live[cur] # NoRow /\ p \in PairsOf(entry, retryLater)
    BY <2>1, <2>2, RescheduleEffect
  <2>4. \A p : AwaitsNotice(cur, p)' <=> p \in PairsOf(entry, permanentFailures)
    BY <2>1 DEF AwaitsNotice, PairsOf
  <2>5. \A p \in PairsOf(entry, retryLater \cup permanentFailures) :
           Holds(live'[cur], p) \/ AwaitsNotice(cur, p)'
    BY <2>1, <2>3, <2>4 DEF RowStays, Working, PairsOf
  <2>6. QED
    BY <2>1, <2>3, <2>5, FailureSettle
<1>10. CASE Defer
  <2>1. /\ pc = "defer" /\ pc' = "drain" /\ UNCHANGED <<sent, rejected, notified>>
        /\ Reschedule(cur, retryLater \cup permanentFailures, Attempts, at + SettleBackoff)
    BY <1>10 DEF Defer, NextEntry
  <2>2. Attempts \in Nat /\ at + SettleBackoff \in Nat
    BY <2>1, RelayAssumption DEF Attempts, IInv, EntryLoaded, TypeOK, LiveRow
  <2>3. /\ \A j \in Ids \ {cur} : live'[j] = live[j]
        /\ UNCHANGED dead
        /\ \A p : Holds(live'[cur], p) <=>
                 live[cur] # NoRow /\ p \in PairsOf(entry, retryLater \cup permanentFailures)
    BY <2>1, <2>2, RescheduleEffect
  <2>4. QED
    BY <2>1, <2>3, FailureSettle DEF RowStays, Working
<1>11. CASE Bounce
  <2>1. /\ pc = "bounce" /\ UNCHANGED <<dead, sent, rejected>>
        /\ notified' = notified \cup ({cur} \X PairsOf(entry, toBounce))
    BY <1>11 DEF Bounce
  <2>2. ReportKept /\ DeadReported
    BY <2>1 DEF ReportKept, AwaitsNotice, DeadReported
  <2>3. \A id \in Ids : \A p : Holds(live[id], p) => Holds(live'[id], p)
    <3>1. CASE UNCHANGED queueVars
      BY <3>1
    <3>2. ASSUME NEW id \in Ids, Enqueue(id, entry.mail, NullSender, {entry.from}, now)
          PROVE  \A j \in Ids : \A p : Holds(live[j], p) => Holds(live'[j], p)
      <4>1. live[id] = NoRow /\ \A j \in Ids \ {id} : live'[j] = live[j]
        BY <3>2, FreshId DEF Enqueue, IInv, TypeOK, QueueTypeOK
      <4>2. QED
        BY <4>1 DEF Holds
    <3>3. QED
      BY <1>11, <3>1, <3>2 DEF Bounce
  <2>4. \A p : OnLive(p) => OnLive(p)'
    BY <2>3 DEF OnLive, Holds, PairsOf
  <2>5. RefusedReported
    BY <2>1, <2>4 DEF RefusedReported
  <2>6. QED
    BY <2>1, <2>2, <2>5, FailureFrame
<1>12. CASE CliRetry
  BY <1>12, RetryEffect, FailureTables DEF CliRetry
<1>13. ASSUME NEW id \in Ids, CliRequeue(id) PROVE FailureInv'
  <2>1. PICK newId \in Ids :
           /\ \A j \in Ids \ {newId} : live'[j] = live[j]
           /\ \A p : ~Holds(live[newId], p)
           /\ dead'[id] = NoRow /\ \A j \in Ids \ {id} : dead'[j] = dead[j]
    BY <1>13, RequeueEffect
  <2>2. \A j \in Ids : \A p : /\ Holds(live[j], p) => Holds(live'[j], p)
                              /\ Holds(dead'[j], p) => Holds(dead[j], p)
    BY <2>1 DEF Holds
  <2>3. QED
    BY <1>13, <2>2, FailureTables DEF CliRequeue
<1>14. ASSUME NEW id \in Ids, CliPurge(id) PROVE FailureInv'
  <2>1. \A j \in Ids : \A p : Holds(dead'[j], p) => Holds(dead[j], p)
    BY <1>14 DEF CliPurge, PurgeDeadLetter, Holds, IInv, TypeOK, QueueTypeOK
  <2>2. QED
    BY <1>14, <2>1, FailureTables DEF CliPurge, PurgeDeadLetter
<1>15. ASSUME CliCancelCommit \/ \E id \in Ids : CliCancelRead(id) PROVE FALSE
  BY <1>15 DEF CliCancelRead, CliCancelCommit, Command, RowStays
<1>16. QED
  BY <1>1, <1>2, <1>3, <1>4, <1>5, <1>6, <1>7, <1>8, <1>9, <1>10, <1>11, <1>12,
     <1>13, <1>14, <1>15
     DEF Next, Tick, Operator

(* Unless the process crashes or the operator cancels, every failure is    *)
(* reported: every dead letter, and every refusal of a recipient that is   *)
(* not tried again (relay-loop.ts, #settle, the catch block and #bounce).  *)
THEOREM EveryFailureNotifiedAlways ==
  ASSUME "cancel" \notin Commands, MaxCrashes = 0
  PROVE  Spec => []EveryFailureNotified
<1>1. Init => RowStays /\ FailureInv
  BY RowStaysInit DEF Init, QueueInit, FailureInv, Holds
<1>2. IInv /\ RowStays /\ FailureInv /\ [Next]_vars => RowStays' /\ FailureInv'
  BY RowStaysStep, FailureStep
<1>3. FailureInv => EveryFailureNotified
  BY DEF FailureInv, EveryFailureNotified, AwaitsNotice
<1>4. QED
  BY <1>1, <1>2, <1>3, InvariantCorrect, PTL DEF Spec

-----------------------------------------------------------------------------
(* No second copy *)

(* A recipient of a message is on one row, of one table.                   *)
OneRow ==
    \A i, j \in Ids : \A p :
        /\ Holds(live[i], p) /\ Holds(live[j], p) => i = j
        /\ Holds(dead[i], p) /\ Holds(dead[j], p) => i = j
        /\ ~(Holds(live[i], p) /\ Holds(dead[j], p))

(* Whoever has a copy is on no row, but for the delivered recipients of    *)
(* the current one between the relay's answer and the transition, and      *)
(* those are not among the ones to try again.                              *)
CopyInv ==
    /\ resent = {} /\ sent \subseteq accepted
    /\ OneRow
    /\ \A id \in Ids, p \in sent : ~Holds(dead[id], p)
    /\ \A id \in Ids, p \in sent : Holds(live[id], p) => id = cur /\ pc \in {"settle", "defer"}
    /\ pc \in {"settle", "defer"} =>
          \A p \in PairsOf(entry, retryLater \cup permanentFailures) : p \notin sent

(* OneRow of the next state, said of the next tables.                      *)
OneRowNext ==
    \A i, j \in Ids : \A p :
        /\ Holds(live'[i], p) /\ Holds(live'[j], p) => i = j
        /\ Holds(dead'[i], p) /\ Holds(dead'[j], p) => i = j
        /\ ~(Holds(live'[i], p) /\ Holds(dead'[j], p))

LEMMA OneRowPrimed == ASSUME OneRowNext PROVE OneRow'
  BY DEF OneRow, OneRowNext, Holds, PairsOf

(* The tick goes on as it was; rows appear only for those without a copy.  *)
LEMMA CopyTables ==
  ASSUME CopyInv, OneRowNext, UNCHANGED <<sent, resent>>, accepted \subseteq accepted',
         pc \in {"settle", "defer"} =>
            pc' \in {"settle", "defer"} /\ UNCHANGED <<cur, entry, retryLater, permanentFailures>>,
         pc' \in {"settle", "defer"} => pc \in {"settle", "defer"},
         \A id \in Ids, p \in sent : Holds(live'[id], p) => Holds(live[id], p),
         \A id \in Ids, p \in sent : ~Holds(dead'[id], p)
  PROVE  CopyInv'
<1>1. OneRow'
  BY OneRowPrimed
<1>2. \A id \in Ids, p \in sent' : ~Holds(dead'[id], p)
  OBVIOUS
<1>3. \A id \in Ids, p \in sent' :
         Holds(live'[id], p) => id = cur' /\ pc' \in {"settle", "defer"}
  BY DEF CopyInv
<1>4. pc' \in {"settle", "defer"} =>
         \A p \in PairsOf(entry', retryLater' \cup permanentFailures') : p \notin sent'
  BY DEF CopyInv
<1>5. QED
  BY <1>1, <1>2, <1>3, <1>4 DEF CopyInv, Holds, PairsOf

(* A transition keeps, live or dead, only recipients of the row without a  *)
(* copy.                                                                   *)
LEMMA CopySettle ==
  ASSUME IInv, RowStays, CopyInv, pc \in {"settle", "defer"}, pc' \notin {"settle", "defer"},
         UNCHANGED <<sent, resent, accepted>>,
         \A id \in Ids \ {cur} : live'[id] = live[id] /\ dead'[id] = dead[id],
         \A p : Holds(live'[cur], p) \/ (Holds(dead'[cur], p) /\ ~Holds(dead[cur], p)) =>
                   p \in PairsOf(entry, retryLater \cup permanentFailures),
         \A p : ~(Holds(live'[cur], p) /\ Holds(dead'[cur], p))
  PROVE  CopyInv'
<1>1. /\ cur \in Ids
      /\ \A p : p \in PairsOf(entry, retryLater \cup permanentFailures) =>
                   Holds(live[cur], p) /\ p \notin sent
  BY CurrentRow DEF Working, IInv, Classified, CopyInv, PairsOf
<1>2. \A id \in Ids : \A p : /\ Holds(live'[id], p) => Holds(live[id], p)
                             /\ Holds(dead'[id], p) => Holds(dead[id], p) \/ (id = cur /\ Holds(live[cur], p))
  BY <1>1
<1>3. OneRowNext
  <2>1. ASSUME NEW i \in Ids, NEW j \in Ids, NEW p PROVE
            /\ Holds(live'[i], p) /\ Holds(live'[j], p) => i = j
            /\ Holds(dead'[i], p) /\ Holds(dead'[j], p) => i = j
            /\ ~(Holds(live'[i], p) /\ Holds(dead'[j], p))
    BY <1>1, <1>2 DEF CopyInv, OneRow
  <2>2. QED
    BY <2>1 DEF OneRowNext
<1>4. OneRow'
  BY <1>3, OneRowPrimed
<1>5. \A id \in Ids, p \in sent' : ~Holds(dead'[id], p) /\ ~Holds(live'[id], p)
  BY <1>1 DEF CopyInv
<1>6. QED
  BY <1>4, <1>5 DEF CopyInv, Holds, PairsOf

LEMMA CopyRelay ==
  ASSUME "indeterminate" \notin Outcomes, IInv, Accounted, RowStays, CopyInv, pc = "relaying",
         NEW out \in [entry.rcpts -> Outcomes], RelayReturns(out)
  PROVE  CopyInv'
<1> DEFINE held == PairsOf(entry, {r \in entry.rcpts : out[r] = "success"})
<1>1. /\ UNCHANGED <<live, dead, cur, entry, accepted>> /\ pc' = "settle"
      /\ sent' = sent \cup held /\ resent' = resent \cup (sent \cap held)
  <2>1. {r \in entry.rcpts : out[r] \in {"success", "indeterminate"}}
           = {r \in entry.rcpts : out[r] = "success"}
    OBVIOUS
  <2>2. QED
    BY <2>1 DEF RelayReturns, loopFrame, queueVars
<1>2. retryLater' \cup permanentFailures' \subseteq {r \in entry.rcpts : out[r] # "success"}
  BY DEF RelayReturns, Transient
<1>3. /\ cur \in Ids /\ held \subseteq PairsOf(entry, entry.rcpts)
      /\ \A p \in PairsOf(entry, entry.rcpts) : Holds(live[cur], p)
  BY CurrentRow DEF Working, PairsOf
<1>4. \A p \in PairsOf(entry, entry.rcpts) : p \notin sent
  BY <1>3 DEF CopyInv
<1>5. \A p \in PairsOf(entry', retryLater' \cup permanentFailures') : p \notin held
  BY <1>1, <1>2 DEF PairsOf
<1>6. \A p \in PairsOf(entry', retryLater' \cup permanentFailures') :
         p \in PairsOf(entry, entry.rcpts)
  BY <1>1, <1>2 DEF PairsOf
<1>7. held \subseteq accepted
  BY <1>3 DEF Accounted
<1> HIDE DEF held
<1>8. resent' = {} /\ sent' \subseteq accepted'
  BY <1>1, <1>3, <1>4, <1>7 DEF CopyInv
<1>9. \A p \in PairsOf(entry', retryLater' \cup permanentFailures') : p \notin sent'
  BY <1>1, <1>4, <1>5, <1>6
<1>10. \A id \in Ids, p \in sent' : ~Holds(dead'[id], p)
  BY <1>1, <1>3 DEF CopyInv, OneRow
<1>11. \A id \in Ids, p \in sent' :
          Holds(live'[id], p) => id = cur' /\ pc' \in {"settle", "defer"}
  BY <1>1, <1>3 DEF CopyInv, OneRow
<1>12. OneRow'
  BY <1>1 DEF CopyInv, OneRow, Holds, PairsOf
<1>13. QED
  BY <1>1, <1>8, <1>9, <1>10, <1>11, <1>12 DEF CopyInv, Holds, PairsOf

LEMMA CopyStep ==
  ASSUME "cancel" \notin Commands, "indeterminate" \notin Outcomes, MaxCrashes = 0, ~Unwritable,
         IInv, Accounted, RowStays, CopyInv, [Next]_vars
  PROVE  CopyInv'
<1> USE DEF loopVars, boundVars, sentVars, noticeVars, historyVars, queueVars,
            loopFrame, procFrame, opFrame
<1>1. ASSUME UNCHANGED <<live, dead>> PROVE OneRowNext
  BY <1>1 DEF CopyInv, OneRow, OneRowNext
<1>2. CASE TimerTick \/ Boot \/ Stop \/ Close \/ Clock \/ UNCHANGED vars
  <2>1. UNCHANGED <<live, dead, sent, resent, accepted>>
    BY <1>2 DEF TimerTick, Boot, Stop, Close, Clock, vars
  <2>2. /\ pc \in {"settle", "defer"} =>
              pc' = pc /\ UNCHANGED <<cur, entry, retryLater, permanentFailures>>
        /\ pc' \in {"settle", "defer"} => pc \in {"settle", "defer"}
    BY <1>2 DEF TimerTick, Boot, Stop, Close, Clock, vars, RequestTick, Quiet
  <2>3. QED
    BY <1>1, <2>1, <2>2, CopyTables DEF CopyInv
<1>3. CASE Crash \/ DeferFails
  BY <1>3 DEF Crash, DeferFails, IInv, TypeOK
<1>4. CASE \/ StartBatch \/ EndTick \/ EndBatch \/ NoBounce
           \/ \E id \in Ids : SkipGone(id) \/ LoadEntry(id)
  <2>1. UNCHANGED <<live, dead, sent, resent, accepted>>
        /\ pc \notin {"settle", "defer"} /\ pc' \notin {"settle", "defer"}
    BY <1>4 DEF StartBatch, EndTick, EndBatch, NoBounce, SkipGone, LoadEntry, Quiet, NextEntry
  <2>2. QED
    BY <1>1, <2>1, CopyTables DEF CopyInv
<1>5. CASE SettleFails
  BY <1>1, <1>5, CopyTables DEF SettleFails, CopyInv
<1>6. ASSUME NEW mail \in Mails, NEW R \in SUBSET Rcpts, Submit(mail, R)
      PROVE  CopyInv'
  <2>1. PICK id \in Ids : Enqueue(id, mail, Owner, R, now)
    BY <1>6 DEF Submit
  <2>2. R \in SUBSET Addrs
    BY DEF Addrs
  <2>3. /\ id \in Ids /\ \A j \in Ids \ {id} : live'[j] = live[j]
        /\ \A p : ~Holds(live[id], p)
        /\ \A p : Holds(live'[id], p) => p \in PairsOf([mail |-> mail, from |-> Owner], R)
    BY <2>1, <2>2, NewRowEffect
  <2>4. \A p : p \in PairsOf([mail |-> mail, from |-> Owner], R) => p \notin accepted
    BY <1>6 DEF Submit, PairsOf, Pairs
  <2>5. UNCHANGED <<dead, sent, resent>> /\ accepted \subseteq accepted'
        /\ pc \notin {"settle", "defer"} /\ pc' \notin {"settle", "defer"}
    BY <1>6 DEF Submit, JsTurn, RequestTick
  <2>6. \A j \in Ids : \A p : Holds(live[j], p) \/ Holds(dead[j], p) => p \in accepted
    BY DEF Accounted, OnLive, OnDead
  <2>7. \A p : Holds(live'[id], p) => p \notin accepted
    BY <2>3, <2>4
  <2>8. OneRowNext
    BY <2>3, <2>5, <2>6, <2>7 DEF CopyInv, OneRow, OneRowNext
  <2>9. QED
    BY <2>3, <2>5, <2>7, <2>8, CopyTables DEF CopyInv
<1>7. CASE Relay
  BY <1>7, CopyRelay DEF Relay
<1>8. CASE SettleDelivered
  <2>1. /\ pc = "settle" /\ pc' = "bounce" /\ UNCHANGED <<dead, sent, resent, accepted>>
        /\ Remove(cur) /\ cur \in Ids
    BY <1>8 DEF SettleDelivered, Remove, Committed, IInv, EntryLoaded
  <2>2. /\ live'[cur] = NoRow /\ \A j \in Ids \ {cur} : live'[j] = live[j]
    BY <2>1 DEF Remove, IInv, TypeOK, QueueTypeOK
  <2>3. \A p : ~Holds(live'[cur], p)
    BY <2>2 DEF Holds
  <2>4. QED
    BY <2>1, <2>2, <2>3, CopySettle
<1>9. CASE SettleRefused \/ SettleGaveUp
  <2>1. /\ pc = "settle" /\ pc' = "bounce" /\ UNCHANGED <<sent, resent, accepted>>
    BY <1>9 DEF SettleRefused, SettleGaveUp, Committed
  <2>2. PICK R \in SUBSET Addrs :
           DeadLetter(cur, entry, R) /\ R \subseteq retryLater \cup permanentFailures
    BY <1>9 DEF SettleRefused, SettleGaveUp, IInv, TypeOK
  <2>3. cur \in Ids /\ entry \in LiveRow
    BY <2>1 DEF IInv, EntryLoaded
  <2>4. /\ \A j \in Ids \ {cur} : live'[j] = live[j] /\ dead'[j] = dead[j]
        /\ live'[cur] = NoRow
        /\ \A p : Holds(dead'[cur], p) <=> p \in PairsOf(entry, R)
    BY <2>2, <2>3, DeadLetterEffect
  <2>5. \A p : ~Holds(live'[cur], p)
    BY <2>4 DEF Holds
  <2>6. \A p : Holds(dead'[cur], p) => p \in PairsOf(entry, retryLater \cup permanentFailures)
    BY <2>2, <2>4 DEF PairsOf
  <2>7. QED
    BY <2>1, <2>4, <2>5, <2>6, CopySettle
<1>10. CASE SettleDeferred \/ Defer
  <2>1. /\ pc \in {"settle", "defer"} /\ pc' \notin {"settle", "defer"}
        /\ UNCHANGED <<sent, resent, accepted>>
    BY <1>10 DEF SettleDeferred, Defer, Committed, NextEntry
  <2>2. Attempts \in Nat /\ at + BackoffMs(Attempts) \in Nat /\ at + SettleBackoff \in Nat
    BY <2>1, BackoffType, RelayAssumption DEF Attempts, IInv, EntryLoaded, TypeOK, LiveRow
  <2>3. PICK R \in SUBSET (retryLater \cup permanentFailures), t \in Nat :
           Reschedule(cur, R, Attempts, t)
    BY <1>10, <2>2 DEF SettleDeferred, Defer
  <2>4. /\ cur \in Ids /\ \A j \in Ids \ {cur} : live'[j] = live[j]
        /\ UNCHANGED dead
        /\ \A p : Holds(live'[cur], p) <=> live[cur] # NoRow /\ p \in PairsOf(entry, R)
        /\ \A p : Holds(live'[cur], p) => Holds(live[cur], p)
    BY <2>1, <2>2, <2>3, RescheduleEffect
  <2>5. \A p : Holds(live'[cur], p) => p \in PairsOf(entry, retryLater \cup permanentFailures)
    BY <2>4 DEF PairsOf
  <2>6. \A p : ~(Holds(live'[cur], p) /\ Holds(dead'[cur], p))
    BY <2>4 DEF CopyInv, OneRow
  <2>7. QED
    BY <2>1, <2>4, <2>5, <2>6, CopySettle
<1>11. CASE Bounce
  <2>1. /\ pc = "bounce" /\ pc' = "drain" /\ UNCHANGED <<dead, sent, resent, accepted>>
    BY <1>11 DEF Bounce, NextEntry
  <2>2. \A id \in Ids : \A p : Holds(live'[id], p) => Holds(live[id], p)
    <3>1. CASE UNCHANGED queueVars
      BY <3>1
    <3>2. ASSUME NEW id \in Ids, Enqueue(id, entry.mail, NullSender, {entry.from}, now)
          PROVE  \A j \in Ids : \A p : Holds(live'[j], p) => Holds(live[j], p)
      <4>1. /\ live'[id].from = NullSender /\ \A j \in Ids \ {id} : live'[j] = live[j]
        BY <3>2 DEF Enqueue, IInv, TypeOK, QueueTypeOK
      <4>2. QED
        BY <4>1 DEF Holds, PairsOf
    <3>3. QED
      BY <1>11, <3>1, <3>2 DEF Bounce
  <2>3. OneRowNext
    BY <2>1, <2>2 DEF CopyInv, OneRow, OneRowNext
  <2>4. QED
    BY <2>1, <2>2, <2>3, CopyTables DEF CopyInv
<1>12. CASE CliRetry
  <2>1. /\ UNCHANGED dead /\ \A id \in Ids : \A p : Holds(live'[id], p) <=> Holds(live[id], p)
    BY <1>12, RetryEffect
  <2>2. OneRowNext
    BY <2>1 DEF CopyInv, OneRow, OneRowNext
  <2>3. QED
    BY <1>12, <2>1, <2>2, CopyTables DEF CliRetry, CopyInv
<1>13. ASSUME NEW id \in Ids, CliRequeue(id) PROVE CopyInv'
  <2>1. PICK newId \in Ids :
           /\ \A j \in Ids \ {newId} : live'[j] = live[j]
           /\ \A p : Holds(live'[newId], p) <=> Holds(dead[id], p)
           /\ dead'[id] = NoRow /\ \A j \in Ids \ {id} : dead'[j] = dead[j]
    BY <1>13, RequeueEffect
  <2>2. \A p : ~Holds(dead'[id], p)
    BY <2>1 DEF Holds
  <2>3. OneRowNext
    BY <2>1, <2>2 DEF CopyInv, OneRow, OneRowNext
  <2>4. \A j \in Ids, p \in sent : /\ Holds(live'[j], p) => Holds(live[j], p)
                                   /\ ~Holds(dead'[j], p)
    BY <2>1, <2>2 DEF CopyInv
  <2>5. QED
    BY <1>13, <2>3, <2>4, CopyTables DEF CliRequeue
<1>14. ASSUME NEW id \in Ids, CliPurge(id) PROVE CopyInv'
  <2>1. UNCHANGED live /\ \A j \in Ids : \A p : Holds(dead'[j], p) => Holds(dead[j], p)
    BY <1>14 DEF CliPurge, PurgeDeadLetter, Holds, IInv, TypeOK, QueueTypeOK
  <2>2. OneRowNext
    BY <2>1 DEF CopyInv, OneRow, OneRowNext
  <2>3. QED
    BY <1>14, <2>1, <2>2, CopyTables DEF CliPurge, CopyInv
<1>15. ASSUME CliCancelCommit \/ \E id \in Ids : CliCancelRead(id) PROVE FALSE
  BY <1>15 DEF CliCancelRead, CliCancelCommit, Command, RowStays
<1>16. QED
  BY <1>2, <1>3, <1>4, <1>5, <1>6, <1>7, <1>8, <1>9, <1>10, <1>11, <1>12,
     <1>13, <1>14, <1>15
     DEF Next, Tick, Operator

(* Without a crash, a cancel, an unwritable store or an unanswered DATA    *)
(* (each of which the protocol or the design lets end in a second copy),   *)
(* no recipient gets one: a failed settle defers only those without a      *)
(* copy, and a requeue starts from a dead letter that names nobody with    *)
(* one (#processEntry, requeueDeadLetter).                                 *)
THEOREM NoSecondCopyAlways ==
  ASSUME "cancel" \notin Commands, "indeterminate" \notin Outcomes, MaxCrashes = 0, ~Unwritable
  PROVE  Spec => []NoSecondCopy
<1>1. Init => RowStays /\ CopyInv
  BY RowStaysInit DEF Init, QueueInit, CopyInv, OneRow, Holds
<1>2. IInv /\ Accounted /\ RowStays /\ CopyInv /\ [Next]_vars => RowStays' /\ CopyInv'
  BY RowStaysStep, CopyStep
<1>3. CopyInv => NoSecondCopy
  BY DEF CopyInv, NoSecondCopy
<1>4. QED
  BY <1>1, <1>2, <1>3, InvariantCorrect, AccountedCorrect, PTL DEF Spec

-----------------------------------------------------------------------------
(* A prompt first attempt *)

(* A submission no relay has been tried for.                               *)
Untried(row) == row # NoRow /\ row.from = Owner /\ row.attempts = 0

(* It is the tick's current row, still to be reached in this batch, or due *)
(* at the clock of the next one.                                           *)
Awaited(id) ==
    \/ pc # "idle" /\ pending # NoTime /\ live[id].next <= pending
    \/ pc # "idle" /\ id \in todo
    \/ pc \in Working /\ id = cur

PromptInv ==
    /\ lifecycle = "down" => pc = "idle"
    /\ pc \in {"idle", "batch"} => todo = {}
    /\ pending # NoTime => pending <= now
    /\ \A id \in Ids : Untried(live[id]) =>
          /\ live[id].next <= now
          /\ lifecycle = "up" /\ ~hold => Awaited(id)

(* The rows are the ones there were, or fewer.                             *)
NoNewRow == \A id \in Ids : live'[id] \in {live[id], NoRow}

(* The tick goes on, so whoever was awaited still is.                      *)
LEMMA PromptFrame ==
  ASSUME IInv, PromptInv, NoNewRow, UNCHANGED <<lifecycle, hold, pending, now>>,
         pc # "idle" => pc' # "idle", pc' \in {"idle", "batch"} => todo' = {},
         lifecycle = "down" => pc' = "idle",
         \A id \in Ids : Untried(live'[id]) /\ (id \in todo \/ (pc \in Working /\ id = cur)) =>
            id \in todo' \/ (pc' \in Working /\ id = cur')
  PROVE  PromptInv'
<1>1. ASSUME NEW id \in Ids, Untried(live'[id])
      PROVE  Untried(live[id]) /\ live'[id] = live[id]
  BY <1>1 DEF NoNewRow, Untried
<1>2. ASSUME NEW id \in Ids, Untried(live'[id]), Awaited(id), pc # "idle" PROVE Awaited(id)'
  BY <1>1, <1>2 DEF Awaited, Working
<1>3. \A id \in Ids : Awaited(id) => pc # "idle"
  BY DEF Awaited, Working
<1>4. QED
  BY <1>1, <1>2, <1>3 DEF PromptInv, Untried

(* A requested tick will find every row due.                               *)
LEMMA PromptRequest ==
  ASSUME IInv, PromptInv, RequestTick, now' = now, lifecycle' # "down",
         \A id \in Ids : Untried(live'[id]) => live'[id].next <= now
  PROVE  PromptInv'
<1>1. pending' = now /\ pending' # NoTime /\ now \in Nat /\ pc' # "idle" /\ todo' = todo
  BY RelayAssumption DEF RequestTick, IInv, TypeOK
<1>2. \A id \in Ids : Untried(live'[id]) => Awaited(id)'
  BY <1>1 DEF Awaited
<1>3. pc' \in {"idle", "batch"} => todo' = {}
  BY DEF RequestTick, PromptInv
<1>4. QED
  BY <1>1, <1>2, <1>3 DEF PromptInv, Untried

LEMMA PromptStep ==
  ASSUME {"retry", "requeue"} \cap Commands = {}, ~Unwritable, IInv, PromptInv, [Next]_vars
  PROVE  PromptInv'
<1> USE DEF loopVars, boundVars, sentVars, noticeVars, historyVars, queueVars,
            loopFrame, procFrame, opFrame
<1>1. ASSUME NEW mail \in Mails, NEW R \in SUBSET Rcpts, Submit(mail, R)
      PROVE  PromptInv'
  <2>1. PICK id \in Ids : Enqueue(id, mail, Owner, R, now)
    BY <1>1 DEF Submit
  <2>2. live'[id].next = now /\ \A j \in Ids \ {id} : live'[j] = live[j]
    BY <2>1 DEF Enqueue, IInv, TypeOK, QueueTypeOK
  <2>3. now \in Nat /\ \A j \in Ids : Untried(live'[j]) => live'[j].next <= now
    BY <2>2 DEF PromptInv, IInv, TypeOK
  <2>4. CASE hold
    BY <1>1, <2>3, <2>4 DEF Submit, PromptInv, Untried
  <2>5. CASE ~hold
    BY <1>1, <2>3, <2>5, PromptRequest DEF Submit, JsTurn
  <2>6. QED
    BY <2>4, <2>5
<1>2. CASE TimerTick
  BY <1>2, PromptRequest DEF TimerTick, PromptInv
<1>3. CASE Boot
  <2>1. CASE hold'
    BY <1>3, <2>1 DEF Boot, PromptInv, Untried
  <2>2. CASE ~hold'
    BY <1>3, <2>2, PromptRequest DEF Boot, PromptInv
  <2>3. QED
    BY <2>1, <2>2
<1>4. CASE Stop
  BY <1>4 DEF Stop, PromptInv, Untried
<1>5. CASE Close \/ Crash
  BY <1>5 DEF Close, Crash, Quiet, PromptInv, Untried
<1>6. CASE Clock
  BY <1>6 DEF Clock, PromptInv, Awaited, Untried, IInv, TypeOK, QueueTypeOK, LiveRow
<1>7. CASE UNCHANGED vars
  BY <1>7 DEF vars, PromptInv, Awaited, Untried
<1>8. CASE StartBatch
  <2>1. ASSUME NEW id \in Ids, Untried(live[id]), Awaited(id) PROVE id \in todo'
    BY <1>8, <2>1 DEF StartBatch, PromptInv, Awaited, Working, Untried, DueIds, LiveIds
  <2>2. QED
    BY <1>8, <2>1 DEF StartBatch, PromptInv, Awaited, Untried
<1>9. CASE EndTick
  <2>1. lifecycle = "up" => pc = "batch" /\ pending = NoTime /\ todo = {}
    BY <1>9 DEF EndTick, Stopped, PromptInv
  <2>2. lifecycle = "up" => \A id \in Ids : ~Awaited(id)
    BY <2>1 DEF Awaited, Working
  <2>3. QED
    BY <1>9, <2>2 DEF EndTick, Quiet, PromptInv, Untried
<1>10. CASE EndBatch
  BY <1>10, PromptFrame DEF EndBatch, NoNewRow, Working, PromptInv
<1>11. ASSUME NEW id \in Ids, SkipGone(id) PROVE PromptInv'
  <2>1. Untried(live'[id]) = FALSE
    BY <1>11 DEF SkipGone, Untried
  <2>2. QED
    BY <1>11, <2>1, PromptFrame DEF SkipGone, NoNewRow, Working, PromptInv
<1>12. ASSUME NEW id \in Ids, LoadEntry(id) PROVE PromptInv'
  BY <1>12, PromptFrame DEF LoadEntry, NoNewRow, Working, PromptInv
<1>13. CASE Relay
  BY <1>13, PromptFrame DEF Relay, RelayReturns, NoNewRow, Working, PromptInv
<1>14. ASSUME pc \in {"settle", "defer"}, cur \in Ids, UNCHANGED <<lifecycle, hold, pending, now, todo>>,
              pc' \in {"bounce", "drain"}, ~Untried(live'[cur]),
              \A j \in Ids \ {cur} : live'[j] = live[j]
       PROVE  PromptInv'
  <2>1. ASSUME NEW id \in Ids, Untried(live'[id])
        PROVE  id # cur /\ live'[id] = live[id] /\ Untried(live[id])
    BY <1>14, <2>1
  <2>2. ASSUME NEW id \in Ids, Untried(live'[id]), Awaited(id) PROVE Awaited(id)'
    BY <1>14, <2>1, <2>2 DEF Awaited
  <2>3. QED
    BY <1>14, <2>1, <2>2 DEF PromptInv, Untried
<1>15. pc \in {"settle", "defer", "bounce"} => cur \in Ids /\ entry \in LiveRow
  BY DEF IInv, EntryLoaded
<1>16. CASE SettleDelivered \/ SettleRefused \/ SettleGaveUp
  <2>1. live'[cur] = NoRow /\ \A j \in Ids \ {cur} : live'[j] = live[j]
    BY <1>15, <1>16 DEF SettleDelivered, SettleRefused, SettleGaveUp, Remove, DeadLetter,
       IInv, TypeOK, QueueTypeOK
  <2>2. QED
    BY <1>14, <1>15, <1>16, <2>1
       DEF SettleDelivered, SettleRefused, SettleGaveUp, Committed, Untried
<1>17. CASE SettleDeferred \/ Defer
  <2>1. Attempts \in Nat \ {0}
    BY <1>15, <1>17 DEF SettleDeferred, Defer, Attempts, LiveRow
  <2>2. PICK R, t : Reschedule(cur, R, Attempts, t)
    BY <1>17 DEF SettleDeferred, Defer
  <2>3. ~Untried(live'[cur]) /\ \A j \in Ids \ {cur} : live'[j] = live[j]
    BY <1>15, <1>17, <2>1, <2>2
       DEF SettleDeferred, Defer, Reschedule, Untried, IInv, TypeOK, QueueTypeOK, LiveRow
  <2>4. QED
    BY <1>14, <1>15, <1>17, <2>3 DEF SettleDeferred, Defer, Committed, NextEntry
<1>18. CASE SettleFails
  BY <1>18, PromptFrame DEF SettleFails, NoNewRow, Working, PromptInv
<1>19. CASE DeferFails
  BY <1>19 DEF DeferFails
<1>20. CASE NoBounce
  BY <1>20, PromptFrame DEF NoBounce, NextEntry, NoNewRow, Working, PromptInv
<1>21. CASE Bounce
  <2>1. \A id \in Ids : Untried(live'[id]) => live'[id] = live[id]
    <3>1. CASE UNCHANGED queueVars
      BY <3>1
    <3>2. ASSUME NEW id \in Ids, Enqueue(id, entry.mail, NullSender, {entry.from}, now)
          PROVE  \A j \in Ids : Untried(live'[j]) => live'[j] = live[j]
      BY <3>2, QueueAssumption DEF Enqueue, Untried, IInv, TypeOK, QueueTypeOK
    <3>3. QED
      BY <1>21, <3>1, <3>2 DEF Bounce
  <2>2. /\ pc = "bounce" /\ pc' = "drain"
        /\ UNCHANGED <<lifecycle, hold, pending, now, todo>>
    BY <1>21 DEF Bounce, NextEntry
  <2>3. ASSUME NEW id \in Ids, Untried(live'[id]), Awaited(id) PROVE Awaited(id)'
    BY <2>1, <2>2, <2>3 DEF Awaited, Working
  <2>4. QED
    BY <2>1, <2>2, <2>3 DEF PromptInv, Untried
<1>22. ASSUME NEW id \in Ids, CliRetry \/ CliRequeue(id) PROVE FALSE
  BY <1>22 DEF CliRetry, CliRequeue, Command
<1>23. ASSUME NEW id \in Ids, CliCancelRead(id) \/ CliPurge(id) PROVE PromptInv'
  BY <1>23, PromptFrame DEF CliCancelRead, CliPurge, PurgeDeadLetter, NoNewRow, PromptInv
<1>24. CASE CliCancelCommit
  <2>1. NoNewRow
    BY <1>24 DEF CliCancelCommit, DeadLetter, NoNewRow, IInv, TypeOK, QueueTypeOK
  <2>2. QED
    BY <1>24, <2>1, PromptFrame DEF CliCancelCommit, PromptInv
<1>25. CASE CliRetry
  BY <1>25 DEF CliRetry, Command
<1>26. QED
  BY <1>1, <1>2, <1>3, <1>4, <1>5, <1>6, <1>7, <1>8, <1>9, <1>10, <1>11, <1>12,
     <1>13, <1>16, <1>17, <1>18, <1>19, <1>20, <1>21, <1>22, <1>23, <1>24, <1>25
     DEF Next, Tick, Operator

(* A loop that went idle has tried every submission, also one that arrived *)
(* during its tick (#pending).  An operator's retry is what can put the    *)
(* first attempt off to the timer: it moves the row's next attempt past    *)
(* the clock of a tick requested before it; and nobody tells the daemon of *)
(* a requeued row.                                                         *)
THEOREM PromptFirstAttemptAlways ==
  ASSUME {"retry", "requeue"} \cap Commands = {}, ~Unwritable
  PROVE  Spec => []PromptFirstAttempt
<1>1. Init => PromptInv
  BY DEF Init, QueueInit, PromptInv, Untried
<1>2. IInv /\ PromptInv => PromptFirstAttempt
  BY DEF PromptInv, PromptFirstAttempt, Untried, Awaited, Working, LiveIds, IInv,
     TypeOK, QueueTypeOK, LiveRow
<1>3. IInv /\ PromptInv /\ [Next]_vars => PromptInv'
  BY PromptStep
<1>4. QED
  BY <1>1, <1>2, <1>3, InvariantCorrect, PTL DEF Spec

-----------------------------------------------------------------------------
(* The next attempt stays near the window *)

LEMMA PowerOfZero == 2 ^ 0 = 1
<1>1. IsFiniteSet({}) /\ Cardinality({}) = 0
  BY FS_EmptySet
<1>2. Cardinality(SUBSET {}) = 2 ^ 0
  BY <1>1, FS_SUBSET
<1>3. SUBSET {} = {{}}
  OBVIOUS
<1>4. QED
  BY <1>2, <1>3, FS_Singleton

(* Every subset of 1..n gives two of 1..n+1.                               *)
LEMMA PowerDoubles == ASSUME NEW n \in Nat PROVE 2 ^ (n + 1) = 2 * 2 ^ n
<1> DEFINE S == SUBSET (1..n)
           T == {X \cup {n + 1} : X \in S}
           f == [X \in S |-> X \cup {n + 1}]
<1>1. /\ IsFiniteSet(1..n) /\ Cardinality(1..n) = n
      /\ IsFiniteSet(1..(n + 1)) /\ Cardinality(1..(n + 1)) = n + 1
  BY FS_Interval
<1>2. IsFiniteSet(S) /\ Cardinality(S) = 2 ^ n
  BY <1>1, FS_SUBSET
<1>3. Cardinality(SUBSET (1..(n + 1))) = 2 ^ (n + 1)
  BY <1>1, FS_SUBSET
<1>4. \A X \in S : n + 1 \notin X
  OBVIOUS
<1>5. f \in Bijection(S, T)
  <2>1. f \in [S -> T]
    OBVIOUS
  <2>2. ASSUME NEW X \in S, NEW Y \in S, f[X] = f[Y] PROVE X = Y
    BY <1>4, <2>2
  <2>3. \A Z \in T : \E X \in S : f[X] = Z
    OBVIOUS
  <2>4. QED
    BY <2>1, <2>2, <2>3 DEF Bijection, Injection, Surjection, IsInjective
<1>6. IsFiniteSet(T) /\ Cardinality(T) = 2 ^ n
  BY <1>2, <1>5, FS_Bijection DEF ExistsBijection
<1>7. SUBSET (1..(n + 1)) = S \cup T
  <2>1. ASSUME NEW X \in SUBSET (1..(n + 1)) PROVE X \in S \cup T
    <3>1. CASE n + 1 \in X
      <4>1. X \ {n + 1} \in S /\ X = (X \ {n + 1}) \cup {n + 1}
        BY <3>1
      <4>2. QED
        BY <4>1
    <3>2. CASE n + 1 \notin X
      BY <3>2
    <3>3. QED
      BY <3>1, <3>2
  <2>2. 1..n \subseteq 1..(n + 1) /\ n + 1 \in 1..(n + 1)
    OBVIOUS
  <2>3. QED
    BY <2>1, <2>2
<1>8. S \cap T = {}
  BY <1>4
<1> HIDE DEF S, T
<1>9. Cardinality(S \cup T) = 2 ^ n + 2 ^ n - 0
  BY <1>2, <1>6, <1>8, FS_Union, FS_EmptySet
<1>10. 2 ^ n \in Nat
  BY PowerOfTwo
<1> DEFINE d == 2 ^ n
<1>11. 2 ^ (n + 1) = d + d - 0
  BY <1>3, <1>7, <1>9
<1>12. d \in Nat
  BY <1>10
<1> HIDE DEF d
<1>13. 2 ^ (n + 1) = 2 * d
  BY <1>11, <1>12
<1>14. QED
  BY <1>13 DEF d

(* A row was attempted often only if long ago: the wait before its next    *)
(* attempt is what doubled.                                                *)
Backlog(row) == MinRetry * 2 ^ row.attempts

NearWindow(row) ==
    /\ row.first + Backlog(row) <= row.next + MinRetry
    /\ row.next <= row.first + 2 * GiveUp + MinRetry

Relayed == {"relaying", "settle"}

(* The tick reaches a row once it is due, and works on it from then on.  A *)
(* settle that fails, the disk being sound, is one of a row that is gone.  *)
WindowInv ==
    /\ \A id \in Ids : live[id] # NoRow => NearWindow(live[id])
    /\ todo \subseteq minted
    /\ \A id \in todo : live[id] # NoRow => live[id].next <= at
    /\ pc \in Relayed =>
          /\ cur \notin todo
          /\ entry.first + Backlog(entry) <= at + MinRetry
          /\ live[cur] # NoRow => live[cur].first = entry.first
    /\ pc = "defer" => live[cur] = NoRow

LEMMA BacklogType == ASSUME NEW row \in LiveRow PROVE Backlog(row) \in Nat
<1> DEFINE e == 2 ^ row.attempts
<1>1. e \in Nat
  BY PowerOfTwo DEF LiveRow
<1> HIDE DEF e
<1>2. MinRetry * e \in Nat
  BY <1>1, QueueAssumption
<1>3. QED
  BY <1>2 DEF Backlog, e

(* A row not yet attempted is due at once.                                 *)
LEMMA FirstAttempt ==
  ASSUME NEW row, row.attempts = 0, row.first \in Nat, row.next = row.first
  PROVE  NearWindow(row)
<1>1. Backlog(row) = MinRetry
  BY PowerOfZero, QueueAssumption DEF Backlog
<1>2. QED
  BY <1>1, QueueAssumption DEF NearWindow

LEMMA BackoffAfter == ASSUME NEW n \in Nat PROVE BackoffMs(n + 1) = MinRetry * 2 ^ n
<1> DEFINE m == n + 1
<1>1. m \in Nat /\ m - 1 = n /\ (m > 1 \/ n = 0)
  OBVIOUS
<1> HIDE DEF m
<1> DEFINE k == IF m > 1 THEN m - 1 ELSE 0
<1>2. k = n
  BY <1>1
<1>3. BackoffMs(m) = MinRetry * 2 ^ k
  BY DEF BackoffMs
<1> HIDE DEF k
<1>4. QED
  BY <1>2, <1>3 DEF m

(* A row postponed by a backoff was due before its window ended, so that   *)
(* backoff, no longer than the waits before it, cannot outrun the window.  *)
LEMMA BackoffInWindow ==
  ASSUME NEW old \in LiveRow, NEW row \in LiveRow, NEW t \in Nat,
         row.attempts = old.attempts + 1, row.first = old.first,
         row.next = t + BackoffMs(old.attempts + 1),
         old.first + Backlog(old) <= t + MinRetry, ~Expired(old.first, t)
  PROVE  NearWindow(row)
<1> DEFINE e == 2 ^ old.attempts
           b == MinRetry * e
<1>1. old.attempts \in Nat /\ e \in Nat
  BY PowerOfTwo DEF LiveRow
<1>2. 2 ^ row.attempts = 2 * e
  BY <1>1, PowerDoubles
<1>3. BackoffMs(old.attempts + 1) = b
  BY <1>1, BackoffAfter
<1>4. Backlog(old) = b /\ b \in Nat
  BY BacklogType DEF Backlog
<1> HIDE DEF e
<1>5. Backlog(row) = MinRetry * (2 * e)
  BY <1>2 DEF Backlog
<1>6. MinRetry * (2 * e) = 2 * (MinRetry * e)
  BY <1>1, QueueAssumption
<1> HIDE DEF b
<1>7. Backlog(row) = 2 * b
  BY <1>5, <1>6 DEF b
<1>8. /\ row.first = old.first /\ row.next = t + b
      /\ old.first + b <= t + MinRetry /\ t - old.first < GiveUp
      /\ old.first \in Nat
  BY <1>3, <1>4, QueueAssumption DEF Expired, LiveRow
<1>9. QED
  BY <1>4, <1>7, <1>8, QueueAssumption DEF NearWindow

(* The tick goes on with the row it works on, or leaves it.                *)
LEMMA WindowFrame ==
  ASSUME IInv, WindowInv,
         \A id \in Ids : \/ live'[id] \in {NoRow, live[id]}
                         \/ /\ id \notin todo /\ (pc' \in Relayed => id # cur)
                            /\ NearWindow(live'[id]),
         minted \subseteq minted', todo' \subseteq todo, todo' = {} \/ at' = at,
         pc' \in Relayed => pc \in Relayed /\ UNCHANGED <<cur, entry, at>>,
         pc' = "defer" => live'[cur] = NoRow /\ cur' = cur
  PROVE  WindowInv'
<1>1. \A id \in Ids : live'[id] # NoRow => NearWindow(live'[id])
  BY DEF WindowInv
<1>2. \A id \in todo' : live'[id] # NoRow => live'[id].next <= at'
  BY DEF WindowInv, IInv, TypeOK
<1>3. ASSUME pc' \in Relayed
      PROVE  /\ cur' \notin todo'
             /\ entry'.first + Backlog(entry') <= at' + MinRetry
             /\ live'[cur'] # NoRow => live'[cur'].first = entry'.first
  <2>1. pc \in Relayed /\ cur' = cur /\ entry' = entry /\ at' = at /\ cur \in Ids
    BY <1>3 DEF Relayed, IInv, EntryLoaded
  <2>2. live'[cur] \in {NoRow, live[cur]}
    BY <1>3, <2>1
  <2>3. QED
    BY <2>1, <2>2 DEF WindowInv
<1>4. QED
  BY <1>1, <1>2, <1>3 DEF WindowInv, Backlog, NearWindow

LEMMA WindowStep ==
  ASSUME MaxFaults = 0, "retry" \notin Commands, IInv, QueueOrDeadLetter, WindowInv,
         [Next]_vars
  PROVE  WindowInv'
<1> USE DEF loopVars, boundVars, sentVars, noticeVars, historyVars, queueVars,
            loopFrame, procFrame, opFrame, Relayed
<1>1. ASSUME NEW id, NEW mail, NEW from, NEW R, Enqueue(id, mail, from, R, now)
      PROVE  /\ id \notin todo /\ id # cur /\ NearWindow(live'[id])
             /\ \A j \in Ids \ {id} : live'[j] = live[j]
             /\ minted \subseteq minted'
  <2>1. id \in Ids \ minted /\ minted' = minted \cup {id} /\ id # cur
    BY <1>1, FreshId DEF Enqueue
  <2>2. /\ live'[id] = [mail |-> mail, from |-> from, rcpts |-> R, first |-> now,
                        attempts |-> 0, next |-> now]
        /\ \A j \in Ids \ {id} : live'[j] = live[j]
    BY <1>1, <2>1 DEF Enqueue, IInv, TypeOK, QueueTypeOK
  <2>3. NearWindow(live'[id])
    BY <2>2, FirstAttempt DEF IInv, TypeOK
  <2>4. QED
    BY <2>1, <2>2, <2>3 DEF WindowInv
<1>2. ASSUME NEW mail \in Mails, NEW R \in SUBSET Rcpts, Submit(mail, R)
      PROVE  WindowInv'
  <2>1. PICK id \in Ids : Enqueue(id, mail, Owner, R, now)
    BY <1>2 DEF Submit
  <2>2. /\ id \notin todo /\ id # cur /\ NearWindow(live'[id]) /\ minted \subseteq minted'
        /\ \A j \in Ids \ {id} : live'[j] = live[j]
    BY <1>1, <2>1
  <2>3. UNCHANGED <<at, todo, cur, entry>> /\ pc' \in {pc, "batch"} /\ pc # "defer"
    BY <1>2 DEF Submit, RequestTick, JsTurn
  <2>4. QED
    BY <2>2, <2>3, WindowFrame
<1>3. CASE TimerTick \/ Boot \/ Stop \/ Clock
  <2>1. UNCHANGED <<live, minted, at, todo, cur, entry>> /\ pc' \in {pc, "batch"}
    BY <1>3 DEF TimerTick, Boot, Stop, Clock, RequestTick
  <2>2. QED
    BY <2>1, WindowFrame DEF WindowInv
<1>4. CASE Close \/ Crash \/ EndTick
  BY <1>4, WindowFrame DEF Close, Crash, EndTick, Quiet
<1>5. CASE UNCHANGED vars
  BY <1>5, WindowFrame DEF vars, WindowInv
<1>6. CASE StartBatch
  <2>1. todo' \subseteq minted /\ \A id \in todo' : live[id].next <= at'
    BY <1>6 DEF StartBatch, DueIds, LiveIds, IInv, MintedIds
  <2>2. QED
    BY <1>6, <2>1 DEF StartBatch, WindowInv
<1>7. CASE EndBatch
  BY <1>7, WindowFrame DEF EndBatch
<1>8. ASSUME NEW id \in Ids, SkipGone(id) PROVE WindowInv'
  BY <1>8, WindowFrame DEF SkipGone
<1>9. ASSUME NEW id \in Ids, LoadEntry(id) PROVE WindowInv'
  <2>1. /\ live[id] \in LiveRow /\ NearWindow(live[id]) /\ live[id].next <= at /\ at \in Nat
        /\ live[id] # NoRow
    BY <1>9 DEF LoadEntry, WindowInv, IInv, TypeOK, QueueTypeOK
  <2>2. live[id].first + Backlog(live[id]) <= at + MinRetry
    BY <2>1, BacklogType, QueueAssumption DEF NearWindow, LiveRow
  <2>3. /\ cur' = id /\ entry' = live[id] /\ pc' = "relaying" /\ todo' = todo \ {id}
        /\ UNCHANGED <<live, minted, at>>
    BY <1>9 DEF LoadEntry
  <2>4. Backlog(entry') = Backlog(live[id])
    BY <2>3
  <2>5. QED
    BY <2>2, <2>3, <2>4 DEF WindowInv, Backlog
<1>10. CASE Relay
  BY <1>10, WindowFrame DEF Relay, RelayReturns
<1>11. CASE SettleDelivered \/ SettleRefused \/ SettleGaveUp
  <2>1. /\ \A id \in Ids : live'[id] \in {NoRow, live[id]}
        /\ UNCHANGED minted
    BY <1>11 DEF SettleDelivered, SettleRefused, SettleGaveUp, Remove, DeadLetter, IInv,
                 TypeOK, QueueTypeOK
  <2>2. QED
    BY <1>11, <2>1, WindowFrame
       DEF SettleDelivered, SettleRefused, SettleGaveUp, Committed
<1>12. CASE SettleDeferred
  <2>1. /\ pc = "settle" /\ pc' = "bounce" /\ UNCHANGED <<at, todo, cur, entry, minted>>
        /\ cur \in Ids /\ entry \in LiveRow /\ at \in Nat
        /\ \A id \in Ids \ {cur} : live'[id] = live[id]
        /\ live[cur] = NoRow => live'[cur] = NoRow
    BY <1>12 DEF SettleDeferred, Committed, Reschedule, IInv, EntryLoaded, TypeOK, QueueTypeOK
  <2>2. CASE live[cur] = NoRow
    BY <2>1, <2>2, WindowFrame
  <2>3. CASE live[cur] # NoRow
    <3> DEFINE row == [live[cur] EXCEPT !.rcpts = retryLater, !.attempts = Attempts,
                                        !.next = at + BackoffMs(Attempts)]
    <3>1. live[cur] \in LiveRow /\ live[cur].first = entry.first
      BY <2>1, <2>3 DEF WindowInv, IInv, TypeOK, QueueTypeOK
    <3>2. Attempts \in Nat /\ at + BackoffMs(Attempts) \in Nat /\ retryLater \subseteq Addrs
      BY <2>1, BackoffType, QueueAssumption DEF Attempts, LiveRow, IInv, TypeOK
    <3>3. /\ row \in LiveRow /\ row.attempts = entry.attempts + 1 /\ row.first = entry.first
          /\ row.next = at + BackoffMs(entry.attempts + 1)
      BY <3>1, <3>2 DEF LiveRow, Attempts
    <3>4. live'[cur] = row
      BY <1>12, <2>1, <2>3 DEF SettleDeferred, Reschedule, IInv, TypeOK, QueueTypeOK
    <3> HIDE DEF row
    <3>5. NearWindow(row)
      BY <1>12, <2>1, <3>3, BackoffInWindow DEF SettleDeferred, WindowInv
    <3>6. NearWindow(live'[cur])
      BY <3>4, <3>5
    <3>7. cur \notin todo
      BY <2>1 DEF WindowInv
    <3>8. QED
      BY <2>1, <3>6, <3>7, WindowFrame
  <2>4. QED
    BY <2>2, <2>3
<1>13. CASE SettleFails
  <2>1. ~CanDeadLetter(cur) /\ cur \in Ids
    BY <1>13 DEF SettleFails, IInv, TypeOK, EntryLoaded
  <2>2. live[cur] = NoRow
    BY <2>1 DEF CanDeadLetter, QueueOrDeadLetter, LiveIds, DeadIds
  <2>3. QED
    BY <1>13, <2>2, WindowFrame DEF SettleFails
<1>14. CASE Defer
  <2>1. cur \in Ids /\ live[cur] = NoRow
    BY <1>14 DEF Defer, WindowInv, IInv, EntryLoaded
  <2>2. \A id \in Ids : live'[id] = live[id]
    BY <1>14, <2>1 DEF Defer, Reschedule, IInv, TypeOK, QueueTypeOK
  <2>3. QED
    BY <1>14, <2>2, WindowFrame DEF Defer, NextEntry, Reschedule
<1>15. CASE DeferFails \/ NoBounce
  BY <1>15, WindowFrame DEF DeferFails, NoBounce, NextEntry
<1>16. CASE Bounce
  <2>1. pc' = "drain" /\ UNCHANGED <<at, todo>>
    BY <1>16 DEF Bounce, NextEntry
  <2>2. CASE UNCHANGED queueVars
    BY <2>1, <2>2, WindowFrame
  <2>3. ASSUME NEW id \in Ids, Enqueue(id, entry.mail, NullSender, {entry.from}, now)
        PROVE  WindowInv'
    <3>1. /\ id \notin todo /\ NearWindow(live'[id]) /\ minted \subseteq minted'
          /\ \A j \in Ids \ {id} : live'[j] = live[j]
      BY <1>1, <2>3
    <3>2. QED
      BY <2>1, <3>1, WindowFrame
  <2>4. QED
    BY <1>16, <2>2, <2>3 DEF Bounce
<1>17. ASSUME NEW id \in Ids, CliCancelRead(id) \/ CliPurge(id) PROVE WindowInv'
  BY <1>17, WindowFrame DEF CliCancelRead, CliPurge, PurgeDeadLetter, WindowInv
<1>18. CASE CliCancelCommit
  <2>1. (\A id \in Ids : live'[id] \in {NoRow, live[id]}) /\ UNCHANGED <<minted, loopVars>>
    BY <1>18 DEF CliCancelCommit, DeadLetter, IInv, TypeOK, QueueTypeOK
  <2>2. QED
    BY <2>1, WindowFrame DEF WindowInv, IInv, EntryLoaded
<1>19. ASSUME NEW id \in Ids, CliRequeue(id) PROVE WindowInv'
  <2>1. PICK newId \in Ids : Enqueue(newId, dead[id].mail, dead[id].from, dead[id].rcpts, now)
    BY <1>19 DEF CliRequeue, RequeueDeadLetter
  <2>2. /\ newId \notin todo /\ newId # cur /\ NearWindow(live'[newId])
        /\ minted \subseteq minted' /\ \A j \in Ids \ {newId} : live'[j] = live[j]
    BY <1>1, <2>1
  <2>3. UNCHANGED loopVars
    BY <1>19 DEF CliRequeue
  <2>4. pc = "defer" => cur \in Ids /\ cur # newId
    BY <2>2 DEF IInv, EntryLoaded
  <2>5. QED
    BY <2>2, <2>3, <2>4, WindowFrame DEF WindowInv
<1>20. CASE CliRetry
  BY <1>20 DEF CliRetry, Command
<1>21. QED
  BY <1>2, <1>3, <1>4, <1>5, <1>6, <1>7, <1>8, <1>9, <1>10, <1>11, <1>12, <1>13,
     <1>14, <1>15, <1>16, <1>17, <1>18, <1>19, <1>20 DEF Next, Tick, Operator

(* On a sound disk, and with nobody moving a row's schedule by hand, the   *)
(* backoff never runs away: the row is tried again within the window, or   *)
(* soon after.  A failed settle counts as an attempt that waited less, so  *)
(* many of them would let the next backoff outrun the window.              *)
THEOREM NextAttemptNearWindowAlways ==
  ASSUME MaxFaults = 0, "retry" \notin Commands
  PROVE  Spec => []NextAttemptNearWindow
<1>1. Init => WindowInv
  BY DEF Init, QueueInit, WindowInv, Relayed
<1>2. IInv /\ QueueOrDeadLetter /\ WindowInv /\ [Next]_vars => WindowInv'
  BY WindowStep
<1>3. WindowInv => NextAttemptNearWindow
  BY DEF WindowInv, NearWindow, NextAttemptNearWindow, LiveIds
<1>4. QED
  BY <1>1, <1>2, <1>3, InvariantCorrect, OneStoreAlways, PTL DEF Spec

=============================================================================
