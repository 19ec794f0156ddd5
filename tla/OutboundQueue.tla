---------------------------- MODULE OutboundQueue ----------------------------
(***************************************************************************)
(* The persistent outbound queue: the two tables outbound_queue (live) and *)
(* dead_letter (dead) of the control database, and the retry decision the  *)
(* relay loop shares with the reference queue.                             *)
(*                                                                         *)
(* Each operator below is one SQLite statement or one transaction, so it   *)
(* is atomic against the other processes that open the database.  A row's  *)
(* message is abstracted to a member of Mails, its recipient list to a set *)
(* of addresses; a dead letter keeps only what a requeue reads.            *)
(*                                                                         *)
(* An operator named Bug... is the definition after it as a plausible      *)
(* mistake would have it; nothing uses it.  It serves to show that the     *)
(* properties notice the mistake.                                          *)
(***************************************************************************)
EXTENDS Integers, FiniteSets

CONSTANTS
    Ids,         \* the UUIDs enqueue can draw; a drawn one is never drawn again
    Mails,       \* the messages users submit
    Rcpts,       \* remote recipient addresses
    Owner,       \* the envelope sender of every submission
    NullSender,  \* the empty return-path of a non-delivery report
    NoRow,       \* "no such row"
    MinRetry,    \* MIN_RETRY_MS in clock units
    GiveUp       \* GIVE_UP_MS in clock units

Addrs == Rcpts \cup {Owner}

(* A live row.  from = NullSender marks a non-delivery report about mail.  *)
LiveRow == [mail: Mails, from: {Owner, NullSender}, rcpts: SUBSET Addrs,
            first: Nat, attempts: Nat, next: Nat]

DeadRow == [mail: Mails, from: {Owner, NullSender}, rcpts: SUBSET Addrs]

ASSUME QueueAssumption ==
    /\ MinRetry \in Nat
    /\ GiveUp \in Nat
    /\ Owner # NullSender
    /\ NoRow \notin Ids \cup LiveRow \cup DeadRow

VARIABLES
    live,    \* outbound_queue: id -> row or NoRow
    dead,    \* dead_letter:    id -> row or NoRow
    minted   \* the ids drawn so far (randomUUID never repeats one)

queueVars == <<live, dead, minted>>

QueueTypeOK ==
    /\ live \in [Ids -> LiveRow \cup {NoRow}]
    /\ dead \in [Ids -> DeadRow \cup {NoRow}]
    /\ minted \subseteq Ids

QueueInit ==
    /\ live = [id \in Ids |-> NoRow]
    /\ dead = [id \in Ids |-> NoRow]
    /\ minted = {}

-----------------------------------------------------------------------------
(* The retry decision *)

\* Backoff after the n-th attempt: doubling, floored at the minimum delay.
BackoffMs(n) == MinRetry * 2 ^ (IF n > 1 THEN n - 1 ELSE 0)

\* Never give up.
BugExpired(first, t) == FALSE

\* decideRetry for a transient outcome gives up once the window has elapsed.
Expired(first, t) == t - first >= GiveUp

-----------------------------------------------------------------------------
(* Reads *)

LiveIds == {id \in Ids : live[id] # NoRow}
DeadIds == {id \in Ids : dead[id] # NoRow}

Size == Cardinality(LiveIds)

DueIds(t) == {id \in LiveIds : live[id].next <= t}

\* The recipients to requeue to are not kept.
BugAsDeadRow(row, R) == [mail |-> row.mail, from |-> row.from, rcpts |-> {}]

AsDeadRow(row, R) == [mail |-> row.mail, from |-> row.from, rcpts |-> R]

-----------------------------------------------------------------------------
(* Writes *)

Enqueue(id, mail, from, R, t) ==
    /\ id \in Ids \ minted
    /\ minted' = minted \cup {id}
    /\ live' = [live EXCEPT ![id] = [mail |-> mail, from |-> from, rcpts |-> R,
                                     first |-> t, attempts |-> 0, next |-> t]]

\* UPDATE ... WHERE id = ?: no effect when the row has gone meanwhile.
Reschedule(id, R, n, t) ==
    /\ live' = [live EXCEPT ![id] =
                  IF @ = NoRow THEN NoRow
                  ELSE [@ EXCEPT !.rcpts = R, !.attempts = n, !.next = t]]
    /\ UNCHANGED <<dead, minted>>

Remove(id) ==
    /\ live' = [live EXCEPT ![id] = NoRow]
    /\ UNCHANGED <<dead, minted>>

\* The INSERT of a move into dead_letter fails on the primary key when that id
\* is already dead-lettered, and the transaction rolls back.
CanDeadLetter(id) == dead[id] = NoRow

\* The live row stays.
BugDeadLetter(id, row, R) ==
    /\ CanDeadLetter(id)
    /\ dead' = [dead EXCEPT ![id] = AsDeadRow(row, R)]
    /\ UNCHANGED <<live, minted>>

\* Insert the dead letter and delete the live row in one transaction.
DeadLetter(id, row, R) ==
    /\ CanDeadLetter(id)
    /\ dead' = [dead EXCEPT ![id] = AsDeadRow(row, R)]
    /\ live' = [live EXCEPT ![id] = NoRow]
    /\ UNCHANGED minted

RetryNow(S, t) ==
    /\ live' = [id \in Ids |-> IF id \in S THEN [live[id] EXCEPT !.next = t]
                                           ELSE live[id]]
    /\ UNCHANGED <<dead, minted>>

\* A dead letter becomes a fresh live row: new id, attempts and window restart.
RequeueDeadLetter(id, newId, t) ==
    /\ Enqueue(newId, dead[id].mail, dead[id].from, dead[id].rcpts, t)
    /\ dead' = [dead EXCEPT ![id] = NoRow]

PurgeDeadLetter(id) ==
    /\ dead' = [dead EXCEPT ![id] = NoRow]
    /\ UNCHANGED <<live, minted>>
==============================================================================
