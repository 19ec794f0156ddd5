------------------------------ MODULE RelayLoop ------------------------------
(***************************************************************************)
(* The relay loop draining the outbound queue, together with everything    *)
(* that interleaves with it: submissions, the interval timer, shutdown, a  *)
(* crash and the next boot, a store write that fails, and the operator's   *)
(* queue/dead-letter commands, which run in another process on the same    *)
(* database.                                                               *)
(*                                                                         *)
(* The daemon is one JavaScript thread.  pc is where the tick is:          *)
(*   idle      no tick running (#ticking false)                            *)
(*   batch     at the head of "while (#pending !== null)"                  *)
(*   drain     at the head of the loop over the due ids                    *)
(*   relaying  awaiting the relay of `entry`, a copy of row `cur`          *)
(*   settle    the results are in, the row's transition is not committed   *)
(*   defer     that transition threw; the catch block is about to run      *)
(*   bounce    it committed; the bounce is about to be emitted             *)
(* Another callback of the daemon runs only while the tick awaits a relay  *)
(* or no tick runs (JsTurn): the rest is straight-line code.  One that     *)
(* slips in when the tick resumes might as well have run before the relay  *)
(* answered.  The operator's process and a crash interleave everywhere.    *)
(*                                                                         *)
(* An operator named Bug... is the definition after it as a plausible      *)
(* mistake would have it; nothing uses it.  It serves to show that the     *)
(* properties notice the mistake.                                          *)
(***************************************************************************)
EXTENDS OutboundQueue

CONSTANTS
    NoTime,        \* #pending = null
    NoCli,         \* no operator command is half way
    SettleBackoff, \* SETTLE_FAILURE_BACKOFF_MS in clock units
    MaxDepth,      \* maxQueueDepth
    Outcomes,      \* the outcomes a recipient's relay may have
    HoldModes,     \* the outbound modes an operator boots the daemon in
    Commands,      \* the operator commands in use
    Unwritable,    \* whether the deferral write of a failed settle may fail too
    \* bounds of the model
    MaxTime, MaxCrashes, MaxFaults, MaxOps, SubmitBy

(* "success" and "permanent" are the classifications of RelayResult;       *)
(* "transient", "indeterminate" (the peer may hold the copy, no reply) and *)
(* "skipped" (not attempted: the abort signal was tripped) are the three   *)
(* ways the classification can be transient.                               *)
AllOutcomes == {"success", "transient", "indeterminate", "permanent", "skipped"}

ASSUME RelayAssumption ==
    /\ NoTime \notin Nat
    /\ SettleBackoff \in Nat
    /\ MaxDepth \in Nat
    /\ Outcomes \subseteq AllOutcomes
    /\ HoldModes \subseteq BOOLEAN
    /\ Commands \subseteq {"retry", "cancel", "requeue", "purge"}
    /\ Unwritable \in BOOLEAN
    /\ {MaxTime, MaxCrashes, MaxFaults, MaxOps, SubmitBy} \subseteq Nat
    /\ NoCli \notin [id: Ids, row: LiveRow]

VARIABLES
    lifecycle,          \* "down", "up", or "stopping" once stop() was called
    hold,               \* MAIL_OUTBOUND=hold: no tick is ever requested
    pc,
    pending,            \* #pending: the clock of a tick not yet started
    at,                 \* the running batch's clock
    todo,               \* the due ids not yet reached in this batch
    cur, entry,         \* the row being processed, as read before the await
    retryLater, permanentFailures, toBounce,
    cli,                \* a queue cancel between its SELECT and its transaction
    now,                \* Date.now()
    crashes, faults, ops,                   \* counters the bounds cap
    \* what has happened to a recipient of a message (history)
    accepted,           \* the submission was answered 250
    sent, resent,       \* the peer holds one copy / more than one copy
    rejected,           \* the relay's verdict was permanent
    notified, renotified, \* a row's failure was reported once / again
    purged              \* the operator discarded it

loopVars == <<pc, pending, at, todo, cur, entry, retryLater,
              permanentFailures, toBounce>>
boundVars == <<crashes, faults, ops>>
sentVars == <<sent, resent, rejected>>
noticeVars == <<notified, renotified>>
historyVars == <<accepted, sentVars, noticeVars, purged>>
vars == <<queueVars, lifecycle, hold, loopVars, cli, now, boundVars, historyVars>>

Pairs == Mails \X Rcpts

\* The user-visible recipients of a row: a report's own recipient is not one.
PairsOf(row, R) == IF row.from = NullSender THEN {}
                   ELSE {p \in Pairs : p[1] = row.mail /\ p[2] \in R}

TypeOK ==
    /\ QueueTypeOK
    /\ lifecycle \in {"down", "up", "stopping"}
    /\ hold \in BOOLEAN
    /\ pc \in {"idle", "batch", "drain", "relaying", "settle", "defer", "bounce"}
    /\ pending \in Nat \cup {NoTime}
    /\ at \in Nat
    /\ todo \subseteq Ids
    /\ cur \in Ids \cup {NoRow}
    /\ entry \in LiveRow \cup {NoRow}
    /\ retryLater \subseteq Addrs /\ permanentFailures \subseteq Addrs
    /\ toBounce \subseteq Addrs
    /\ cli \in [id: Ids, row: LiveRow] \cup {NoCli}
    /\ now \in Nat
    /\ crashes \in Nat /\ faults \in Nat /\ ops \in Nat
    /\ accepted \subseteq Pairs /\ sent \subseteq Pairs /\ resent \subseteq Pairs
    /\ rejected \subseteq Pairs /\ purged \subseteq Pairs
    /\ notified \subseteq Ids \X Pairs /\ renotified \subseteq Ids \X Pairs

\* The tick's own variables when no tick is running.
Quiet(p) ==
    /\ pc' = "idle" /\ pending' = p /\ at' = 0 /\ todo' = {}
    /\ cur' = NoRow /\ entry' = NoRow
    /\ retryLater' = {} /\ permanentFailures' = {} /\ toBounce' = {}

Init ==
    /\ QueueInit
    /\ lifecycle = "down" /\ hold = FALSE
    /\ pc = "idle" /\ pending = NoTime /\ at = 0 /\ todo = {}
    /\ cur = NoRow /\ entry = NoRow
    /\ retryLater = {} /\ permanentFailures = {} /\ toBounce = {}
    /\ cli = NoCli
    /\ now = 0
    /\ crashes = 0 /\ faults = 0 /\ ops = 0
    /\ accepted = {} /\ sent = {} /\ resent = {} /\ rejected = {}
    /\ notified = {} /\ renotified = {} /\ purged = {}

-----------------------------------------------------------------------------
(* Requesting a tick *)

JsTurn == lifecycle # "down" /\ pc \in {"idle", "relaying"}

\* A request that arrives during a tick is dropped.
BugRequestTick ==
    /\ pending' = IF pc = "idle" THEN now ELSE pending
    /\ pc' = IF pc = "idle" THEN "batch" ELSE pc
    /\ UNCHANGED <<at, todo, cur, entry, retryLater, permanentFailures,
                   toBounce>>

\* tick(now): remember the request, and start the tick if none is running.
RequestTick ==
    /\ pending' = now
    /\ pc' = IF pc = "idle" THEN "batch" ELSE pc
    /\ UNCHANGED <<at, todo, cur, entry, retryLater, permanentFailures,
                   toBounce>>

\* The submission handler's last steps: the depth check, the enqueue, the kick.
Submit(mail, R) ==
    /\ JsTurn
    /\ now <= SubmitBy
    /\ Size < MaxDepth
    /\ \A r \in Rcpts : <<mail, r>> \notin accepted
    /\ \E id \in Ids : Enqueue(id, mail, Owner, R, now)
    /\ accepted' = accepted \cup {p \in Pairs : p[1] = mail /\ p[2] \in R}
    /\ IF hold THEN UNCHANGED loopVars ELSE RequestTick
    /\ UNCHANGED <<dead, lifecycle, hold, cli, now, boundVars,
                   sentVars, noticeVars, purged>>

TimerTick ==
    /\ JsTurn
    /\ lifecycle = "up"
    /\ ~hold
    /\ RequestTick
    /\ UNCHANGED <<queueVars, lifecycle, hold, cli, now, boundVars, historyVars>>

-----------------------------------------------------------------------------
(* The tick *)

loopFrame == <<lifecycle, hold, cli, now, crashes, ops, accepted, purged>>

\* #stopped
Stopped == lifecycle = "stopping"

StartBatch ==
    /\ pc = "batch"
    /\ pending # NoTime
    /\ ~Stopped
    /\ at' = pending
    /\ pending' = NoTime
    /\ todo' = DueIds(pending)
    /\ pc' = "drain"
    /\ UNCHANGED <<cur, entry, retryLater, permanentFailures, toBounce>>
    /\ UNCHANGED <<queueVars, loopFrame, faults, sentVars, noticeVars>>

\* The loop over the due ids skips the rest of them but never ends.
BugEndTick ==
    /\ pc = "batch" /\ (pending = NoTime \/ Stopped)
    /\ Quiet(pending)
    /\ UNCHANGED <<queueVars, loopFrame, faults, sentVars, noticeVars>>

\* Nothing pending, or stop() was called: the tick returns.
EndTick ==
    /\ \/ pc = "batch" /\ (pending = NoTime \/ Stopped)
       \/ pc = "drain" /\ Stopped /\ todo # {}
    /\ Quiet(pending)
    /\ UNCHANGED <<queueVars, loopFrame, faults, sentVars, noticeVars>>

EndBatch ==
    /\ pc = "drain"
    /\ todo = {}
    /\ pc' = "batch"
    /\ at' = 0
    /\ UNCHANGED <<pending, todo, cur, entry, retryLater, permanentFailures,
                   toBounce>>
    /\ UNCHANGED <<queueVars, loopFrame, faults, sentVars, noticeVars>>

\* queue.entry(id) found no row: it was settled or cancelled meanwhile.
SkipGone(id) ==
    /\ pc = "drain"
    /\ ~Stopped
    /\ id \in todo
    /\ live[id] = NoRow
    /\ todo' = todo \ {id}
    /\ UNCHANGED <<pc, pending, at, cur, entry, retryLater, permanentFailures,
                   toBounce>>
    /\ UNCHANGED <<queueVars, loopFrame, faults, sentVars, noticeVars>>

\* Load the next due row, oldest first, and hand it to the relay.
LoadEntry(id) ==
    /\ pc = "drain"
    /\ ~Stopped
    /\ id \in todo
    /\ live[id] # NoRow
    /\ \A o \in todo : live[o] # NoRow => live[id].first <= live[o].first
    /\ todo' = todo \ {id}
    /\ cur' = id
    /\ entry' = live[id]
    /\ pc' = "relaying"
    /\ UNCHANGED <<pending, at, retryLater, permanentFailures, toBounce>>
    /\ UNCHANGED <<queueVars, loopFrame, faults, sentVars, noticeVars>>

\* Who was not tried is taken for done.
BugTransient == {"transient", "indeterminate"}

\* The outcomes classified as transient.
Transient == {"transient", "indeterminate", "skipped"}

\* relayOutbound resolves with one result per recipient (one that throws counts
\* as transient for all).  Only a tripped abort signal leaves a recipient untried.
RelayReturns(out) ==
    /\ "skipped" \in {out[r] : r \in entry.rcpts} => lifecycle = "stopping"
    /\ LET classed(c) == {r \in entry.rcpts : out[r] \in c}
           held == PairsOf(entry, classed({"success", "indeterminate"}))
       IN /\ retryLater' = classed(Transient)
          /\ permanentFailures' = classed({"permanent"})
          /\ sent' = sent \cup held
          /\ resent' = resent \cup (sent \cap held)
          /\ rejected' = rejected \cup PairsOf(entry, classed({"permanent"}))
    /\ pc' = "settle"
    /\ UNCHANGED <<pending, at, todo, cur, entry, toBounce>>
    /\ UNCHANGED <<queueVars, loopFrame, faults, noticeVars>>

Attempts == entry.attempts + 1

\* A committed transition leads to the bounce, and drops what it was computed from.
Committed(bouncing) ==
    /\ pc' = "bounce"
    /\ toBounce' = bouncing
    /\ retryLater' = {} /\ permanentFailures' = {}
    /\ UNCHANGED <<pending, at, todo, cur, entry>>
    /\ UNCHANGED <<loopFrame, faults, sentVars, noticeVars>>

\* #settle, everyone delivered: drop the live row.
SettleDelivered ==
    /\ pc = "settle"
    /\ retryLater = {} /\ permanentFailures = {}
    /\ Remove(cur)
    /\ Committed({})

\* #settle, some refused and none left to retry: dead-letter the refused.
SettleRefused ==
    /\ pc = "settle"
    /\ retryLater = {} /\ permanentFailures # {}
    /\ DeadLetter(cur, entry, permanentFailures)
    /\ Committed(permanentFailures)

\* The refused stay on the row with those to retry.
BugSettleDeferred ==
    /\ pc = "settle"
    /\ retryLater # {} /\ ~Expired(entry.first, at)
    /\ Reschedule(cur, retryLater \cup permanentFailures, Attempts, at + BackoffMs(Attempts))
    /\ Committed(permanentFailures)

\* Someone to retry within the window: the row keeps those only.
SettleDeferred ==
    /\ pc = "settle"
    /\ retryLater # {} /\ ~Expired(entry.first, at)
    /\ Reschedule(cur, retryLater, Attempts, at + BackoffMs(Attempts))
    /\ Committed(permanentFailures)

\* The row is dropped, and only its recipients given up are bounced.
BugSettleGaveUp ==
    /\ pc = "settle"
    /\ retryLater # {} /\ Expired(entry.first, at)
    /\ Remove(cur)
    /\ Committed(retryLater)

\* The window has elapsed: dead-letter those left, bounce them and the refused.
SettleGaveUp ==
    /\ pc = "settle"
    /\ retryLater # {} /\ Expired(entry.first, at)
    /\ DeadLetter(cur, entry, retryLater)
    /\ Committed(permanentFailures \cup retryLater)

\* The settle's write threw: the disk or a lock, or the primary key of dead_letter.
SettleFails ==
    /\ pc = "settle"
    /\ LET moves == \/ retryLater = {} /\ permanentFailures # {}
                    \/ retryLater # {} /\ Expired(entry.first, at)
       IN \/ moves /\ ~CanDeadLetter(cur) /\ UNCHANGED faults
          \/ faults < MaxFaults /\ faults' = faults + 1
    /\ pc' = "defer"
    /\ UNCHANGED <<pending, at, todo, cur, entry, retryLater, permanentFailures,
                   toBounce>>
    /\ UNCHANGED <<queueVars, loopFrame, sentVars, noticeVars>>

\* processEntry returns to the loop over the due ids.
NextEntry ==
    /\ pc' = "drain"
    /\ cur' = NoRow /\ entry' = NoRow
    /\ retryLater' = {} /\ permanentFailures' = {} /\ toBounce' = {}
    /\ UNCHANGED <<pending, at, todo>>

\* Everyone is tried again, the delivered included.
BugDefer ==
    /\ pc = "defer"
    /\ Reschedule(cur, entry.rcpts, Attempts, at + SettleBackoff)
    /\ NextEntry
    /\ UNCHANGED <<loopFrame, faults, sentVars, noticeVars>>

\* The catch block: keep whoever is not durably settled on the row, no bounce.
Defer ==
    /\ pc = "defer"
    /\ Reschedule(cur, retryLater \cup permanentFailures, Attempts, at + SettleBackoff)
    /\ NextEntry
    /\ UNCHANGED <<loopFrame, faults, sentVars, noticeVars>>

\* The deferral threw too: the row stays as it was.
DeferFails ==
    /\ pc = "defer"
    /\ Unwritable
    /\ faults < MaxFaults
    /\ faults' = faults + 1
    /\ NextEntry
    /\ UNCHANGED <<queueVars, loopFrame, sentVars, noticeVars>>

\* #bounce: nobody failed, or there is nobody to tell.
NothingToReport == toBounce = {} \/ entry.from = NullSender

NoBounce ==
    /\ pc = "bounce"
    /\ NothingToReport
    /\ NextEntry
    /\ UNCHANGED <<queueVars, loopFrame, faults, sentVars, noticeVars>>

\* onBounce: into the sender's INBOX when it is one of ours, else a new live row
\* with a null return-path.  A throw here rejects the tick and ends the process
\* (Crash at pc = "bounce").
Bounce ==
    /\ pc = "bounce"
    /\ ~NothingToReport
    /\ \/ UNCHANGED queueVars
       \/ /\ \E id \in Ids : Enqueue(id, entry.mail, NullSender, {entry.from}, now)
          /\ UNCHANGED dead
    /\ LET reported == {cur} \X PairsOf(entry, toBounce)
       IN /\ notified' = notified \cup reported
          /\ renotified' = renotified \cup (notified \cap reported)
    /\ NextEntry
    /\ UNCHANGED <<loopFrame, faults, sentVars>>

Tick ==
    \/ StartBatch \/ EndTick \/ EndBatch
    \/ \E id \in Ids : SkipGone(id) \/ LoadEntry(id)
    \/ SettleDelivered \/ SettleRefused \/ SettleDeferred \/ SettleGaveUp
    \/ SettleFails \/ Defer \/ DeferFails
    \/ NoBounce \/ Bounce

Relay ==
    /\ pc = "relaying"
    /\ \E out \in [entry.rcpts -> Outcomes] : RelayReturns(out)

-----------------------------------------------------------------------------
(* The daemon's life *)

procFrame == <<queueVars, cli, now, ops, faults, historyVars>>

\* The boot tick runs in hold mode too.
BugBoot ==
    /\ lifecycle = "down"
    /\ lifecycle' = "up"
    /\ hold' \in HoldModes
    /\ RequestTick
    /\ UNCHANGED <<procFrame, crashes>>

\* startServer: a fresh loop; unless held, start the timer and tick at once.
Boot ==
    /\ lifecycle = "down"
    /\ lifecycle' = "up"
    /\ hold' \in HoldModes
    /\ IF hold' THEN UNCHANGED loopVars ELSE RequestTick
    /\ UNCHANGED <<procFrame, crashes>>

\* stop(): no further entry is started, the relay's abort signal is tripped.
Stop ==
    /\ JsTurn
    /\ lifecycle = "up"
    /\ lifecycle' = "stopping"
    /\ UNCHANGED <<procFrame, hold, loopVars, crashes>>

\* close() awaited the running tick, then closes the database.
Close ==
    /\ lifecycle = "stopping"
    /\ pc = "idle"
    /\ lifecycle' = "down"
    /\ Quiet(NoTime)
    /\ UNCHANGED <<procFrame, hold, crashes>>

Crash ==
    /\ lifecycle # "down"
    /\ crashes < MaxCrashes
    /\ crashes' = crashes + 1
    /\ lifecycle' = "down"
    /\ Quiet(NoTime)
    /\ UNCHANGED <<procFrame, hold>>

-----------------------------------------------------------------------------
(* The operator's commands, each a process of its own *)

opFrame == <<lifecycle, hold, loopVars, now, crashes, faults, accepted, sent, resent>>

Command(c) == c \in Commands /\ cli = NoCli /\ ops < MaxOps /\ ops' = ops + 1

\* queue retry <id> and queue retry --all
CliRetry ==
    /\ Command("retry")
    /\ LiveIds # {}
    /\ \E S \in {{id} : id \in LiveIds} \cup {LiveIds} : RetryNow(S, now)
    /\ UNCHANGED <<opFrame, cli, rejected, noticeVars, purged>>

\* queue cancel reads the row outside the transaction that moves it.
CliCancelRead(id) ==
    /\ Command("cancel")
    /\ live[id] # NoRow
    /\ cli' = [id |-> id, row |-> live[id]]
    /\ UNCHANGED <<queueVars, opFrame, rejected, noticeVars, purged>>

CliCancelCommit ==
    /\ cli # NoCli
    /\ \/ DeadLetter(cli.id, cli.row, cli.row.rcpts)
       \/ ~CanDeadLetter(cli.id) /\ UNCHANGED queueVars
    /\ cli' = NoCli
    /\ UNCHANGED <<opFrame, ops, rejected, noticeVars, purged>>

\* A requeued recipient starts over, so an earlier refusal no longer counts.
CliRequeue(id) ==
    /\ Command("requeue")
    /\ dead[id] # NoRow
    /\ \E newId \in Ids : RequeueDeadLetter(id, newId, now)
    /\ rejected' = rejected \ PairsOf(dead[id], dead[id].rcpts)
    /\ UNCHANGED <<opFrame, cli, noticeVars, purged>>

CliPurge(id) ==
    /\ Command("purge")
    /\ dead[id] # NoRow
    /\ PurgeDeadLetter(id)
    /\ purged' = purged \cup PairsOf(dead[id], dead[id].rcpts)
    /\ UNCHANGED <<opFrame, cli, rejected, noticeVars>>

Operator ==
    \/ CliRetry
    \/ \E id \in Ids : CliCancelRead(id) \/ CliRequeue(id) \/ CliPurge(id)
    \/ CliCancelCommit

-----------------------------------------------------------------------------
(* Time passes while the daemon waits; its straight-line code takes none.  *)
Clock ==
    /\ pc \in {"idle", "relaying"}
    /\ now < MaxTime
    /\ now' = now + 1
    /\ UNCHANGED <<queueVars, lifecycle, hold, loopVars, cli, boundVars, historyVars>>

Next ==
    \/ \E mail \in Mails, R \in (SUBSET Rcpts) \ {{}} : Submit(mail, R)
    \/ TimerTick
    \/ Tick
    \/ Relay
    \/ Boot \/ Stop \/ Close \/ Crash
    \/ Operator
    \/ Clock

Spec == Init /\ [][Next]_vars

(***************************************************************************)
(* Fairness.  The tick is straight-line code, every wait of a relay is     *)
(* bounded by a timeout of the client transport, close() runs to its end,  *)
(* and the service manager restarts a daemon that died.  Nobody is obliged *)
(* to submit, stop, or type a command.  The clock is enabled only while    *)
(* the daemon waits, which it does again and again: hence SF.              *)
(***************************************************************************)
DaemonFairness ==
    /\ WF_vars(Tick) /\ WF_vars(Relay)
    /\ WF_vars(TimerTick) /\ SF_vars(Clock)
    /\ WF_vars(Boot) /\ WF_vars(Close)

DaemonSpec == Spec /\ DaemonFairness

-----------------------------------------------------------------------------
(* Custody: who still answers for a recipient *)

Holds(row, p) == row # NoRow /\ p \in PairsOf(row, row.rcpts)
OnLive(p) == \E id \in Ids : Holds(live[id], p)
OnDead(p) == \E id \in Ids : Holds(dead[id], p)

(* An accepted recipient is never lost before a verdict: it is on a live   *)
(* row or in a dead letter until a peer holds the message, a relay refused *)
(* it for good, or the operator purged it - whatever crash, failed write,  *)
(* shutdown or operator command interleaves with the processing of its row *)
(* (sqlite-queue.ts, deadLetter and cancel; relay-loop.ts, #processEntry). *)
NothingLost ==
    \A p \in accepted :
        OnLive(p) \/ OnDead(p) \/ p \in sent \cup rejected \cup purged

(***************************************************************************)
(* The inductive invariant behind NothingLost: what the tick knows of the  *)
(* row it read before the await, and the operator of the row it is about   *)
(* to cancel, although the other may have moved that row since.            *)
(***************************************************************************)

(* Ids in use were drawn, so a fresh id is not one somebody still holds.   *)
MintedIds ==
    /\ LiveIds \subseteq minted /\ DeadIds \subseteq minted
    /\ cur # NoRow => cur \in minted
    /\ cli # NoCli => cli.id \in minted

SameMail(row, other) == row.mail = other.mail /\ row.from = other.from

(* The tick works on a row from the load to the end of the bounce.         *)
EntryLoaded ==
    pc \in {"relaying", "settle", "defer", "bounce"} => cur \in Ids /\ entry \in LiveRow

(* The copy the tick works on still names the row's recipients, if the row *)
(* is still there: only the tick changes them.                             *)
FreshEntry ==
    pc \in {"relaying", "settle", "defer"} /\ live[cur] # NoRow =>
        SameMail(live[cur], entry) /\ live[cur].rcpts = entry.rcpts

(* Whoever the tick is about to drop from the row needs it no more: the    *)
(* delivered have a copy, and the refused are known as such - or were put  *)
(* on another row by the operator since.                                   *)
Elsewhere(p) ==
    \/ \E id \in Ids \ {cur} : Holds(live[id], p)
    \/ OnDead(p)
    \/ p \in rejected \cup purged

Classified ==
    pc \in {"settle", "defer"} =>
        /\ retryLater \cup permanentFailures \subseteq entry.rcpts
        /\ PairsOf(entry, entry.rcpts \ (retryLater \cup permanentFailures)) \subseteq sent
        /\ \A p \in PairsOf(entry, permanentFailures) : Elsewhere(p) \/ live[cur] = NoRow

(* The row a cancel read names at least the recipients still on it.        *)
CancelCovers ==
    cli # NoCli => \/ live[cli.id] = NoRow
                   \/ /\ SameMail(live[cli.id], cli.row)
                      /\ live[cli.id].rcpts \subseteq cli.row.rcpts

IInv ==
    /\ TypeOK /\ EntryLoaded
    /\ MintedIds /\ FreshEntry /\ Classified /\ CancelCovers
    /\ NothingLost

(* Every step of the loop, the operator or a crash is a step the promise   *)
(* allows: a recipient leaves custody only answered or purged.             *)
Custody == INSTANCE MailCustody WITH
    Recipients <- Pairs,
    owed <- {p \in Pairs : OnLive(p)},
    retained <- {p \in Pairs : OnDead(p)},
    delivered <- sent, refused <- rejected, discarded <- purged

KeepsCustody == Custody!Spec

(* A message is in the queue or in the dead-letter store, never in both:   *)
(* each move between the tables is one transaction, and a reschedule of a  *)
(* row the operator moved meanwhile must not bring it back.                *)
QueueOrDeadLetter == LiveIds \cap DeadIds = {}

(* Without a crash, a cancel, an unwritable store or an unanswered DATA,   *)
(* no recipient gets a second copy: a failed settle defers only those who  *)
(* have none (#processEntry), and no two ticks process one row.            *)
NoSecondCopy == resent = {}

(* A row's failed recipient is reported at most once (relay-loop.ts: "each *)
(* bounce is emitted exactly once"), whatever writes fail.                 *)
NoSecondNotice == renotified = {}

(* ... and, unless the process crashed or the operator cancelled, at least *)
(* once: when the tick is not in the middle of a row, every dead letter's  *)
(* recipients were reported, and every refused one too unless it is still  *)
(* on a row to be tried.                                                   *)
EveryFailureNotified ==
    pc \notin {"settle", "defer", "bounce"} =>
        /\ \A id \in Ids, p \in Pairs : Holds(dead[id], p) => <<id, p>> \in notified
        /\ \A p \in rejected : \/ p \in sent \/ OnLive(p)
                               \/ \E id \in Ids : <<id, p>> \in notified

(* In hold mode nothing leaves the machine (main.ts, holdOutbound).        *)
HeldMailStays == [][hold => sent' = sent /\ resent' = resent]_vars

(* The doubling backoff cannot outrun the window by more than the window:  *)
(* a row's next attempt, at which it is given up if it fails, lies within  *)
(* twice GiveUp of its first (backoffMs, decideRetry).                     *)
NextAttemptNearWindow ==
    \A id \in LiveIds : live[id].next <= live[id].first + 2 * GiveUp + MinRetry

(* Every queued row whose retry schedule ends before the model's clock is  *)
(* eventually settled, crashes and restarts notwithstanding: the timer     *)
(* keeps ticking, and decideRetry gives up.                                *)
EveryRowSettles ==
    \A id \in Ids :
        live[id] # NoRow /\ live[id].first + 2 * GiveUp + MinRetry <= MaxTime
            ~> live[id] = NoRow

(* A submission is attempted without waiting for the timer, also when it   *)
(* arrives during a tick (#pending): a loop that went idle has tried every *)
(* row submitted so far.  Only stop(), or hold, excuses it - or an         *)
(* operator who retries or requeues the row while a tick is under way: its *)
(* next attempt is then past the clock of every tick requested so far.     *)
PromptFirstAttempt ==
    pc = "idle" /\ lifecycle = "up" /\ ~hold =>
        \A id \in LiveIds : live[id].from = Owner => live[id].attempts > 0

(* stop() lets close() finish: the running tick ends (stop, tick).         *)
StopCompletes == lifecycle = "stopping" ~> lifecycle = "down"

-----------------------------------------------------------------------------
(* What the documentation says, and the code does not do *)

(* docs/DEPLOYMENT.md: "A permanently-failed message always does two       *)
(* things: the sender gets a bounce, and the bytes land in the dead-letter *)
(* store until an explicit purge."                                         *)
RefusedIsDeadLettered ==
    pc = "idle" => \A p \in rejected : OnDead(p) \/ OnLive(p) \/ p \in purged
==============================================================================
