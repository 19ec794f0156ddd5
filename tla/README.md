# Verification of cutiemail

cutiemail is a mail server for one small deployment: one Node process that
receives mail (SMTP), accepts submissions, serves mailboxes (IMAP), relays
outbound mail to other hosts, and is updated in place by a second program that
stops and starts it. This directory holds TLA+ models of the parts in which
concurrency, failure and ordering decide whether mail is lost, duplicated or
sent in the clear; TLC configurations that check them on small instances; and
proofs, checked by TLAPS, of what matters most for every instance.

Paths below are relative to the repository; `PROJECT.json` maps every
definition to the lines it models.

## 1. Inventory

| Component | State | Operations | Interacts with |
|---|---|---|---|
| Outbound queue, dead letters (`src/store/sqlite-queue.ts`, `queue.ts`) | tables `outbound_queue` and `dead_letter` in the control database | enqueue, dueIds, entry, reschedule, remove, retryNow, cancel, deadLetter, requeueDeadLetter, purgeDeadLetter; backoffMs, decideRetry | shared by the daemon and the operator's processes |
| Relay loop (`server/relay-loop.ts`) | `#ticking`, `#pending`, `#stopped`, timer, the entry it awaits | tick, #processEntry, #settle, #bounce, start, stop | calls the relay, the queue, onBounce |
| Relay walk (`server/outbound.ts`, `client/mx.ts`) | verdict flags of one recipient's walk | resolve, MTA-STS, vet, session, fallback, aggregate | DNS, the SMTP client, the abort signal of stop |
| SMTP client session (`client/deliver.ts`, `wire/transport.ts`) | phase, TLS state, reply codes | greeting .. QUIT | an arbitrary remote server |
| Operator commands (`ops/queue-cli.ts`) | none of their own | retry, cancel, requeue, purge | the queue, from another process |
| Daemon lifecycle, submission, bounces (`main.ts`, `server/bounce.ts`) | up, stopping, down; hold mode | startServer, submissionHandler, onBounce, close | everything above |
| Self-update: cutover (`update/cutover.ts`, `state.ts`, `version-store.ts`, `snapshot.ts`) | state file, `current` symlink, snapshots, databases moved aside | recover, cutover, revertTo, restoreSnapshot | stops and starts the daemon, copies and replaces its databases |
| Self-update: run lock (`update/run-lock.ts`) | a directory with a pid file | acquireRunLock, release | several updater processes |
| Self-update: fetch, pre-flight (`update/acquire.ts`, `preflight.ts`, ...) | staging area | fetch, verify, boot a candidate on a copy | git remote, a candidate process |
| SMTP receiver (`server/smtp-receiver.ts`, `smtp/auth-state.ts`) | per session: envelope, TLS and AUTH state, error count; the handlers in flight | EHLO, STARTTLS, AUTH, MAIL, RCPT, DATA, RSET, QUIT; idle timeout; close | the handlers of `main.ts`, throttle, registry |
| Inbound and submission handlers (`main.ts`) | none of their own | look up, resolve every recipient, deliver, enqueue | registry, mail store cache, queue, relay loop |
| IMAP server (`server/imap-server.ts`) | per connection: login, selected mailbox as last reported, pending upload; `#authedSessions`, APPEND budget | all IMAP commands, IDLE, the sweep of revoked sessions | mail stores, notifier, registry, throttle |
| Mail store (`store/sqlite-mailbox.ts`, `memory-catalog.ts`, `mailbox-name.ts`, `open-mail-db.ts`) | mailboxes, messages, uids, mod-sequences, expunge log, high-water marks of UIDVALIDITY and id | append, expunge, store flags, create, rename, delete | IMAP sessions, deliveries |
| Mail store cache, notifier (`store/mail-stores.ts`, `server/mailbox-notifier.ts`) | open handles, subscriptions by mailbox name | open, notify | deliveries, IMAP sessions |
| Account registry (`store/account-registry.ts`, `ops/account.ts`) | accounts, aliases, app passwords, in the control database | enable, disable, set-password, app passwords, aliases; verify, resolve, tag | every login and delivery; the account command of another process |
| Authentication throttle (`server/auth-throttle.ts`) | failures per address in a window, at most a cap of addresses | isBlocked, recordFailure, recordSuccess | SMTP and IMAP logins |
| MTA-STS cache (`server/mta-sts-resolve.ts`) | policies with expiry | resolve, refetch | the relay walk, one lookup at a time |
| Inbound authentication, cryptography, syntax, SASL, other commands, conformance test-bed | none, or files | evaluation, parsing, reports | |

What is hard, per component, and what makes it correct:

* **Queue, loop and operator.** A relay takes minutes, during which the loop
  holds a copy of a row that another process may cancel, retry or requeue; a
  transition may fail to commit after the message is on the wire; the process
  may die anywhere; a stop must wait for the tick, and a request during a tick
  must not be dropped. Correct: an accepted recipient never leaves custody
  unanswered, nobody gets a second copy or a second notice, every failure is
  reported, every row is settled, held mail stays.
* **Relay walk and session.** Several hosts fail in different ways, replies
  break off anywhere, the answer after the final dot may never come. Correct:
  the verdict given to the loop says what the peers hold, one walk makes one
  copy, an enforced policy is never downgraded, the walk returns and a stop
  ends it.
* **Run lock.** Directory and pid are two files, breaking is remove and claim.
  Correct: one run at a time, and no lock that stays for ever.
* **Cutover.** A run may die between any two of its steps; the daemon migrates
  its databases forward; a revert replaces databases that a daemon may still
  have open. Correct: no unconfirmed version stays, no answered mail is lost,
  no database from the future is left to the version in place, the mail server
  comes back.
* **Mail store.** Names, ids, uids and UIDVALIDITY values outlive the mailboxes
  they were given to: a client keeps them for months. Correct: a uid under one
  UIDVALIDITY is one message for ever, a handle on a deleted mailbox reaches no
  other, and a client that was away is brought exactly up to date.
* **IMAP sessions.** Each connection has its own idea of the mailbox, which the
  others change under it; numbers in a command mean what the client was told.
  Correct: the two sides' lists never differ, a number reaches the message meant
  or none, a flag change is reported as long as it can be known to be one, idling
  clients hear of everything, no message is lost in a move.
* **Logins.** The answer to a password comes after a key derivation, during which
  the account changes, other guesses arrive and the connection may end. Correct:
  guesses are bounded, the upload budget is exact, a revoked session ends.
* **Receiver.** A message is accepted after DNS lookups during which recipients
  may cease to exist; half of its copies may be stored when the rest is refused;
  the listeners close under it. Correct: a 250 has a copy for everyone, a refusal
  leaves none, an envelope is its client's, nothing is stored after the close.

`PROJECT.json` lists each hazard at its line, with the properties about it or
the reason there are none.

## 2. Modules

    OutboundQueue <- RelayLoop <- MCRelayLoop          MailCustody (abstract)
                              \<- RelayLoopProofs          ^ refined by RelayLoop
    SmtpClient    <- RelayOutbound <- MCRelayOutbound
                                \<- RelayOutboundProofs
    RunLock       <- MCRunLock
                  <- RunLockProofs
    Cutover       <- MCCutover
                  <- CutoverProofs
    MailStore     <- MailResync    <- MCMailResync
                               \<- MailResyncProofs
                  <- ImapSession   <- MCImapSession
                               \<- ImapSessionProofs
    ImapAccess    <- MCImapAccess
                  <- ImapAccessProofs
    SmtpReceiver  <- MCSmtpReceiver
                  <- SmtpReceiverProofs

**OutboundQueue.** The two tables, `live` and `dead`, as functions from ids to
rows or `NoRow`, and each statement or transaction of `SqliteQueue` as an
operator on them. A message id is drawn at random in the code: here a fresh
member of `Ids`, `minted` being those drawn. Message bytes are the model value
`mail`; a report is a row whose sender is `NullSender`.

**RelayLoop.** The daemon is one thread: `pc` says where the tick is, a callback
(submission, timer, stop) runs only while the tick awaits a relay or none runs
(`JsTurn`), and a crash or an operator's command runs between any two steps.
Each step of `#processEntry` that reads or writes the database, or awaits, is an
action: `LoadEntry`, `RelayReturns`, one `Settle...` per branch, `SettleFails`
and `Defer`/`DeferFails` for the catch block, `Bounce`. `CliCancelRead` and
`CliCancelCommit` are apart because `cancel` reads outside its transaction.
History variables (`accepted`, `sent`, `rejected`, `notified`, ...) record what
happened to a recipient of a message.

**MailCustody.** What the queue promises, without ticks, rows or processes: a
recipient is owed, retained, delivered, refused or discarded, and leaves custody
only answered, or discarded on another row: an operator may cancel a row while it
is relayed, requeue one copy and purge the other, and the tick then drops someone
whom nobody answered. RelayLoop implements it under the mapping in `Custody`.

**SmtpClient, RelayOutbound.** One session as a machine over `phase`, with the
peer answering anything at any point (`Answers`, `Readable`), and the walk over
recipients and hosts around it; an enforced policy keeps the hosts it lists, in
the order they had (`Policy`). `afterStop` is the host at hand when the loop stops
and every dial after that, over TLS or in the clear. `RelayReturns` of RelayLoop lets any outcome
come back; what the outcomes mean there ("success": a peer has a copy;
"transient", "permanent", "skipped": none has; "indeterminate": open) is exactly
`VerdictSound` here. That contract is what joins the two models.

**RunLock.** mkdir, the creation of the pid file, the write to it, the look at
the holder, the removal and the second claim are separate steps of several runs.

**Cutover.** One run of the updater as a machine over `pc`, each write of the
state file, the symlink, a database or a snapshot being a step, against the
daemon. A database is its schema number, its mail and, for the control
database, the directory its account's mail is in; mail in the write-ahead log is
apart from mail in the main file, and a database moved aside stays open in a
daemon that had it open. The daemon's start opens the control database, which
migrates it, and then the mail of every account where that database says it is
(`MailOpens`): `Boot` is a start that succeeds, `BootFails` one that exits over the
mail it does not find or may not open. `build` is the version whose code the run executes: the
updater is part of the version it replaces.

**MailStore.** Operators on the rows of one account's database: `mailbox` is a
function from ids in use to rows, each with its messages by uid, its expunge log
and its UIDNEXT and HIGHESTMODSEQ. One operator per statement or transaction of
`SqliteMailbox` and `SqliteCatalog`. Two modules are built on them.

**MailResync.** The database over the life of a client's offline cache: every
transaction is a step, and so is the death of the process between the three
statements of CREATE. `Remember` is a client that opens a mailbox and goes away
(`snaps`); `Replayed` is what `SELECT (QRESYNC ...)` makes of what it kept. `Open`
is the migration of a database an older build left behind.

**ImapSession.** Several connections to one account. A command is one step, with
the pushes to idling connections it makes (`Reply`), since the store is
synchronous and the process has one thread. Each connection has two lists of
messages: `known`, the server's, and `told`, which is built only from the
responses its client is sent (`Struck`, `Lengthened`, `Hears`); an entry of
`told` stands for the message the server meant. Flags are on both sides too:
`flags`, those the server has on record as reported, and those of `told`, which the
client takes from every FETCH response it gets. A FETCH it asked for shows the flags
of the moment and leaves the record; a silent STORE records the flags of the moment
and shows nothing (`FlaggedSilently`). `apart` collects the messages of which that
happened while a change was still to be reported. EXPUNGE responses move the
numbers of those after them, so `EachStruck` takes them one by one. `Sync` is `syncSelected`,
`Resolve` is `resolveForConn`; `Asked` ranges over every set of numbers or uids a
client may put into a command. `MoveCut` is the death of the process between the
two transactions of a MOVE. Deliveries come from `deliverTo`.

**ImapAccess.** Logins, sessions, the throttle and the APPEND budget, against the
operator's `account` commands. `Login`, `VerifyPrimary` and `VerifyApps` are the
three pieces of a login between its awaits; a connection may end in between
(`Shut`), and then what it sent ahead is still handled (`ahead`). `sessions` is
`#authedSessions`, `budget` the three APPEND counters, `fails` the throttle's map
in its insertion order (`At` is the place of an address in it). The throttle is one
for both ports: a handler of the submission port (`Submitters`) asks it and then
awaits its check (`Submission`; `checks` are those that do), and only after that
records what came of it (`SubmissionFails`, `SubmissionPasses`). `Octets` is the
sum of some uploads, counted as the pairs of a connection and a number up to its
upload's size, and `Released` gives back those of the connections that end.

**SmtpReceiver.** A session of either listener, one step per command line; `phase`
is where its chain of chunks waits. A message is a pair of its session and its
number. `EndLookups` or `Submit` starts a `turn`: the handler delivers to each
recipient, enqueues and replies with no await, so that only the operator, another
process, can step in between. `Close`, `Drained` and `CloseStores` are the
daemon's shutdown.

ImapSession and SmtpReceiver meet in `deliverTo`: what SmtpReceiver counts as one
copy in a mailbox is a `Deliver` there. SmtpReceiver and RelayLoop meet in the
queue: a row it adds is a `Submit` of RelayLoop. ImapAccess and SmtpReceiver read
the same registry, each for its own port. The throttle they share is in ImapAccess,
with the submission port's use of it; in SmtpReceiver an AUTH just succeeds or not.

Operators named `Bug...` are the definitions after them as a plausible mistake
would have them; nothing uses them. Put in place of the definition they name,
each makes a property fail: that is how we know the property says something
about the code.

## 3. Runs

Passing runs:

| Run | Instance | What it shows |
|---|---|---|
| `custody` | 2 ids, 1 mail, 2 recipients, 1 crash, 1 failed write, 2 operator commands (cancel, requeue, purge) | `NothingLost`, `QueueOrDeadLetter`; `KeepsCustody`: RelayLoop implements MailCustody |
| `copies` | 3 ids, 2 recipients, boots with and without hold, 1 failed write, 1 command but cancel, no crash | `NoSecondCopy`, `NoSecondNotice`, `EveryFailureNotified`, `HeldMailStays` |
| `settles` | 2 ids, 2 mails, 1 crash, clock to 5, no commands, fair | `EveryRowSettles`, `StopCompletes`, `NextAttemptNearWindow`, `PromptFirstAttempt` |
| `walk` | 3 recipients (one without a domain, one not ASCII), 2 hosts | `VerdictSound`, `OneCopyPerWalk`, `NeverInTheClear`, `StopEndsWalk`, `UnreachedOutranksRefusal` |
| `contend` | 3 runs, each of which may be killed anywhere | `SettledLockHolds`, `NeverStranded` |
| `update` | 3 versions, the newest of which migrates, 2 mails, 1 crash, 1 failing restore | `OnlyConfirmedStays`, `MailKept`, `NoSnapshotLeft`, `NothingFromTheFuture`, `ServesAgain` |
| `replay` | INBOX and a hierarchy of four more names, 2 bodies, 2 messages at a time, 3 changes in the mailboxes there are, 4 values of UIDVALIDITY, 1 client that left | `NamesAreMailboxes`, `UidMeansOneMail`, `StaleHandleIsInert`, `ReplayIsExact` |
| `views` | 2 connections, one with QRESYNC, one that idles; INBOX and one more mailbox under two names; 2 messages | `ViewAgrees`, `NumbersHold`, `FlagChangesReach`, `MailKept` (of ImapSession), `IdlersHear` |
| `access` | 2 connections from 2 addresses, a submission handler of the first, 2 accounts, 1 change of credentials, a limit of 1 failure, a table of 1 address, uploads of 1 or 2 octets, fair sweep | `BudgetExact`, `GuessesBounded`, `SessionOwnsHandle`, `RevokedEnds` |
| `inbound` | 1 session of each listener, 2 accounts (one enabled late), 3 recipients, 2 operator commands, 1 failed write, shutdown | `AcceptedIsStored`, `RefusedLeavesNothing`, `EnvelopeIsClients`, `QuietAfterClose` |

Runs in which TLC finds the code disagreeing with what the repository says of
it, each with a finding in `PROJECT.json`:

| Run | What happens |
|---|---|
| `reverted_mail` | A candidate that migrated is reverted: the control database put back is the one rewritten for the snapshot, so every account's mail path names a directory that is then deleted, and the daemon, which opens them all when it starts, does not start again. |
| `cleanup` | A client sends LOGIN, APPEND (or SELECT and IDLE) and is gone while the key is derived: the commands are handled after its close handlers ran, and what they reserve or subscribe is never released. |

More disagreements have a configuration here too, to be run by hand: each ends
in a counterexample.

| Configuration | What happens |
|---|---|
| `MCRelayLoop_refused_retained` | r1 is refused for good, r2 deferred: the row keeps only r2, r1 is bounced but is in no dead letter, now or later (`relay-loop.ts:175`, `docs/DEPLOYMENT.md:897`). |
| `MCRelayOutbound_first_refusal` | MAIL is answered 450, the client sends RCPT all the same, and the 503 to that is the code that decides: a permanent failure (`outbound.ts:396`). |
| `MCRelayOutbound_two_connects` | The loop stops while a host is dialled, the handshake fails, and the host is dialled again in the clear: two connections after the stop, where the comments promise one at most (`outbound.ts:113`, `relay-loop.ts:71`). `StopEndsWalk` is what holds. |
| `MCRunLock_overlap` | A run has made the lock directory and not yet the pid file; a second run reads ENOENT, takes the lock for released, removes it, claims it, and both proceed (`run-lock.ts:100`, `docs/decisions/0025`, line 251). |
| `MCCutover_reverted_daemon` | The revert of `reverted_mail`: the daemon opens every enabled account's mail when it starts, finds none, and exits, at this start and at every later one. `ServesAgain` excludes a restored control database for that reason (`main.ts:756`; `docs/decisions/0025`, line 348). |
| `MCCutover_recovery` | A run dies after `switchTo(previous)` and before the restore: the next one takes the revert for completed, deletes the snapshot, and starts the old version on databases from the future (`cutover.ts:475`; `cutover.ts:440`, `docs/decisions/0025`, line 366). |
| `MCCutover_failed_restore` | The restore throws, the operator is told to restore by hand, and the snapshot is deleted (`cutover.ts:365`, against `cutover.ts:415`). |
| `MCImapSession_stale_flags` | A peer sets a flag, a client fetches the flags, the peer resets it: the NOOP compares with what it last reported itself, sees no change, and the client keeps the wrong flag for good (`imap-server.ts:1549`; 1502 says changed flags are reported). |
| `MCImapAccess_revocation` | set-password runs while the old password is being checked: the session is tagged with the new credentials and never dropped (`docs/DEPLOYMENT.md:730`). |
| `MCSmtpReceiver_upgrade` | MAIL, STARTTLS, RCPT: accepted without a MAIL, since the upgrade leaves `#inTransaction` set (`smtp-receiver.ts:677` says the transaction state is discarded). |

One more, `MCImapAccess_guesses`, passes: it is `GuessesBounded` alone, on an instance
where two IMAP connections and a submission handler share an address, another handler
has a second one, the limit is 2 failures and 3 are counted.

### Why the bounds are enough

* One mail with two recipients is what every merge of outcomes needs (one refused
  and one deferred, one delivered and one deferred); two ids let a cancelled or
  requeued row and its successor exist together, the third in `copies` adds the
  report (and would show a report of a report). `settles` has two mails, so one is submitted while the other is
  relayed, and one recipient each, since the schedule is the row's.
* One crash, one failed write and two commands: a crash or failure puts the
  system in a state that a boot leaves again; a second one meets no state the
  first could not. The theorems below hold without these bounds.
* `MaxTime` is the horizon of the clock, `SubmitBy` the last time a submission
  arrives; `EveryRowSettles` is claimed of rows whose whole schedule lies before
  the horizon. `MinRetry` and `GiveUp` are 1 and 2 units in `settles`, so a row
  lives through two backoffs; the doubling is in `BackoffMs`.
* Two hosts: every difference between hosts (refused or unreached, listed by the
  policy or not, holding a copy or not) needs two. `MaxHosts` is not exceeded:
  the cap only shortens the list.
* Three versions let a version that does not migrate be confirmed and one that
  does be tried from it. One crash and one failure, as above.
* `replay`: a rename collides only when a name below the source meets one below
  the target, which takes INBOX and three mailboxes, hence four values. Three
  changes give append, change or expunge, and one after the client left; a
  deletion gives its own back. The theorems hold without these bounds. Bodies are
  interchangeable, and so are the two trees of names: the symmetry is sound for
  invariants.
* `views`: two messages make a number wrong by one; two mailboxes make a COPY or
  MOVE into another, into itself, and a rename under a session. `Seen` and
  `Deleted` are one flag. `Watched` says whose idea of which message's flags is
  followed, `Examined` who may open what read-only: the rest is alike. `VIEW
  Visible` leaves out mod-sequences and the expunge log, which no session reads
  outside QRESYNC replay, and the reported flags of messages that are not watched, which
  no invariant is about and a push to an idling connection replaces.
  `MCImapSession_stale_flags` is the same instance.
* `access`: limits of 2 octets per login and 3 in all make two uploads of one login
  and of two meet both. A connection and a submission handler share an address, so that
  two guesses of it, one on each port, are in flight at the limit of 1 and pass it
  together, and a success comes before, between or after them; the other connection's
  failures take the table's only place. `MaxAhead` is 0 there and 2 in `cleanup`,
  since what is sent ahead breaks the budget.
* `inbound`: one session per listener, since sessions meet only in the queue (full
  at 1), the stores and the shutdown; two commands take a recipient's account away
  and bring it, or another, back; `MaxErrors` is 1: the count has no other effect.

### Fairness

* `DaemonSpec`: weak fairness of the tick (straight-line code), of the relay
  (every wait in it has a timeout: connect, read, write, handshake, close and DNS), of the interval timer, of
  the boot (systemd restarts the unit) and of the close; strong fairness of the
  clock, which is enabled only while the daemon waits. Submissions, stops,
  crashes and commands are never forced.
* ImapAccess: weak fairness of the sweep, an interval timer of the daemon
  (`imap-server.ts:1098`). Nothing else is forced, neither logins nor clients.
* RunLock: weak fairness of each run that was started.
* Cutover: weak fairness of the run (its waits have deadlines) and of a stop that
  systemd is completing; strong fairness of the boot, because a run may stop the
  daemon again before it came up: the timer's runs are hours apart, a start
  takes seconds. It is fairness of a start that succeeds: one that fails is tried
  again by systemd (`Restart=on-failure`, `docs/DEPLOYMENT.md:533`) and fails again
  until something else changed.

## 4. Proofs

`RelayLoopProofs` proves, for every set of ids, mails and recipients and every
value of the other constants that meets `QueueAssumption` and `RelayAssumption`:

* `TypeCorrect`: `Spec => []TypeOK`;
* `InvariantCorrect`: `Spec => []IInv`;
* `NothingLostAlways`: `Spec => []NothingLost`;
* `OneStoreAlways`: `Spec => []QueueOrDeadLetter`.

`NothingLost` is not inductive: whether a settle may drop a recipient from a row
depends on what the tick believes of it, and the operator may have moved the row
since the tick read it. `IInv` adds what is true of that belief:

* `EntryLoaded`: a tick past the load works on a row it read;
* `MintedIds`: ids in use, and those the tick and a half-way cancel remember,
  were drawn, so a fresh id is never one of them;
* `FreshEntry`: while the row is still live, the tick's copy names the same
  recipients (only the tick changes them);
* `Classified`: whoever is neither deferred nor refused has a copy at a peer, and
  the refused are known as such, are elsewhere, or the row is gone;
* `CancelCovers`: the row a cancel read names at least those still on it.

The proof has one lemma per action, and under it one step per conjunct the action
can disturb; `NothingLost` follows from the lemmas on how each queue operation
moves recipients. On top of `IInv`, for the same constants and no others:

* `AccountedCorrect`: `Spec => []Accounted`, who has a copy, was refused or is to
  be tried again, known of every recipient at every step of a tick;
* `CustodyKept`: `Spec => KeepsCustody`, each step of the loop, the operator or a
  crash being a step of MailCustody or a stutter;
* `HeldMailStaysAlways`: `Spec => HeldMailStays`, since a held daemon's tick is idle;
* `NoSecondNoticeAlways`: `Spec => []NoSecondNotice`, since whoever is on a row, or
  on the tick's copy of one, was not reported under its id, and ids are fresh.

Four more hold under hypotheses, each of which excludes a step that breaks the
property in the code as it is:

| Theorem | If | Because |
|---|---|---|
| `EveryFailureNotifiedAlways` | no cancel, no crash | a cancel dead-letters without a report; a process may die between the transition and the bounce |
| `NoSecondCopyAlways` | no cancel, no crash, no indeterminate answer, the deferral of a failed settle is written | each leaves a row that still names someone who has a copy, or two rows that do; at-least-once is then what the code intends |
| `PromptFirstAttemptAlways` | no retry or requeue, the deferral is written | these put a row's next attempt past the clock of every tick asked for; a row that cannot be written is attempted again, uncounted |
| `NextAttemptNearWindowAlways` | no failed settle, no retry | a failed settle defers a row that was to be given up, past its window; a retry counts an attempt before its time, and the backoff doubles |

They rest on invariants of their own: a row worked on stays (`RowStays`), a
recipient is on one row at most and on none that is not worked on once sent
(`CopyInv`), every untried row is at hand, in the tick's list or due by a
requested tick (`PromptInv`), and what is left of a row's backoff fits its window
(`WindowInv`). That a power of two is a natural number, and doubles, is proved by
counting subsets.

`RelayOutboundProofs` proves, for any recipients, hosts and policies:

* `WalkCorrect`: `Spec => []WalkInv`;
* `VerdictSoundAlways`: `Spec => []VerdictSound`;
* `OneCopyPerWalkAlways`: `Spec => []OneCopyPerWalk`;
* `NeverInTheClearAlways`: `Spec => []NeverInTheClear`;
* `StopEndsWalkAlways`: `Spec => []StopEndsWalk`;
* `UnreachedOutranksRefusalAlways`: `Spec => UnreachedOutranksRefusal`.

`WalkInv` is types, `VerdictSound` and five more: `SessionInv` (late replies do
not reach the end of the message: what the client reads there was said to the
message, or is nothing; a validated session is on valid TLS before MAIL),
`CopiesInv` (all copies of a recipient are at one host, and belong to one done
with or in hand), `PolicyInv` (under an enforced policy the hosts left are listed
and the session validates), `UnheardInv` and `StopInv` (since a stop the host then
at hand was dialled over TLS, in the clear, or first the one and then the other).
The session's part is the
one that is not obvious: whether a message was taken is known from a queue of
replies that the peer may have filled ahead.

`CutoverProofs` proves, for any versions and schemas and any number of crashes and
failures:

* `CutoverCorrect`: `Spec => []SafetyInv`;
* `OnlyConfirmedStaysAlways`: `Spec => []OnlyConfirmedStays`;
* `MailKeptAlways`: `Spec => []MailKept`;
* `NoSnapshotLeftAlways`: `Spec => []NoSnapshotLeft`;
* `NothingFromTheFutureAlways`: `Spec => []NothingFromTheFuture`.

`SafetyInv` is `TypeOK`, `PlaceInv` (in which steps of a run the version in place is
confirmed, and in which recorded phases the record names one that is), `CopyInv`,
`MovingInv` (while files are moved nobody starts the daemon, and one still
stopping writes to where its file went) and `HomeInv` (a control database that has
the mail at home finds it there). The last two theorems are about runs that
were not interrupted, and have an invariant each, `SnapshotsInv` and `SchemaInv`:
which snapshots exist at each step, and whose code may open the databases by then
and those of the snapshot (`CopyFits`: both the control database and the mail that a
revert puts back are at a schema the version it goes back to reads). It is a theorem
about schemas and no more: after a restore the version in place could read the
account's mail and does not find it (`reverted_mail`).

`ImapSessionProofs` proves, for any connections, mailboxes, messages and bounds:

* `InvCorrect`: `Spec => []Inv`; `TypeCorrect`: `Spec => []TypeOK`;
* `ViewAgreesAlways`: `Spec => []ViewAgrees`;
* `NumbersHoldAlways`: `Spec => []NumbersHold`;
* `FlagChangesReachAlways`: `Spec => []FlagChangesReach`, which is about all messages
  but those in `apart`;
* `MailKeptAlways`: `Spec => []MailKept`;
* `IdlersHearAlways`: `Spec => IdlersHear`.

`ViewAgrees` alone is not inductive: the server appends what is new to the list it
sent, which is right only if what the mailbox holds beyond that list comes after
it (`FitsBox`). That a command of one connection keeps this of the others depends
on what it does to the store, which is one relation between the mailboxes before
and after: `Evolves` (uids only grow, no message is lost but those named, and
whoever idles on a mailbox that changed is notified). Each operation of the store
has a lemma that its result has evolved, each action one lemma from that and from
what its responses do to a client's list. EXPUNGE responses, taken one by one,
need an induction over their number (`Divided`: what is left to strike at each
point), drawn from the least member of a set of naturals.

`MailResyncProofs` proves, for any names (with a hierarchy or without), bodies,
flags and bounds that meet `MailStoreAssumption` and `MailResyncAssumption`:

* `TypesKept`: `Spec => []TypeOK`;
* `NamesStayMailboxes`: `Spec => []NamesAreMailboxes`;
* `UidsStayMessages`: `Spec => []UidMeansOneMail`;
* `HandlesStayInert`: `Spec => []StaleHandleIsInert`;
* `ReplaysAreExact`: `Spec => []ReplayIsExact`.

They follow from one invariant, `Inv`, of three parts: `Rows` (every row is well
formed: uids below UIDNEXT, mod-sequences up to HIGHESTMODSEQ, no uid both live
and logged), `Marks` (names, ids and UIDVALIDITY values are one to one and below
the marks) and `Memories` (what a client remembers lies behind its mailbox as it
is now). `ReplayIsExact` alone is not inductive: that a step keeps it depends on
the step giving every uid it touches a mod-sequence above all those given before.
That is the relation `Grows(b, c)` between a row and a later one; each operation
of MailStore has a lemma that its result has grown, `Grows` is what keeps a memory
true (one lemma for all), and a row that is deleted or made anew is told apart
from one remembered by the marks. Each action then has one lemma.

`RunLockProofs` proves, for any set of runs:

* `TypesHold`: `Spec => []TypeOK`;
* `SettledLockStays`: `Spec => SettledLockHolds`.

Being settled is all that has to be known of a lock, so that types are the only
invariant needed: whoever comes across a settled lock reads the pid of a live run
and is refused (`SettledBars`), and its holder can only release it or die
(`HolderEnds`).

`SmtpReceiverProofs` proves, for any sessions on either listener, accounts,
addresses, limits and bounds that meet `SmtpReceiverAssumption`:

* `TypesHold`: `Spec => []TypeOK`;
* `InvariantHolds`: `Spec => []Inv`;
* `AcceptedStaysStored`: `Spec => AcceptedIsStored`;
* `RefusalsLeaveNothing`: `Spec => []RefusedLeavesNothing`;
* `EnvelopesStayClients`: `Spec => []EnvelopeIsClients`;
* `CloseIsQuiet`: `Spec => []QuietAfterClose`.

`Inv` says what each property relies on: `Envelopes` (a session that can still hand
a message over agrees with its client), `LocalOnly` (the inbound listener takes no
recipient elsewhere), `Turns` (a session delivers exactly when it has the turn),
`Drains` (a handler running under a closing listener is awaited), `Copies` (a copy
is of a message taken before, or of the one in hand), `NotYetTold`, `Served` (each
local recipient is still to be served, has its copy, or was dropped) and `Opened`
(the stores of the accounts enabled at the start stay open: only another account's
delivery can be dropped). `SessionStep`, `ReplyStep`, `TurnStep` and `OtherStep`
each prove one kind of step for all its actions.

`ImapAccessProofs` proves, for any connections, accounts, addresses, limits and
bounds that meet the assumption of ImapAccess:

* `TypeCorrect`: `Spec => []TypeOK`;
* `SessionsOwnTheirHandles`: `Spec => []SessionOwnsHandle`;
* `BudgetExactAlways`: `Spec => []BudgetExact`;
* `GuessesBoundedAlways`: `Spec => []GuessesBounded`.

The first needs of a connection that has no session that it has no mailbox open,
and of one that waits for its password that it knows whose (`Listed`).
`BudgetInv` says that an upload and its reservation are one and that the counters
are sums of what is held; sums being cardinalities, taking connections away is
taking a part of a set away. `ThrottleInv` says that the table has of each address
that was not evicted just its failures in the window, and that these are fewer than
the limit and its handlers, IMAP's and the submission port's together, that do not
await a check (`Free`): one that begins to wait was let in when there was room, and
one whose guess fails stops waiting. So an address may pass the limit, but only by
the guesses it had in flight when it came to it, one for each handler; that is what
`GuessesBounded` states.

Only model-checked: `EveryRowSettles`, `StopCompletes`, `NeverStranded`,
`ServesAgain` and `RevokedEnds`, which are liveness under fairness and beyond the
prover; and the counterexamples of the tables in 3. Every safety and action
property of the passing runs is stated by a theorem. The provers take no induction
rule with a predicate as its parameter; the two places that need induction argue
from a least counterexample instead (`LeastNat`) or count a set (`PowerOfTwo`,
`OctetsAdd`), and what is computed by folds elsewhere is proved only as far as its
definition shows.

## 5. Abstractions, and what they leave out

RelayLoop:

* a recipient list is a set; a duplicate address in one envelope is one recipient;
* a report's own recipient is not followed: if a bounce cannot be delivered it is
  dropped, as the code does;
* a tick that rejects (onBounce throws) ends the process: it is a crash at `bounce`;
* an operator's retry or requeue during a tick may leave a row untried by it, since
  its next attempt is past the clock the tick began with: `PromptFirstAttempt` is
  about rows as their sender submitted them;
* the clock never goes back; local delivery, which precedes the enqueue in the
  submission handler, is in SmtpReceiver;
* one operator's command is half way at a time;
* `retry` is not in use where `NextAttemptNearWindow` is checked (see 6).

RelayOutbound: a relay whose target guard is on (production); no two names of one
host in an MX answer; DNS answers, policies and remote replies are arbitrary; the
defects a test can inject into the client are off.

RunLock: a pid names one run. An empty pid file is taken for abandoned only when
its writer is dead: the code waits ten times 10 ms for a write that takes
microseconds.

Cutover:

* one account; one number stands for both schema stamps (`openMailDb` and the
  catalog's), and the mail database is at the schema of whoever wrote it last;
* a file with its `-wal` and `-shm` is moved aside in one step; a copy that was
  cut short is a missing file; renames and commits are durable;
* the fetch and the ladder of checks are one step with any outcome;
* the snapshot directory is private to the updater's user (`snapshot.ts:241`), so a
  daemon, which is another, cannot open mail in it even before it is deleted;
* a start that finds no control database, after a restore cut short, would make an
  empty one: the daemon does not start there;
* runs follow each other (RunLock's promise); the commands `adopt` and `reset`,
  staging and pruning are not modelled, nor the ownership of restored files.

MailStore, MailResync, ImapSession:

* a body is a value, dates and sizes are left out; subscriptions and special-use
  names change nothing here; a name is canonical already;
* the death of the process is modelled where it can be seen: within CREATE and
  within MOVE. Anywhere else it only drops the sessions, which `Unselect` does;
* SEARCH, STATUS, LIST and what a FETCH prints but flags are left out, as they
  change nothing; so are CHANGEDSINCE and UNCHANGEDSINCE;
* a client takes a FETCH by its uid where it has one, else by its number;
* after a silent STORE a client goes by the flags it had, changed as it asked for;
  if it replaced them, it knows them all.

ImapAccess:

* a credential is a number; the tag stands for all of an account's; AUTHENTICATE
  PLAIN, the only mechanism, is LOGIN;
* the window slides by whole failures; an address is its throttle key;
* of the submission port only the use of the throttle is here, with any outcome of
  the check;
* a refused APPEND changes nothing, whether the client waits for the refusal or not;
  the caps on connections and on pre-login input are left out.

SmtpReceiver:

* what a message contains is a choice (refused for its content or not, quarantined
  or not); a recipient named twice counts once; headers and trace lines are left out;
* the order in which a handler serves its recipients is arbitrary: the code's is one
  of these;
* command-line limits and the number of connections are left out.

Not modelled: see the components with that status in `PROJECT.json`, each with
its reason. Parsers, cryptography and pure evaluations of one message have no
state to interleave and are covered by the repository's corpora. The MTA-STS cache
is asked by one lookup at a time, and RelayOutbound lets the policy be anything.

## 6. Divergences known and without a run

Besides those of the tables of counterexamples in 3:

* `queue retry` counts as an attempt and the backoff doubles without a cap: forced
  retries can put the give-up far beyond the window (`docs/DEPLOYMENT.md:882`).
* A cancel while the row is relayed dead-letters recipients that are then
  delivered (`store/sqlite-queue.ts:74` says never). Requeued at once, under a new
  id, and its dead letter purged, such a row may also be dropped by a tick without
  an answer: MailCustody counts that as discarded.
* A recipient skipped by a shutdown is given up untried if its window has elapsed
  (`server/outbound.ts:239`).
* A `5yz` to DATA itself does not stop the walk (`docs/decisions/0023`, line 44).
* A candidate that moves the schema cannot be confirmed: the probe runs in the old
  version's code, which refuses the migrated control database.
* A silent STORE records as reported all the flags the message has by then, a
  change by another connection included, which the client is never told of
  (`imap-server.ts:2550`): `NoopTellsFlags`, the property of
  `MCImapSession_stale_flags`, fails by that way too.
* A UID command on a message the connection has not been told of answers with its
  place in the live mailbox, which may be another message's number to the client
  (`resolveForConn`); `NumbersHold` is about messages it was told of.
* The notifier goes by name: after a RENAME a session that selected the mailbox
  under its old name, and those who change it under the new one, do not hear of
  each other; RENAME of INBOX and DELETE notify nobody; IDLE does not report first
  what happened since the last command. `IdlersHear` is about the rest.
* If the store throws on an upload, its literal is gone but still awaited
  (`imap-server.ts:1665-1692`): the reservation is kept and the next octets are
  taken for the message.
* Adding an app password changes the tag, so the sweep cuts the account's sessions.
* set-password writes back the enabled flag it read before the prompt
  (`ops/account.ts:373`), undoing a disable by another command.
* A delivery to an account enabled after the start, whose store nothing opened
  yet, is dropped without a word if the account is disabled between its resolution
  and the delivery (`main.ts:346`); `AcceptedIsStored` excepts it, by the history field
  `dropped`.
* A write that fails after copies were stored is answered 451, and the retry
  stores them again; an idle timeout during the lookups is answered 421, and the
  message is then stored. Both err on the side of a second copy.

## 7. Plan

Done: the relay loop with its queue, walk and session; the run lock; the cutover;
the mail store, IMAP sessions and access to them; the SMTP receiver; the proofs of
4, which state every safety and action property of the passing runs.

Next, in this order:

1. CONDSTORE in ImapSession: CHANGEDSINCE and UNCHANGEDSINCE against changes by
   other connections, and the proofs of what they promise.
2. The cutover composed with the queue: what a restored control database does to
   mail relayed in between.
3. The TLS handshake of STARTTLS on the submission port, which a client may stall.
4. The join of RelayOutbound and RelayLoop as a refinement: a walk implements
   `RelayReturns` under `VerdictSound`, which is an argument in prose so far.
