----------------------------- MODULE SmtpReceiver -----------------------------
(***************************************************************************)
(* Mail arriving over SMTP: the sessions of the two listeners, inbound and *)
(* submission (server/smtp-receiver.ts), the two handlers a message is     *)
(* given to (main.ts), and the shutdown that drains them, against the      *)
(* operator who disables accounts and moves aliases from another process.  *)
(*                                                                         *)
(* One step handles one command line: a session's chunks are handled one   *)
(* after another, so a command waits while its session awaits a password   *)
(* check or a handler's DNS lookups.  From the end of those lookups to the *)
(* reply the daemon runs without a break (turn): its other sessions wait,  *)
(* the operator does not.                                                  *)
(*                                                                         *)
(* A message is <<session, n>>, the n-th one the session had taken or half *)
(* taken.  Where a message is filed, what its headers say and how a password *)
(* is checked is a choice; a recipient named twice counts once.            *)
(*                                                                         *)
(* An operator named Bug... is the definition after it as a plausible      *)
(* mistake would have it; nothing uses it.                                 *)
(***************************************************************************)
EXTENDS Naturals, FiniteSets

CONSTANTS
    Conns,
    Kind,               \* the listener of each session: "inbound" or "submission"
    Logins, Locals,     \* accounts, and addresses at our domain
    Remotes,            \* addresses elsewhere
    Null,               \* the null reverse-path
    Nobody,             \* no login
    Given,              \* the accounts the addresses stand for when the daemon starts
    Senders,            \* reverse-paths
    Late,               \* accounts disabled when the daemon starts
    MaxErrors,          \* MAX_HARD_ERRORS
    MaxRcpts,           \* MAX_RECIPIENTS
    MaxDepth,           \* maxQueueDepth
    MaxMails, MaxOps, MaxFaults     \* bounds: messages a session has taken, operator's commands, failed writes

Kinds == {"inbound", "submission"}
Addrs == Locals \cup Remotes

ASSUME SmtpReceiverAssumption ==
    /\ Kind \in [Conns -> Kinds]
    /\ Given \in [Locals -> Logins] /\ Senders \subseteq Addrs \cup {Null}
    /\ Late \subseteq Logins /\ Nobody \notin Logins \cup Conns
    /\ {Null, Nobody} \cap Addrs = {} /\ Null # Nobody
    /\ Locals \cap Remotes = {}
    /\ {MaxErrors, MaxRcpts, MaxDepth} \subseteq Nat \ {0}
    /\ {MaxMails, MaxOps, MaxFaults} \subseteq Nat

Msgs == Conns \X (1..MaxMails)

VARIABLES
    owner,      \* the login each local address stands for
    enabled,    \* the accounts that may receive and send
    cached,     \* the accounts whose store is open (MailStores)
    sess,       \* the fields of each Connection
    mailbox,    \* <<message, address, login>>: a copy in the login's mailbox
    queue,      \* <<message, recipients>>: rows of the outbound queue
    turn,       \* the session whose handler is delivering, or none
    closing,    \* SmtpReceiver's #closing, of each listener
    stage,      \* what the daemon's close() waits for
    awaited,    \* the handlers the listener's close() waits for
    used,       \* operator's commands and failed writes so far
    promised,   \* history: the envelope each client was told is accepted
    told        \* history: what each client was told of its last message

vars == <<owner, enabled, cached, sess, mailbox, queue, turn, closing, stage, awaited, used, promised, told>>

Registry == <<owner, enabled>>
Stores == <<cached, mailbox, queue>>
Shutdown == <<closing, stage, awaited>>

\* Where a session is: at a command line, at the credentials of an AUTH, in
\* the message; or awaiting a password check, awaiting the handler's lookups,
\* delivering.
Awaiting == {"password", "lookups"}
Phases == {"command", "sasl", "data", "deliver"} \cup Awaiting

Envelope == [from : Addrs \cup {Null}, rcpts : SUBSET Addrs]
NoEnvelope == [from |-> Null, rcpts |-> {}]

\* What a client was told, whether or not it was told of a MAIL.
Promise == [from : Addrs \cup {Null, Nobody}, rcpts : SUBSET Addrs]
NothingPromised == [from |-> Nobody, rcpts |-> {}]

Verdicts == {"nothing", "stored", "refused", "failed"}

TypeOK ==
    /\ owner \in [Locals -> Logins \cup {Nobody}]
    /\ enabled \subseteq Logins /\ cached \subseteq Logins
    /\ sess \in [Conns -> [phase : Phases, ended : BOOLEAN, tls : BOOLEAN, user : Logins \cup {Nobody},
                           claim : Logins \cup {Nobody}, env : Envelope, inTransaction : BOOLEAN,
                           errors : 0..MaxErrors, mails : 0..MaxMails, left : SUBSET (Locals \X Logins),
                           dropped : SUBSET (Locals \X Logins)]]
    /\ mailbox \subseteq Msgs \X Locals \X Logins
    /\ queue \subseteq Msgs \X SUBSET Remotes
    /\ turn \in Conns \cup {Nobody}
    /\ closing \subseteq Kinds /\ awaited \subseteq Conns
    /\ stage \in Kinds \cup {"up", "imap", "down"}
    /\ promised \in [Conns -> Promise]
    /\ told \in [Conns -> Verdicts]

Fresh ==
    [phase |-> "command", ended |-> FALSE, tls |-> FALSE, user |-> Nobody, claim |-> Nobody,
     env |-> NoEnvelope, inTransaction |-> FALSE, errors |-> 0, mails |-> 0, left |-> {},
     dropped |-> {}]    \* history: the deliveries of this turn that came to nothing

Init ==
    /\ owner = Given
    /\ enabled = Logins \ Late
    /\ cached = enabled
    /\ sess = [c \in Conns |-> Fresh]
    /\ mailbox = {} /\ queue = {}
    /\ turn = Nobody
    /\ closing = {} /\ stage = "up" /\ awaited = {}
    /\ used = [ops |-> 0, faults |-> 0]
    /\ promised = [c \in Conns |-> NothingPromised]
    /\ told = [c \in Conns |-> "nothing"]

-----------------------------------------------------------------------------
(* The registry, as the handlers read it. *)

\* The enabled account an address belongs to (resolveLocalPart).
Resolve(a) == IF a \in Locals /\ owner[a] \in enabled THEN owner[a] ELSE Nobody

\* The message a session is at; one that is refused leaves its number to the next.
Message(c) == <<c, sess[c].mails + 1>>

Accepts(k, a) == Resolve(a) # Nobody \/ (k = "submission" /\ a \in Remotes)

-----------------------------------------------------------------------------
(* Commands. *)

\* The session reads its next line: it does not wait for anything.
At(c, p) == turn = Nobody /\ ~sess[c].ended /\ sess[c].phase = p

Command(c) == At(c, "command")

Rest == <<Registry, Stores, turn, Shutdown, used>>

\* #end: nothing reads the fields of an ended session again, but for those a
\* handler or a password check under way was given.
Ended(s) ==
    IF s.phase \in Awaiting THEN [s EXCEPT !.ended = TRUE]
    ELSE [Fresh EXCEPT !.ended = TRUE, !.mails = s.mails]

\* #reject: an error is counted, the last one ends the session.
Rejected(s) == IF s.errors + 1 >= MaxErrors THEN Ended(s) ELSE [s EXCEPT !.errors = @ + 1]

Junk(c) ==
    /\ Command(c)
    /\ sess' = [sess EXCEPT ![c] = Rejected(@)]
    /\ UNCHANGED <<Rest, promised, told>>

Reset(s) == [s EXCEPT !.env = NoEnvelope, !.inTransaction = FALSE]

\* EHLO, HELO, RSET.
Restart(c) ==
    /\ Command(c)
    /\ sess' = [sess EXCEPT ![c] = Reset(@)]
    /\ promised' = [promised EXCEPT ![c] = NothingPromised]
    /\ UNCHANGED <<Rest, told>>

Mail(c, f) ==
    /\ Command(c)
    /\ Kind[c] = "submission" => sess[c].user # Nobody
    /\ sess' = [sess EXCEPT ![c].env = [from |-> f, rcpts |-> {}], ![c].inTransaction = TRUE]
    /\ promised' = [promised EXCEPT ![c] = [from |-> f, rcpts |-> {}]]
    /\ UNCHANGED <<Rest, told>>

Rcpt(c, a) ==
    /\ Command(c)
    /\ IF ~sess[c].inTransaction \/ ~Accepts(Kind[c], a)
       THEN /\ sess' = [sess EXCEPT ![c] = Rejected(@)]
            /\ UNCHANGED promised
       ELSE /\ Cardinality(sess[c].env.rcpts) < MaxRcpts
            /\ sess' = [sess EXCEPT ![c].env.rcpts = @ \cup {a}]
            /\ promised' = [promised EXCEPT ![c].rcpts = @ \cup {a}]
    /\ UNCHANGED <<Rest, told>>

Data(c) ==
    /\ Command(c)
    /\ sess[c].env.rcpts # {} /\ sess[c].mails < MaxMails
    /\ sess' = [sess EXCEPT ![c].phase = "data"]
    /\ UNCHANGED <<Rest, promised, told>>

\* The transaction's flag outlives the upgrade: #startTls leaves it alone.
StartTls(c) ==
    /\ Command(c)
    /\ ~sess[c].tls
    /\ sess' = [sess EXCEPT ![c].tls = TRUE, ![c].env = NoEnvelope]
    /\ promised' = [promised EXCEPT ![c] = NothingPromised]
    /\ UNCHANGED <<Rest, told>>

CanAuth(c) == Kind[c] = "submission" /\ sess[c].tls /\ ~sess[c].inTransaction /\ sess[c].user = Nobody

\* AUTH PLAIN without its credentials: the next line holds them.
Auth(c) ==
    /\ Command(c) /\ CanAuth(c)
    /\ sess' = [sess EXCEPT ![c].phase = "sasl"]
    /\ UNCHANGED <<Rest, promised, told>>

CancelAuth(c) ==
    /\ At(c, "sasl")
    /\ sess' = [sess EXCEPT ![c].phase = "command"]
    /\ UNCHANGED <<Rest, promised, told>>

\* Ill-formed credentials and a throttled address end an AUTH as CancelAuth does.
\* The password is checked against the registry as it is now: the claim is the
\* account it is right for, if any.
Credentials(c) ==
    /\ At(c, "sasl") \/ (Command(c) /\ CanAuth(c))
    /\ \E l \in enabled \cup {Nobody} :
          sess' = [sess EXCEPT ![c].phase = "password", ![c].claim = l]
    /\ UNCHANGED <<Rest, promised, told>>

Quit(c) ==
    /\ Command(c)
    /\ sess' = [sess EXCEPT ![c] = Ended(@)]
    /\ UNCHANGED <<Rest, promised, told>>

\* The idle timer runs whatever the session waits for.
Timeout(c) ==
    /\ turn = Nobody /\ ~sess[c].ended
    /\ sess' = [sess EXCEPT ![c] = Ended(@)]
    /\ UNCHANGED <<Rest, promised, told>>

Password(c) ==
    /\ turn = Nobody /\ sess[c].phase = "password"
    /\ LET s == [sess[c] EXCEPT !.phase = "command", !.user = sess[c].claim, !.claim = Nobody]
       IN  sess' = [sess EXCEPT ![c] = IF s.ended THEN Ended(s) ELSE s]
    /\ UNCHANGED <<Rest, promised, told>>

-----------------------------------------------------------------------------
(* The end of the message, and its handlers. *)

BugFinished(s) == [s EXCEPT !.phase = "command", !.inTransaction = FALSE, !.left = {}, !.dropped = {}]

\* Whatever came of it, the transaction is over.
Finished(s) == [Reset(s) EXCEPT !.phase = "command", !.left = {}, !.dropped = {}]

\* The reply to the message, if the session can still send one.
Reply(c, verdict) ==
    /\ LET s == IF verdict = "refused" THEN Finished(sess[c])
                ELSE [Finished(sess[c]) EXCEPT !.mails = @ + 1]
       IN  sess' = [sess EXCEPT ![c] = IF s.ended THEN Ended(s) ELSE s]
    /\ told' = [told EXCEPT ![c] = IF sess[c].ended THEN "nothing" ELSE verdict]
    /\ promised' = [promised EXCEPT ![c] = NothingPromised]
    /\ awaited' = awaited \ {c}

\* Larger than the limit: the session ends.
TooLarge(c) ==
    /\ At(c, "data")
    /\ sess' = [sess EXCEPT ![c] = Ended(@)]
    /\ UNCHANGED <<Rest, promised, told>>

\* What is in the message, or the moment, refuses it: a bare newline, a loop of
\* relays, headers that cannot be read, an author that is not the user's; a
\* listener that is closing (trackedHandler).
Unacceptable(c) ==
    /\ At(c, "data")
    /\ Reply(c, "refused")
    /\ UNCHANGED <<Registry, Stores, turn, closing, stage, used>>

\* The message is given to the listener's handler.
Taken(c) == At(c, "data") /\ Kind[c] \notin closing

\* Inbound: the lookups for SPF, DKIM, DMARC and ARC are awaited.
StartLookups(c) ==
    /\ Taken(c) /\ Kind[c] = "inbound"
    /\ sess' = [sess EXCEPT ![c].phase = "lookups"]
    /\ told' = [told EXCEPT ![c] = "nothing"]
    /\ UNCHANGED <<Rest, promised>>

BugResolved(c) == {<<a, Resolve(a)>> : a \in {b \in sess[c].env.rcpts \cap Locals : Resolve(b) # Nobody}}

\* Each local recipient and the account it stands for now.
Resolved(c) == {<<a, Resolve(a)>> : a \in sess[c].env.rcpts \cap Locals}

\* A recipient accepted at RCPT that stands for nobody by now.
Unavailable(c) == \E p \in Resolved(c) : p[2] = Nobody

EndLookups(c) ==
    /\ turn = Nobody /\ sess[c].phase = "lookups"
    /\ IF Unavailable(c)
       THEN /\ Reply(c, "refused")
            /\ UNCHANGED turn
       ELSE /\ sess' = [sess EXCEPT ![c].phase = "deliver", ![c].left = Resolved(c)]
            /\ turn' = c
            /\ UNCHANGED <<told, promised, awaited>>
    /\ UNCHANGED <<Registry, Stores, closing, stage, used>>

\* Submission: the account must be enabled still, the sender its own, and the
\* queue must have room.
MayNot(c) ==
    LET user == sess[c].user
    IN  \/ user \notin enabled
        \/ Resolve(sess[c].env.from) # user
        \/ Unavailable(c)
        \/ sess[c].env.rcpts \cap Remotes # {} /\ Cardinality(queue) >= MaxDepth

Submit(c) ==
    /\ Taken(c) /\ Kind[c] = "submission"
    /\ IF MayNot(c)
       THEN /\ Reply(c, "refused")
            /\ UNCHANGED turn
       ELSE /\ sess' = [sess EXCEPT ![c].phase = "deliver", ![c].left = Resolved(c)]
            /\ turn' = c
            /\ told' = [told EXCEPT ![c] = "nothing"]
            /\ UNCHANGED <<promised, awaited>>
    /\ UNCHANGED <<Registry, Stores, closing, stage, used>>

BugDeliver(c) ==
    /\ turn = c
    /\ \E p \in sess[c].left :
          IF Resolve(p[1]) = Nobody
          THEN /\ Reply(c, "refused")
               /\ turn' = Nobody
               /\ UNCHANGED <<Registry, Stores, closing, stage, used>>
          ELSE /\ mailbox' = mailbox \cup {<<Message(c), p[1], Resolve(p[1])>>}
               /\ sess' = [sess EXCEPT ![c].left = @ \ {p}]
               /\ UNCHANGED <<Registry, cached, queue, turn, Shutdown, used, promised, told>>

\* deliverTo: a store that is not open is opened if its account is enabled, and
\* nothing is delivered if it is not.
Deliver(c) ==
    /\ turn = c
    /\ \E p \in sess[c].left :
          LET l == p[2]
              open == l \in cached \cup enabled
          IN  /\ cached' = IF open THEN cached \cup {l} ELSE cached
              /\ mailbox' = IF open THEN mailbox \cup {<<Message(c), p[1], l>>} ELSE mailbox
              /\ sess' = [sess EXCEPT ![c].left = @ \ {p},
                                      ![c].dropped = IF open THEN @ ELSE @ \cup {p}]
    /\ UNCHANGED <<Registry, queue, turn, Shutdown, used, promised, told>>

\* The rest goes into the queue, and the client is told.
Stored(c) ==
    LET far == sess[c].env.rcpts \cap Remotes
    IN  /\ turn = c /\ sess[c].left = {}
        /\ queue' = IF far # {} /\ Kind[c] = "submission" THEN queue \cup {<<Message(c), far>>} ELSE queue
        /\ Reply(c, "stored")
        /\ turn' = Nobody
        /\ UNCHANGED <<Registry, cached, mailbox, closing, stage, used>>

\* A write fails, to a mailbox or to the queue: 451, whatever was stored before.
WriteFails(c) ==
    /\ turn = c
    /\ sess[c].left # {} \/ sess[c].env.rcpts \cap Remotes # {}
    /\ used.faults < MaxFaults
    /\ used' = [used EXCEPT !.faults = @ + 1]
    /\ Reply(c, "failed")
    /\ turn' = Nobody
    /\ UNCHANGED <<Registry, Stores, closing, stage>>

-----------------------------------------------------------------------------
(* The rest of the daemon, and the operator. *)

\* The relay loop settles a row.
Relay ==
    /\ turn = Nobody /\ stage = "up"
    /\ \E row \in queue : queue' = queue \ {row}
    /\ UNCHANGED <<Registry, cached, sess, mailbox, turn, Shutdown, used, promised, told>>

\* An IMAP login opens the account's store.
OpenStore(l) ==
    /\ turn = Nobody /\ stage # "down"
    /\ l \in enabled \ cached
    /\ cached' = cached \cup {l}
    /\ UNCHANGED <<Registry, sess, mailbox, queue, turn, Shutdown, used, promised, told>>

Operator ==
    /\ used.ops < MaxOps
    /\ used' = [used EXCEPT !.ops = @ + 1]
    /\ UNCHANGED <<Stores, sess, turn, Shutdown, promised, told>>

SetEnabled(l) ==
    /\ Operator
    /\ enabled' = IF l \in enabled THEN enabled \ {l} ELSE enabled \cup {l}
    /\ UNCHANGED owner

\* An alias is removed, or a free one given to an account.
MoveAlias(a, l) ==
    /\ Operator
    /\ (owner[a] = Nobody) # (l = Nobody)
    /\ owner' = [owner EXCEPT ![a] = l]
    /\ UNCHANGED enabled

-----------------------------------------------------------------------------
(* Shutdown: the inbound listener, the submission listener, IMAP, the stores. *)

InFlight(k) == {c \in Conns : Kind[c] = k /\ sess[c].phase \in {"lookups", "deliver"}}

BugAwaits(k) == {c \in InFlight(k) : ~sess[c].ended}

\* The handlers running when the listener began to close, also of sessions that
\* are gone.
Awaits(k) == InFlight(k)

CloseListener(k) ==
    /\ closing' = closing \cup {k}
    /\ stage' = k
    /\ awaited' = Awaits(k)

Close ==
    /\ turn = Nobody /\ stage = "up"
    /\ CloseListener("inbound")
    /\ UNCHANGED <<Registry, Stores, sess, turn, used, promised, told>>

\* They have ended: the listener's sessions are cut, and the next one closes.
Drained(k) ==
    /\ turn = Nobody /\ stage = k /\ awaited = {}
    /\ sess' = [c \in Conns |-> IF Kind[c] = k THEN Ended(sess[c]) ELSE sess[c]]
    /\ IF k = "inbound"
       THEN CloseListener("submission")
       ELSE stage' = "imap" /\ UNCHANGED <<closing, awaited>>
    /\ UNCHANGED <<Registry, Stores, turn, used, promised, told>>

\* The IMAP server has closed: so are the stores and the registry.
CloseStores ==
    /\ turn = Nobody /\ stage = "imap"
    /\ stage' = "down"
    /\ UNCHANGED <<Registry, Stores, sess, turn, closing, awaited, used, promised, told>>

-----------------------------------------------------------------------------
Next ==
    \/ \E c \in Conns :
          \/ Junk(c) \/ Restart(c) \/ Data(c) \/ StartTls(c)
          \/ Auth(c) \/ CancelAuth(c) \/ Credentials(c) \/ Password(c)
          \/ Quit(c) \/ Timeout(c)
          \/ \E f \in Senders : Mail(c, f)
          \/ \E a \in Addrs : Rcpt(c, a)
          \/ TooLarge(c) \/ Unacceptable(c)
          \/ StartLookups(c) \/ EndLookups(c) \/ Submit(c)
          \/ Deliver(c) \/ Stored(c) \/ WriteFails(c)
    \/ Relay
    \/ \E l \in Logins : OpenStore(l) \/ SetEnabled(l)
    \/ \E a \in Locals, l \in Logins \cup {Nobody} : MoveAlias(a, l)
    \/ Close \/ CloseStores
    \/ \E k \in Kinds : Drained(k)

Spec == Init /\ [][Next]_vars

-----------------------------------------------------------------------------
(* Properties. *)

Copied(m, a) == \/ \E l \in Logins : <<m, a, l>> \in mailbox
                \/ \E row \in queue : row[1] = m /\ a \in row[2]

\* A message the client is told is stored has, when it is told, a copy for every
\* recipient it was told is accepted, in a mailbox or on the queue, whatever the
\* operator did since: no recipient is skipped ("mail accepted with 250 and then
\* dropped", main.ts), but for an account that was enabled after the daemon started
\* and whose store nothing had opened yet, if it is disabled again in that turn.
AcceptedIsStored ==
    [][\A c \in Conns : \A m \in {Message(c)} :
          turn = c /\ turn' = Nobody /\ told'[c] = "stored"
                => \A a \in promised[c].rcpts : Copied(m, a)' \/ \E l \in Late : <<a, l>> \in sess[c].dropped]_vars

\* A message that is refused leaves nothing behind: every recipient is resolved
\* and the queue measured before the first copy is made, so that the client's
\* next attempt makes no second one ("No partial delivery either way").
RefusedLeavesNothing ==
    \A c \in Conns : told[c] = "refused" => \A a \in Addrs : ~Copied(Message(c), a)

\* The envelope a handler is given is the one its client was told is accepted,
\* since the last message, reset or upgrade: a refused message hands none of
\* its recipients to the next one (every exit from DATA, RSET, EHLO, STARTTLS).
EnvelopeIsClients ==
    \A c \in Conns : sess[c].phase \in {"data", "lookups", "deliver"} =>
        /\ sess[c].env.rcpts = promised[c].rcpts
        /\ sess[c].env.from = IF promised[c].from = Nobody THEN Null ELSE promised[c].from

\* When the stores are closed, no handler is left that could write to them, not
\* one whose session timed out under it nor one that began while another was
\* awaited (SmtpReceiver.close, trackedHandler).
QuietAfterClose == stage = "down" => turn = Nobody /\ \A k \in Kinds : InFlight(k) = {}

\* What smtp-receiver.ts says of the ordering gate, "no bare RCPT with no MAIL is
\* answered 250", and of an upgrade, which discards the transaction state: no
\* client has a recipient accepted before a MAIL.
RcptNeedsMail == \A c \in Conns : promised[c].rcpts # {} => promised[c].from # Nobody
=============================================================================
