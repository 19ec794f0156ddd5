------------------------------ MODULE ImapAccess ------------------------------
(***************************************************************************)
(* Who may use the IMAP server, and how much of it: logins and the failure *)
(* throttle (auth-throttle.ts), sessions and their revocation, the budget  *)
(* of APPEND uploads (imap-server.ts), against the operator who changes    *)
(* the accounts from another process (account-registry.ts, account.ts).    *)
(*                                                                         *)
(* Checking a password awaits a key derivation, once for the primary       *)
(* password and once for the app passwords; what runs in between is any    *)
(* other connection, a timer, the operator, and the end of the connection  *)
(* itself.  The commands a client sent ahead wait for the derivation, and  *)
(* are handled after it even if the connection is gone by then.  The       *)
(* submission port shares the throttle, and its handlers await the same    *)
(* check (smtp-receiver.ts); of them no more than that is here.            *)
(*                                                                         *)
(* A credential is a number, drawn afresh by every change and compared     *)
(* within one account; 0 is one it never had.  The tag the server takes of *)
(* an account's credentials stands for all of them.  An address is the key *)
(* the throttle uses.                                                      *)
(*                                                                         *)
(* An operator named Bug... is the definition after it as a plausible      *)
(* mistake would have it; nothing uses it.                                 *)
(***************************************************************************)
EXTENDS Integers, Sequences, FiniteSets, SequencesExt

CONSTANTS
    Conns, Logins, Ips,
    Submitters,     \* the handlers of the submission port
    Ip,             \* the address each connection or handler works for
    Sizes,          \* the sizes of uploads
    MaxLiteral, MaxInflight, Shares,    \* APPEND: octets each, octets in all, slices
    MaxFailures, Cap,                   \* throttle: failures allowed, addresses tracked
    Managed,        \* the accounts the operator changes
    Nobody, MaxCreds, MaxFails, MaxAhead    \* no login; bounds

ASSUME ImapAccessAssumption ==
    /\ IsFiniteSet(Conns) /\ IsFiniteSet(Submitters) /\ Conns \cap Submitters = {}
    /\ Ip \in [Conns \cup Submitters -> Ips] /\ Managed \subseteq Logins /\ Nobody \notin Logins
    /\ {MaxLiteral, MaxInflight, Shares, MaxFailures, Cap} \subseteq Nat \ {0}
    /\ Sizes \subseteq 1..MaxInflight + 1
    /\ {MaxCreds, MaxFails, MaxAhead} \subseteq Nat

VARIABLES
    account,    \* the registry's rows
    minted,     \* the credentials drawn so far
    cached,     \* the logins whose store is open (MailStores)
    conn,       \* what each connection's handler holds
    sessions,   \* #authedSessions
    budget,     \* #appendReserved, #appendByLogin, #appendInflight
    fails,      \* #fails: addresses in the order they were first tracked
    clock,      \* failures so far, and those before the window
    checks,     \* the submission handlers that await a check
    guesses,    \* history: when each address failed in the window
    evicted     \* history: addresses whose failures were forgotten early

vars == <<account, minted, cached, conn, sessions, budget, fails, clock, checks, guesses, evicted>>

Accounts == <<account, minted>>
Throttle == <<fails, clock, checks, guesses, evicted>>

Phases == {"ready", "primary", "apps", "authed"}

Upload == [size : Sizes, login : Logins]

TypeOK ==
    /\ account \in [Logins -> [enabled : BOOLEAN, primary : 1..minted, apps : SUBSET (1..minted)]]
    /\ cached \subseteq Logins
    /\ conn \in [Conns -> [up : BOOLEAN, ahead : Nat, phase : Phases, login : Logins \cup {Nobody},
                           try : Nat, row : Nat, list : SUBSET (1..minted), pending : Sizes \cup {0},
                           sel : Logins \cup {Nobody}, idle : BOOLEAN,
                           since : (Nat \X SUBSET Nat) \cup {<<>>}]]
    /\ DOMAIN sessions \subseteq Conns
    /\ \A c \in DOMAIN sessions : sessions[c].login \in Logins
    /\ DOMAIN budget.held \subseteq Conns
    /\ \A c \in DOMAIN budget.held : budget.held[c] \in Upload
    /\ checks \subseteq Submitters
    /\ \A k \in DOMAIN fails : fails[k] \in [ip : Ips, times : (SUBSET Nat) \ {{}}]

Tag(l) == <<account[l].primary, account[l].apps>>

Fresh ==
    [up |-> TRUE, ahead |-> 0, phase |-> "ready", login |-> Nobody, try |-> 0, row |-> 0,
     list |-> {}, pending |-> 0, sel |-> Nobody, idle |-> FALSE, since |-> <<>>]

Init ==
    /\ account = [l \in Logins |-> [enabled |-> TRUE, primary |-> 1, apps |-> {}]]
    /\ minted = 1
    /\ cached = {}
    /\ conn = [c \in Conns |-> Fresh]
    /\ sessions = [c \in {} |-> 0]
    /\ budget = [held |-> [c \in {} |-> 0], byLogin |-> [l \in Logins |-> 0], total |-> 0]
    /\ fails = <<>>
    /\ clock = [now |-> 0, cutoff |-> 0]
    /\ checks = {}
    /\ guesses = [ip \in Ips |-> {}]
    /\ evicted = {}

-----------------------------------------------------------------------------
(* The throttle. *)

Tracked(f) == {f[k].ip : k \in DOMAIN f}

\* Where an address is, which is in one place at most.
At(f, ip) == CHOOSE k \in DOMAIN f : f[k].ip = ip

Recent(f, ip) == IF ip \in Tracked(f) THEN {t \in f[At(f, ip)].times : t > clock.cutoff} ELSE {}

\* #recent: what has left the window is dropped, for this address only.
Pruned(f, ip) ==
    IF ip \notin Tracked(f) THEN f
    ELSE IF Recent(f, ip) = {} THEN RemoveAt(f, At(f, ip))
    ELSE [f EXCEPT ![At(f, ip)].times = Recent(f, ip)]

Blocked(ip) == Cardinality(Recent(fails, ip)) >= MaxFailures

\* The address tracked longest makes room for a new one.
Evicting(f, ip) == ip \notin Tracked(f) /\ Len(f) >= Cap

RecordFailure(ip) ==
    LET f == Pruned(fails, ip)
        room == IF Evicting(f, ip) THEN Tail(f) ELSE f
        now == clock.now + 1
    IN  /\ fails' = IF ip \in Tracked(f)
                    THEN [f EXCEPT ![At(f, ip)].times = @ \cup {now}]
                    ELSE Append(room, [ip |-> ip, times |-> {now}])
        /\ evicted' = IF Evicting(f, ip) THEN evicted \cup {f[1].ip} ELSE evicted
        /\ clock' = [clock EXCEPT !.now = now]
        /\ guesses' = [guesses EXCEPT ![ip] = @ \cup {now}]

BugRecordSuccess(ip) ==
    fails' = IF ip \in Tracked(fails) THEN RemoveAt(fails, At(fails, ip)) ELSE fails

\* A success forgets only what has left the window.
RecordSuccess(ip) == fails' = Pruned(fails, ip)

\* AUTH at the submission port: refused while the address is blocked, or a check
\* is awaited, which the end of the connection does not end.  A handler is as
\* good as new after it.
Submission(d) ==
    /\ d \notin checks /\ clock.now < MaxFails
    /\ fails' = Pruned(fails, Ip[d])
    /\ checks' = IF Blocked(Ip[d]) THEN checks ELSE checks \cup {d}
    /\ UNCHANGED <<account, minted, cached, conn, sessions, budget, clock, guesses, evicted>>

SubmissionFails(d) ==
    /\ d \in checks
    /\ RecordFailure(Ip[d])
    /\ checks' = checks \ {d}
    /\ UNCHANGED <<account, minted, cached, conn, sessions, budget>>

SubmissionPasses(d) ==
    /\ d \in checks
    /\ RecordSuccess(Ip[d])
    /\ checks' = checks \ {d}
    /\ UNCHANGED <<account, minted, cached, conn, sessions, budget, clock, guesses, evicted>>

\* Time passes: the oldest failure leaves the window.
Lapse ==
    /\ clock.cutoff < clock.now
    /\ clock' = [clock EXCEPT !.cutoff = @ + 1]
    /\ guesses' = [ip \in Ips |-> {t \in guesses[ip] : t > clock.cutoff + 1}]
    /\ UNCHANGED <<account, minted, cached, conn, sessions, budget, fails, checks, evicted>>

-----------------------------------------------------------------------------
(* The budget of uploads. *)

PerLogin == IF MaxLiteral > MaxInflight \div Shares THEN MaxLiteral ELSE MaxInflight \div Shares

BugFitsBudget(l, size) == budget.total + size <= MaxInflight

FitsBudget(l, size) ==
    /\ budget.byLogin[l] + size <= PerLogin
    /\ budget.total + size <= MaxInflight

Reserved(b, c, l, size) ==
    [held |-> [d \in DOMAIN b.held \cup {c} |-> IF d = c THEN [size |-> size, login |-> l] ELSE b.held[d]],
     byLogin |-> [b.byLogin EXCEPT ![l] = @ + size],
     total |-> b.total + size]

\* How many octets the uploads of the connections S hold: as pairs, to count them.
Octets(held, S) == Cardinality(UNION {{c} \X (1..held[c].size) : c \in S})

HeldBy(held, l, S) == {c \in DOMAIN held \cap S : held[c].login = l}

\* One after the other, those of S that hold anything.
Released(b, S) ==
    [held |-> [c \in DOMAIN b.held \ S |-> b.held[c]],
     byLogin |-> [l \in Logins |-> b.byLogin[l] - Octets(b.held, HeldBy(b.held, l, S))],
     total |-> b.total - Octets(b.held, DOMAIN b.held \cap S)]

-----------------------------------------------------------------------------
(* Connections. *)

\* The handler runs: for a client, or for what one had sent before it went.
Runs(c) == conn[c].up \/ conn[c].ahead > 0

\* The record of c after one more command: s, and one fewer ahead.
Ran(c, s) == conn' = [conn EXCEPT ![c] = IF s.up THEN s ELSE [s EXCEPT !.ahead = @ - 1]]

\* The socket of each connection in S is gone.  Another connection takes its
\* place, unless the handler still awaits a derivation.
Shut(S) ==
    /\ conn' = [c \in Conns |->
                   IF c \notin S THEN conn[c]
                   ELSE IF conn[c].phase \in {"primary", "apps"}
                   THEN [conn[c] EXCEPT !.up = FALSE, !.ahead = MaxAhead]
                   ELSE Fresh]
    /\ sessions' = [c \in DOMAIN sessions \ S |-> sessions[c]]
    /\ budget' = Released(budget, S)

\* LOGOUT, a timeout, an error, or the client goes away: at any point.
Close(c) ==
    /\ conn[c].up
    /\ Shut({c})
    /\ UNCHANGED <<account, minted, cached, Throttle>>

\* LOGIN, or AUTHENTICATE with its response.
MayLogin(c) == Runs(c) /\ conn[c].phase = "ready" /\ clock.now < MaxFails

LoginBlocked(c) ==
    /\ MayLogin(c) /\ Blocked(Ip[c])
    /\ fails' = Pruned(fails, Ip[c])
    /\ Ran(c, conn[c])
    /\ UNCHANGED <<Accounts, cached, sessions, budget, clock, checks, guesses, evicted>>

\* The login is refused: the failure is recorded, the client may try again.
Refuse(c) ==
    /\ RecordFailure(Ip[c])
    /\ conn' = [conn EXCEPT ![c] = [@ EXCEPT !.phase = "ready", !.login = Nobody, !.try = 0,
                                               !.row = 0, !.list = {}]]
    /\ UNCHANGED <<account, minted, sessions, budget, checks>>

LoginDisabled(c, l) ==
    /\ MayLogin(c) /\ ~Blocked(Ip[c]) /\ ~account[l].enabled
    /\ Ran(c, conn[c])
    /\ RecordFailure(Ip[c])
    /\ UNCHANGED <<Accounts, cached, sessions, budget, checks>>

BugLogin(c, l, try) ==
    /\ Runs(c) /\ conn[c].phase \in {"ready", "authed"}
    /\ conn[c].pending = 0 /\ ~conn[c].idle
    /\ clock.now < MaxFails /\ ~Blocked(Ip[c]) /\ account[l].enabled
    /\ fails' = Pruned(fails, Ip[c])
    /\ Ran(c, [conn[c] EXCEPT !.phase = "primary", !.login = l, !.try = try,
                               !.row = account[l].primary])
    /\ UNCHANGED <<Accounts, cached, sessions, budget, clock, checks, guesses, evicted>>

\* A password the account has, or one it has not; a former one is like that.
Tries(l) == {0, account[l].primary} \cup account[l].apps

\* The row is read, and the first derivation awaited.
Login(c, l, try) ==
    /\ MayLogin(c) /\ ~Blocked(Ip[c]) /\ account[l].enabled
    /\ fails' = Pruned(fails, Ip[c])
    /\ Ran(c, [conn[c] EXCEPT !.phase = "primary", !.login = l, !.try = try,
                               !.row = account[l].primary])
    /\ UNCHANGED <<Accounts, cached, sessions, budget, clock, checks, guesses, evicted>>

\* bindAccount: the store is opened unless it is open, and not for a disabled
\* account; the session is tagged with the credentials there are now.
Bind(c) ==
    LET l == conn[c].login IN
    IF l \in cached \/ account[l].enabled
    THEN /\ cached' = cached \cup {l}
         /\ conn' = [conn EXCEPT ![c] = [@ EXCEPT !.phase = "authed", !.row = 0, !.list = {},
                                                    !.since = Tag(l)]]
         /\ sessions' = [d \in DOMAIN sessions \cup {c} |->
                            IF d = c THEN [login |-> l, tag |-> Tag(l)] ELSE sessions[d]]
         /\ RecordSuccess(Ip[c])
         /\ UNCHANGED <<account, minted, budget, clock, checks, guesses, evicted>>
    ELSE Refuse(c) /\ UNCHANGED cached

\* The derivation is back.  The app passwords are read only now.
VerifyPrimary(c) ==
    /\ conn[c].phase = "primary"
    /\ LET apps == account[conn[c].login].apps IN
       \/ conn[c].try = conn[c].row /\ Bind(c)
       \/ conn[c].try # conn[c].row /\ apps = {} /\ Refuse(c) /\ UNCHANGED cached
       \/ /\ conn[c].try # conn[c].row /\ apps # {}
          /\ conn' = [conn EXCEPT ![c].phase = "apps", ![c].list = apps]
          /\ UNCHANGED <<Accounts, cached, sessions, budget, Throttle>>

VerifyApps(c) ==
    /\ conn[c].phase = "apps"
    /\ IF conn[c].try \in conn[c].list THEN Bind(c) ELSE Refuse(c) /\ UNCHANGED cached

-----------------------------------------------------------------------------
(* Commands of a session. *)

\* A command line is read: no literal is awaited, nor DONE.
Command(c) == Runs(c) /\ conn[c].phase = "authed" /\ conn[c].pending = 0 /\ ~conn[c].idle

Admitted(c) == Command(c) /\ account[conn[c].login].enabled

\* The account has been disabled: the command ends the connection instead.
CutDisabled(c) ==
    /\ Command(c) /\ ~account[conn[c].login].enabled
    /\ IF conn[c].up THEN Shut({c})
       ELSE conn' = [conn EXCEPT ![c].ahead = 0] /\ UNCHANGED <<sessions, budget>>
    /\ UNCHANGED <<Accounts, cached, Throttle>>

Select(c) ==
    /\ Admitted(c) /\ conn[c].sel = Nobody
    /\ Ran(c, [conn[c] EXCEPT !.sel = conn[c].login])
    /\ UNCHANGED <<Accounts, cached, sessions, budget, Throttle>>

\* IDLE subscribes to the mailbox; DONE, or the end of the connection, ends it.
Idle(c) ==
    /\ Admitted(c) /\ conn[c].sel # Nobody
    /\ Ran(c, [conn[c] EXCEPT !.idle = TRUE])
    /\ UNCHANGED <<Accounts, cached, sessions, budget, Throttle>>

Done(c) ==
    /\ Runs(c) /\ conn[c].idle
    /\ Ran(c, [conn[c] EXCEPT !.idle = FALSE])
    /\ UNCHANGED <<Accounts, cached, sessions, budget, Throttle>>

\* APPEND announces a literal.  Refused, it changes nothing; a client that is
\* sending already is dropped.
AppendMail(c, size) ==
    /\ Admitted(c)
    /\ size <= MaxLiteral /\ FitsBudget(conn[c].login, size)
    /\ budget' = Reserved(budget, c, conn[c].login, size)
    /\ Ran(c, [conn[c] EXCEPT !.pending = size])
    /\ UNCHANGED <<Accounts, cached, sessions, Throttle>>

\* The literal is there: it is stored, or its mailbox is not.
Literal(c) ==
    /\ Runs(c) /\ conn[c].pending # 0
    /\ budget' = Released(budget, {c})
    /\ Ran(c, [conn[c] EXCEPT !.pending = 0])
    /\ UNCHANGED <<Accounts, cached, sessions, Throttle>>

\* The store throws: the octets are gone, the upload is taken to be awaited.
LiteralThrows(c) ==
    /\ Runs(c) /\ conn[c].pending # 0
    /\ Ran(c, conn[c])
    /\ UNCHANGED <<Accounts, cached, sessions, budget, Throttle>>

Stale(c) ==
    \/ ~account[sessions[c].login].enabled
    \/ sessions[c].tag # Tag(sessions[c].login)

BugSweep ==
    /\ \E c \in DOMAIN sessions : Stale(c) /\ ~conn[c].idle
    /\ Shut({c \in DOMAIN sessions : Stale(c) /\ ~conn[c].idle})
    /\ UNCHANGED <<Accounts, cached, Throttle>>

\* The timer: sockets already gone are dropped from the table too.
Sweep ==
    /\ \E c \in DOMAIN sessions : Stale(c)
    /\ Shut({c \in DOMAIN sessions : Stale(c)})
    /\ UNCHANGED <<Accounts, cached, Throttle>>

-----------------------------------------------------------------------------
(* The operator. *)

Operator == UNCHANGED <<cached, conn, sessions, budget, Throttle>>

SetEnabled(l, on) ==
    /\ account' = [account EXCEPT ![l].enabled = on]
    /\ UNCHANGED minted /\ Operator

\* The row is read, the password asked for, the row written: on is whether the
\* account was enabled when the command began, which may have changed since.
SetPassword(l, on) ==
    /\ minted < MaxCreds
    /\ minted' = minted + 1
    /\ account' = [account EXCEPT ![l].primary = minted + 1, ![l].enabled = on]
    /\ Operator

AddAppPassword(l) ==
    /\ minted < MaxCreds
    /\ minted' = minted + 1
    /\ account' = [account EXCEPT ![l].apps = @ \cup {minted + 1}]
    /\ Operator

RemoveAppPassword(l, a) ==
    /\ account' = [account EXCEPT ![l].apps = @ \ {a}]
    /\ UNCHANGED minted /\ Operator

Next ==
    \/ Lapse \/ Sweep
    \/ \E d \in Submitters : Submission(d) \/ SubmissionFails(d) \/ SubmissionPasses(d)
    \/ \E l \in Managed :
          \/ \E on \in BOOLEAN : SetEnabled(l, on) \/ SetPassword(l, on)
          \/ AddAppPassword(l)
          \/ \E a \in account[l].apps : RemoveAppPassword(l, a)
    \/ \E c \in Conns :
          \/ Close(c) \/ LoginBlocked(c)
          \/ \E l \in Logins : LoginDisabled(c, l) \/ \E try \in Tries(l) : Login(c, l, try)
          \/ VerifyPrimary(c) \/ VerifyApps(c)
          \/ CutDisabled(c) \/ Select(c) \/ Idle(c) \/ Done(c)
          \/ \E size \in Sizes : AppendMail(c, size)
          \/ Literal(c) \/ LiteralThrows(c)

\* The sweep is a timer of the daemon.
Spec == Init /\ [][Next]_vars /\ WF_vars(Sweep)

-----------------------------------------------------------------------------
(* Properties. *)

\* The octets held are those of the uploads in progress: a live connection holds
\* its upload's size and nothing else, none is counted twice or forgotten, and
\* neither a login's slice nor the whole is exceeded (#reserveAppend,
\* #releaseAppend, and every way an upload ends).
BudgetExact ==
    /\ \A c \in Conns : conn[c].up =>
          /\ c \in DOMAIN budget.held <=> conn[c].pending # 0
          /\ c \in DOMAIN budget.held => budget.held[c] = [size |-> conn[c].pending, login |-> conn[c].login]
    /\ \A l \in Logins :
          /\ budget.byLogin[l] = Octets(budget.held, HeldBy(budget.held, l, Conns))
          /\ budget.byLogin[l] <= PerLogin
    /\ budget.total = Octets(budget.held, DOMAIN budget.held)
    /\ budget.total <= MaxInflight

\* The handlers working for an address that neither await a check nor have passed
\* one: those that could begin another.
Free(ip) ==
    {c \in Conns : Ip[c] = ip /\ conn[c].phase = "ready"}
        \cup {d \in Submitters \ checks : Ip[d] = ip}

\* An address gets fewer wrong guesses than the limit in a window, but for those
\* let in together: the checks awaited when the limit was reached may still fail,
\* one for each handler, IMAP's and the submission port's alike.  No success in
\* between buys it more; unless so many other addresses failed that it was
\* forgotten (AuthThrottle, authBlocked and isBlocked before each check).
GuessesBounded ==
    \A ip \in Ips \ evicted : Cardinality(guesses[ip]) < MaxFailures + Cardinality(Free(ip))

\* Every live session is on the list the sweep goes by, under the account whose
\* mailbox it has open: a second login on the connection would leave the first
\* account's mailbox open under the second's name (the gate on LOGIN).
SessionOwnsHandle ==
    \A c \in Conns : conn[c].up /\ conn[c].phase = "authed" =>
        /\ c \in DOMAIN sessions /\ sessions[c].login = conn[c].login
        /\ conn[c].sel \in {Nobody, sessions[c].login}

\* The live sessions whose account is disabled, or whose credentials are not
\* those it had when the session began.
Revoked ==
    {c \in Conns : /\ conn[c].up /\ conn[c].phase = "authed"
                   /\ ~account[conn[c].login].enabled \/ conn[c].since # Tag(conn[c].login)}

\* They are all cut in the end, idle or half-way through an upload, by the timer
\* alone and whatever the clients do: a moment comes when there is none left,
\* or what revoked them has been undone (#sweepRevoked).
RevokedEnds == Revoked # {} ~> Revoked = {}

\* What docs/DEPLOYMENT.md says of set-password: a session whose credential has
\* been replaced is dropped.  The tag is taken after the derivation, so it may
\* be that of credentials the session was not verified against.
ReplacedCredentialEnds ==
    \A c \in Conns :
        LET l == conn[c].login
            live == conn[c].up /\ conn[c].phase = "authed"
            replaced == l \in Logins /\ conn[c].try \notin {account[l].primary} \cup account[l].apps
        IN  live /\ replaced ~> ~(live /\ replaced)

\* What imap-server.ts says of #releaseAppend, "on completion, error, or
\* disconnect": a connection that is gone holds nothing.
ClosedHoldsNothing ==
    \A c \in Conns : ~conn[c].up => c \notin DOMAIN budget.held /\ ~conn[c].idle
==============================================================================
