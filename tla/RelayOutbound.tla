---------------------------- MODULE RelayOutbound ----------------------------
(***************************************************************************)
(* relayOutbound: one message, relayed to one recipient after the other,   *)
(* over each recipient's MX hosts in preference order until a host         *)
(* answers, with MTA-STS, the guard against non-public targets, the time   *)
(* budget, and the abort signal of a stopping relay loop.  A session with  *)
(* a host is SmtpClient's.                                                 *)
(*                                                                         *)
(* Its result is what RelayLoop abstracts as RelayReturns: verdict gives   *)
(* the same five outcomes, and VerdictSound what they may be relied on for.*)
(*                                                                         *)
(* An operator named Bug... is the definition after it as a plausible      *)
(* mistake would have it; nothing uses it.  It serves to show that the     *)
(* properties notice the mistake.                                          *)
(***************************************************************************)
EXTENDS SmtpClient, FiniteSets, SequencesExt

CONSTANTS
    Rcpts,              \* the message's recipients
    NoDomain,           \* those without a domain
    Internationalized,  \* those whose address is not ASCII
    Hosts,              \* the mail servers that exist
    MaxHosts,           \* MAX_DELIVERY_HOSTS
    NoRcpt, NoHost

Verdicts == {"success", "transient", "indeterminate", "permanent", "skipped"}

ASSUME RelayOutboundAssumption ==
    /\ IsFiniteSet(Hosts)
    /\ NoDomain \subseteq Rcpts /\ Internationalized \subseteq Rcpts
    /\ MaxHosts \in Nat \ {0}
    /\ NoRcpt \notin Rcpts \cup Verdicts /\ NoHost \notin Hosts
    /\ \A P \in SUBSET Hosts : P # NoHost

VARIABLES
    stage,      \* where the relay is
    aborted,    \* opts.signal.aborted
    left,       \* recipients not yet reached
    rcpt, host, \* the recipient and the host at hand
    hosts,      \* candidateHosts not yet tried
    policy,     \* the hosts an enforce policy lists, or NoHost: no such policy
    saw,        \* the saw* flags
    verdict,    \* results
    \* what happened (history)
    holds,      \* <<recipient, host>>: that host accepted the message for it
    unheard,    \* hosts of this walk that could not be reached or answered nothing
    afterStop   \* what was at hand when the loop stopped, and the dials since

walkVars == <<left, rcpt, hosts, policy, saw, verdict>>
logVars == <<holds, unheard, afterStop>>
vars == <<clientVars, stage, aborted, host, walkVars, logVars>>

Flags == {"transient", "indeterminate", "authoritative", "local"}

\* A recipient and a host, and a connection opened for them, over TLS or in the clear.
AtHand == (Rcpts \cup {NoRcpt}) \X (Hosts \cup {NoHost})
Attempts == [to : AtHand, startTls : BOOLEAN]
Attempt(to, tlsToo) == [to |-> to, startTls |-> tlsToo]

TypeOK ==
    /\ ClientTypeOK
    /\ stage \in {"next", "resolve", "policy", "walk", "vet", "session", "returned"}
    /\ aborted \in BOOLEAN
    /\ left \subseteq Rcpts /\ rcpt \in Rcpts \cup {NoRcpt} /\ host \in Hosts \cup {NoHost}
    /\ hosts \in Seq(Hosts)
    /\ policy \in (SUBSET Hosts) \cup {NoHost}
    /\ saw \subseteq Flags
    /\ verdict \in [Rcpts -> Verdicts \cup {NoRcpt}]
    /\ holds \subseteq Rcpts \X Hosts /\ unheard \subseteq Hosts
    /\ afterStop \in [at : AtHand, dials : Seq(Attempts)]

Init ==
    /\ ClientInit
    /\ stage = "next" /\ aborted = FALSE
    /\ left = Rcpts /\ rcpt = NoRcpt /\ host = NoHost /\ hosts = <<>>
    /\ policy = NoHost /\ saw = {} /\ verdict = [r \in Rcpts |-> NoRcpt]
    /\ holds = {} /\ unheard = {}
    /\ afterStop = [at |-> <<NoRcpt, NoHost>>, dials |-> <<>>]

enforce == policy # NoHost

-----------------------------------------------------------------------------
(* One recipient after the other *)

\* results.push(...), and on to the next recipient.
Answer(r, v) ==
    /\ verdict' = [verdict EXCEPT ![r] = v]
    /\ stage' = "next"
    /\ rcpt' = NoRcpt /\ hosts' = <<>> /\ policy' = NoHost /\ saw' = {}

Begin(r) ==
    /\ stage = "next" /\ r \in left
    /\ left' = left \ {r}
    /\ IF aborted THEN Answer(r, "skipped")
       ELSE IF r \in NoDomain THEN Answer(r, "permanent")
       ELSE /\ stage' = "resolve" /\ rcpt' = r
            /\ UNCHANGED <<hosts, policy, saw, verdict>>
    /\ unheard' = {}
    /\ UNCHANGED <<clientVars, aborted, host, holds, afterStop>>

Return ==
    /\ stage = "next" /\ left = {}
    /\ stage' = "returned"
    /\ UNCHANGED <<clientVars, aborted, host, walkVars, logVars>>

\* The DNS lookup fails, finds nothing, a null MX, or hosts in preference order.
Resolve ==
    /\ stage = "resolve"
    /\ \/ Answer(rcpt, "transient") \/ Answer(rcpt, "permanent")
       \/ \E S \in (SUBSET Hosts) \ {{}} : \E found \in SetToSeqs(S) :
            /\ hosts' = found /\ stage' = "policy"
            /\ UNCHANGED <<rcpt, policy, saw, verdict>>
    /\ UNCHANGED <<clientVars, aborted, host, left, logVars>>

\* s lists some of the hosts of t, in the same order.
InOrderOf(s, t) ==
    \A i, j \in DOMAIN s, k, l \in DOMAIN t :
        i < j /\ s[i] = t[k] /\ s[j] = t[l] => k < l

\* An enforce policy restricts the walk to the hosts it lists; the walk is capped.
Policy(P) ==
    /\ stage = "policy"
    /\ LET allowed == {h \in ToSet(hosts) : P = NoHost \/ h \in P}
       IN \/ allowed = {} /\ Answer(rcpt, "transient")
          \/ \E listed \in SetToSeqs(allowed) :
                /\ listed # <<>> /\ InOrderOf(listed, hosts)
                /\ hosts' = SubSeq(listed, 1, IF Len(listed) < MaxHosts THEN Len(listed)
                                                                      ELSE MaxHosts)
                /\ policy' = P /\ stage' = "walk"
                /\ UNCHANGED <<rcpt, saw, verdict>>
    /\ UNCHANGED <<clientVars, aborted, host, left, logVars>>

-----------------------------------------------------------------------------
(* The walk over the candidate hosts *)

\* A refusal outranks; hosts that were all passed over give no class.
BugAggregate(s) ==
    IF s \cap {"authoritative", "local"} # {} THEN "permanent"
    ELSE IF "transient" \in s THEN "transient"
    ELSE "unclassified"

\* The aggregate of the hosts' outcomes, in the code's order of precedence
\* (it classifies "indeterminate" as transient too).
Aggregate(s) ==
    IF "indeterminate" \in s THEN "indeterminate"
    ELSE IF "transient" \in s THEN "transient"
    ELSE IF s \cap {"authoritative", "local"} # {} THEN "permanent"
    ELSE "transient"

\* At the head of the loop over the hosts; untried = hosts not yet at hand.
Conclude(s) ==
    /\ Answer(rcpt, Aggregate(s))
    /\ host' = NoHost

\* The abort signal is looked at between recipients only.
BugNextHost ==
    /\ stage = "walk"
    /\ \/ hosts = <<>> /\ Conclude(saw)
       \/ /\ hosts # <<>> /\ host # NoHost
          /\ Conclude(saw \cup {"transient"})
       \/ /\ hosts # <<>>
          /\ host' = Head(hosts) /\ hosts' = Tail(hosts) /\ stage' = "vet"
          /\ UNCHANGED <<rcpt, policy, saw, verdict>>
    /\ UNCHANGED <<clientVars, aborted, left, logVars>>

NextHost ==
    /\ stage = "walk"
    /\ \/ hosts = <<>> /\ Conclude(saw)
       \/ hosts # <<>> /\ aborted /\ Conclude(saw \cup {"transient"})
       \/ /\ hosts # <<>> /\ ~aborted /\ host # NoHost  \* the budget is spent
          /\ Conclude(saw \cup {"transient"})
       \/ /\ hosts # <<>> /\ ~aborted
          /\ host' = Head(hosts) /\ hosts' = Tail(hosts) /\ stage' = "vet"
          /\ UNCHANGED <<rcpt, policy, saw, verdict>>
    /\ UNCHANGED <<clientVars, aborted, left, logVars>>

SessionOptions(tlsToo) ==
    [startTls |-> tlsToo, validate |-> tlsToo /\ enforce, ascii |-> rcpt \notin Internationalized]

DialHost(tlsToo) ==
    /\ Dial(SessionOptions(tlsToo))
    /\ afterStop' = IF aborted
                    THEN [afterStop EXCEPT !.dials = Append(@, Attempt(<<rcpt, host>>, tlsToo))]
                    ELSE afterStop

\* The host is refused as not public, does not resolve, or is dialled.
VetHost ==
    /\ stage = "vet"
    /\ \/ /\ saw' = saw \cup {"local"} /\ stage' = "walk"
          /\ UNCHANGED <<clientVars, logVars>>
       \/ /\ saw' = saw \cup {"transient"} /\ stage' = "walk"
          /\ unheard' = unheard \cup {host}
          /\ UNCHANGED <<clientVars, holds, afterStop>>
       \/ /\ stage' = "session" /\ DialHost(TRUE)
          /\ UNCHANGED <<saw, holds, unheard>>
    /\ UNCHANGED <<aborted, left, rcpt, host, hosts, policy, verdict>>

\* A step of the session with the host.
InSession ==
    /\ stage = "session"
    /\ Deliver
    /\ holds' = IF accepted' THEN holds \cup {<<rcpt, host>>} ELSE holds
    /\ UNCHANGED <<stage, aborted, host, walkVars, unheard, afterStop>>

SessionOver == stage = "session" /\ phase = "off"

\* Opportunistic TLS that cannot be completed: the same host again, in the clear.
Fallback ==
    /\ SessionOver /\ outcome = "handshake" /\ ~enforce
    /\ DialHost(FALSE)
    /\ UNCHANGED <<stage, aborted, host, walkVars, holds, unheard>>

Delivered ==
    /\ SessionOver /\ outcome = "ok"
    /\ Answer(rcpt, "success") /\ host' = NoHost
    /\ UNCHANGED <<clientVars, aborted, left, logVars>>

\* Sent, nothing heard: the next host may do better.
BugIndeterminate ==
    /\ SessionOver /\ outcome = "indeterminate"
    /\ saw' = saw \cup {"indeterminate"} /\ stage' = "walk"
    /\ UNCHANGED <<clientVars, aborted, left, rcpt, host, hosts, policy, verdict, logVars>>

\* Sent, and nothing heard: no other host may be tried.
Indeterminate ==
    /\ SessionOver /\ outcome = "indeterminate"
    /\ Conclude(saw \cup {"indeterminate"})
    /\ UNCHANGED <<clientVars, aborted, left, logVars>>

\* A refusal with a 5yz is the recipient's infrastructure speaking.
Refused ==
    /\ SessionOver /\ outcome = "refused" /\ Is5yz(RefusalCode)
    /\ Conclude(saw \cup {"authoritative"})
    /\ UNCHANGED <<clientVars, aborted, left, logVars>>

\* Anything else is worth another host, and a retry.
HostFailed ==
    /\ SessionOver
    /\ outcome = "threw" \/ (outcome = "refused" /\ ~Is5yz(RefusalCode))
    /\ saw' = saw \cup {"transient"}
    /\ stage' = "walk"
    /\ unheard' = IF codes.greeting = NoReply THEN unheard \cup {host} ELSE unheard
    /\ UNCHANGED <<clientVars, aborted, left, rcpt, host, hosts, policy, verdict,
                   holds, afterStop>>

\* The relay loop is stopping.  (The relay notices between hosts.)
Abort ==
    /\ stage # "returned"
    /\ ~aborted
    /\ aborted' = TRUE
    /\ afterStop' = [afterStop EXCEPT !.at = <<rcpt, host>>]
    /\ UNCHANGED <<clientVars, stage, host, walkVars, holds, unheard>>

Next ==
    \/ \E r \in Rcpts : Begin(r)
    \/ Return \/ Resolve
    \/ \E P \in (SUBSET Hosts) \cup {NoHost} : Policy(P)
    \/ NextHost \/ VetHost \/ InSession \/ Fallback
    \/ Delivered \/ Indeterminate \/ Refused \/ HostFailed
    \/ Abort

Spec == Init /\ [][Next]_vars

-----------------------------------------------------------------------------
(* What the relay promises the loop *)

Holders(r) == {h \in Hosts : <<r, h>> \in holds}

(* The contract RelayLoop's RelayReturns rests on: a recipient said to be  *)
(* delivered has a copy at a host; one refused, or to be retried, or not   *)
(* tried, has none - however late the replies came and wherever the        *)
(* session broke.  Only "indeterminate" leaves it open.                    *)
VerdictSound ==
    \A r \in Rcpts :
        /\ verdict[r] = "success" => Holders(r) # {}
        /\ verdict[r] \in {"transient", "permanent", "skipped"} => Holders(r) = {}

(* One walk leaves a recipient's message with one host at most: a host     *)
(* that may hold it ends the walk (outbound.ts, sawIndeterminate).         *)
OneCopyPerWalk == \A r \in Rcpts : Cardinality(Holders(r)) <= 1

(* Under an enforce policy no command of a mail transaction is sent in the *)
(* clear, without a valid certificate, or to a host the policy does not    *)
(* list - whatever the server refuses (EHLO, STARTTLS) on the way there.   *)
NeverInTheClear ==
    stage = "session" /\ enforce /\ phase \in {"mail", "rcpt", "data", "eod"} =>
        tls = "valid" /\ host \in policy

(* A refusal by one host does not outrank a more preferred host that was   *)
(* not reached: it may still accept (outbound.ts, the merge).              *)
UnreachedOutranksRefusal ==
    [][rcpt # NoRcpt /\ verdict' # verdict /\ verdict'[rcpt] = "permanent"
          => unheard = {}]_vars

(* After a stop only the host that was at hand is dialled, for the          *)
(* recipient that was at hand, and a second time only in the clear after a  *)
(* first time over TLS: no other host's turn comes and no other recipient's *)
(* (outbound.ts, signal).  The comment there bounds a stop by one           *)
(* connection, which is not so: see OneConnectAfterStop.                    *)
StopEndsWalk ==
    \A i \in DOMAIN afterStop.dials :
        /\ afterStop.dials[i].to = afterStop.at
        /\ \A j \in DOMAIN afterStop.dials :
              i < j => afterStop.dials[i].startTls /\ ~afterStop.dials[j].startTls

-----------------------------------------------------------------------------
(* What comments and documents say, and the code does not do *)

\* The first reply of the transaction that was a refusal.
FirstRefusal ==
    IF IsRefusal(codes.greeting) THEN codes.greeting
    ELSE IF IsRefusal(codes.mail) THEN codes.mail
    ELSE IF IsRefusal(codes.rcpt) THEN codes.rcpt
    ELSE IF IsRefusal(codes.go) THEN codes.go
    ELSE codes.data

(* outbound.ts: a refusal is classified by "the code that refused us, in   *)
(* transaction order".                                                     *)
FirstRefusalDecides ==
    SessionOver /\ outcome = "refused" /\ Is5yz(RefusalCode) => Is5yz(FirstRefusal)

(* outbound.ts and relay-loop.ts: a stop is "bounded by at most one         *)
(* in-flight connect timeout".  The signal is not looked at between the     *)
(* attempt over TLS and the one in the clear.                               *)
OneConnectAfterStop == Len(afterStop.dials) <= 1
==============================================================================
