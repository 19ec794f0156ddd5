----------------------------- MODULE SmtpClient -----------------------------
(***************************************************************************)
(* One session of the outbound SMTP client (deliver) with one mail server, *)
(* for one recipient.  The client is lock-step: it sends a command and     *)
(* waits for one reply, a bounded time.  A reply that comes too late is    *)
(* not forgotten: it stays unread (replies) and the client's next read     *)
(* takes it for the answer to a later command.                             *)
(*                                                                         *)
(* The server (peer) answers by the state of its own transaction: a RCPT   *)
(* without a sender, or a DATA without a recipient, is refused 5yz.        *)
(*                                                                         *)
(* An operator named Bug... is the definition after it as a plausible      *)
(* mistake would have it; nothing uses it.  It serves to show that the     *)
(* properties notice the mistake.                                          *)
(***************************************************************************)
EXTENDS Naturals, Sequences

\* What a reply's code tells the client; "offer" is an EHLO 250 with STARTTLS.
Codes == {"2yz", "offer", "354", "4yz", "5yz"}
NoReply == "none"      \* a read that timed out, or found the peer gone

Is2yz(c) == c \in {"2yz", "offer"}
Is5yz(c) == c = "5yz"
IsRefusal(c) == c \in {"4yz", "5yz"}

Commands == {"ehlo", "helo", "starttls", "reehlo", "mail", "rcpt", "data", "eod"}
Awaited == {"greeting"} \cup Commands

VARIABLES
    phase,     \* "off", "connecting", "handshake", or what the reply awaited answers
    options,   \* the session's DeliveryOptions, and whether the envelope is ASCII
    replies,   \* said by the server, not yet read
    tls,       \* "clear", "opportunistic" or "valid"
    codes,     \* the codes read; "go", the answer to DATA, is not in the DeliveryResult
    outcome,   \* how the session ended
    peer,      \* the server's transaction state
    accepted   \* the server took responsibility for the message

clientVars == <<phase, options, replies, tls, codes, outcome, peer, accepted>>

Options == [startTls: BOOLEAN, validate: BOOLEAN, ascii: BOOLEAN]

CodesRead == {"greeting", "mail", "rcpt", "go", "data"}
NoCodes == [f \in CodesRead |-> NoReply]

ClientTypeOK ==
    /\ phase \in {"off", "connecting", "handshake"} \cup Awaited
    /\ options \in Options
    /\ replies \in Seq(Codes)
    /\ tls \in {"clear", "opportunistic", "valid"}
    /\ codes \in [CodesRead -> Codes \cup {NoReply}]
    /\ outcome \in {"running", "ok", "indeterminate", "handshake", "refused", "threw"}
    /\ peer \in {"fresh", "mail", "rcpt", "body", "tls", "gone"}
    /\ accepted \in BOOLEAN

ClientInit ==
    /\ phase = "off" /\ options = [startTls |-> TRUE, validate |-> FALSE, ascii |-> TRUE]
    /\ replies = <<>> /\ tls = "clear" /\ codes = NoCodes /\ outcome = "running"
    /\ peer = "gone" /\ accepted = FALSE

-----------------------------------------------------------------------------
(* The server *)

\* What it may do with a command: say a code, or nothing more (crash, drop,
\* refuse to speak in the clear while it expects a handshake).
Silent == [says |-> <<>>, then |-> "gone", takes |-> FALSE]
Says(c, s) == [says |-> <<c>>, then |-> s, takes |-> FALSE]
Refuses == {Says("4yz", peer), Says("5yz", peer)}

Answers(cmd) ==
    {Silent} \cup
    CASE peer \in {"gone", "tls"}   -> {}
      [] cmd \in {"ehlo", "reehlo"} -> {Says("2yz", "fresh"), Says("offer", "fresh")} \cup Refuses
      [] cmd = "helo"               -> {Says("2yz", "fresh")} \cup Refuses
      [] cmd = "starttls"           -> {Says("2yz", "tls")} \cup Refuses
      [] cmd = "mail"               -> {Says("2yz", "mail")} \cup Refuses
      [] cmd = "rcpt" -> IF peer = "mail" THEN {Says("2yz", "rcpt")} \cup Refuses
                                          ELSE {Says("5yz", peer)}
      [] cmd = "data" -> IF peer = "rcpt" THEN {Says("354", "body")} \cup Refuses
                                          ELSE {Says("5yz", peer)}
      [] cmd = "eod"  -> {[says |-> s, then |-> "fresh", takes |-> TRUE] : s \in {<<"2yz">>, <<>>}}
                           \cup {Says("4yz", "fresh"), Says("5yz", "fresh")}

-----------------------------------------------------------------------------
(* The client *)

\* What a read can return: the oldest unread reply, or none in time.
Readable == {[code |-> NoReply, rest |-> replies]} \cup
            {[code |-> Head(s), rest |-> Tail(s)] : s \in {replies} \ {<<>>}}

End(out) ==
    /\ outcome' = out
    /\ phase' = "off"
    /\ replies' = <<>> /\ peer' = "gone"
    /\ UNCHANGED <<options, tls, accepted>>

\* A write to a peer that has gone throws out of deliver.
QuitWith(out) == End(out) \/ End("threw")

Send(cmd, unread) ==
    \/ /\ phase' = cmd
       /\ \E a \in Answers(cmd) :
             /\ replies' = unread \o a.says
             /\ peer' = a.then
             /\ accepted' = (accepted \/ a.takes)
       /\ UNCHANGED <<options, tls, outcome>>
    \/ End("threw")

Dial(opts) ==
    /\ phase' = "connecting" /\ options' = opts /\ outcome' = "running"
    /\ replies' = <<>> /\ tls' = "clear" /\ codes' = NoCodes
    /\ peer' = "gone" /\ accepted' = FALSE

ConnectFails ==
    /\ phase = "connecting"
    /\ End("threw")
    /\ UNCHANGED codes

Connected ==
    /\ phase = "connecting"
    /\ phase' = "greeting"
    /\ \E a \in {Silent, Says("2yz", "fresh"), Says("4yz", "gone"), Says("5yz", "gone")} :
          replies' = a.says /\ peer' = a.then
    /\ UNCHANGED <<options, tls, codes, outcome, accepted>>

\* A required certificate is seen to where STARTTLS is decided, only.
BugOpenTransaction(unread) ==
    IF ~options.ascii THEN QuitWith("refused") ELSE Send("mail", unread)

\* What precedes MAIL: never in the clear under requireValidCert, and never
\* with an address the client cannot put on the wire.
OpenTransaction(unread) ==
    IF options.validate /\ tls = "clear" THEN End("refused")
    ELSE IF ~options.ascii THEN QuitWith("refused")
    ELSE Send("mail", unread)

OnGreeting == \E r \in Readable :
    /\ phase = "greeting"
    /\ codes' = [codes EXCEPT !.greeting = r.code]
    /\ IF Is2yz(r.code) THEN Send("ehlo", r.rest) ELSE QuitWith("refused")

OnEhlo == \E r \in Readable :
    /\ phase = "ehlo"
    /\ IF ~Is2yz(r.code) THEN Send("helo", r.rest)
       ELSE IF r.code = "offer" /\ (options.startTls \/ options.validate)
            THEN Send("starttls", r.rest)
       ELSE IF options.validate THEN End("refused")
       ELSE OpenTransaction(r.rest)
    /\ UNCHANGED codes

OnHelo == \E r \in Readable :
    /\ phase = "helo"
    /\ IF Is2yz(r.code) THEN OpenTransaction(r.rest) ELSE End("refused")
    /\ UNCHANGED codes

\* A refused STARTTLS goes on in the clear, unless a certificate is required.
OnStartTls == \E r \in Readable :
    /\ phase = "starttls"
    /\ IF Is2yz(r.code)
         THEN /\ phase' = "handshake" /\ replies' = r.rest
              /\ UNCHANGED <<options, tls, outcome, peer, accepted>>
       ELSE IF options.validate THEN End("refused")
       ELSE OpenTransaction(r.rest)
    /\ UNCHANGED codes

\* The handshake, and the EHLO over TLS: bytes read before it are discarded.
Handshake ==
    /\ phase = "handshake"
    /\ peer = "tls"
    /\ phase' = "reehlo"
    /\ tls' = IF options.validate THEN "valid" ELSE "opportunistic"
    /\ \E c \in Codes \cup {NoReply} :
          /\ c # "354"
          /\ replies' = IF c = NoReply THEN <<>> ELSE <<c>>
          /\ peer' = IF c = NoReply THEN "gone" ELSE "fresh"
    /\ UNCHANGED <<options, codes, outcome, accepted>>

\* ... or the peer cannot complete it, or its certificate is not valid.
HandshakeFails ==
    /\ phase = "handshake"
    /\ End(IF options.validate THEN "refused" ELSE "handshake")
    /\ UNCHANGED codes

OnReEhlo == \E r \in Readable :
    /\ phase = "reehlo"
    /\ IF Is2yz(r.code) THEN OpenTransaction(r.rest) ELSE End("refused")
    /\ UNCHANGED codes

\* RCPT follows whatever MAIL was answered.
OnMail == \E r \in Readable :
    /\ phase = "mail"
    /\ codes' = [codes EXCEPT !.mail = r.code]
    /\ Send("rcpt", r.rest)

OnRcpt == \E r \in Readable :
    /\ phase = "rcpt"
    /\ codes' = [codes EXCEPT !.rcpt = r.code]
    /\ IF Is5yz(codes.mail) \/ ~Is2yz(r.code) THEN QuitWith("refused")
                                              ELSE Send("data", r.rest)

\* Only a 354 is followed by the message and the terminating dot.
OnData == \E r \in Readable :
    /\ phase = "data"
    /\ codes' = [codes EXCEPT !.go = r.code]
    /\ IF r.code = "354" THEN Send("eod", r.rest) ELSE QuitWith("refused")

\* No reply is no refusal.
BugOnFinal == \E r \in Readable :
    /\ phase = "eod"
    /\ codes' = [codes EXCEPT !.data = r.code]
    /\ End(IF IsRefusal(r.code) THEN "refused" ELSE "ok")

\* The reply after the dot; a QUIT that fails here is swallowed.
OnFinal == \E r \in Readable :
    /\ phase = "eod"
    /\ codes' = [codes EXCEPT !.data = r.code]
    /\ End(IF Is2yz(r.code) THEN "ok"
           ELSE IF r.code = NoReply THEN "indeterminate" ELSE "refused")

Deliver ==
    \/ Connected \/ ConnectFails
    \/ OnGreeting \/ OnEhlo \/ OnHelo \/ OnStartTls \/ Handshake \/ HandshakeFails
    \/ OnReEhlo \/ OnMail \/ OnRcpt \/ OnData \/ OnFinal

\* The code the relay classifies a refusal by.
RefusalCode ==
    IF codes.data # NoReply THEN codes.data
    ELSE IF IsRefusal(codes.rcpt) THEN codes.rcpt
    ELSE IF codes.mail # NoReply THEN codes.mail
    ELSE codes.greeting
=============================================================================
