------------------------- MODULE RelayOutboundProofs -------------------------
(***************************************************************************)
(* Machine-checked theorems about RelayOutbound, for every value of its    *)
(* constants.  SessionInv is about the SMTP session at hand (SmtpClient),  *)
(* the other invariants about the walk: where the copies are, what the     *)
(* policy asks, which hosts were not reached, what a stop leaves to do.    *)
(***************************************************************************)
EXTENDS RelayOutbound, SequenceTheorems, FiniteSetTheorems, TLAPS

(* Only the answer to DATA is a 354, so none is there before, and it is    *)
(* the last thing the server said when the client reads it.                *)
Plain(s) == \A i \in DOMAIN s : s[i] # "354"
GoLast(s) == \A i \in DOMAIN s : s[i] = "354" => i = Len(s)

Transaction == {"mail", "rcpt", "data", "eod"}

(* Late replies do not reach the end of the message: what the client reads *)
(* there is what the server said to the message, or nothing.               *)
SessionInv ==
    /\ ClientTypeOK
    /\ phase \notin {"data", "eod"} => Plain(replies)
    /\ phase = "data" => GoLast(replies)
    /\ phase = "eod" => replies \in IF accepted THEN {<<>>, <<"2yz">>}
                                                ELSE {<<>>, <<"4yz">>, <<"5yz">>}
    /\ phase # "off" => outcome = "running"
    /\ accepted => phase = "eod" \/ outcome \in {"ok", "indeterminate"}
    /\ outcome = "ok" => accepted
    /\ options.validate => options.startTls /\ tls # "opportunistic"
    /\ options.validate /\ phase \in Transaction => tls = "valid"
    /\ phase \in {"starttls", "handshake"} \/ outcome = "handshake" => options.startTls

(* A copy at a host belongs to a recipient done with, or to the one in the *)
(* session at hand; the latter has no verdict yet.                         *)
CopiesInv ==
    /\ \A c \in holds :
          /\ c[1] \notin left
          /\ c[1] = rcpt => stage = "session" /\ accepted /\ c[2] = host
    /\ stage = "session" /\ accepted => <<rcpt, host>> \in holds
    /\ \A c, d \in holds : c[1] = d[1] => c[2] = d[2]
    /\ \A r \in left \cup {rcpt} : r \in Rcpts => verdict[r] = NoRcpt
    /\ stage \in {"resolve", "policy", "walk", "vet", "session"} <=> rcpt \in Rcpts
    /\ rcpt \notin left

(* The walk goes to the hosts the policy lists, and to each as it demands. *)
PolicyInv ==
    /\ stage = "session" => (options.validate <=> enforce)
    /\ stage \in {"next", "resolve", "policy"} => ~enforce
    /\ enforce => hosts \in Seq(policy) /\ (stage \in {"vet", "session"} => host \in policy)
    /\ stage \in {"vet", "session"} => host \in Hosts

(* A host not reached in this walk is remembered as worth a retry.         *)
UnheardInv ==
    /\ stage \in {"resolve", "policy"} => unheard = {}
    /\ stage \in {"walk", "vet", "session"} /\ unheard # {} => "transient" \in saw

(* Since the stop the host then at hand is dialled once over TLS and once   *)
(* in the clear, or only one of the two.                                    *)
StopInv ==
    /\ ~aborted \/ stage = "vet" => afterStop.dials = <<>>
    /\ aborted /\ stage \in {"vet", "session"} => afterStop.at = <<rcpt, host>>
    /\ stage = "session" /\ options.startTls =>
          afterStop.dials \in {<<>>, <<Attempt(afterStop.at, TRUE)>>}
    /\ \/ \E t \in BOOLEAN : afterStop.dials \in {<<>>, <<Attempt(afterStop.at, t)>>}
       \/ afterStop.dials = <<Attempt(afterStop.at, TRUE), Attempt(afterStop.at, FALSE)>>

-----------------------------------------------------------------------------
(* What the client reads, and what the server says *)

(* A read takes the oldest reply, or none; a 354 is nobody's oldest but    *)
(* the last.                                                               *)
LEMMA ReadOne ==
  ASSUME replies \in Seq(Codes), NEW r \in Readable
  PROVE  /\ r.code \in Codes \cup {NoReply} /\ r.rest \in Seq(Codes)
         /\ Plain(replies) => Plain(r.rest)
         /\ GoLast(replies) => (IF r.code = "354" THEN r.rest = <<>> ELSE GoLast(r.rest))
         /\ r.code # NoReply => \E s \in {replies} : s # <<>> /\ r.code = Head(s) /\ r.rest = Tail(s)
<1>1. CASE r = [code |-> NoReply, rest |-> replies]
  BY <1>1 DEF NoReply
<1>2. CASE replies # <<>> /\ r = [code |-> Head(replies), rest |-> Tail(replies)]
  <2>1. /\ Head(replies) \in Codes /\ Tail(replies) \in Seq(Codes)
        /\ Len(Tail(replies)) = Len(replies) - 1 /\ Len(replies) \in Nat \ {0}
        /\ \A i \in 1..Len(Tail(replies)) : Tail(replies)[i] = replies[i + 1]
    BY <1>2, HeadTailProperties, EmptySeq
  <2>2. /\ DOMAIN replies = 1..Len(replies)
        /\ DOMAIN Tail(replies) = 1..Len(Tail(replies))
        /\ Head(replies) = replies[1]
    BY <1>2, <2>1, LenProperties
  <2>3. r.code = replies[1] /\ r.rest = Tail(replies)
    BY <1>2, <2>2
  <2>4. Plain(replies) => Plain(r.rest)
    BY <2>1, <2>2, <2>3 DEF Plain
  <2>5. ASSUME GoLast(replies), r.code = "354" PROVE r.rest = <<>>
    <3>1. 1 = Len(replies)
      BY <2>1, <2>2, <2>3, <2>5 DEF GoLast
    <3>2. Len(Tail(replies)) = 0
      BY <2>1, <3>1
    <3>3. QED
      BY <2>1, <2>3, <3>2, EmptySeq
  <2>6. ASSUME GoLast(replies) PROVE GoLast(r.rest)
    BY <2>1, <2>2, <2>3, <2>6 DEF GoLast
  <2>7. QED
    BY <1>2, <2>1, <2>3, <2>4, <2>5, <2>6
<1>3. QED
  BY <1>1, <1>2 DEF Readable

(* Only DATA is answered 354, and only the end of the message is taken -   *)
(* which a server that does not say so may have done all the same.         *)
LEMMA ServerAnswers ==
  ASSUME ClientTypeOK, NEW cmd \in Commands, NEW a \in Answers(cmd)
  PROVE  /\ a.says = <<>> \/ \E c \in Codes : a.says = <<c>> /\ (cmd # "data" => c # "354")
         /\ a.then \in {"fresh", "mail", "rcpt", "body", "tls", "gone"} /\ a.takes \in BOOLEAN
         /\ cmd # "eod" => ~a.takes
         /\ cmd = "eod" => a.says \in IF a.takes THEN {<<>>, <<"2yz">>}
                                                 ELSE {<<>>, <<"4yz">>, <<"5yz">>}
<1> DEFINE States == {"fresh", "mail", "rcpt", "body", "tls", "gone"}
           Harmless == {Says(c, s) : c \in Codes \ {"354"}, s \in States}
           Taken == {[says |-> s, then |-> "fresh", takes |-> TRUE] : s \in {<<"2yz">>, <<>>}}
<1>1. /\ \A c, s : Says(c, s).says = <<c>> /\ Says(c, s).then = s /\ Says(c, s).takes = FALSE
      /\ Codes = {"2yz", "offer", "354", "4yz", "5yz"} /\ peer \in States
  BY DEF Says, Codes, ClientTypeOK
<1>2. Refuses \subseteq Harmless
  BY <1>1 DEF Refuses
<1>3. /\ \A s \in {"fresh", "mail", "rcpt", "tls"} : Says("2yz", s) \in Harmless
      /\ Says("offer", "fresh") \in Harmless
      /\ \A c \in {"4yz", "5yz"} : Says(c, peer) \in Harmless /\ Says(c, "fresh") \in Harmless
  BY <1>1
<1>4. ASSUME NEW b \in Harmless
      PROVE  /\ \E c \in Codes : b.says = <<c>> /\ c # "354"
             /\ b.then \in States /\ b.takes = FALSE
  BY <1>1
<1> HIDE DEF Harmless
<1>5. CASE cmd \in {"ehlo", "reehlo"} /\ a # Silent
  <2>1. a \in {Says("2yz", "fresh"), Says("offer", "fresh")} \cup Refuses
    BY <1>5 DEF Answers
  <2>2. a \in Harmless
    BY <1>2, <1>3, <2>1
  <2>3. QED
    BY <1>5, <1>4, <2>2
<1>6. CASE cmd = "helo" /\ a # Silent
  <2>1. a \in {Says("2yz", "fresh")} \cup Refuses
    BY <1>6 DEF Answers
  <2>2. a \in Harmless
    BY <1>2, <1>3, <2>1
  <2>3. QED
    BY <1>6, <1>4, <2>2
<1>7. CASE cmd \in {"starttls", "mail"} /\ a # Silent
  <2>1. a \in {Says("2yz", "tls"), Says("2yz", "mail")} \cup Refuses
    BY <1>7 DEF Answers
  <2>2. a \in Harmless
    BY <1>2, <1>3, <2>1
  <2>3. QED
    BY <1>7, <1>4, <2>2
<1>8. CASE cmd = "rcpt" /\ a # Silent
  <2>1. a \in {Says("2yz", "rcpt"), Says("5yz", peer)} \cup Refuses
    BY <1>8 DEF Answers
  <2>2. a \in Harmless
    BY <1>2, <1>3, <2>1
  <2>3. QED
    BY <1>8, <1>4, <2>2
<1>9. CASE cmd = "data" /\ a # Silent
  <2>1. a \in {Says("354", "body"), Says("5yz", peer)} \cup Refuses
    BY <1>9 DEF Answers
  <2>2. a \in Harmless \/ a = Says("354", "body")
    BY <1>2, <1>3, <2>1
  <2>3. QED
    <3>1. CASE a \in Harmless
      BY <1>9, <1>4, <3>1
    <3>2. CASE a = Says("354", "body")
      <4>1. a.says = <<"354">> /\ "354" \in Codes /\ a.then = "body" /\ a.takes = FALSE
        BY <1>1, <3>2
      <4>2. QED
        BY <1>9, <4>1
    <3>3. QED
      BY <2>2, <3>1, <3>2
<1>10. CASE cmd = "eod" /\ a # Silent
  <2>1. a \in Taken \cup {Says("4yz", "fresh"), Says("5yz", "fresh")}
    BY <1>10 DEF Answers
  <2>2. CASE a \in Taken
    <3>1. /\ a.says \in {<<>>, <<"2yz">>} /\ \E c \in Codes \ {"354"} : a.says \in {<<>>, <<c>>}
          /\ a.then = "fresh" /\ a.takes = TRUE
      BY <1>1, <2>2
    <3>2. QED
      BY <1>10, <3>1
  <2>3. CASE a \in {Says("4yz", "fresh"), Says("5yz", "fresh")}
    <3>1. PICK c \in {"4yz", "5yz"} : a = Says(c, "fresh")
      BY <2>3
    <3>2. /\ a.says = <<c>> /\ c \in Codes /\ c # "354"
          /\ a.then = "fresh" /\ a.takes = FALSE
      BY <1>1, <3>1
    <3>3. a.says \in {<<>>, <<"4yz">>, <<"5yz">>}
      BY <3>2
    <3>4. QED
      BY <1>10, <3>2, <3>3
  <2>4. QED
    BY <2>1, <2>2, <2>3
<1>11. CASE a = Silent
  BY <1>11 DEF Silent
<1>12. QED
  BY <1>5, <1>6, <1>7, <1>8, <1>9, <1>10, <1>11 DEF Commands

(* One more reply is the last one.                                         *)
LEMMA OneMore ==
  ASSUME NEW s \in Seq(Codes), Plain(s), NEW t, t = <<>> \/ \E c \in Codes : t = <<c>>
  PROVE  /\ s \o t \in Seq(Codes) /\ GoLast(s \o t)
         /\ t = <<>> \/ (\E c \in Codes : t = <<c>> /\ c # "354") => Plain(s \o t)
<1>1. Len(s) \in Nat /\ DOMAIN s = 1..Len(s)
  BY LenProperties
<1>2. CASE t = <<>>
  <2>1. s \o t = s
    BY <1>2, ConcatEmptySeq
  <2>2. QED
    BY <1>2, <2>1 DEF Plain, GoLast
<1>3. ASSUME NEW c \in Codes, t = <<c>>
      PROVE  /\ s \o t \in Seq(Codes) /\ GoLast(s \o t)
             /\ c # "354" => Plain(s \o t)
  <2>1. t \in Seq(Codes) /\ Len(t) = 1 /\ t[1] = c
    BY <1>3
  <2>2. /\ s \o t \in Seq(Codes) /\ Len(s \o t) = Len(s) + 1
        /\ \A i \in 1..Len(s) : (s \o t)[i] = s[i]
        /\ (s \o t)[Len(s) + 1] = c
    BY <1>1, <2>1, ConcatProperties
  <2>3. DOMAIN (s \o t) = 1..(Len(s) + 1)
    BY <2>2, LenProperties
  <2> DEFINE u == s \o t
  <2>4. \A i \in DOMAIN u : i \in 1..Len(s) \/ i = Len(s) + 1
    BY <1>1, <2>3
  <2>5. GoLast(u) /\ (c # "354" => Plain(u))
    BY <1>1, <2>2, <2>4 DEF Plain, GoLast
  <2>6. QED
    BY <2>2, <2>5
<1>4. CASE t # <<>>
  <2>1. PICK c \in Codes : t = <<c>>
    BY <1>4
  <2>2. \A d : t = <<d>> => d = c
    BY <2>1
  <2>3. QED
    BY <1>3, <1>4, <2>1, <2>2
<1>5. QED
  BY <1>2, <1>4

-----------------------------------------------------------------------------
(* The session *)

CodesType == codes \in [CodesRead -> Codes \cup {NoReply}]

LEMMA EndStep ==
  ASSUME SessionInv, CodesType', NEW out, End(out),
         out \in {"ok", "indeterminate", "handshake", "refused", "threw"},
         out = "ok" => accepted, accepted => out \in {"ok", "indeterminate"},
         out = "handshake" => options.startTls
  PROVE  SessionInv'
<1>1. <<>> \in Seq(Codes) /\ Plain(<<>>)
  BY EmptySeq DEF Plain
<1>2. QED
  BY <1>1 DEF SessionInv, End, ClientTypeOK, CodesType, Transaction

LEMMA SendStep ==
  ASSUME SessionInv, CodesType', ~accepted, phase # "off",
         NEW cmd \in Commands, NEW unread \in Seq(Codes), Plain(unread),
         cmd = "eod" => unread = <<>>, cmd = "starttls" => options.startTls,
         cmd \in Transaction /\ options.validate => tls = "valid", Send(cmd, unread)
  PROVE  SessionInv'
<1>1. CASE End("threw")
  BY <1>1, EndStep
<1>2. ASSUME NEW a \in Answers(cmd), phase' = cmd, replies' = unread \o a.says,
             peer' = a.then, accepted' = (accepted \/ a.takes),
             UNCHANGED <<options, tls, outcome>>
      PROVE  SessionInv'
  <2>1. /\ a.says = <<>> \/ \E c \in Codes : a.says = <<c>> /\ (cmd # "data" => c # "354")
        /\ a.then \in {"fresh", "mail", "rcpt", "body", "tls", "gone"} /\ a.takes \in BOOLEAN
        /\ cmd # "eod" => ~a.takes
        /\ cmd = "eod" => a.says \in IF a.takes THEN {<<>>, <<"2yz">>}
                                                ELSE {<<>>, <<"4yz">>, <<"5yz">>}
    BY ServerAnswers DEF SessionInv
  <2>2. /\ replies' \in Seq(Codes) /\ GoLast(replies')
        /\ cmd # "data" => Plain(replies')
    BY <1>2, <2>1, OneMore
  <2>3. cmd = "eod" => replies' = a.says
    <3>1. CASE cmd = "eod" /\ a.says = <<>>
      BY <1>2, <3>1, ConcatEmptySeq
    <3>2. ASSUME cmd = "eod", NEW c \in Codes, a.says = <<c>> PROVE replies' = a.says
      <4>1. a.says \in Seq(Codes)
        BY <3>2
      <4>2. QED
        BY <1>2, <3>2, <4>1, ConcatEmptySeq
    <3>3. QED
      BY <2>1, <3>1, <3>2
  <2>4. ClientTypeOK'
    BY <1>2, <2>1, <2>2 DEF SessionInv, ClientTypeOK, CodesType, Awaited
  <2>5. accepted' = a.takes /\ outcome' = "running" /\ phase' = cmd
    BY <1>2, <2>1 DEF SessionInv
  <2>6. /\ cmd = "eod" => replies' \in IF accepted' THEN {<<>>, <<"2yz">>}
                                                   ELSE {<<>>, <<"4yz">>, <<"5yz">>}
        /\ accepted' => cmd = "eod"
    BY <2>1, <2>3, <2>5
  <2>7. cmd # "handshake" /\ cmd # "off"
    BY DEF Commands
  <2>8. QED
    BY <1>2, <2>2, <2>4, <2>5, <2>6, <2>7 DEF SessionInv, Transaction
<1>3. QED
  BY <1>1, <1>2 DEF Send

LEMMA OpenStep ==
  ASSUME SessionInv, CodesType', ~accepted, phase # "off",
         NEW unread \in Seq(Codes), Plain(unread), OpenTransaction(unread)
  PROVE  SessionInv'
<1>1. CASE End("refused") \/ End("threw")
  BY <1>1, EndStep
<1>2. CASE ~(options.validate /\ tls = "clear") /\ Send("mail", unread)
  <2>1. options.validate => tls = "valid"
    BY <1>2 DEF SessionInv, ClientTypeOK
  <2>2. QED
    BY <1>2, <2>1, SendStep DEF Commands, Transaction
<1>3. QED
  BY <1>1, <1>2 DEF OpenTransaction, QuitWith

LEMMA SessionStep == ASSUME SessionInv, Deliver PROVE SessionInv'
<1>1. replies \in Seq(Codes) /\ CodesType /\ options \in Options
  BY DEF SessionInv, ClientTypeOK, CodesType
<1>2. ASSUME NEW r \in Readable, phase \notin {"off", "data", "eod"}
      PROVE  /\ r.code \in Codes \cup {NoReply} /\ r.rest \in Seq(Codes) /\ Plain(r.rest)
             /\ ~accepted
  BY <1>1, <1>2, ReadOne DEF SessionInv
<1>3. ASSUME NEW r \in Readable, NEW f \in CodesRead, codes' = [codes EXCEPT ![f] = r.code]
      PROVE  CodesType'
  BY <1>1, <1>3, ReadOne DEF CodesType
<1>4. CASE Connected
  <2>1. PICK a \in {Silent, Says("2yz", "fresh"), Says("4yz", "gone"), Says("5yz", "gone")} :
           replies' = a.says /\ peer' = a.then
    BY <1>4 DEF Connected
  <2>2. /\ a.says = <<>> \/ \E c \in {"2yz", "4yz", "5yz"} : a.says = <<c>>
        /\ a.then \in {"fresh", "gone"}
    BY DEF Silent, Says
  <2>3. replies' \in Seq(Codes) /\ Plain(replies')
    <3>1. CASE a.says = <<>>
      BY <2>1, <3>1, EmptySeq DEF Plain
    <3>2. ASSUME NEW c \in {"2yz", "4yz", "5yz"}, a.says = <<c>>
          PROVE  replies' \in Seq(Codes) /\ Plain(replies')
      BY <2>1, <3>2 DEF Plain, Codes
    <3>3. QED
      BY <2>2, <3>1, <3>2
  <2>4. QED
    BY <1>1, <1>4, <2>1, <2>2, <2>3
       DEF Connected, SessionInv, ClientTypeOK, CodesType, Awaited, Transaction
<1>5. CASE ConnectFails
  BY <1>1, <1>5, EndStep DEF ConnectFails, CodesType, SessionInv
<1>6. CASE OnGreeting
  <2>1. PICK r \in Readable :
           /\ phase = "greeting" /\ codes' = [codes EXCEPT !.greeting = r.code]
           /\ IF Is2yz(r.code) THEN Send("ehlo", r.rest) ELSE QuitWith("refused")
    BY <1>6 DEF OnGreeting
  <2>2. CodesType' /\ r.rest \in Seq(Codes) /\ Plain(r.rest) /\ ~accepted
    BY <1>2, <1>3, <2>1 DEF CodesRead
  <2>3. QED
    BY <2>1, <2>2, SendStep, EndStep DEF QuitWith, Commands, Transaction
<1>7. ASSUME NEW r \in Readable, phase \notin {"off", "data", "eod"}, UNCHANGED codes,
             \/ OpenTransaction(r.rest) \/ End("refused") \/ Send("helo", r.rest)
             \/ Send("starttls", r.rest) /\ (options.startTls \/ options.validate)
      PROVE  SessionInv'
  <2>1. /\ CodesType' /\ r.rest \in Seq(Codes) /\ Plain(r.rest) /\ ~accepted
        /\ options.validate => options.startTls
    BY <1>1, <1>2, <1>7 DEF CodesType, SessionInv
  <2>2. QED
    BY <1>7, <2>1, OpenStep, EndStep, SendStep DEF Commands, Transaction
<1>8. CASE OnEhlo
  BY <1>7, <1>8 DEF OnEhlo
<1>9. CASE OnHelo \/ OnReEhlo
  BY <1>7, <1>9 DEF OnHelo, OnReEhlo
<1>10. CASE OnStartTls
  <2>1. PICK r \in Readable :
           /\ phase = "starttls" /\ UNCHANGED codes
           /\ IF Is2yz(r.code)
                THEN /\ phase' = "handshake" /\ replies' = r.rest
                     /\ UNCHANGED <<options, tls, outcome, peer, accepted>>
              ELSE IF options.validate THEN End("refused")
              ELSE OpenTransaction(r.rest)
    BY <1>10 DEF OnStartTls
  <2>2. CASE Is2yz(r.code)
    BY <1>1, <1>2, <2>1, <2>2
       DEF SessionInv, ClientTypeOK, CodesType, Transaction
  <2>3. CASE ~Is2yz(r.code)
    BY <1>7, <2>1, <2>3
  <2>4. QED
    BY <2>2, <2>3
<1>11. CASE Handshake
  <2>1. replies' \in Seq(Codes) /\ Plain(replies') /\ peer' \in {"fresh", "gone"}
    <3>1. PICK c \in Codes \cup {NoReply} :
             /\ c # "354" /\ replies' = IF c = NoReply THEN <<>> ELSE <<c>>
             /\ peer' = IF c = NoReply THEN "gone" ELSE "fresh"
      BY <1>11 DEF Handshake
    <3>2. CASE c = NoReply
      BY <3>1, <3>2, EmptySeq DEF Plain
    <3>3. CASE c # NoReply
      BY <3>1, <3>3 DEF Plain
    <3>4. QED
      BY <3>2, <3>3, <3>1
  <2>2. /\ phase = "handshake" /\ phase' = "reehlo" /\ UNCHANGED <<options, codes, outcome, accepted>>
        /\ tls' = IF options.validate THEN "valid" ELSE "opportunistic"
    BY <1>11 DEF Handshake
  <2>3. QED
    BY <1>1, <2>1, <2>2
       DEF SessionInv, ClientTypeOK, CodesType, Awaited, Commands, Transaction
<1>12. CASE HandshakeFails
  BY <1>1, <1>12, EndStep DEF HandshakeFails, CodesType, SessionInv
<1>13. CASE OnMail
  <2>1. PICK r \in Readable :
           phase = "mail" /\ codes' = [codes EXCEPT !.mail = r.code] /\ Send("rcpt", r.rest)
    BY <1>13 DEF OnMail
  <2>2. CodesType' /\ r.rest \in Seq(Codes) /\ Plain(r.rest) /\ ~accepted
    BY <1>2, <1>3, <2>1 DEF CodesRead
  <2>3. options.validate => tls = "valid"
    BY <2>1 DEF SessionInv, Transaction
  <2>4. QED
    BY <2>1, <2>2, <2>3, SendStep DEF Commands, Transaction
<1>14. CASE OnRcpt
  <2>1. PICK r \in Readable :
           /\ phase = "rcpt" /\ codes' = [codes EXCEPT !.rcpt = r.code]
           /\ IF Is5yz(codes.mail) \/ ~Is2yz(r.code) THEN QuitWith("refused")
                                                     ELSE Send("data", r.rest)
    BY <1>14 DEF OnRcpt
  <2>2. CodesType' /\ r.rest \in Seq(Codes) /\ Plain(r.rest) /\ ~accepted
    BY <1>2, <1>3, <2>1 DEF CodesRead
  <2>3. options.validate => tls = "valid"
    BY <2>1 DEF SessionInv, Transaction
  <2>4. QED
    BY <2>1, <2>2, <2>3, SendStep, EndStep DEF QuitWith, Commands, Transaction
<1>15. CASE OnData
  <2>1. PICK r \in Readable :
           /\ phase = "data" /\ codes' = [codes EXCEPT !.go = r.code]
           /\ IF r.code = "354" THEN Send("eod", r.rest) ELSE QuitWith("refused")
    BY <1>15 DEF OnData
  <2>2. CodesType' /\ ~accepted /\ (options.validate => tls = "valid")
    BY <1>3, <2>1 DEF CodesRead, SessionInv, Transaction
  <2>3. r.code = "354" => r.rest = <<>>
    BY <1>1, <2>1, ReadOne DEF SessionInv
  <2>4. <<>> \in Seq(Codes) /\ Plain(<<>>)
    BY EmptySeq DEF Plain
  <2>5. QED
    BY <2>1, <2>2, <2>3, <2>4, SendStep, EndStep DEF QuitWith, Commands, Transaction
<1>16. CASE OnFinal
  <2>1. PICK r \in Readable :
           /\ phase = "eod" /\ codes' = [codes EXCEPT !.data = r.code]
           /\ End(IF Is2yz(r.code) THEN "ok"
                  ELSE IF r.code = NoReply THEN "indeterminate" ELSE "refused")
    BY <1>16 DEF OnFinal
  <2>2. CodesType'
    BY <1>3, <2>1 DEF CodesRead
  <2>3. r.code # NoReply => r.code \in IF accepted THEN {"2yz"} ELSE {"4yz", "5yz"}
    <3>1. r.code # NoReply => replies # <<>> /\ r.code = Head(replies)
      BY <1>1, ReadOne
    <3>2. replies \in IF accepted THEN {<<>>, <<"2yz">>} ELSE {<<>>, <<"4yz">>, <<"5yz">>}
      BY <2>1 DEF SessionInv
    <3>3. QED
      BY <3>1, <3>2
  <2>4. accepted \in BOOLEAN /\ NoReply \notin Codes
    BY DEF SessionInv, ClientTypeOK, NoReply, Codes
  <2>5. CASE Is2yz(r.code)
    BY <2>1, <2>2, <2>3, <2>4, <2>5, EndStep DEF Is2yz, Codes
  <2>6. CASE r.code = NoReply
    BY <2>1, <2>2, <2>4, <2>6, EndStep DEF Is2yz, NoReply
  <2>7. CASE ~Is2yz(r.code) /\ r.code # NoReply
    BY <2>1, <2>2, <2>3, <2>4, <2>7, EndStep DEF Is2yz
  <2>8. QED
    BY <2>5, <2>6, <2>7
<1>17. QED
  BY <1>4, <1>5, <1>6, <1>8, <1>9, <1>10, <1>11, <1>12, <1>13, <1>14, <1>15, <1>16
     DEF Deliver

(* The options of a session stand, and what a server took it has taken.    *)
LEMMA SessionFrame ==
  ASSUME SessionInv, Deliver
  PROVE  UNCHANGED options /\ (accepted => accepted')
<1>1. accepted \in BOOLEAN
  BY DEF SessionInv, ClientTypeOK
<1>2. \A cmd, unread : Send(cmd, unread) => UNCHANGED options /\ (accepted => accepted')
  BY <1>1 DEF Send, End
<1>3. \A out : End(out) \/ QuitWith(out) => UNCHANGED <<options, accepted>>
  BY DEF QuitWith, End
<1>4. \A unread : OpenTransaction(unread) => UNCHANGED options /\ (accepted => accepted')
  BY <1>2, <1>3 DEF OpenTransaction
<1>5. CASE Connected \/ ConnectFails \/ Handshake \/ HandshakeFails
  BY <1>3, <1>5 DEF Connected, ConnectFails, Handshake, HandshakeFails
<1>6. CASE OnGreeting \/ OnMail \/ OnRcpt \/ OnData
  BY <1>2, <1>3, <1>6 DEF OnGreeting, OnMail, OnRcpt, OnData
<1>7. CASE OnEhlo
  BY <1>2, <1>3, <1>4, <1>7 DEF OnEhlo
<1>8. CASE OnHelo \/ OnReEhlo \/ OnStartTls
  BY <1>3, <1>4, <1>8 DEF OnHelo, OnReEhlo, OnStartTls
<1>9. CASE OnFinal
  BY <1>3, <1>9 DEF OnFinal
<1>10. QED
  BY <1>5, <1>6, <1>7, <1>8, <1>9 DEF Deliver

LEMMA DialStep ==
  ASSUME SessionInv, NEW opts \in Options, opts.validate => opts.startTls, Dial(opts)
  PROVE  SessionInv'
<1>1. <<>> \in Seq(Codes) /\ Plain(<<>>) /\ NoCodes \in [CodesRead -> Codes \cup {NoReply}]
  BY EmptySeq DEF Plain, NoCodes
<1>2. QED
  BY <1>1 DEF Dial, SessionInv, ClientTypeOK, Transaction

LEMMA SessionInit == ASSUME ClientInit PROVE SessionInv
<1>1. <<>> \in Seq(Codes) /\ Plain(<<>>) /\ NoCodes \in [CodesRead -> Codes \cup {NoReply}]
  BY EmptySeq DEF Plain, NoCodes
<1>2. options \in Options
  BY DEF ClientInit, Options
<1>3. QED
  BY <1>1, <1>2 DEF ClientInit, SessionInv, ClientTypeOK, Transaction, Options

LEMMA OptionsType ==
  ASSUME NEW tlsToo \in BOOLEAN
  PROVE  /\ SessionOptions(tlsToo) \in Options
         /\ SessionOptions(tlsToo).startTls = tlsToo
         /\ SessionOptions(tlsToo).validate = (tlsToo /\ enforce)
  BY DEF SessionOptions, Options, enforce

(* A step of the relay is a step of the session, a dial, or neither.       *)
LEMMA SessionKept == ASSUME SessionInv, [Next]_vars PROVE SessionInv'
<1>1. CASE UNCHANGED clientVars
  BY <1>1 DEF clientVars, SessionInv, ClientTypeOK, Plain, GoLast, Transaction
<1>2. CASE InSession
  BY <1>2, SessionStep DEF InSession
<1>3. ASSUME NEW tlsToo \in BOOLEAN, DialHost(tlsToo) PROVE SessionInv'
  BY <1>3, OptionsType, DialStep DEF DialHost
<1>4. CASE VetHost
  BY <1>1, <1>3, <1>4 DEF VetHost
<1>5. CASE Fallback
  BY <1>3, <1>5 DEF Fallback
<1>6. QED
  BY <1>1, <1>2, <1>4, <1>5
     DEF Next, vars, Begin, Return, Resolve, Policy, NextHost, Delivered, Indeterminate,
         Refused, HostFailed, Abort

-----------------------------------------------------------------------------
(* The walk *)

WalkInv ==
    /\ TypeOK /\ SessionInv
    /\ VerdictSound /\ CopiesInv /\ PolicyInv /\ UnheardInv /\ StopInv

(* Who is not reached yet, or is not in a session a server took a message  *)
(* in, has no copy anywhere.                                               *)
LEMMA NoCopyYet ==
  ASSUME WalkInv, NEW r \in Rcpts,
         r \in left \/ (r = rcpt /\ (stage # "session" \/ ~accepted))
  PROVE  Holders(r) = {}
  BY DEF WalkInv, CopiesInv, Holders

(* A result ends the walk of a recipient.                                  *)
LEMMA AnswerStep ==
  ASSUME WalkInv, SessionInv', NEW r \in Rcpts, NEW v \in Verdicts, Answer(r, v),
         r \notin left', left' \subseteq left, host' \in Hosts \cup {NoHost},
         UNCHANGED <<aborted, holds, afterStop>>, unheard' \subseteq unheard,
         v = "success" => Holders(r) # {},
         v \in {"transient", "permanent", "skipped"} => Holders(r) = {}
  PROVE  WalkInv'
<1>1. /\ stage' = "next" /\ rcpt' = NoRcpt /\ hosts' = <<>> /\ policy' = NoHost /\ saw' = {}
      /\ verdict' \in [Rcpts -> Verdicts \cup {NoRcpt}]
      /\ verdict'[r] = v /\ \A s \in Rcpts \ {r} : verdict'[s] = verdict[s]
  BY DEF Answer, WalkInv, TypeOK
<1>2. NoRcpt \notin Rcpts /\ \A c \in holds : c[1] \in Rcpts
  BY RelayOutboundAssumption DEF WalkInv, TypeOK
<1>3. TypeOK'
  <2>1. ClientTypeOK' /\ <<>> \in Seq(Hosts)
    BY EmptySeq DEF SessionInv
  <2>2. QED
    BY <1>1, <2>1 DEF WalkInv, TypeOK
<1>4. VerdictSound'
  <2>1. \A q \in Rcpts : Holders(q)' = Holders(q)
    BY DEF Holders
  <2>2. ASSUME NEW q \in Rcpts \ {r}
        PROVE  /\ verdict'[q] = "success" => Holders(q)' # {}
               /\ verdict'[q] \in {"transient", "permanent", "skipped"} => Holders(q)' = {}
    BY <1>1, <2>1 DEF WalkInv, VerdictSound
  <2>3. /\ verdict'[r] = "success" => Holders(r)' # {}
        /\ verdict'[r] \in {"transient", "permanent", "skipped"} => Holders(r)' = {}
    BY <1>1, <2>1
  <2>4. QED
    BY <2>2, <2>3 DEF VerdictSound
<1>5. CopiesInv'
  <2>1. left \subseteq Rcpts
    BY DEF WalkInv, TypeOK
  <2>2. QED
    BY <1>1, <1>2, <2>1 DEF WalkInv, CopiesInv
<1>6. PolicyInv' /\ UnheardInv' /\ StopInv'
  BY <1>1 DEF WalkInv, PolicyInv, UnheardInv, StopInv, enforce
<1>7. QED
  BY <1>3, <1>4, <1>5, <1>6 DEF WalkInv

LEMMA AggregateFacts ==
  ASSUME NEW s
  PROVE  /\ Aggregate(s) \in {"indeterminate", "transient", "permanent"}
         /\ "indeterminate" \in s => Aggregate(s) = "indeterminate"
         /\ Aggregate(s) = "permanent" => "transient" \notin s
  BY DEF Aggregate

(* The walk of a recipient nobody took the message for ends.               *)
LEMMA ConcludeStep ==
  ASSUME WalkInv, SessionInv', NEW s, Conclude(s), stage \in {"walk", "session"},
         stage = "session" /\ accepted => "indeterminate" \in s,
         UNCHANGED <<aborted, left, logVars>>
  PROVE  WalkInv'
<1>1. rcpt \in Rcpts /\ rcpt \notin left
  BY DEF WalkInv, CopiesInv
<1>2. Aggregate(s) # "indeterminate" => Holders(rcpt) = {}
  BY <1>1, NoCopyYet, AggregateFacts
<1>3. Aggregate(s) \in Verdicts /\ Aggregate(s) # "success"
  BY AggregateFacts DEF Verdicts
<1>4. Answer(rcpt, Aggregate(s)) /\ host' = NoHost
  BY DEF Conclude
<1>5. QED
  BY <1>1, <1>2, <1>3, <1>4, AnswerStep DEF logVars

(* An ordering of a finite set of hosts is a sequence of them.             *)
LEMMA OrderingsType == ASSUME NEW S \in SUBSET Hosts, NEW s \in SetToSeqs(S) PROVE s \in Seq(S)
<1>1. s \in [1..Cardinality(S) -> S]
  BY DEF SetToSeqs
<1>2. Cardinality(S) \in Nat
  BY RelayOutboundAssumption, FS_Subset, FS_CardinalityType
<1>3. QED
  BY <1>1, <1>2, SeqDef

LEMMA RangeOfHosts == ASSUME hosts \in Seq(Hosts) PROVE ToSet(hosts) \subseteq Hosts
  BY LenProperties, ElementOfSeq DEF ToSet

LEMMA AppendTuples ==
  ASSUME NEW a, NEW b PROVE Append(<<>>, a) = <<a>> /\ Append(<<b>>, a) = <<b, a>>
<1> DEFINE S == {a, b}
<1>1. /\ <<>> \in Seq(S) /\ <<b>> \in Seq(S) /\ Len(<<>>) = 0 /\ Len(<<b>>) = 1
      /\ <<a>> \in Seq(S) /\ <<b, a>> \in Seq(S)
  OBVIOUS
<1>2. Append(<<>>, a) = <<a>>
  <2>1. /\ Append(<<>>, a) \in Seq(S) /\ Len(Append(<<>>, a)) = 1 /\ Append(<<>>, a)[1] = a
    BY <1>1, AppendProperties
  <2>2. QED
    BY <1>1, <2>1, SeqEqual
<1>3. Append(<<b>>, a) = <<b, a>>
  <2>1. /\ Append(<<b>>, a) \in Seq(S) /\ Len(Append(<<b>>, a)) = 2
        /\ Append(<<b>>, a)[1] = b /\ Append(<<b>>, a)[2] = a
    BY <1>1, AppendProperties
  <2>2. Len(<<b, a>>) = 2 /\ <<b, a>>[1] = b /\ <<b, a>>[2] = a
    OBVIOUS
  <2>3. \A i \in 1..2 : Append(<<b>>, a)[i] = <<b, a>>[i]
    BY <2>1, <2>2
  <2>4. QED
    BY <1>1, <2>1, <2>2, <2>3, SeqEqual
<1>4. QED
  BY <1>2, <1>3

(* The attempts since the stop, with one more if the loop is stopping.      *)
LEMMA StopDial ==
  ASSUME afterStop \in [at : AtHand, dials : Seq(Attempts)], NEW t \in BOOLEAN,
         aborted => afterStop.at = <<rcpt, host>>, ~aborted => afterStop.dials = <<>>,
         afterStop.dials \in {<<>>, <<Attempt(afterStop.at, TRUE)>>},
         afterStop' = IF aborted
                      THEN [afterStop EXCEPT !.dials = Append(@, Attempt(<<rcpt, host>>, t))]
                      ELSE afterStop
  PROVE  /\ afterStop' \in [at : AtHand, dials : Seq(Attempts)] /\ afterStop'.at = afterStop.at
         /\ ~aborted => afterStop'.dials = <<>>
         /\ afterStop.dials = <<>> => afterStop'.dials \in {<<>>, <<Attempt(afterStop.at, t)>>}
         /\ afterStop.dials # <<>> =>
               afterStop'.dials = <<Attempt(afterStop.at, TRUE), Attempt(afterStop.at, t)>>
<1>1. CASE ~aborted
  BY <1>1
<1>2. CASE aborted
  <2> DEFINE a == Attempt(afterStop.at, t)
  <2>1. a \in Attempts
    BY DEF Attempts, Attempt
  <2>2. afterStop' = [afterStop EXCEPT !.dials = Append(afterStop.dials, a)]
    BY <1>2
  <2>3. Append(afterStop.dials, a) \in Seq(Attempts)
    BY <2>1, AppendProperties
  <2>4. /\ afterStop' \in [at : AtHand, dials : Seq(Attempts)] /\ afterStop'.at = afterStop.at
        /\ afterStop'.dials = Append(afterStop.dials, a)
    BY <2>2, <2>3
  <2>5. /\ Append(<<>>, a) = <<a>>
        /\ Append(<<Attempt(afterStop.at, TRUE)>>, a) = <<Attempt(afterStop.at, TRUE), a>>
    BY AppendTuples
  <2>6. QED
    BY <1>2, <2>4, <2>5
<1>3. QED
  BY <1>1, <1>2

LEMMA WalkStep == ASSUME WalkInv, [Next]_vars PROVE WalkInv'
<1> USE DEF walkVars, logVars
<1>1. SessionInv'
  BY SessionKept DEF WalkInv
<1>2. SessionInv /\ NoRcpt \notin Rcpts /\ NoHost \notin Hosts
  BY RelayOutboundAssumption DEF WalkInv
<1>3. ASSUME UNCHANGED <<verdict, holds>> PROVE VerdictSound'
  BY <1>3 DEF WalkInv, VerdictSound, Holders
<1>4. CASE UNCHANGED vars
  <2>1. TypeOK' /\ VerdictSound'
    BY <1>1, <1>3, <1>4 DEF vars, WalkInv, TypeOK, SessionInv
  <2>2. CopiesInv' /\ UnheardInv' /\ PolicyInv' /\ StopInv'
    BY <1>4 DEF vars, WalkInv, clientVars, CopiesInv, UnheardInv, PolicyInv, StopInv, enforce
  <2>3. QED
    BY <1>1, <2>1, <2>2 DEF WalkInv
<1>5. CASE Abort
  <2>1. /\ ~aborted /\ aborted' = TRUE /\ UNCHANGED <<clientVars, stage, host, walkVars, holds, unheard>>
        /\ afterStop' = [afterStop EXCEPT !.at = <<rcpt, host>>]
    BY <1>5 DEF Abort
  <2>2. afterStop.dials = <<>> /\ <<rcpt, host>> \in AtHand
    BY <2>1 DEF WalkInv, StopInv, TypeOK, AtHand
  <2>3. /\ afterStop' \in [at : AtHand, dials : Seq(Attempts)]
        /\ afterStop'.at = <<rcpt, host>> /\ afterStop'.dials = <<>>
    BY <2>1, <2>2 DEF WalkInv, TypeOK
  <2>4. TypeOK' /\ VerdictSound'
    BY <1>1, <1>3, <2>1, <2>3 DEF WalkInv, TypeOK, SessionInv
  <2>5. CopiesInv' /\ UnheardInv' /\ PolicyInv'
    BY <2>1 DEF WalkInv, clientVars, CopiesInv, UnheardInv, PolicyInv, enforce
  <2>6. StopInv'
    BY <2>1, <2>3 DEF StopInv
  <2>7. QED
    BY <1>1, <2>4, <2>5, <2>6 DEF WalkInv
<1>6. ASSUME NEW r \in Rcpts, Begin(r) PROVE WalkInv'
  <2>1. /\ r \in left /\ stage = "next" /\ left' = left \ {r} /\ unheard' = {}
        /\ UNCHANGED <<clientVars, aborted, host, holds, afterStop>>
    BY <1>6 DEF Begin
  <2>2. Holders(r) = {}
    BY <2>1, NoCopyYet
  <2>3. host' \in Hosts \cup {NoHost} /\ {"skipped", "permanent"} \subseteq Verdicts
    BY <2>1 DEF WalkInv, TypeOK, Verdicts
  <2>4. CASE \E v \in {"skipped", "permanent"} : Answer(r, v)
    BY <1>1, <2>1, <2>2, <2>3, <2>4, AnswerStep
  <2>5. CASE ~aborted /\ stage' = "resolve" /\ rcpt' = r /\ UNCHANGED <<hosts, policy, saw, verdict>>
    <3>1. TypeOK' /\ VerdictSound'
      BY <1>1, <1>3, <2>1, <2>5 DEF WalkInv, TypeOK, SessionInv
    <3>2. CopiesInv'
      BY <2>1, <2>2, <2>5 DEF WalkInv, CopiesInv, clientVars
    <3>3. PolicyInv' /\ UnheardInv' /\ StopInv'
      BY <2>1, <2>5 DEF WalkInv, PolicyInv, UnheardInv, StopInv, enforce
    <3>4. QED
      BY <1>1, <3>1, <3>2, <3>3 DEF WalkInv
  <2>6. QED
    BY <1>6, <2>4, <2>5 DEF Begin
<1>7. CASE Return
  <2>1. stage = "next" /\ stage' = "returned" /\ UNCHANGED <<clientVars, aborted, host, walkVars, logVars>>
    BY <1>7 DEF Return
  <2>2. TypeOK' /\ VerdictSound'
    BY <1>1, <1>3, <2>1 DEF WalkInv, TypeOK, SessionInv
  <2>3. CopiesInv' /\ PolicyInv' /\ UnheardInv' /\ StopInv'
    BY <2>1 DEF WalkInv, CopiesInv, PolicyInv, UnheardInv, StopInv, enforce, clientVars
  <2>4. QED
    BY <1>1, <2>2, <2>3 DEF WalkInv
<1>8. ASSUME stage \in {"resolve", "policy"}, Answer(rcpt, "transient") \/ Answer(rcpt, "permanent"),
             UNCHANGED <<clientVars, aborted, host, left, logVars>>
      PROVE  WalkInv'
  <2>1. rcpt \in Rcpts /\ rcpt \notin left /\ Holders(rcpt) = {}
    BY <1>8, NoCopyYet DEF WalkInv, CopiesInv
  <2>2. host' \in Hosts \cup {NoHost} /\ {"transient", "permanent"} \subseteq Verdicts
    BY <1>8 DEF WalkInv, TypeOK, Verdicts
  <2>3. QED
    BY <1>1, <1>8, <2>1, <2>2, AnswerStep
<1>9. ASSUME stage \in {"resolve", "policy", "walk"}, stage' \in {"policy", "walk", "vet"},
             hosts' \in Seq(Hosts), host' \in Hosts \cup {NoHost},
             UNCHANGED <<clientVars, aborted, left, rcpt, saw, verdict, logVars>>,
             policy' \in (SUBSET Hosts) \cup {NoHost}, PolicyInv', UnheardInv',
             stage' = "vet" => ~aborted
      PROVE  WalkInv'
  <2>1. TypeOK' /\ VerdictSound'
    BY <1>1, <1>3, <1>9 DEF WalkInv, TypeOK, SessionInv
  <2>2. CopiesInv' /\ StopInv'
    BY <1>9 DEF WalkInv, CopiesInv, StopInv, clientVars
  <2>3. QED
    BY <1>1, <1>9, <2>1, <2>2 DEF WalkInv
<1>10. CASE Resolve
  <2>1. ASSUME NEW S \in SUBSET Hosts, NEW found \in SetToSeqs(S), hosts' = found,
               stage' = "policy", UNCHANGED <<rcpt, policy, saw, verdict>>
        PROVE  WalkInv'
    <3>1. hosts' \in Seq(Hosts)
      BY <2>1, OrderingsType
    <3>2. QED
      BY <1>9, <1>10, <2>1, <3>1 DEF Resolve, WalkInv, TypeOK, PolicyInv, UnheardInv, enforce
  <2>2. QED
    BY <1>8, <1>10, <2>1 DEF Resolve
<1>11. ASSUME NEW P \in (SUBSET Hosts) \cup {NoHost}, Policy(P) PROVE WalkInv'
  <2> DEFINE allowed == {h \in ToSet(hosts) : P = NoHost \/ h \in P}
             cap(n) == IF n < MaxHosts THEN n ELSE MaxHosts
  <2>1. stage = "policy" /\ UNCHANGED <<clientVars, aborted, host, left, logVars>>
    BY <1>11 DEF Policy
  <2>2. ASSUME NEW listed \in SetToSeqs(allowed), listed # <<>>,
               hosts' = SubSeq(listed, 1, cap(Len(listed))),
               policy' = P, stage' = "walk", UNCHANGED <<rcpt, saw, verdict>>
        PROVE  WalkInv'
    <3>1. allowed \in SUBSET Hosts /\ (P # NoHost => allowed \subseteq P)
      BY RangeOfHosts DEF WalkInv, TypeOK
    <3>2. listed \in Seq(allowed)
      BY <3>1, OrderingsType
    <3>3. Len(listed) \in Nat /\ cap(Len(listed)) \in Nat /\ cap(Len(listed)) <= Len(listed)
      BY <3>2, LenProperties, RelayOutboundAssumption
    <3> HIDE DEF allowed, cap
    <3>4. hosts' \in Seq(allowed)
      <4>1. \A i \in 1..cap(Len(listed)) : listed[i] \in allowed
        BY <3>2, <3>3, ElementOfSeq
      <4>2. QED
        BY <2>2, <3>3, <4>1, SubSeqProperties
    <3>5. hosts' \in Seq(Hosts) /\ (P # NoHost => hosts' \in Seq(P))
      BY <3>1, <3>4, SeqMonotonic
    <3>6. PolicyInv' /\ UnheardInv'
      BY <2>1, <2>2, <3>5 DEF WalkInv, PolicyInv, UnheardInv, enforce
    <3>7. QED
      BY <1>9, <2>1, <2>2, <3>5, <3>6 DEF WalkInv, TypeOK
  <2>3. QED
    BY <1>8, <1>11, <2>1, <2>2 DEF Policy
<1>12. CASE NextHost
  <2>1. stage = "walk" /\ UNCHANGED <<clientVars, aborted, left, logVars>>
    BY <1>12 DEF NextHost
  <2>2. CASE Conclude(saw) \/ Conclude(saw \cup {"transient"})
    BY <1>1, <2>1, <2>2, ConcludeStep
  <2>3. CASE /\ hosts # <<>> /\ ~aborted
             /\ host' = Head(hosts) /\ hosts' = Tail(hosts) /\ stage' = "vet"
             /\ UNCHANGED <<rcpt, policy, saw, verdict>>
    <3>1. hosts' \in Seq(Hosts) /\ host' \in Hosts
      BY <2>3, HeadTailProperties DEF WalkInv, TypeOK
    <3>2. enforce => hosts' \in Seq(policy) /\ host' \in policy
      BY <2>3, HeadTailProperties DEF WalkInv, PolicyInv
    <3>3. PolicyInv' /\ UnheardInv'
      BY <2>1, <2>3, <3>1, <3>2 DEF WalkInv, PolicyInv, UnheardInv, enforce
    <3>4. QED
      BY <1>9, <2>1, <2>3, <3>1, <3>3 DEF WalkInv, TypeOK
  <2>4. QED
    BY <1>12, <2>2, <2>3 DEF NextHost
<1>13. CASE VetHost
  <2>1. /\ stage = "vet" /\ UNCHANGED <<aborted, left, rcpt, host, hosts, policy, verdict>>
        /\ rcpt \in Rcpts /\ host \in Hosts /\ holds' = holds
    BY <1>13 DEF VetHost, WalkInv, CopiesInv, PolicyInv, DialHost
  <2>2. \A c \in holds : c[1] # rcpt
    BY <2>1 DEF WalkInv, CopiesInv
  <2>3. CASE /\ stage' = "walk" /\ UNCHANGED <<clientVars, afterStop>>
             /\ \/ saw' = saw \cup {"local"} /\ UNCHANGED unheard
                \/ saw' = saw \cup {"transient"} /\ unheard' = unheard \cup {host}
    <3>1. TypeOK' /\ VerdictSound'
      BY <1>1, <1>3, <2>1, <2>3 DEF WalkInv, TypeOK, SessionInv, Flags
    <3>2. CopiesInv'
      BY <2>1, <2>2, <2>3 DEF WalkInv, CopiesInv
    <3>3. PolicyInv' /\ UnheardInv' /\ StopInv'
      BY <2>1, <2>3 DEF WalkInv, PolicyInv, UnheardInv, StopInv, enforce
    <3>4. QED
      BY <1>1, <3>1, <3>2, <3>3 DEF WalkInv
  <2>4. CASE stage' = "session" /\ DialHost(TRUE) /\ UNCHANGED <<saw, holds, unheard>>
    <3>1. /\ (options'.validate <=> enforce) /\ options'.startTls /\ ~accepted'
      <4>1. options' = SessionOptions(TRUE) /\ accepted' = FALSE
        BY <2>4 DEF DialHost, Dial
      <4>2. (TRUE /\ enforce) = enforce
        BY DEF enforce
      <4>3. QED
        BY <4>1, <4>2, OptionsType
    <3>6. /\ afterStop' \in [at : AtHand, dials : Seq(Attempts)] /\ afterStop'.at = afterStop.at
          /\ ~aborted => afterStop'.dials = <<>>
          /\ aborted => afterStop.at = <<rcpt, host>>
          /\ afterStop'.dials \in {<<>>, <<Attempt(afterStop.at, TRUE)>>}
      <4>1. /\ afterStop.dials = <<>> /\ (aborted => afterStop.at = <<rcpt, host>>)
            /\ afterStop \in [at : AtHand, dials : Seq(Attempts)]
        BY <2>1 DEF WalkInv, StopInv, TypeOK
      <4>2. QED
        BY <2>4, <4>1, StopDial DEF DialHost
    <3>2. TypeOK' /\ VerdictSound'
      BY <1>1, <1>3, <2>1, <2>4, <3>1, <3>6 DEF WalkInv, TypeOK, SessionInv
    <3>3. CopiesInv'
      <4>1. /\ UNCHANGED <<left, rcpt, host, verdict, holds>>
            /\ stage = "vet" /\ stage' = "session" /\ ~accepted'
        BY <2>1, <2>4, <3>1
      <4>2. QED
        BY <2>2, <4>1 DEF WalkInv, CopiesInv
    <3>4. PolicyInv' /\ UnheardInv'
      BY <2>1, <2>4, <3>1 DEF WalkInv, PolicyInv, UnheardInv, enforce
    <3>7. StopInv'
      BY <2>1, <2>4, <3>1, <3>6 DEF StopInv
    <3>5. QED
      BY <1>1, <3>2, <3>3, <3>4, <3>7 DEF WalkInv
  <2>5. QED
    BY <1>13, <2>3, <2>4 DEF VetHost
<1>14. CASE InSession
  <2>1. /\ stage = "session" /\ stage' = "session" /\ Deliver
        /\ UNCHANGED <<aborted, host, walkVars, unheard, afterStop>>
        /\ holds' = IF accepted' THEN holds \cup {<<rcpt, host>>} ELSE holds
    BY <1>14 DEF InSession
  <2>2. options' = options /\ (accepted => accepted')
    BY <1>2, <2>1, SessionFrame
  <2>3. /\ rcpt \in Rcpts /\ host \in Hosts /\ rcpt \notin left /\ verdict[rcpt] = NoRcpt
        /\ \A c \in holds : c[1] = rcpt => accepted' /\ c[2] = host
    BY <2>1, <2>2 DEF WalkInv, CopiesInv, PolicyInv
  <2>4. TypeOK'
    BY <1>1, <2>1, <2>3 DEF WalkInv, TypeOK, SessionInv
  <2>5. VerdictSound'
    <3>1. \A r \in Rcpts \ {rcpt} : Holders(r)' = Holders(r)
      BY <2>1, <2>3 DEF Holders
    <3>2. verdict' = verdict /\ NoRcpt \notin Verdicts
      BY <2>1, RelayOutboundAssumption
    <3>3. QED
      BY <2>3, <3>1, <3>2 DEF WalkInv, VerdictSound, Verdicts
  <2>6. CopiesInv'
    BY <2>1, <2>3 DEF WalkInv, CopiesInv
  <2>7. PolicyInv' /\ UnheardInv' /\ StopInv'
    BY <2>1, <2>2 DEF WalkInv, PolicyInv, UnheardInv, StopInv, enforce
  <2>8. QED
    BY <1>1, <2>4, <2>5, <2>6, <2>7 DEF WalkInv
<1>15. CASE Fallback
  <2>1. /\ stage = "session" /\ outcome = "handshake" /\ ~enforce /\ DialHost(FALSE)
        /\ UNCHANGED <<stage, aborted, host, walkVars, holds, unheard>>
    BY <1>15 DEF Fallback, SessionOver
  <2>2. options.startTls /\ ~accepted
    BY <1>15, <2>1 DEF Fallback, SessionOver, WalkInv, SessionInv
  <2>3. options'.validate = FALSE /\ options'.startTls = FALSE /\ ~accepted'
    <3>1. options' = SessionOptions(FALSE) /\ accepted' = FALSE
      BY <2>1 DEF DialHost, Dial
    <3>2. QED
      BY <3>1, OptionsType
  <2>4. /\ afterStop' \in [at : AtHand, dials : Seq(Attempts)] /\ afterStop'.at = afterStop.at
        /\ ~aborted => afterStop'.dials = <<>>
        /\ aborted => afterStop.at = <<rcpt, host>>
        /\ \/ \E t \in BOOLEAN : afterStop'.dials \in {<<>>, <<Attempt(afterStop.at, t)>>}
           \/ afterStop'.dials = <<Attempt(afterStop.at, TRUE), Attempt(afterStop.at, FALSE)>>
    <3>1. /\ afterStop.dials \in {<<>>, <<Attempt(afterStop.at, TRUE)>>}
          /\ aborted => afterStop.at = <<rcpt, host>>
          /\ ~aborted => afterStop.dials = <<>>
          /\ afterStop \in [at : AtHand, dials : Seq(Attempts)]
      BY <2>1, <2>2 DEF WalkInv, StopInv, TypeOK
    <3>2. QED
      BY <2>1, <3>1, StopDial DEF DialHost
  <2>5. TypeOK' /\ VerdictSound'
    BY <1>1, <1>3, <2>1, <2>3, <2>4 DEF WalkInv, TypeOK, SessionInv
  <2>6. CopiesInv'
    BY <2>1, <2>2, <2>3 DEF WalkInv, CopiesInv
  <2>7. PolicyInv' /\ UnheardInv'
    BY <2>1, <2>3 DEF WalkInv, PolicyInv, UnheardInv, enforce
  <2>8. StopInv'
    BY <2>1, <2>3, <2>4 DEF StopInv
  <2>9. QED
    BY <1>1, <2>5, <2>6, <2>7, <2>8 DEF WalkInv
<1>16. CASE Delivered
  <2>1. /\ stage = "session" /\ outcome = "ok" /\ Answer(rcpt, "success") /\ host' = NoHost
        /\ UNCHANGED <<clientVars, aborted, left, logVars>>
    BY <1>16 DEF Delivered, SessionOver
  <2>2. /\ accepted /\ rcpt \in Rcpts /\ rcpt \notin left /\ host \in Hosts
        /\ <<rcpt, host>> \in holds
    BY <2>1 DEF WalkInv, SessionInv, CopiesInv, PolicyInv
  <2>3. Holders(rcpt) # {} /\ "success" \in Verdicts
    BY <2>2 DEF Holders, Verdicts
  <2>4. QED
    BY <1>1, <2>1, <2>2, <2>3, AnswerStep
<1>17. CASE Indeterminate
  BY <1>1, <1>17, ConcludeStep DEF Indeterminate, SessionOver
<1>18. CASE Refused
  <2>1. ~accepted
    BY <1>18 DEF Refused, SessionOver, WalkInv, SessionInv
  <2>2. QED
    BY <1>1, <1>18, <2>1, ConcludeStep DEF Refused, SessionOver
<1>19. CASE HostFailed
  <2>1. /\ stage = "session" /\ phase = "off" /\ outcome \in {"threw", "refused"}
        /\ stage' = "walk" /\ saw' = saw \cup {"transient"}
        /\ unheard' \in {unheard, unheard \cup {host}}
        /\ UNCHANGED <<clientVars, aborted, left, rcpt, host, hosts, policy, verdict,
                       holds, afterStop>>
    BY <1>19 DEF HostFailed, SessionOver
  <2>2. ~accepted /\ host \in Hosts
    BY <2>1 DEF WalkInv, SessionInv, PolicyInv
  <2>3. TypeOK' /\ VerdictSound'
    BY <1>1, <1>3, <2>1, <2>2 DEF WalkInv, TypeOK, SessionInv, Flags
  <2>4. CopiesInv'
    BY <2>1, <2>2 DEF WalkInv, CopiesInv, clientVars
  <2>5. PolicyInv' /\ UnheardInv' /\ StopInv'
    BY <2>1 DEF WalkInv, PolicyInv, UnheardInv, StopInv, enforce
  <2>6. QED
    BY <1>1, <2>3, <2>4, <2>5 DEF WalkInv
<1>20. QED
  BY <1>4, <1>5, <1>6, <1>7, <1>10, <1>11, <1>12, <1>13, <1>14, <1>15, <1>16, <1>17, <1>18, <1>19
     DEF Next

LEMMA WalkInit == ASSUME Init PROVE WalkInv
<1>1. SessionInv
  BY SessionInit DEF Init
<1>2. /\ stage = "next" /\ aborted = FALSE /\ left = Rcpts /\ rcpt = NoRcpt /\ host = NoHost
      /\ hosts = <<>> /\ policy = NoHost /\ saw = {} /\ verdict = [r \in Rcpts |-> NoRcpt]
      /\ holds = {} /\ unheard = {} /\ ~accepted
      /\ afterStop = [at |-> <<NoRcpt, NoHost>>, dials |-> <<>>]
  BY DEF Init, ClientInit
<1>3. NoRcpt \notin Rcpts \cup Verdicts /\ <<>> \in Seq(Hosts)
  BY RelayOutboundAssumption, EmptySeq
<1>8. afterStop \in [at : AtHand, dials : Seq(Attempts)]
  <2>1. <<>> \in Seq(Attempts) /\ <<NoRcpt, NoHost>> \in AtHand
    BY EmptySeq DEF AtHand
  <2>2. QED
    BY <1>2, <2>1
<1>4. TypeOK
  BY <1>1, <1>2, <1>3, <1>8 DEF TypeOK, SessionInv
<1>5. VerdictSound /\ CopiesInv
  BY <1>2, <1>3 DEF VerdictSound, Holders, CopiesInv, Verdicts
<1>6. PolicyInv /\ UnheardInv /\ StopInv
  BY <1>2 DEF PolicyInv, UnheardInv, StopInv, enforce
<1>7. QED
  BY <1>1, <1>4, <1>5, <1>6 DEF WalkInv

(* Types, the session, and what the walk knows.                            *)
THEOREM WalkCorrect == Spec => []WalkInv
  BY WalkInit, WalkStep, PTL DEF Spec

-----------------------------------------------------------------------------
(* What the relay promises the loop *)

(* Whatever hosts do - answer late, break off, refuse, time out - the loop *)
(* may rely on the verdict it is given (outbound.ts, results).             *)
THEOREM VerdictSoundAlways == Spec => []VerdictSound
<1>1. WalkInv => VerdictSound
  BY DEF WalkInv
<1>2. QED
  BY <1>1, WalkCorrect, PTL

(* No two hosts take the message for a recipient in one walk.              *)
THEOREM OneCopyPerWalkAlways == Spec => []OneCopyPerWalk
<1>1. ASSUME WalkInv, NEW r \in Rcpts PROVE Cardinality(Holders(r)) <= 1
  <2>1. CASE Holders(r) = {}
    BY <2>1, FS_EmptySet
  <2>2. CASE Holders(r) # {}
    <3>1. PICK h \in Hosts : <<r, h>> \in holds
      BY <2>2 DEF Holders
    <3>2. \A g \in Holders(r) : g = h
      BY <1>1, <3>1 DEF Holders, WalkInv, CopiesInv
    <3>3. Holders(r) = {h}
      BY <2>2, <3>2
    <3>4. Cardinality({h}) = 1
      BY FS_Singleton
    <3>5. QED
      BY <3>3, <3>4
  <2>3. QED
    BY <2>1, <2>2
<1>2. WalkInv => OneCopyPerWalk
  BY <1>1 DEF OneCopyPerWalk
<1>3. QED
  BY <1>2, WalkCorrect, PTL

(* An enforce policy is honoured from the choice of hosts to the last      *)
(* command of the transaction (outbound.ts, smtp-client.ts).               *)
THEOREM NeverInTheClearAlways == Spec => []NeverInTheClear
<1>1. WalkInv => NeverInTheClear
  BY DEF WalkInv, NeverInTheClear, PolicyInv, SessionInv, Transaction
<1>2. QED
  BY <1>1, WalkCorrect, PTL

(* After a stop the relay dials nobody but the host then at hand, over TLS, *)
(* then in the clear (outbound.ts, signal).                                 *)
THEOREM StopEndsWalkAlways == Spec => []StopEndsWalk
<1>1. ASSUME WalkInv PROVE StopEndsWalk
  <2> DEFINE at == afterStop.at
  <2>1. CASE \E t \in BOOLEAN : afterStop.dials \in {<<>>, <<Attempt(at, t)>>}
    BY <2>1 DEF StopEndsWalk, Attempt
  <2>2. CASE afterStop.dials = <<Attempt(at, TRUE), Attempt(at, FALSE)>>
    <3>1. DOMAIN afterStop.dials = {1, 2}
      BY <2>2
    <3>2. /\ afterStop.dials[1] = [to |-> at, startTls |-> TRUE]
          /\ afterStop.dials[2] = [to |-> at, startTls |-> FALSE]
      BY <2>2 DEF Attempt
    <3>3. QED
      BY <3>1, <3>2 DEF StopEndsWalk
  <2>3. QED
    BY <1>1, <2>1, <2>2 DEF WalkInv, StopInv
<1>2. QED
  BY <1>1, WalkCorrect, PTL

(* Nobody is refused while a host of the walk was not heard.               *)
THEOREM UnreachedOutranksRefusalAlways == Spec => UnreachedOutranksRefusal
<1>1. ASSUME WalkInv, [Next]_vars, rcpt # NoRcpt, verdict' # verdict, verdict'[rcpt] = "permanent"
      PROVE  unheard = {}
  <2>1. rcpt \in Rcpts /\ stage # "next" /\ verdict \in [Rcpts -> Verdicts \cup {NoRcpt}]
    BY <1>1 DEF WalkInv, TypeOK, CopiesInv
  <2>2. ASSUME NEW v, Answer(rcpt, v) PROVE v = "permanent"
    BY <1>1, <2>1, <2>2 DEF Answer
  <2>3. ASSUME stage \in {"walk", "session"}, NEW s, saw \subseteq s, Conclude(s) PROVE unheard = {}
    <3>1. "transient" \notin s
      BY <2>2, <2>3, AggregateFacts DEF Conclude
    <3>2. QED
      BY <1>1, <2>3, <3>1 DEF WalkInv, UnheardInv
  <2>4. CASE Resolve \/ \E P \in (SUBSET Hosts) \cup {NoHost} : Policy(P)
    BY <1>1, <2>4 DEF Resolve, Policy, WalkInv, UnheardInv
  <2>5. CASE NextHost
    BY <1>1, <2>3, <2>5 DEF NextHost
  <2>6. CASE Indeterminate \/ Refused
    BY <2>3, <2>6 DEF Indeterminate, Refused, SessionOver
  <2>7. CASE Delivered
    BY <2>2, <2>7 DEF Delivered
  <2>8. CASE \E r \in Rcpts : Begin(r)
    BY <2>1, <2>8 DEF Begin
  <2>9. CASE \/ Return \/ VetHost \/ InSession \/ Fallback \/ HostFailed \/ Abort
             \/ UNCHANGED vars
    BY <1>1, <2>9
       DEF Return, VetHost, InSession, Fallback, HostFailed, Abort, vars, walkVars
  <2>10. QED
    BY <1>1, <2>4, <2>5, <2>6, <2>7, <2>8, <2>9 DEF Next
<1>2. WalkInv /\ [Next]_vars
         => [rcpt # NoRcpt /\ verdict' # verdict /\ verdict'[rcpt] = "permanent"
               => unheard = {}]_vars
  BY <1>1
<1>3. QED
  BY <1>2, WalkCorrect, PTL DEF Spec, UnreachedOutranksRefusal

==============================================================================
