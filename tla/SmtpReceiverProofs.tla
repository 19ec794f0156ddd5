-------------------------- MODULE SmtpReceiverProofs --------------------------
(***************************************************************************)
(* What is proved of SmtpReceiver, for any sessions on either listener,    *)
(* any accounts and addresses, and any limits and bounds.                  *)
(***************************************************************************)
EXTENDS SmtpReceiver, TLAPS

Session ==
    [phase : Phases, ended : BOOLEAN, tls : BOOLEAN, user : Logins \cup {Nobody},
     claim : Logins \cup {Nobody}, env : Envelope, inTransaction : BOOLEAN,
     errors : 0..MaxErrors, mails : 0..MaxMails, left : SUBSET (Locals \X Logins),
     dropped : SUBSET (Locals \X Logins)]

InHandler == {"lookups", "deliver"}

Agree(s, p) ==
    /\ s.env.rcpts = p.rcpts
    /\ s.env.from = IF p.from = Nobody THEN Null ELSE p.from

\* A session that can still hand a message over has the envelope its client was
\* told of.
Envelopes ==
    \A c \in Conns : ~sess[c].ended \/ sess[c].phase \in InHandler \cup {"data"}
                        => Agree(sess[c], promised[c])

\* The inbound listener relays for nobody.
LocalOnly == \A c \in Conns : Kind[c] = "inbound" => sess[c].env.rcpts \subseteq Locals

Bounded ==
    \A c \in Conns : sess[c].phase \in InHandler \cup {"data"} => sess[c].mails < MaxMails

Turns == \A c \in Conns : sess[c].phase = "deliver" <=> turn = c

\* A handler that runs while its listener closes is one the close waits for.
Drains ==
    /\ stage # "up" => "inbound" \in closing
    /\ stage \notin {"up", "inbound"} => "submission" \in closing
    /\ \A c \in Conns : sess[c].phase \in InHandler =>
          \/ stage = "up"
          \/ stage = "inbound" /\ Kind[c] = "submission"
          \/ stage = Kind[c] /\ c \in awaited

\* Copies are of messages that were taken, or of the one in hand.
Copies ==
    \A c \in Conns, n \in Nat, a \in Addrs : Copied(<<c, n>>, a) =>
        \/ n <= sess[c].mails
        \/ turn = c /\ n = sess[c].mails + 1

\* A session whose message is being handled was not refused it.
NotYetTold == \A c \in Conns : sess[c].phase \in InHandler => told[c] # "refused"

\* Whoever has the turn has served each local recipient, has it still to serve,
\* or found its account's store closed and its account disabled.
Served ==
    \A c \in Conns : turn = c => \A a \in sess[c].env.rcpts \cap Locals :
        \/ \E l \in Logins : <<a, l>> \in sess[c].left
        \/ \E l \in Late : <<a, l>> \in sess[c].dropped
        \/ Copied(Message(c), a)

\* The stores of the accounts enabled at the start stay open.
Opened == Logins \ Late \subseteq cached

Inv ==
    /\ TypeOK /\ Envelopes /\ LocalOnly /\ Bounded /\ Turns
    /\ Drains /\ Copies /\ NotYetTold /\ Served /\ Opened

-----------------------------------------------------------------------------
(* Sessions. *)

LEMMA TypesAre ==
    TypeOK <=> /\ owner \in [Locals -> Logins \cup {Nobody}]
               /\ enabled \subseteq Logins /\ cached \subseteq Logins
               /\ sess \in [Conns -> Session]
               /\ mailbox \subseteq Msgs \X Locals \X Logins
               /\ queue \subseteq Msgs \X SUBSET Remotes
               /\ turn \in Conns \cup {Nobody}
               /\ closing \subseteq Kinds /\ awaited \subseteq Conns
               /\ stage \in Kinds \cup {"up", "imap", "down"}
               /\ promised \in [Conns -> Promise]
               /\ told \in [Conns -> Verdicts]
BY DEF TypeOK, Session

LEMMA Constants ==
    /\ Kind \in [Conns -> {"inbound", "submission"}]
    /\ Senders \subseteq Addrs \cup {Null}
    /\ Nobody \notin Addrs \cup {Null} \cup Logins \cup Conns
    /\ MaxErrors \in Nat /\ MaxErrors > 0 /\ MaxMails \in Nat
BY SmtpReceiverAssumption DEF Kinds, Addrs

LEMMA FreshIsSession == Fresh \in Session /\ NoEnvelope \in Envelope /\ NothingPromised \in Promise
BY Constants DEF Fresh, Session, Phases, NoEnvelope, Envelope, NothingPromised, Promise

\* An ended session has nothing left to hand over, unless it awaits.
LEMMA EndedSession ==
    ASSUME NEW s \in Session
    PROVE  /\ Ended(s) \in Session
           /\ Ended(s).ended /\ Ended(s).mails = s.mails
           /\ s.phase \in Awaiting => Ended(s).phase = s.phase /\ Ended(s).env = s.env
           /\ s.phase \notin Awaiting => Ended(s).phase = "command" /\ Ended(s).env = NoEnvelope
<1>1. CASE s.phase \in Awaiting
  BY <1>1 DEF Ended, Session
<1>2. CASE s.phase \notin Awaiting
  BY <1>2, FreshIsSession DEF Ended, Session, Fresh
<1> QED BY <1>1, <1>2

\* A rejected command changes neither the envelope nor where the session is,
\* unless it was the last.
LEMMA RejectedSession ==
    ASSUME NEW s \in Session, s.phase = "command"
    PROVE  /\ Rejected(s) \in Session
           /\ Rejected(s).mails = s.mails /\ Rejected(s).phase = "command"
           /\ Rejected(s).env \in {s.env, NoEnvelope}
           /\ Rejected(s).ended \/ (Rejected(s).env = s.env /\ Rejected(s).ended = s.ended)
<1>1. CASE s.errors + 1 >= MaxErrors
  BY <1>1, EndedSession DEF Rejected, Awaiting
<1>2. CASE ~(s.errors + 1 >= MaxErrors)
  <2>1. s.errors + 1 \in 0..MaxErrors
    BY <1>2, Constants DEF Session
  <2>2. Rejected(s) = [s EXCEPT !.errors = @ + 1]
    BY <1>2 DEF Rejected
  <2> QED BY <2>1, <2>2 DEF Session
<1> QED BY <1>1, <1>2

\* A step of one session that has not the turn, and touches nothing else: the
\* session becomes s, and what its client was promised p.
SessionBecomes(c, s, p) ==
    /\ turn # c
    /\ sess' = [sess EXCEPT ![c] = s]
    /\ promised' = [promised EXCEPT ![c] = p]
    /\ told' = told \/ told' = [told EXCEPT ![c] = "nothing"]
    /\ UNCHANGED Rest
    /\ s.mails = sess[c].mails /\ s.phase # "deliver"
    /\ s.phase = "data" => s.mails < MaxMails
    /\ s.phase = "lookups" =>
          \/ sess[c].phase = "lookups"
          \/ sess[c].phase = "data" /\ Kind[c] \notin closing /\ told'[c] = "nothing"
    /\ ~s.ended \/ s.phase \in {"lookups", "data"} => Agree(s, p)
    /\ Kind[c] = "inbound" => s.env.rcpts \subseteq Locals

LEMMA SessionStep ==
    ASSUME Inv, NEW c \in Conns, NEW s \in Session, NEW p \in Promise, SessionBecomes(c, s, p)
    PROVE  Inv'
<1> USE DEF SessionBecomes
<1>1. /\ UNCHANGED <<owner, enabled, cached, mailbox, queue, turn, closing, stage, awaited>>
      /\ sess \in [Conns -> Session] /\ promised \in [Conns -> Promise] /\ told \in [Conns -> Verdicts]
      /\ sess'[c] = s /\ promised'[c] = p
      /\ \A d \in Conns \ {c} : sess'[d] = sess[d] /\ promised'[d] = promised[d] /\ told'[d] = told[d]
      /\ told'[c] \in {told[c], "nothing"}
  BY TypesAre DEF Rest, Registry, Stores, Shutdown, Inv
<1>2. TypeOK'
  <2>1. sess' \in [Conns -> Session] /\ promised' \in [Conns -> Promise] /\ told' \in [Conns -> Verdicts]
    BY <1>1 DEF Verdicts
  <2> QED BY <1>1, <2>1, TypesAre DEF Inv, TypeOK, Session
<1>3. Envelopes' /\ LocalOnly'
  BY <1>1 DEF Inv, Envelopes, LocalOnly, InHandler
<1>4. Bounded' /\ Turns'
  BY <1>1 DEF Inv, Bounded, Turns, InHandler
<1>5. Drains'
  BY <1>1, Constants DEF Inv, Drains, InHandler
<1>6. Copies'
  <2>1. \A m, a : Copied(m, a)' <=> Copied(m, a)
    BY <1>1 DEF Copied
  <2>2. \A d \in Conns : sess'[d].mails = sess[d].mails
    BY <1>1
  <2> QED BY <1>1, <2>1, <2>2 DEF Inv, Copies
<1>7. NotYetTold'
  BY <1>1 DEF Inv, NotYetTold, InHandler
<1>8. Served' /\ Opened'
  <2>1. \A m, a : Copied(m, a)' <=> Copied(m, a)
    BY <1>1 DEF Copied
  <2> QED BY <1>1, <2>1 DEF Inv, Served, Opened, Message
<1> QED BY <1>2, <1>3, <1>4, <1>5, <1>6, <1>7, <1>8 DEF Inv

-----------------------------------------------------------------------------
(* Commands. *)

\* What is known of a session that reads a command, and has not the turn.
LEMMA AtIs ==
    ASSUME Inv, NEW c \in Conns, NEW ph \in {"command", "sasl", "data"}, At(c, ph)
    PROVE  /\ sess \in [Conns -> Session] /\ sess[c] \in Session
           /\ promised \in [Conns -> Promise] /\ promised[c] \in Promise
           /\ promised = [promised EXCEPT ![c] = promised[c]]
           /\ turn # c /\ ~sess[c].ended /\ sess[c].phase = ph
           /\ Agree(sess[c], promised[c])
           /\ Kind[c] = "inbound" => sess[c].env.rcpts \subseteq Locals
           /\ ph = "data" => sess[c].mails < MaxMails
BY TypesAre, Constants DEF Inv, At, Envelopes, LocalOnly, Bounded

LEMMA Rejects ==
    ASSUME Inv, NEW c \in Conns, Command(c), sess' = [sess EXCEPT ![c] = Rejected(@)],
           UNCHANGED <<Rest, promised, told>>
    PROVE  Inv'
<1> DEFINE s == Rejected(sess[c])
<1>1. At(c, "command")
  BY DEF Command
<1>2. s \in Session /\ s.mails = sess[c].mails /\ s.phase = "command"
  BY <1>1, AtIs, RejectedSession
<1>3. ~s.ended => Agree(s, promised[c])
  BY <1>1, AtIs, RejectedSession DEF Agree
<1>4. Kind[c] = "inbound" => s.env.rcpts \subseteq Locals
  BY <1>1, AtIs, RejectedSession DEF NoEnvelope
<1> HIDE DEF s
<1>5. sess' = [sess EXCEPT ![c] = s] /\ promised' = [promised EXCEPT ![c] = promised[c]]
  BY <1>1, AtIs DEF s
<1>6. SessionBecomes(c, s, promised[c])
  BY <1>1, <1>2, <1>3, <1>4, <1>5, AtIs DEF SessionBecomes
<1> QED BY <1>1, <1>2, <1>6, AtIs, SessionStep

LEMMA Ends ==
    ASSUME Inv, NEW c \in Conns, turn = Nobody, sess' = [sess EXCEPT ![c] = Ended(@)],
           UNCHANGED <<Rest, promised, told>>
    PROVE  Inv'
<1> DEFINE s == Ended(sess[c])
<1>1. /\ sess[c] \in Session /\ promised \in [Conns -> Promise] /\ promised[c] \in Promise
      /\ turn # c /\ sess[c].phase # "deliver"
  BY TypesAre, Constants DEF Inv, Turns
<1>2. /\ s \in Session /\ s.mails = sess[c].mails /\ s.phase \in Awaiting \cup {"command"}
      /\ s.phase = "lookups" => sess[c].phase = "lookups" /\ s.env = sess[c].env
      /\ s.env \in {sess[c].env, NoEnvelope} /\ s.ended
  BY <1>1, EndedSession DEF Awaiting
<1>3. s.phase = "lookups" => Agree(s, promised[c])
  BY <1>2 DEF Inv, Envelopes, Agree, InHandler
<1>4. Kind[c] = "inbound" => s.env.rcpts \subseteq Locals
  BY <1>2 DEF Inv, LocalOnly, NoEnvelope
<1> HIDE DEF s
<1>5. sess' = [sess EXCEPT ![c] = s] /\ promised' = [promised EXCEPT ![c] = promised[c]]
  BY <1>1 DEF s
<1>6. SessionBecomes(c, s, promised[c])
  BY <1>1, <1>2, <1>3, <1>4, <1>5 DEF SessionBecomes, Awaiting
<1> QED BY <1>1, <1>2, <1>6, SessionStep

LEMMA JunkKeeps == ASSUME Inv, NEW c \in Conns, Junk(c) PROVE Inv'
BY Rejects DEF Junk

LEMMA QuitKeeps == ASSUME Inv, NEW c \in Conns, Quit(c) PROVE Inv'
BY Ends DEF Quit, Command, At

LEMMA TimeoutKeeps == ASSUME Inv, NEW c \in Conns, Timeout(c) PROVE Inv'
BY Ends DEF Timeout

LEMMA TooLargeKeeps == ASSUME Inv, NEW c \in Conns, TooLarge(c) PROVE Inv'
BY Ends DEF TooLarge, At

LEMMA RestartKeeps == ASSUME Inv, NEW c \in Conns, Restart(c) PROVE Inv'
<1> DEFINE s == Reset(sess[c])
<1>1. At(c, "command")
  BY DEF Restart, Command
<1>2. /\ s \in Session /\ s.mails = sess[c].mails /\ s.phase = "command"
      /\ s.env = NoEnvelope
  BY <1>1, AtIs, FreshIsSession DEF Reset, Session
<1>3. Agree(s, NothingPromised) /\ s.env.rcpts = {}
  BY <1>2 DEF Agree, NoEnvelope, NothingPromised
<1> HIDE DEF s
<1>4. sess' = [sess EXCEPT ![c] = s] /\ promised' = [promised EXCEPT ![c] = NothingPromised]
  BY DEF Restart, s
<1>5. SessionBecomes(c, s, NothingPromised)
  BY <1>1, <1>2, <1>3, <1>4, AtIs DEF SessionBecomes, Restart
<1> QED BY <1>2, <1>5, FreshIsSession, SessionStep

LEMMA MailKeeps == ASSUME Inv, NEW c \in Conns, NEW f \in Senders, Mail(c, f) PROVE Inv'
<1> DEFINE e == [from |-> f, rcpts |-> {}]
           s == [sess[c] EXCEPT !.env = e, !.inTransaction = TRUE]
<1>1. At(c, "command")
  BY DEF Mail, Command
<1>2. e \in Envelope /\ e \in Promise /\ f # Nobody
  BY Constants DEF Envelope, Promise
<1>3. s \in Session /\ s.mails = sess[c].mails /\ s.phase = "command" /\ s.env = e
  BY <1>1, <1>2, AtIs DEF Session
<1>4. Agree(s, e) /\ s.env.rcpts = {}
  BY <1>2, <1>3 DEF Agree
<1>5. sess' = [sess EXCEPT ![c] = s] /\ promised' = [promised EXCEPT ![c] = e]
  BY <1>1, AtIs DEF Mail, Session
<1> HIDE DEF s, e
<1>6. SessionBecomes(c, s, e)
  BY <1>1, <1>2, <1>3, <1>4, <1>5, AtIs DEF SessionBecomes, Mail
<1> QED BY <1>2, <1>3, <1>6, SessionStep

LEMMA RcptKeeps == ASSUME Inv, NEW c \in Conns, NEW a \in Addrs, Rcpt(c, a) PROVE Inv'
<1>1. At(c, "command")
  BY DEF Rcpt, Command
<1>2. CASE ~sess[c].inTransaction \/ ~Accepts(Kind[c], a)
  BY <1>2, Rejects DEF Rcpt
<1>3. CASE ~(~sess[c].inTransaction \/ ~Accepts(Kind[c], a))
  <2> DEFINE e == [sess[c].env EXCEPT !.rcpts = @ \cup {a}]
             s == [sess[c] EXCEPT !.env = e]
             p == [promised[c] EXCEPT !.rcpts = @ \cup {a}]
  <2>0. e \in Envelope /\ e.rcpts = sess[c].env.rcpts \cup {a} /\ e.from = sess[c].env.from
    BY <1>1, AtIs DEF Session, Envelope
  <2>1. /\ s \in Session /\ s.mails = sess[c].mails /\ s.phase = "command"
        /\ s.env.rcpts = sess[c].env.rcpts \cup {a} /\ s.env.from = sess[c].env.from
    <3> HIDE DEF e
    <3> QED BY <1>1, <2>0, AtIs DEF Session
  <2>2. /\ p \in Promise /\ p.rcpts = promised[c].rcpts \cup {a} /\ p.from = promised[c].from
    BY <1>1, AtIs DEF Promise
  <2>3. Agree(s, p)
    BY <1>1, <2>1, <2>2, AtIs DEF Agree
  <2>4. Kind[c] = "inbound" => s.env.rcpts \subseteq Locals
    BY <1>1, <1>3, <2>1, AtIs DEF Accepts, Resolve
  <2> HIDE DEF s, p
  <2>5. sess' = [sess EXCEPT ![c] = s] /\ promised' = [promised EXCEPT ![c] = p]
    BY <1>1, <1>3, AtIs DEF Rcpt, s, p, Session, Promise, Envelope
  <2>6. SessionBecomes(c, s, p)
    BY <1>1, <1>3, <2>1, <2>2, <2>3, <2>4, <2>5, AtIs DEF SessionBecomes, Rcpt
  <2> QED BY <2>1, <2>2, <2>6, SessionStep
<1> QED BY <1>2, <1>3

LEMMA DataKeeps == ASSUME Inv, NEW c \in Conns, Data(c) PROVE Inv'
<1> DEFINE s == [sess[c] EXCEPT !.phase = "data"]
<1>1. At(c, "command") /\ sess[c].mails < MaxMails
  BY DEF Data, Command
<1>2. /\ s \in Session /\ s.mails = sess[c].mails /\ s.phase = "data" /\ s.env = sess[c].env
  BY <1>1, AtIs DEF Session, Phases
<1>3. sess' = [sess EXCEPT ![c] = s] /\ promised' = [promised EXCEPT ![c] = promised[c]]
  BY <1>1, AtIs DEF Data, Session
<1>4. Agree(s, promised[c])
  BY <1>1, <1>2, AtIs DEF Agree
<1> HIDE DEF s
<1>5. SessionBecomes(c, s, promised[c])
  BY <1>1, <1>2, <1>3, <1>4, AtIs DEF SessionBecomes, Data
<1> QED BY <1>1, <1>2, <1>5, AtIs, SessionStep

LEMMA StartTlsKeeps == ASSUME Inv, NEW c \in Conns, StartTls(c) PROVE Inv'
<1> DEFINE s == [sess[c] EXCEPT !.tls = TRUE, !.env = NoEnvelope]
<1>1. At(c, "command")
  BY DEF StartTls, Command
<1>2. /\ s \in Session /\ s.mails = sess[c].mails /\ s.phase = "command"
      /\ s.env = NoEnvelope
  BY <1>1, AtIs, FreshIsSession DEF Session
<1>3. Agree(s, NothingPromised) /\ s.env.rcpts = {}
  BY <1>2 DEF Agree, NoEnvelope, NothingPromised
<1>4. sess' = [sess EXCEPT ![c] = s] /\ promised' = [promised EXCEPT ![c] = NothingPromised]
  BY <1>1, AtIs DEF StartTls, Session
<1> HIDE DEF s
<1>5. SessionBecomes(c, s, NothingPromised)
  BY <1>1, <1>2, <1>3, <1>4, AtIs DEF SessionBecomes, StartTls
<1> QED BY <1>2, <1>5, FreshIsSession, SessionStep

\* An AUTH leaves the envelope, and what the client knows of it, alone.
LEMMA AuthStep ==
    ASSUME Inv, NEW c \in Conns, At(c, "command") \/ At(c, "sasl"),
           NEW ph \in {"command", "sasl", "password"}, NEW l \in Logins \cup {Nobody},
           sess' = [sess EXCEPT ![c] = [sess[c] EXCEPT !.phase = ph, !.claim = l]],
           UNCHANGED <<Rest, promised, told>>
    PROVE  Inv'
<1> DEFINE s == [sess[c] EXCEPT !.phase = ph, !.claim = l]
<1>0. /\ sess[c] \in Session /\ promised[c] \in Promise /\ promised \in [Conns -> Promise]
      /\ turn # c /\ Agree(sess[c], promised[c])
      /\ Kind[c] = "inbound" => sess[c].env.rcpts \subseteq Locals
  BY AtIs
<1>1. /\ s \in Session /\ s.mails = sess[c].mails /\ s.phase = ph /\ s.env = sess[c].env
  BY <1>0 DEF Session, Phases, Awaiting
<1>2. sess' = [sess EXCEPT ![c] = s] /\ promised' = [promised EXCEPT ![c] = promised[c]]
  BY <1>0
<1>3. Agree(s, promised[c])
  BY <1>0, <1>1 DEF Agree
<1> HIDE DEF s
<1>4. SessionBecomes(c, s, promised[c])
  BY <1>0, <1>1, <1>2, <1>3 DEF SessionBecomes
<1> QED BY <1>0, <1>1, <1>4, SessionStep

LEMMA AuthKeeps == ASSUME Inv, NEW c \in Conns, Auth(c) PROVE Inv'
<1>1. At(c, "command") /\ sess \in [Conns -> Session]
  BY TypesAre DEF Auth, Command, Inv
<1>2. sess' = [sess EXCEPT ![c] = [sess[c] EXCEPT !.phase = "sasl", !.claim = sess[c].claim]]
  BY <1>1 DEF Auth, Session
<1>3. sess[c].claim \in Logins \cup {Nobody}
  BY <1>1 DEF Session
<1> QED BY <1>1, <1>2, <1>3, AuthStep DEF Auth

LEMMA CancelAuthKeeps == ASSUME Inv, NEW c \in Conns, CancelAuth(c) PROVE Inv'
<1>1. At(c, "sasl") /\ sess \in [Conns -> Session]
  BY TypesAre DEF CancelAuth, Inv
<1>2. sess' = [sess EXCEPT ![c] = [sess[c] EXCEPT !.phase = "command", !.claim = sess[c].claim]]
  BY <1>1 DEF CancelAuth, Session
<1>3. sess[c].claim \in Logins \cup {Nobody}
  BY <1>1 DEF Session
<1> QED BY <1>1, <1>2, <1>3, AuthStep DEF CancelAuth

LEMMA CredentialsKeep == ASSUME Inv, NEW c \in Conns, Credentials(c) PROVE Inv'
<1>1. (At(c, "command") \/ At(c, "sasl")) /\ sess \in [Conns -> Session] /\ enabled \subseteq Logins
  BY TypesAre DEF Credentials, Command, Inv
<1>2. PICK l \in enabled \cup {Nobody} :
          sess' = [sess EXCEPT ![c].phase = "password", ![c].claim = l]
  BY DEF Credentials
<1>3. sess' = [sess EXCEPT ![c] = [sess[c] EXCEPT !.phase = "password", !.claim = l]]
  BY <1>1, <1>2 DEF Session
<1>4. l \in Logins \cup {Nobody}
  BY <1>1
<1> QED BY <1>1, <1>3, <1>4, AuthStep DEF Credentials

LEMMA PasswordKeeps == ASSUME Inv, NEW c \in Conns, Password(c) PROVE Inv'
<1> DEFINE r == [sess[c] EXCEPT !.phase = "command", !.user = sess[c].claim, !.claim = Nobody]
           s == IF r.ended THEN Ended(r) ELSE r
<1>1. /\ sess \in [Conns -> Session] /\ sess[c] \in Session /\ sess[c].phase = "password"
      /\ promised \in [Conns -> Promise] /\ promised[c] \in Promise
      /\ turn # c
      /\ ~sess[c].ended => Agree(sess[c], promised[c])
      /\ Kind[c] = "inbound" => sess[c].env.rcpts \subseteq Locals
  BY TypesAre, Constants DEF Password, Inv, Envelopes, LocalOnly
<1>2. /\ r \in Session /\ r.mails = sess[c].mails /\ r.phase = "command"
      /\ r.env = sess[c].env /\ r.ended = sess[c].ended
  BY <1>1 DEF Session, Phases
<1>3. sess' = [sess EXCEPT ![c] = s] /\ promised' = [promised EXCEPT ![c] = promised[c]]
  BY <1>1 DEF Password
<1> HIDE DEF r
<1>4. /\ s \in Session /\ s.mails = sess[c].mails /\ s.phase = "command"
      /\ s.env = sess[c].env \/ s.env = NoEnvelope
      /\ ~s.ended => s.env = sess[c].env /\ ~sess[c].ended
  BY <1>2, EndedSession DEF Awaiting
<1>5. ~s.ended => Agree(s, promised[c])
  BY <1>1, <1>4 DEF Agree
<1>6. Kind[c] = "inbound" => s.env.rcpts \subseteq Locals
  BY <1>1, <1>4 DEF NoEnvelope
<1> HIDE DEF s
<1>7. SessionBecomes(c, s, promised[c])
  BY <1>1, <1>3, <1>4, <1>5, <1>6 DEF SessionBecomes, Password
<1> QED BY <1>1, <1>4, <1>7, SessionStep

LEMMA StartLookupsKeeps == ASSUME Inv, NEW c \in Conns, StartLookups(c) PROVE Inv'
<1> DEFINE s == [sess[c] EXCEPT !.phase = "lookups"]
<1>1. At(c, "data") /\ Kind[c] \notin closing /\ told' = [told EXCEPT ![c] = "nothing"]
  BY DEF StartLookups, Taken
<1>2. told'[c] = "nothing"
  BY <1>1, TypesAre DEF Inv
<1>3. /\ s \in Session /\ s.mails = sess[c].mails /\ s.phase = "lookups" /\ s.env = sess[c].env
  BY <1>1, AtIs DEF Session, Phases, Awaiting
<1>4. sess' = [sess EXCEPT ![c] = s] /\ promised' = [promised EXCEPT ![c] = promised[c]]
  BY <1>1, AtIs DEF StartLookups, Session
<1>5. Agree(s, promised[c])
  BY <1>1, <1>3, AtIs DEF Agree
<1> HIDE DEF s
<1>6. SessionBecomes(c, s, promised[c])
  BY <1>1, <1>2, <1>3, <1>4, <1>5, AtIs DEF SessionBecomes, StartLookups
<1> QED BY <1>1, <1>3, <1>6, AtIs, SessionStep

-----------------------------------------------------------------------------
(* Handlers. *)

\* Whatever the verdict, the session is at a command line with no envelope.
LEMMA ReplyIs ==
    ASSUME TypeOK, NEW c \in Conns, NEW v \in Verdicts, Reply(c, v),
           sess[c].mails < MaxMails
    PROVE  /\ sess' \in [Conns -> Session]
           /\ \A d \in Conns \ {c} : sess'[d] = sess[d]
           /\ sess'[c].phase = "command" /\ sess'[c].env = NoEnvelope
           /\ sess'[c].mails = IF v = "refused" THEN sess[c].mails ELSE sess[c].mails + 1
<1> DEFINE n == IF v = "refused" THEN sess[c].mails ELSE sess[c].mails + 1
           f == [Finished(sess[c]) EXCEPT !.mails = n]
           s == IF f.ended THEN Ended(f) ELSE f
<1>1. sess \in [Conns -> Session] /\ sess[c] \in Session
  BY TypesAre
<1>2. n \in 0..MaxMails
  BY <1>1, Constants DEF Session
<1> HIDE DEF n
<1>3. /\ Finished(sess[c]) \in Session /\ Finished(sess[c]).mails = sess[c].mails
      /\ Finished(sess[c]).phase = "command" /\ Finished(sess[c]).env = NoEnvelope
  BY <1>1, FreshIsSession DEF Finished, Reset, Session, Phases
<1>4. f \in Session /\ f.mails = n /\ f.phase = "command" /\ f.env = NoEnvelope
  BY <1>2, <1>3 DEF Session
<1>5. sess' = [sess EXCEPT ![c] = s]
  <2>1. CASE v = "refused"
    <3>1. f = Finished(sess[c])
      BY <1>3, <2>1 DEF Session, n
    <3> QED BY <2>1, <3>1 DEF Reply
  <2>2. CASE v # "refused"
    BY <1>3, <2>2 DEF Reply, n
  <2> QED BY <2>1, <2>2
<1> HIDE DEF f
<1>6. s \in Session /\ s.mails = n /\ s.phase = "command" /\ s.env = NoEnvelope
  BY <1>4, EndedSession DEF Awaiting
<1> QED BY <1>1, <1>5, <1>6 DEF n

\* A reply ends the turn; it may add copies only of a message it says is stored.
LEMMA ReplyStep ==
    ASSUME Inv, NEW c \in Conns, NEW v \in Verdicts, Reply(c, v),
           sess[c].phase \in InHandler \cup {"data"},
           turn \in {c, Nobody}, turn' = Nobody, v = "refused" => turn = Nobody,
           UNCHANGED <<Registry, cached, mailbox, closing, stage>>,
           queue' \subseteq Msgs \X SUBSET Remotes,
           \A m, a : Copied(m, a)' => Copied(m, a) \/ (v = "stored" /\ m = Message(c))
    PROVE  Inv'
<1>1. sess[c].mails < MaxMails /\ TypeOK
  BY DEF Inv, Bounded
<1>2. /\ sess \in [Conns -> Session] /\ sess' \in [Conns -> Session]
      /\ \A d \in Conns \ {c} : sess'[d] = sess[d]
      /\ sess'[c].phase = "command" /\ sess'[c].env = NoEnvelope
      /\ sess'[c].mails = IF v = "refused" THEN sess[c].mails ELSE sess[c].mails + 1
  BY <1>1, ReplyIs, TypesAre
<1>3. /\ told' \in [Conns -> Verdicts] /\ promised' \in [Conns -> Promise]
      /\ \A d \in Conns \ {c} : told'[d] = told[d] /\ promised'[d] = promised[d]
      /\ promised'[c] = NothingPromised /\ awaited' = awaited \ {c}
  BY <1>1, TypesAre, FreshIsSession DEF Reply, Verdicts
<1>4. UNCHANGED <<owner, enabled, cached, mailbox, closing, stage>>
  BY DEF Registry
<1>5. TypeOK'
  <2>1. turn' \in Conns \cup {Nobody} /\ awaited' \subseteq Conns
    BY <1>1, <1>3, TypesAre
  <2> QED BY <1>1, <1>2, <1>3, <1>4, <2>1, TypesAre DEF TypeOK, Session
<1>6. Envelopes' /\ LocalOnly'
  <2>1. Agree(sess'[c], promised'[c]) /\ sess'[c].env.rcpts = {}
    BY <1>2, <1>3 DEF Agree, NoEnvelope, NothingPromised
  <2> QED BY <1>2, <1>3, <2>1 DEF Inv, Envelopes, LocalOnly
<1>7. Bounded' /\ NotYetTold'
  BY <1>2, <1>3 DEF Inv, Bounded, NotYetTold, InHandler
<1>8. Turns'
  BY <1>2, Constants DEF Inv, Turns
<1>9. Drains'
  BY <1>2, <1>3, <1>4 DEF Inv, Drains, InHandler
<1>10. Copies'
  <2> SUFFICES ASSUME NEW d \in Conns, NEW n \in Nat, NEW a \in Addrs, Copied(<<d, n>>, a)'
               PROVE  n <= sess'[d].mails
    BY DEF Copies
  <2>1. sess[d].mails \in Nat
    BY <1>2 DEF Session
  <2>2. CASE Copied(<<d, n>>, a)
    <3>1. n <= sess[d].mails \/ (turn = d /\ n = sess[d].mails + 1)
      BY <2>2 DEF Inv, Copies
    <3> QED BY <1>2, <2>1, <3>1, Constants
  <2>3. CASE v = "stored" /\ <<d, n>> = Message(c)
    BY <1>2, <2>1, <2>3 DEF Message
  <2> QED BY <2>2, <2>3
<1>11. Served' /\ Opened'
  BY <1>4, Constants DEF Inv, Served, Opened
<1> QED BY <1>5, <1>6, <1>7, <1>8, <1>9, <1>10, <1>11 DEF Inv

LEMMA SameCopies ==
    ASSUME UNCHANGED <<mailbox, queue>>
    PROVE  \A m, a : Copied(m, a)' <=> Copied(m, a)
BY DEF Copied

LEMMA UnacceptableKeeps == ASSUME Inv, NEW c \in Conns, Unacceptable(c) PROVE Inv'
<1>1. UNCHANGED <<Registry, cached, mailbox, queue, turn, closing, stage>>
  BY DEF Unacceptable, Stores
<1>2. turn = Nobody /\ sess[c].phase = "data" /\ Reply(c, "refused")
  BY DEF Unacceptable, At
<1>3. queue' \subseteq Msgs \X SUBSET Remotes
  BY <1>1, TypesAre DEF Inv
<1> QED BY <1>1, <1>2, <1>3, SameCopies, ReplyStep DEF Verdicts, InHandler

LEMMA StoredKeeps == ASSUME Inv, NEW c \in Conns, Stored(c) PROVE Inv'
<1>1. sess[c].phase = "deliver" /\ turn = c /\ turn' = Nobody /\ Reply(c, "stored")
  BY DEF Stored, Inv, Turns
<1>2. UNCHANGED <<Registry, cached, mailbox, closing, stage>>
  BY DEF Stored
<1>3. /\ sess[c] \in Session /\ sess[c].mails < MaxMails /\ queue \subseteq Msgs \X SUBSET Remotes
  BY <1>1, TypesAre DEF Inv, Bounded, InHandler
<1>4. Message(c) \in Msgs
  BY <1>3, Constants DEF Message, Msgs, Session
<1>5. queue' \subseteq queue \cup {<<Message(c), sess[c].env.rcpts \cap Remotes>>}
  BY DEF Stored
<1>6. queue' \subseteq Msgs \X SUBSET Remotes
  BY <1>3, <1>4, <1>5
<1>7. \A m, a : Copied(m, a)' => Copied(m, a) \/ m = Message(c)
  BY <1>2, <1>5 DEF Copied
<1> QED BY <1>1, <1>2, <1>6, <1>7, ReplyStep DEF Verdicts, InHandler

LEMMA WriteFailsKeeps == ASSUME Inv, NEW c \in Conns, WriteFails(c) PROVE Inv'
<1>1. UNCHANGED <<Registry, cached, mailbox, queue, closing, stage>>
  BY DEF WriteFails, Stores
<1>2. sess[c].phase = "deliver" /\ turn = c /\ turn' = Nobody /\ Reply(c, "failed")
  BY DEF WriteFails, Inv, Turns
<1>3. queue' \subseteq Msgs \X SUBSET Remotes
  BY <1>1, TypesAre DEF Inv
<1> QED BY <1>1, <1>2, <1>3, SameCopies, ReplyStep DEF Verdicts, InHandler

\* A handler that begins finds every local recipient an account.
LEMMA TurnStep ==
    ASSUME Inv, NEW c \in Conns, turn = Nobody, turn' = c,
           sess' = [sess EXCEPT ![c].phase = "deliver", ![c].left = Resolved(c)],
           ~Unavailable(c),
           \/ sess[c].phase = "lookups" /\ told' = told
           \/ /\ sess[c].phase = "data" /\ ~sess[c].ended /\ Kind[c] \notin closing
              /\ told' = [told EXCEPT ![c] = "nothing"],
           UNCHANGED <<Registry, Stores, promised, awaited, closing, stage>>
    PROVE  Inv'
<1>1. /\ UNCHANGED <<owner, enabled, cached, mailbox, queue, promised, awaited, closing, stage>>
      /\ sess \in [Conns -> Session] /\ told \in [Conns -> Verdicts]
      /\ owner \in [Locals -> Logins \cup {Nobody}]
  BY TypesAre DEF Inv, Registry, Stores
<1>2. \A a \in sess[c].env.rcpts \cap Locals : Resolve(a) \in Logins /\ <<a, Resolve(a)>> \in Resolved(c)
  <2> SUFFICES ASSUME NEW a \in sess[c].env.rcpts \cap Locals
               PROVE  Resolve(a) \in Logins /\ <<a, Resolve(a)>> \in Resolved(c)
    OBVIOUS
  <2>1. <<a, Resolve(a)>> \in Resolved(c)
    BY DEF Resolved
  <2>2. Resolve(a) # Nobody
    BY <2>1 DEF Unavailable
  <2> QED BY <1>1, <2>1, <2>2 DEF Resolve
<1>3. Resolved(c) \subseteq Locals \X Logins
  BY <1>2 DEF Resolved
<1>4. /\ sess' \in [Conns -> Session]
      /\ \A d \in Conns \ {c} : sess'[d] = sess[d] /\ told'[d] = told[d]
      /\ sess'[c].phase = "deliver" /\ sess'[c].left = Resolved(c)
      /\ sess'[c].env = sess[c].env /\ sess'[c].mails = sess[c].mails
      /\ sess'[c].ended = sess[c].ended
  <2> DEFINE s == [sess[c] EXCEPT !.phase = "deliver", !.left = Resolved(c)]
  <2>0. sess[c] \in Session /\ "deliver" \in Phases /\ Resolved(c) \in SUBSET (Locals \X Logins)
    BY <1>1, <1>3 DEF Phases
  <2>1. /\ s \in Session /\ s.phase = "deliver" /\ s.left = Resolved(c)
        /\ s.env = sess[c].env /\ s.mails = sess[c].mails /\ s.ended = sess[c].ended
    BY <2>0 DEF Session
  <2>2. sess' = [sess EXCEPT ![c] = s]
    BY <1>1
  <2> HIDE DEF s
  <2>3. \A d \in Conns \ {c} : told'[d] = told[d]
    BY <1>1
  <2> QED BY <1>1, <2>1, <2>2, <2>3
<1>5. told' \in [Conns -> Verdicts] /\ told'[c] # "refused"
  BY <1>1 DEF Verdicts, Inv, NotYetTold, InHandler
<1>6. TypeOK'
  BY <1>1, <1>4, <1>5, TypesAre DEF Inv, TypeOK, Session
<1>7. Envelopes' /\ LocalOnly'
  BY <1>1, <1>4 DEF Inv, Envelopes, LocalOnly, InHandler, Agree
<1>8. Bounded' /\ Turns' /\ NotYetTold'
  BY <1>1, <1>4, <1>5, Constants DEF Inv, Bounded, Turns, NotYetTold, InHandler
<1>9. Drains'
  BY <1>1, <1>4, Constants DEF Inv, Drains, InHandler
<1>10. Copies'
  <2>1. \A m, a : Copied(m, a)' <=> Copied(m, a)
    BY <1>1, SameCopies
  <2>2. \A d \in Conns : sess'[d].mails = sess[d].mails /\ turn # d
    BY <1>4, Constants
  <2> QED BY <2>1, <2>2 DEF Inv, Copies
<1>11. Served'
  BY <1>2, <1>4 DEF Served
<1>12. Opened'
  BY <1>1 DEF Inv, Opened
<1> QED BY <1>6, <1>7, <1>8, <1>9, <1>10, <1>11, <1>12 DEF Inv

LEMMA EndLookupsKeeps == ASSUME Inv, NEW c \in Conns, EndLookups(c) PROVE Inv'
<1>1. turn = Nobody /\ sess[c].phase = "lookups" /\ UNCHANGED <<Registry, Stores, closing, stage>>
  BY DEF EndLookups
<1>2. CASE Unavailable(c)
  <2>1. UNCHANGED <<Registry, cached, mailbox, queue, turn, closing, stage>> /\ Reply(c, "refused")
    BY <1>1, <1>2 DEF EndLookups, Stores
  <2>2. queue' \subseteq Msgs \X SUBSET Remotes
    BY <2>1, TypesAre DEF Inv
  <2> QED BY <1>1, <2>1, <2>2, SameCopies, ReplyStep DEF Verdicts, InHandler
<1>3. CASE ~Unavailable(c)
  BY <1>1, <1>3, TurnStep DEF EndLookups
<1> QED BY <1>2, <1>3

LEMMA SubmitKeeps == ASSUME Inv, NEW c \in Conns, Submit(c) PROVE Inv'
<1>1. /\ turn = Nobody /\ sess[c].phase = "data" /\ ~sess[c].ended /\ Kind[c] \notin closing
      /\ UNCHANGED <<Registry, Stores, closing, stage>>
  BY DEF Submit, Taken, At
<1>2. CASE MayNot(c)
  <2>1. UNCHANGED <<Registry, cached, mailbox, queue, turn, closing, stage>> /\ Reply(c, "refused")
    BY <1>1, <1>2 DEF Submit, Stores
  <2>2. queue' \subseteq Msgs \X SUBSET Remotes
    BY <2>1, TypesAre DEF Inv
  <2> QED BY <1>1, <2>1, <2>2, SameCopies, ReplyStep DEF Verdicts
<1>3. CASE ~MayNot(c)
  <2>1. ~Unavailable(c)
    BY <1>3 DEF MayNot
  <2> QED BY <1>1, <1>3, <2>1, TurnStep DEF Submit
<1> QED BY <1>2, <1>3

\* A delivery is a copy, or is dropped because the account is disabled and was so
\* when the daemon started.
LEMMA DeliverKeeps == ASSUME Inv, NEW c \in Conns, Deliver(c) PROVE Inv'
<1>1. PICK p \in sess[c].left :
          LET open == p[2] \in cached \cup enabled
          IN  /\ cached' = IF open THEN cached \cup {p[2]} ELSE cached
              /\ mailbox' = IF open THEN mailbox \cup {<<Message(c), p[1], p[2]>>} ELSE mailbox
              /\ sess' = [sess EXCEPT ![c].left = @ \ {p},
                                      ![c].dropped = IF open THEN @ ELSE @ \cup {p}]
  BY DEF Deliver
<1>2. /\ UNCHANGED <<owner, enabled, queue, turn, closing, stage, awaited, promised, told>>
      /\ turn = c
  BY DEF Deliver, Registry, Shutdown
<1>3. /\ sess \in [Conns -> Session] /\ sess[c] \in Session /\ sess[c].mails < MaxMails
      /\ sess[c].phase = "deliver"
      /\ cached \subseteq Logins /\ enabled \subseteq Logins
      /\ mailbox \subseteq Msgs \X Locals \X Logins
  BY <1>2, TypesAre DEF Inv, Bounded, Turns, InHandler
<1> DEFINE a0 == p[1]
           l0 == p[2]
<1>4. a0 \in Locals /\ l0 \in Logins /\ p = <<a0, l0>>
  BY <1>3 DEF Session
<1>5. Message(c) \in Msgs
  BY <1>3, Constants DEF Message, Msgs, Session
<1> DEFINE open == l0 \in cached \cup enabled
<1>6. /\ sess' \in [Conns -> Session]
      /\ \A d \in Conns \ {c} : sess'[d] = sess[d]
      /\ sess'[c].left = sess[c].left \ {p} /\ sess[c].dropped \subseteq sess'[c].dropped
      /\ ~open => p \in sess'[c].dropped
      /\ sess'[c].phase = "deliver" /\ sess'[c].env = sess[c].env
      /\ sess'[c].mails = sess[c].mails /\ sess'[c].ended = sess[c].ended
  <2> DEFINE dr == IF open THEN sess[c].dropped ELSE sess[c].dropped \cup {p}
  <2>1. dr \subseteq Locals \X Logins /\ sess[c].dropped \subseteq dr /\ (~open => p \in dr)
    BY <1>3, <1>4 DEF Session
  <2>2. sess' = [sess EXCEPT ![c].left = sess[c].left \ {p}, ![c].dropped = dr]
    BY <1>1
  <2> HIDE DEF dr
  <2> QED BY <1>3, <2>1, <2>2 DEF Session
<1>7. /\ cached' \subseteq Logins /\ cached \subseteq cached'
      /\ mailbox' \subseteq Msgs \X Locals \X Logins
      /\ mailbox' = IF open THEN mailbox \cup {<<Message(c), a0, l0>>} ELSE mailbox
  BY <1>1, <1>3, <1>4, <1>5
<1> HIDE DEF a0, l0
<1>0. PICK m0 : m0 = Message(c)
  OBVIOUS
<1>8. /\ \A m, a : Copied(m, a) => Copied(m, a)'
      /\ \A m, a : Copied(m, a)' => Copied(m, a) \/ m = m0
      /\ open => Copied(m0, a0)'
  <2>1. mailbox \subseteq mailbox' /\ mailbox' \subseteq mailbox \cup {<<m0, a0, l0>>} /\ queue' = queue
    BY <1>0, <1>2, <1>7
  <2>2. \A m, a : Copied(m, a) => Copied(m, a)'
    BY <2>1 DEF Copied
  <2>3. \A m, a : Copied(m, a)' => Copied(m, a) \/ m = m0
    BY <2>1 DEF Copied
  <2>4. open => Copied(m0, a0)'
    BY <1>0, <1>4, <1>7 DEF Copied
  <2> QED BY <2>2, <2>3, <2>4
<1>9. TypeOK'
  <2> HIDE DEF open
  <2>1. enabled' \subseteq Logins /\ mailbox' \subseteq Msgs \X Locals \X Logins /\ cached' \subseteq Logins
    BY <1>2, <1>3, <1>7
  <2>2. /\ owner' \in [Locals -> Logins \cup {Nobody}] /\ queue' \subseteq Msgs \X SUBSET Remotes
        /\ turn' \in Conns \cup {Nobody} /\ closing' \subseteq Kinds /\ awaited' \subseteq Conns
        /\ stage' \in Kinds \cup {"up", "imap", "down"}
        /\ promised' \in [Conns -> Promise] /\ told' \in [Conns -> Verdicts]
    BY <1>2, TypesAre DEF Inv
  <2> QED BY <1>6, <2>1, <2>2 DEF TypeOK, Session
<1>10. Envelopes' /\ LocalOnly'
  BY <1>2, <1>3, <1>6 DEF Inv, Envelopes, LocalOnly, InHandler, Agree
<1>11. Bounded' /\ Turns' /\ NotYetTold' /\ Drains'
  BY <1>2, <1>3, <1>6 DEF Inv, Bounded, Turns, NotYetTold, Drains, InHandler
<1>12. Copies'
  <2>1. \A d \in Conns : sess'[d].mails = sess[d].mails
    BY <1>6
  <2> QED BY <1>0, <1>2, <1>8, <2>1 DEF Inv, Copies, Message
<1>13. Served'
  <2> SUFFICES ASSUME NEW a \in sess[c].env.rcpts \cap Locals
               PROVE  \/ \E l \in Logins : <<a, l>> \in sess'[c].left
                      \/ \E l \in Late : <<a, l>> \in sess'[c].dropped
                      \/ Copied(m0, a)'
    BY <1>0, <1>2, <1>6 DEF Served, Message
  <2>1. CASE \E l \in Logins : <<a, l>> \in sess[c].left /\ <<a, l>> # p
    BY <1>6, <2>1
  <2>2. CASE <<a, l0>> = p
    <3>1. a = a0
      BY <1>4, <2>2
    <3>2. ~open => l0 \in Late
      BY <1>4 DEF Inv, Opened
    <3> QED BY <1>6, <1>8, <2>2, <3>1, <3>2
  <2>3. CASE \E l \in Late : <<a, l>> \in sess[c].dropped
    BY <1>6, <2>3
  <2>4. CASE Copied(m0, a)
    BY <1>8, <2>4
  <2>5. \A l \in Logins : <<a, l>> = p => l = l0
    BY <1>4
  <2> QED BY <1>0, <1>2, <2>1, <2>2, <2>3, <2>4, <2>5 DEF Inv, Served
<1>14. Opened'
  BY <1>7 DEF Inv, Opened
<1> QED BY <1>9, <1>10, <1>11, <1>12, <1>13, <1>14 DEF Inv

-----------------------------------------------------------------------------
(* The rest of the daemon, and the operator. *)

\* A step that touches neither sessions nor the turn, adds no copy to those
\* there are and takes none away from the message in hand.
LEMMA OtherStep ==
    ASSUME Inv, TypeOK', Drains', cached \subseteq cached',
           UNCHANGED <<sess, turn, promised, told>>,
           \A m, a : Copied(m, a)' => Copied(m, a),
           turn # Nobody => \A m, a : Copied(m, a)' <=> Copied(m, a)
    PROVE  Inv'
<1>1. Envelopes' /\ LocalOnly' /\ Bounded' /\ Turns' /\ NotYetTold'
  BY DEF Inv, Envelopes, LocalOnly, Bounded, Turns, NotYetTold
<1>2. Copies' /\ Opened'
  BY DEF Inv, Copies, Opened
<1>3. Served'
  BY Constants DEF Inv, Served, Message
<1> QED BY <1>1, <1>2, <1>3 DEF Inv

LEMMA RelayKeeps == ASSUME Inv, Relay PROVE Inv'
<1>1. /\ UNCHANGED <<owner, enabled, cached, sess, mailbox, turn, closing, stage, awaited, promised, told>>
      /\ queue' \subseteq queue /\ turn = Nobody
  BY DEF Relay, Registry, Shutdown
<1>2. TypeOK'
  BY <1>1 DEF Inv, TypeOK
<1>3. Drains'
  BY <1>1 DEF Inv, Drains
<1>4. \A m, a : Copied(m, a)' => Copied(m, a)
  BY <1>1 DEF Copied
<1> QED BY <1>1, <1>2, <1>3, <1>4, OtherStep

LEMMA OpenStoreKeeps == ASSUME Inv, NEW l \in Logins, OpenStore(l) PROVE Inv'
<1>1. /\ UNCHANGED <<owner, enabled, sess, mailbox, queue, turn, closing, stage, awaited, promised, told>>
      /\ cached' = cached \cup {l}
  BY DEF OpenStore, Registry, Shutdown
<1>2. TypeOK'
  BY <1>1 DEF Inv, TypeOK
<1>3. Drains'
  BY <1>1 DEF Inv, Drains
<1> QED BY <1>1, <1>2, <1>3, SameCopies, OtherStep

LEMMA OperatorKeeps ==
    ASSUME Inv, Operator, enabled' \subseteq Logins, owner' \in [Locals -> Logins \cup {Nobody}]
    PROVE  Inv'
<1>1. UNCHANGED <<cached, sess, mailbox, queue, turn, closing, stage, awaited, promised, told>>
  BY DEF Operator, Stores, Shutdown
<1>2. TypeOK'
  BY <1>1 DEF Inv, TypeOK
<1>3. Drains'
  BY <1>1 DEF Inv, Drains
<1> QED BY <1>1, <1>2, <1>3, SameCopies, OtherStep

LEMMA SetEnabledKeeps == ASSUME Inv, NEW l \in Logins, SetEnabled(l) PROVE Inv'
BY TypesAre, OperatorKeeps DEF Inv, SetEnabled

LEMMA MoveAliasKeeps ==
    ASSUME Inv, NEW a \in Locals, NEW l \in Logins \cup {Nobody}, MoveAlias(a, l) PROVE Inv'
BY TypesAre, OperatorKeeps DEF Inv, MoveAlias

LEMMA CloseKeeps == ASSUME Inv, Close PROVE Inv'
<1>1. /\ UNCHANGED <<owner, enabled, cached, sess, mailbox, queue, turn, promised, told>>
      /\ stage = "up" /\ stage' = "inbound" /\ closing' = closing \cup {"inbound"}
      /\ awaited' = InFlight("inbound")
  BY DEF Close, CloseListener, Registry, Stores, Awaits
<1>2. TypeOK'
  BY <1>1 DEF Inv, TypeOK, Kinds, InFlight
<1>3. Drains'
  BY <1>1, Constants DEF Inv, Drains, InFlight, InHandler
<1> QED BY <1>1, <1>2, <1>3, SameCopies, OtherStep

LEMMA CloseStoresKeeps == ASSUME Inv, CloseStores PROVE Inv'
<1>1. /\ UNCHANGED <<owner, enabled, cached, sess, mailbox, queue, turn, closing, awaited, promised, told>>
      /\ stage = "imap" /\ stage' = "down"
  BY DEF CloseStores, Registry, Stores
<1>2. TypeOK'
  BY <1>1 DEF Inv, TypeOK
<1>3. Drains'
  BY <1>1, Constants DEF Inv, Drains
<1> QED BY <1>1, <1>2, <1>3, SameCopies, OtherStep

\* A listener whose handlers have ended cuts its sessions: none of them is in a
\* handler any more.
LEMMA DrainedKeeps == ASSUME Inv, NEW k \in Kinds, Drained(k) PROVE Inv'
<1>1. /\ UNCHANGED <<owner, enabled, cached, mailbox, queue, turn, promised, told>>
      /\ turn = Nobody /\ stage = k /\ awaited = {}
      /\ sess' = [c \in Conns |-> IF Kind[c] = k THEN Ended(sess[c]) ELSE sess[c]]
      /\ sess \in [Conns -> Session]
  BY TypesAre DEF Drained, Registry, Stores, Inv
<1>2. \A c \in Conns : Kind[c] = k => sess[c].phase \notin InHandler
  BY <1>1, Constants DEF Inv, Drains, Kinds
<1>3. \A c \in Conns :
          /\ sess'[c] \in Session /\ sess'[c].mails = sess[c].mails
          /\ Kind[c] # k => sess'[c] = sess[c]
          /\ Kind[c] = k => /\ sess'[c].phase \notin InHandler \cup {"data"}
                            /\ sess'[c].ended
                            /\ sess'[c].env = sess[c].env \/ sess'[c].env.rcpts = {}
  <2> SUFFICES ASSUME NEW c \in Conns
               PROVE  /\ sess'[c] \in Session /\ sess'[c].mails = sess[c].mails
                      /\ Kind[c] # k => sess'[c] = sess[c]
                      /\ Kind[c] = k => /\ sess'[c].phase \notin InHandler \cup {"data"}
                                        /\ sess'[c].ended
                                        /\ sess'[c].env = sess[c].env \/ sess'[c].env.rcpts = {}
    OBVIOUS
  <2>1. CASE Kind[c] # k
    BY <1>1, <2>1
  <2>2. CASE Kind[c] = k
    <3>1. sess'[c] = Ended(sess[c]) /\ sess[c] \in Session
      BY <1>1, <2>2
    <3>2. NoEnvelope.rcpts = {}
      BY DEF NoEnvelope
    <3> QED BY <1>2, <2>2, <3>1, <3>2, EndedSession DEF Awaiting, InHandler
  <2> QED BY <2>1, <2>2
<1>4. sess' \in [Conns -> Session]
  BY <1>1, <1>3
<1>5. /\ k = "inbound" => /\ stage' = "submission" /\ closing' = closing \cup {"submission"}
                          /\ awaited' = InFlight("submission")
      /\ k = "submission" => stage' = "imap" /\ UNCHANGED <<closing, awaited>>
  BY DEF Drained, CloseListener, Awaits
<1>6. TypeOK'
  <2>1. closing' \subseteq Kinds /\ awaited' \subseteq Conns /\ stage' \in Kinds \cup {"up", "imap", "down"}
    BY <1>5, TypesAre DEF Kinds, InFlight, Inv
  <2>2. /\ owner' \in [Locals -> Logins \cup {Nobody}] /\ queue' \subseteq Msgs \X SUBSET Remotes
        /\ enabled' \subseteq Logins /\ cached' \subseteq Logins
        /\ mailbox' \subseteq Msgs \X Locals \X Logins /\ turn' \in Conns \cup {Nobody}
        /\ promised' \in [Conns -> Promise] /\ told' \in [Conns -> Verdicts]
    BY <1>1, TypesAre DEF Inv
  <2> QED BY <1>4, <2>1, <2>2 DEF TypeOK, Session
<1>7. Envelopes' /\ LocalOnly'
  BY <1>1, <1>3 DEF Inv, Envelopes, LocalOnly, Agree
<1>8. Bounded' /\ NotYetTold'
  BY <1>1, <1>3 DEF Inv, Bounded, NotYetTold
<1>9. Turns'
  BY <1>1, <1>2, <1>3, Constants DEF Inv, Turns, InHandler
<1>10. Drains'
  <2>1. CASE k = "inbound"
    <3>1. \A c \in Conns : sess'[c].phase \in InHandler => Kind[c] = "submission" /\ c \in InFlight("submission")
      BY <1>3, <2>1, Constants DEF InFlight, InHandler
    <3> QED BY <1>1, <1>5, <2>1, <3>1 DEF Inv, Drains
  <2>2. CASE k = "submission"
    <3>1. \A c \in Conns : sess'[c].phase \notin InHandler
      BY <1>1, <1>2, <1>3, <2>2, Constants DEF Inv, Drains
    <3> QED BY <1>1, <1>5, <2>2, <3>1 DEF Inv, Drains
  <2> QED BY <2>1, <2>2 DEF Kinds
<1>11. Copies'
  <2>1. \A m, a : Copied(m, a)' <=> Copied(m, a)
    BY <1>1, SameCopies
  <2> QED BY <1>1, <1>3, <2>1 DEF Inv, Copies
<1>12. Served' /\ Opened'
  BY <1>1, Constants DEF Inv, Served, Opened
<1> QED BY <1>6, <1>7, <1>8, <1>9, <1>10, <1>11, <1>12 DEF Inv

-----------------------------------------------------------------------------
(* The theorems. *)

LEMMA InitInv == Init => Inv
<1> SUFFICES ASSUME Init PROVE Inv
  OBVIOUS
<1>1. \A c \in Conns : sess[c] = Fresh /\ promised[c] = NothingPromised /\ told[c] = "nothing"
  BY DEF Init
<1>2. TypeOK
  <2>1. sess \in [Conns -> Session] /\ promised \in [Conns -> Promise] /\ told \in [Conns -> Verdicts]
    BY FreshIsSession DEF Init, Verdicts
  <2> QED BY <2>1, SmtpReceiverAssumption, TypesAre DEF Init
<1>3. Envelopes /\ LocalOnly
  BY <1>1 DEF Envelopes, LocalOnly, Agree, Fresh, NoEnvelope, NothingPromised
<1>4. Bounded /\ Turns /\ Drains /\ NotYetTold
  BY <1>1, Constants DEF Init, Fresh, Bounded, Turns, Drains, NotYetTold, InHandler
<1>5. Copies
  BY DEF Init, Copies, Copied
<1>6. Served /\ Opened
  BY Constants DEF Init, Served, Opened
<1> QED BY <1>2, <1>3, <1>4, <1>5, <1>6 DEF Inv

LEMMA StepInv == Inv /\ [Next]_vars => Inv'
<1> SUFFICES ASSUME Inv, [Next]_vars PROVE Inv'
  OBVIOUS
<1>1. ASSUME NEW c \in Conns,
             \/ Junk(c) \/ Restart(c) \/ Data(c) \/ StartTls(c)
             \/ Auth(c) \/ CancelAuth(c) \/ Credentials(c) \/ Password(c)
             \/ Quit(c) \/ Timeout(c)
      PROVE  Inv'
  BY <1>1, JunkKeeps, RestartKeeps, DataKeeps, StartTlsKeeps, AuthKeeps, CancelAuthKeeps,
     CredentialsKeep, PasswordKeeps, QuitKeeps, TimeoutKeeps
<1>2. ASSUME NEW c \in Conns, (\E f \in Senders : Mail(c, f)) \/ (\E a \in Addrs : Rcpt(c, a))
      PROVE  Inv'
  BY <1>2, MailKeeps, RcptKeeps
<1>3. ASSUME NEW c \in Conns,
             \/ TooLarge(c) \/ Unacceptable(c)
             \/ StartLookups(c) \/ EndLookups(c) \/ Submit(c)
             \/ Deliver(c) \/ Stored(c) \/ WriteFails(c)
      PROVE  Inv'
  BY <1>3, TooLargeKeeps, UnacceptableKeeps, StartLookupsKeeps, EndLookupsKeeps, SubmitKeeps,
     DeliverKeeps, StoredKeeps, WriteFailsKeeps
<1>4. CASE Relay \/ Close \/ CloseStores \/ \E k \in Kinds : Drained(k)
  BY <1>4, RelayKeeps, CloseKeeps, CloseStoresKeeps, DrainedKeeps
<1>5. CASE \/ \E l \in Logins : OpenStore(l) \/ SetEnabled(l)
           \/ \E a \in Locals, l \in Logins \cup {Nobody} : MoveAlias(a, l)
  BY <1>5, OpenStoreKeeps, SetEnabledKeeps, MoveAliasKeeps
<1>6. CASE UNCHANGED vars
  <2>1. UNCHANGED <<owner, enabled, cached, sess, mailbox, queue, turn, closing, stage, awaited, promised, told>>
    BY <1>6 DEF vars
  <2>2. TypeOK' /\ Drains'
    BY <2>1 DEF Inv, TypeOK, Drains
  <2> QED BY <2>1, <2>2, SameCopies, OtherStep
<1> QED BY <1>1, <1>2, <1>3, <1>4, <1>5, <1>6 DEF Next

THEOREM InvariantHolds == Spec => []Inv
BY InitInv, StepInv, PTL DEF Spec

\* Every field of every session, the stores and the shutdown stay well typed.
THEOREM TypesHold == Spec => []TypeOK
<1>1. Inv => TypeOK
  BY DEF Inv
<1> QED BY <1>1, InvariantHolds, PTL

\* A refused message has left nothing behind (the handlers of main.ts resolve and
\* measure before they store).
THEOREM RefusalsLeaveNothing == Spec => []RefusedLeavesNothing
<1>1. Inv => RefusedLeavesNothing
  <2> SUFFICES ASSUME Inv, NEW c \in Conns, told[c] = "refused", NEW a \in Addrs, Copied(Message(c), a)
               PROVE  FALSE
    BY DEF RefusedLeavesNothing
  <2>1. sess[c].mails \in Nat
    BY TypesAre DEF Inv, Session
  <2>2. turn = c
    BY <2>1 DEF Inv, Copies, Message
  <2>3. sess[c].phase = "deliver"
    BY <2>2 DEF Inv, Turns
  <2> QED BY <2>3 DEF Inv, NotYetTold, InHandler
<1> QED BY <1>1, InvariantHolds, PTL

\* No exit from DATA, reset or upgrade leaves part of an envelope to the next
\* message (SmtpReceiver, Connection).
THEOREM EnvelopesStayClients == Spec => []EnvelopeIsClients
<1>1. Inv => EnvelopeIsClients
  BY DEF Inv, Envelopes, EnvelopeIsClients, Agree, InHandler
<1> QED BY <1>1, InvariantHolds, PTL

\* Nothing is left running when the stores close (SmtpReceiver.close).
THEOREM CloseIsQuiet == Spec => []QuietAfterClose
<1>1. Inv => QuietAfterClose
  <2> SUFFICES ASSUME Inv, stage = "down" PROVE turn = Nobody /\ \A k \in Kinds : InFlight(k) = {}
    BY DEF QuietAfterClose
  <2>1. \A c \in Conns : sess[c].phase \notin InHandler
    BY Constants DEF Inv, Drains
  <2>2. turn \notin Conns
    BY <2>1 DEF Inv, Turns, InHandler
  <2> QED BY <2>1, <2>2, TypesAre DEF Inv, InFlight, InHandler
<1> QED BY <1>1, InvariantHolds, PTL

\* The last step of a turn, if it says the message is stored.
LEMMA StoredHasCopies ==
    ASSUME Inv, NEW c \in Conns, Stored(c), NEW m, m = Message(c), NEW a \in promised[c].rcpts
    PROVE  Copied(m, a)' \/ \E l \in Late : <<a, l>> \in sess[c].dropped
<1>1. turn = c /\ sess[c].phase = "deliver" /\ sess[c].left = {}
  BY DEF Stored, Inv, Turns
<1>2. a \in sess[c].env.rcpts /\ sess[c].env.rcpts \subseteq Locals \cup Remotes
  BY <1>1, TypesAre DEF Inv, Envelopes, Agree, InHandler, Session, Envelope, Addrs
<1>3. CASE a \in Locals
  <2>1. Copied(m, a) \/ \E l \in Late : <<a, l>> \in sess[c].dropped
    BY <1>1, <1>2, <1>3 DEF Inv, Served
  <2>2. mailbox' = mailbox /\ queue \subseteq queue'
    BY DEF Stored
  <2>3. Copied(m, a) => Copied(m, a)'
    BY <2>2 DEF Copied
  <2> QED BY <2>1, <2>3
<1>4. CASE a \notin Locals
  <2>1. a \in sess[c].env.rcpts \cap Remotes /\ Kind[c] = "submission"
    BY <1>2, <1>4, Constants DEF Inv, LocalOnly
  <2>2. <<m, sess[c].env.rcpts \cap Remotes>> \in queue'
    BY <2>1 DEF Stored
  <2> DEFINE row == <<m, sess[c].env.rcpts \cap Remotes>>
  <2>3. row \in queue' /\ row[1] = m /\ a \in row[2]
    BY <2>1, <2>2
  <2> QED BY <2>3 DEF Copied
<1> QED BY <1>3, <1>4

\* Only Stored ends a turn with that verdict.
LEMMA OnlyStoredTells ==
    ASSUME Inv, Next, NEW c \in Conns, turn = c, turn' = Nobody, told'[c] = "stored"
    PROVE  Stored(c)
<1>1. turn # Nobody
  BY Constants
<1>2. told[c] \in Verdicts /\ told \in [Conns -> Verdicts]
  BY TypesAre DEF Inv
<1>3. \/ \E d \in Conns : Deliver(d) \/ Stored(d) \/ WriteFails(d)
      \/ \E l \in Logins : SetEnabled(l)
      \/ \E a \in Locals, l \in Logins \cup {Nobody} : MoveAlias(a, l)
  <2>1. \A d \in Conns : ~Command(d) /\ ~At(d, "sasl") /\ ~At(d, "data")
    BY <1>1 DEF Command, At
  <2>2. \A d \in Conns :
            /\ ~Junk(d) /\ ~Restart(d) /\ ~Data(d) /\ ~StartTls(d)
            /\ ~Auth(d) /\ ~CancelAuth(d) /\ ~Credentials(d) /\ ~Quit(d) /\ ~Timeout(d) /\ ~Password(d)
    BY <1>1, <2>1 DEF Junk, Restart, Data, StartTls, Auth, CancelAuth, Credentials, Quit, Timeout, Password
  <2>3. \A d \in Conns :
            /\ ~TooLarge(d) /\ ~Unacceptable(d) /\ ~StartLookups(d) /\ ~EndLookups(d) /\ ~Submit(d)
            /\ \A f \in Senders : ~Mail(d, f)
            /\ \A a \in Addrs : ~Rcpt(d, a)
    BY <1>1, <2>1 DEF TooLarge, Unacceptable, StartLookups, EndLookups, Submit, Taken, Mail, Rcpt
  <2>4. ~Relay /\ ~Close /\ ~CloseStores /\ \A k \in Kinds : ~Drained(k)
    BY <1>1 DEF Relay, Close, CloseStores, Drained
  <2>5. \A l \in Logins : ~OpenStore(l)
    BY <1>1 DEF OpenStore
  <2> QED BY <2>2, <2>3, <2>4, <2>5 DEF Next
<1>4. \A l \in Logins : ~SetEnabled(l)
  BY <1>1 DEF SetEnabled, Operator
<1>5. \A a \in Locals, l \in Logins \cup {Nobody} : ~MoveAlias(a, l)
  BY <1>1 DEF MoveAlias, Operator
<1>6. \A d \in Conns : ~Deliver(d)
  BY <1>1 DEF Deliver
<1>7. \A d \in Conns : WriteFails(d) => FALSE
  BY <1>2 DEF WriteFails, Reply
<1>8. PICK d \in Conns : Stored(d)
  BY <1>3, <1>4, <1>5, <1>6, <1>7
<1> QED BY <1>8 DEF Stored

\* What a client is told is stored has a copy for everyone it named
\* (inboundHandler and submissionHandler of main.ts, deliverTo).
THEOREM AcceptedStaysStored == Spec => AcceptedIsStored
<1>1. Inv /\ [Next]_vars
        => [\A c \in Conns : \A m \in {Message(c)} :
              turn = c /\ turn' = Nobody /\ told'[c] = "stored"
                => \A a \in promised[c].rcpts : Copied(m, a)' \/ \E l \in Late : <<a, l>> \in sess[c].dropped]_vars
  BY StoredHasCopies, OnlyStoredTells
<1> QED BY <1>1, InvariantHolds, PTL DEF Spec, AcceptedIsStored
===============================================================================
