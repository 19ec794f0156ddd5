--------------------------- MODULE ImapAccessProofs ---------------------------
(***************************************************************************)
(* What is proved of ImapAccess, for any connections, accounts, addresses, *)
(* limits and bounds: its types, and each of its safety properties.        *)
(*                                                                         *)
(* Four invariants, of which the first carries the others.  Inv: a session *)
(* is listed for the sweep under its login.  BudgetInv: an upload and its  *)
(* reservation are one, and the counters are sums of what is held; a sum   *)
(* is the cardinality of a set of pairs, so that taking uploads away is    *)
(* taking a part of that set away (OctetsAdd).  ThrottleInv: the table has *)
(* of each address, unless it was evicted, just its failures in the        *)
(* window, and these are bounded by the handlers that do not wait for a    *)
(* check: one that begins to wait was let in, and one whose guess fails    *)
(* stops waiting.                                                          *)
(* TypesInv: the rest of TypeOK.                                           *)
(***************************************************************************)
EXTENDS ImapAccess, FiniteSetTheorems, SequenceTheorems, TLAPS

Connection ==
    [up : BOOLEAN, ahead : Int, phase : Phases, login : Logins \cup {Nobody},
     try : Nat, row : Nat, list : SUBSET Nat, pending : Nat,
     sel : Logins \cup {Nobody}, idle : BOOLEAN, since : (Nat \X SUBSET Nat) \cup {<<>>}]

Types ==
    /\ account \in [Logins -> [enabled : BOOLEAN, primary : Nat, apps : SUBSET Nat]]
    /\ minted \in Nat
    /\ conn \in [Conns -> Connection]

\* A session that is still connected is listed under its login; one that waits for
\* its password has an account to wait for, and no mailbox open.
Listed(c) ==
    /\ conn[c].up /\ conn[c].phase = "authed" =>
          /\ c \in DOMAIN sessions /\ sessions[c].login = conn[c].login
          /\ conn[c].sel \in {Nobody, conn[c].login}
    /\ conn[c].phase # "authed" => conn[c].sel = Nobody
    /\ conn[c].phase # "ready" => conn[c].login \in Logins

Inv == Types /\ \A c \in Conns : Listed(c)

LEMMA Constants ==
    /\ Nobody \notin Logins /\ MaxAhead \in Nat
    /\ Sizes \subseteq Nat
BY ImapAccessAssumption

\* A step of one connection's handler: it becomes s, and the list is as it was.
LEMMA Becomes ==
    ASSUME Inv, NEW c \in Conns, NEW s \in Connection, conn' = [conn EXCEPT ![c] = s],
           UNCHANGED <<account, minted, sessions>>,
           s.up = conn[c].up,
           s.phase = "authed" <=> conn[c].phase = "authed",
           s.phase = "authed" => s.login = conn[c].login /\ s.sel \in {conn[c].sel, conn[c].login},
           s.phase # "authed" => s.sel = conn[c].sel,
           s.phase \notin {"ready", "authed"} => s.login \in Logins
    PROVE  Inv'
<1>1. Types'
  BY DEF Inv, Types
<1>2. \A d \in Conns \ {c} : conn'[d] = conn[d]
  BY DEF Inv, Types
<1>3. conn'[c] = s
  BY DEF Inv, Types
<1>4. \A d \in Conns : Listed(d)'
  BY <1>2, <1>3 DEF Inv, Listed
<1> QED BY <1>1, <1>4 DEF Inv

LEMMA RanStep ==
    ASSUME Inv, NEW c \in Conns, NEW s \in Connection, Ran(c, s),
           UNCHANGED <<account, minted, sessions>>,
           s.up = conn[c].up,
           s.phase = "authed" <=> conn[c].phase = "authed",
           s.phase = "authed" => s.login = conn[c].login /\ s.sel \in {conn[c].sel, conn[c].login},
           s.phase # "authed" => s.sel = conn[c].sel,
           s.phase \notin {"ready", "authed"} => s.login \in Logins
    PROVE  Inv'
<1> DEFINE r == IF s.up THEN s ELSE [s EXCEPT !.ahead = @ - 1]
<1>1. /\ r \in Connection /\ r.up = s.up /\ r.phase = s.phase /\ r.login = s.login /\ r.sel = s.sel
  <2>1. CASE s.up
    BY <2>1
  <2>2. CASE ~s.up
    BY <2>2 DEF Connection
  <2> QED BY <2>1, <2>2
<1>2. conn' = [conn EXCEPT ![c] = r]
  BY DEF Ran
<1> HIDE DEF r
<1> QED BY <1>1, <1>2, Becomes

-----------------------------------------------------------------------------
(* Connections that end, and logins. *)

LEMMA FreshIsConnection == Fresh \in Connection /\ Fresh.phase = "ready" /\ Fresh.sel = Nobody
BY DEF Fresh, Connection, Phases

LEMMA ShutKeeps ==
    ASSUME Inv, NEW S, Shut(S), UNCHANGED <<account, minted>>
    PROVE  Inv'
<1>1. /\ conn \in [Conns -> Connection]
      /\ conn' = [c \in Conns |->
                    IF c \notin S THEN conn[c]
                    ELSE IF conn[c].phase \in {"primary", "apps"}
                    THEN [conn[c] EXCEPT !.up = FALSE, !.ahead = MaxAhead]
                    ELSE Fresh]
      /\ sessions' = [c \in DOMAIN sessions \ S |-> sessions[c]]
  BY DEF Inv, Types, Shut
<1>2. ASSUME NEW c \in Conns PROVE conn'[c] \in Connection /\ Listed(c)'
  <2>1. CASE c \notin S
    <3>1. conn'[c] = conn[c]
      BY <1>1, <2>1
    <3>2. c \in DOMAIN sessions => c \in DOMAIN sessions' /\ sessions'[c] = sessions[c]
      BY <1>1, <2>1
    <3> QED BY <1>1, <3>1, <3>2 DEF Inv, Listed
  <2>2. CASE c \in S /\ conn[c].phase \in {"primary", "apps"}
    <3> DEFINE s == [conn[c] EXCEPT !.up = FALSE, !.ahead = MaxAhead]
    <3>1. /\ s \in Connection /\ ~s.up /\ s.phase = conn[c].phase /\ s.sel = conn[c].sel
          /\ s.login = conn[c].login
      <4>1. conn[c] \in Connection
        BY <1>1
      <4>2. MaxAhead \in Int
        BY Constants
      <4> QED BY <4>1, <4>2 DEF Connection
    <3>2. conn'[c] = s
      BY <1>1, <2>2
    <3> HIDE DEF s
    <3> QED BY <2>2, <3>1, <3>2 DEF Inv, Listed
  <2>3. CASE c \in S /\ conn[c].phase \notin {"primary", "apps"}
    <3>1. conn'[c] = Fresh
      BY <1>1, <2>3
    <3> QED BY <3>1, FreshIsConnection DEF Listed
  <2> QED BY <2>1, <2>2, <2>3
<1>3. Types'
  <2>1. conn' \in [Conns -> Connection]
    BY <1>1, <1>2
  <2> QED BY <2>1 DEF Inv, Types
<1> QED BY <1>2, <1>3 DEF Inv

\* A refused login leaves a connection as one that never tried.
LEMMA RefuseKeeps ==
    ASSUME Inv, NEW c \in Conns, Refuse(c), conn[c].phase \in {"primary", "apps"}
    PROVE  Inv'
<1> DEFINE s == [conn[c] EXCEPT !.phase = "ready", !.login = Nobody, !.try = 0, !.row = 0, !.list = {}]
<1>1. conn[c] \in Connection
  BY DEF Inv, Types
<1>2. s \in Connection /\ s.up = conn[c].up /\ s.phase = "ready" /\ s.sel = conn[c].sel
  BY <1>1 DEF Connection, Phases
<1>3. conn' = [conn EXCEPT ![c] = s] /\ UNCHANGED <<account, minted, sessions>>
  BY DEF Refuse
<1> HIDE DEF s
<1> QED BY <1>2, <1>3, Becomes

\* A session is listed in the step that begins it.
LEMMA BindKeeps ==
    ASSUME Inv, NEW c \in Conns, Bind(c), conn[c].phase \in {"primary", "apps"}
    PROVE  Inv'
<1> DEFINE l == conn[c].login
<1>1. l \in Logins /\ conn[c] \in Connection /\ conn[c].sel = Nobody /\ conn \in [Conns -> Connection]
  BY DEF Inv, Types, Listed
<1>2. CASE ~(l \in cached \/ account[l].enabled)
  BY <1>2, RefuseKeeps DEF Bind
<1>3. CASE l \in cached \/ account[l].enabled
  <2> DEFINE s == [conn[c] EXCEPT !.phase = "authed", !.row = 0, !.list = {}, !.since = Tag(l)]
  <2>1. Tag(l) \in (Nat \X SUBSET Nat) \cup {<<>>}
    BY <1>1 DEF Inv, Types, Tag
  <2>2. s \in Connection /\ s.phase = "authed" /\ s.login = l /\ s.sel = Nobody
    BY <1>1, <2>1 DEF Connection, Phases
  <2>3. conn' = [conn EXCEPT ![c] = s] /\ UNCHANGED <<account, minted>>
    BY <1>3 DEF Bind
  <2>4. sessions' = [d \in DOMAIN sessions \cup {c} |->
                       IF d = c THEN [login |-> l, tag |-> Tag(l)] ELSE sessions[d]]
    BY <1>3 DEF Bind
  <2> HIDE DEF s
  <2>5. Types'
    BY <1>1, <2>2, <2>3 DEF Inv, Types
  <2>6. Listed(c)'
    <3>1. conn'[c] = s
      BY <1>1, <2>3
    <3>2. c \in DOMAIN sessions' /\ sessions'[c].login = l
      BY <2>4
    <3> QED BY <1>1, <2>2, <3>1, <3>2 DEF Listed
  <2>7. ASSUME NEW d \in Conns \ {c} PROVE Listed(d)'
    <3>1. conn'[d] = conn[d]
      BY <1>1, <2>3
    <3>2. d \in DOMAIN sessions => d \in DOMAIN sessions' /\ sessions'[d] = sessions[d]
      BY <2>4
    <3> QED BY <3>1, <3>2 DEF Inv, Listed
  <2> QED BY <2>5, <2>6, <2>7 DEF Inv
<1> QED BY <1>2, <1>3

LEMMA LoginKeeps ==
    ASSUME Inv, NEW c \in Conns, NEW l \in Logins, NEW try \in Tries(l), Login(c, l, try)
    PROVE  Inv'
<1> DEFINE s == [conn[c] EXCEPT !.phase = "primary", !.login = l, !.try = try, !.row = account[l].primary]
<1>1. conn[c] \in Connection /\ conn[c].phase = "ready" /\ account[l].primary \in Nat /\ account[l].apps \subseteq Nat
  BY DEF Inv, Types, Login, MayLogin
<1>2. try \in Nat
  BY <1>1 DEF Tries
<1>3. /\ s \in Connection /\ s.up = conn[c].up /\ s.phase = "primary" /\ s.login = l
      /\ s.sel = conn[c].sel
  BY <1>1, <1>2 DEF Connection, Phases
<1>4. Ran(c, s) /\ UNCHANGED <<account, minted, sessions>>
  BY DEF Login, Accounts
<1> HIDE DEF s
<1> QED BY <1>1, <1>3, <1>4, RanStep

LEMMA VerifyPrimaryKeeps == ASSUME Inv, NEW c \in Conns, VerifyPrimary(c) PROVE Inv'
<1>1. conn[c].phase = "primary" /\ conn \in [Conns -> Connection] /\ conn[c].login \in Logins
  BY DEF VerifyPrimary, Inv, Types, Listed
<1> DEFINE apps == account[conn[c].login].apps
<1>2. CASE Bind(c)
  BY <1>1, <1>2, BindKeeps
<1>3. CASE Refuse(c)
  BY <1>1, <1>3, RefuseKeeps
<1>4. CASE conn' = [conn EXCEPT ![c].phase = "apps", ![c].list = apps] /\ UNCHANGED <<Accounts, sessions>>
  <2> DEFINE s == [conn[c] EXCEPT !.phase = "apps", !.list = apps]
  <2>1. apps \subseteq Nat
    BY <1>1 DEF Inv, Types
  <2>2. /\ s \in Connection /\ s.up = conn[c].up /\ s.phase = "apps" /\ s.sel = conn[c].sel
        /\ s.login = conn[c].login
    <3> HIDE DEF apps
    <3> QED BY <1>1, <2>1 DEF Connection, Phases
  <2>3. conn' = [conn EXCEPT ![c] = s]
    BY <1>1, <1>4
  <2> HIDE DEF s
  <2> QED BY <1>1, <1>4, <2>2, <2>3, Becomes DEF Accounts
<1> QED BY <1>2, <1>3, <1>4 DEF VerifyPrimary

LEMMA VerifyAppsKeeps == ASSUME Inv, NEW c \in Conns, VerifyApps(c) PROVE Inv'
BY BindKeeps, RefuseKeeps DEF VerifyApps

-----------------------------------------------------------------------------
(* Commands, the sweep and the operator. *)

LEMMA Commands ==
    ASSUME Inv, NEW c \in Conns, Command(c)
    PROVE  conn[c] \in Connection /\ conn[c].login \in Logins /\ conn[c].phase = "authed"
BY DEF Inv, Types, Listed, Command

LEMMA SelectKeeps == ASSUME Inv, NEW c \in Conns, Select(c) PROVE Inv'
<1> DEFINE s == [conn[c] EXCEPT !.sel = conn[c].login]
<1>1. conn[c] \in Connection /\ conn[c].login \in Logins /\ conn[c].phase = "authed"
  BY Commands DEF Select, Admitted
<1>2. /\ s \in Connection /\ s.up = conn[c].up /\ s.phase = "authed" /\ s.sel = conn[c].login
      /\ s.login = conn[c].login
  BY <1>1 DEF Connection
<1>3. Ran(c, s) /\ UNCHANGED <<account, minted, sessions>>
  BY DEF Select, Accounts
<1> HIDE DEF s
<1> QED BY <1>1, <1>2, <1>3, RanStep

\* A step that changes neither whose a session is nor what it has open.
LEMMA SameSession ==
    ASSUME Inv, NEW c \in Conns, NEW p \in Nat, NEW i \in BOOLEAN,
           Ran(c, [conn[c] EXCEPT !.pending = p, !.idle = i]),
           UNCHANGED <<account, minted, sessions>>
    PROVE  Inv'
<1> DEFINE s == [conn[c] EXCEPT !.pending = p, !.idle = i]
<1>1. conn[c] \in Connection /\ (conn[c].phase # "ready" => conn[c].login \in Logins)
  BY DEF Inv, Types, Listed
<1>2. /\ s \in Connection /\ s.up = conn[c].up /\ s.phase = conn[c].phase /\ s.sel = conn[c].sel
      /\ s.login = conn[c].login
  BY <1>1 DEF Connection
<1>3. Ran(c, s)
  OBVIOUS
<1> HIDE DEF s
<1> QED BY <1>1, <1>2, <1>3, RanStep

LEMMA FieldsOf ==
    ASSUME Inv, NEW c \in Conns
    PROVE  /\ conn[c].pending \in Nat /\ conn[c].idle \in BOOLEAN
           /\ conn[c] = [conn[c] EXCEPT !.pending = conn[c].pending, !.idle = conn[c].idle]
           /\ \A i : [conn[c] EXCEPT !.idle = i] = [conn[c] EXCEPT !.pending = conn[c].pending, !.idle = i]
           /\ \A p : [conn[c] EXCEPT !.pending = p] = [conn[c] EXCEPT !.pending = p, !.idle = conn[c].idle]
BY DEF Inv, Types, Connection

LEMMA IdleKeeps == ASSUME Inv, NEW c \in Conns, Idle(c) \/ Done(c) PROVE Inv'
<1>1. UNCHANGED <<account, minted, sessions>>
  BY DEF Idle, Done, Accounts
<1>2. PICK i \in BOOLEAN : Ran(c, [conn[c] EXCEPT !.idle = i])
  BY DEF Idle, Done
<1>3. Ran(c, [conn[c] EXCEPT !.pending = conn[c].pending, !.idle = i])
  BY <1>2, FieldsOf
<1> QED BY <1>1, <1>3, FieldsOf, SameSession

LEMMA UploadKeeps ==
    ASSUME Inv, NEW c \in Conns, (\E size \in Sizes : AppendMail(c, size)) \/ Literal(c)
    PROVE  Inv'
<1>1. UNCHANGED <<account, minted, sessions>>
  BY DEF AppendMail, Literal, Accounts
<1>2. PICK p \in Nat : Ran(c, [conn[c] EXCEPT !.pending = p])
  BY Constants DEF AppendMail, Literal
<1>3. Ran(c, [conn[c] EXCEPT !.pending = p, !.idle = conn[c].idle])
  BY <1>2, FieldsOf
<1> QED BY <1>1, <1>3, FieldsOf, SameSession

\* A command that is handled and changes nothing in the connection.
LEMMA IdleRun ==
    ASSUME Inv, NEW c \in Conns, Ran(c, conn[c]), UNCHANGED <<account, minted, sessions>>
    PROVE  Inv'
<1>1. Ran(c, [conn[c] EXCEPT !.pending = conn[c].pending, !.idle = conn[c].idle])
  BY FieldsOf
<1> QED BY <1>1, FieldsOf, SameSession

LEMMA CutDisabledKeeps == ASSUME Inv, NEW c \in Conns, CutDisabled(c) PROVE Inv'
<1>1. UNCHANGED <<account, minted>>
  BY DEF CutDisabled, Accounts
<1>2. CASE conn[c].up
  BY <1>1, <1>2, ShutKeeps DEF CutDisabled
<1>3. CASE ~conn[c].up
  <2> DEFINE s == [conn[c] EXCEPT !.ahead = 0]
  <2>1. conn[c] \in Connection /\ conn[c].phase = "authed" /\ conn[c].login \in Logins
    BY Commands DEF CutDisabled
  <2>2. /\ s \in Connection /\ s.up = conn[c].up /\ s.phase = "authed" /\ s.sel = conn[c].sel
        /\ s.login = conn[c].login
    BY <2>1 DEF Connection
  <2>3. conn' = [conn EXCEPT ![c] = s] /\ UNCHANGED sessions
    BY <1>3 DEF CutDisabled
  <2> HIDE DEF s
  <2> QED BY <1>1, <2>1, <2>2, <2>3, Becomes
<1> QED BY <1>2, <1>3

LEMMA SweepKeeps == ASSUME Inv, Sweep PROVE Inv'
BY ShutKeeps DEF Sweep, Accounts

LEMMA CloseKeeps == ASSUME Inv, NEW c \in Conns, Close(c) PROVE Inv'
BY ShutKeeps DEF Close

\* The registry changes under the connections, which stay as they are.
LEMMA OperatorKeeps ==
    ASSUME Inv, NEW l \in Managed,
           \/ \E on \in BOOLEAN : SetEnabled(l, on) \/ SetPassword(l, on)
           \/ AddAppPassword(l)
           \/ \E a \in account[l].apps : RemoveAppPassword(l, a)
    PROVE  Inv'
<1>1. l \in Logins /\ account \in [Logins -> [enabled : BOOLEAN, primary : Nat, apps : SUBSET Nat]] /\ minted \in Nat
  BY ImapAccessAssumption DEF Inv, Types
<1>2. UNCHANGED <<conn, sessions>>
  BY DEF SetEnabled, SetPassword, AddAppPassword, RemoveAppPassword, Operator
<1>3. /\ account' \in [Logins -> [enabled : BOOLEAN, primary : Nat, apps : SUBSET Nat]]
      /\ minted' \in Nat
  <2>1. ASSUME NEW on \in BOOLEAN, SetEnabled(l, on)
        PROVE  account' \in [Logins -> [enabled : BOOLEAN, primary : Nat, apps : SUBSET Nat]] /\ minted' \in Nat
    BY <1>1, <2>1 DEF SetEnabled
  <2>2. ASSUME NEW on \in BOOLEAN, SetPassword(l, on)
        PROVE  account' \in [Logins -> [enabled : BOOLEAN, primary : Nat, apps : SUBSET Nat]] /\ minted' \in Nat
    <3> DEFINE n == minted + 1
               row == [account[l] EXCEPT !.primary = n, !.enabled = on]
    <3>1. n \in Nat /\ account[l] \in [enabled : BOOLEAN, primary : Nat, apps : SUBSET Nat]
      BY <1>1
    <3>2. account' = [account EXCEPT ![l] = row] /\ minted' = n
      BY <1>1, <2>2 DEF SetPassword
    <3> HIDE DEF n
    <3>3. row \in [enabled : BOOLEAN, primary : Nat, apps : SUBSET Nat]
      BY <3>1
    <3> HIDE DEF row
    <3> QED BY <1>1, <3>1, <3>2, <3>3
  <2>3. ASSUME AddAppPassword(l)
        PROVE  account' \in [Logins -> [enabled : BOOLEAN, primary : Nat, apps : SUBSET Nat]] /\ minted' \in Nat
    BY <1>1, <2>3 DEF AddAppPassword
  <2>4. ASSUME NEW a \in account[l].apps, RemoveAppPassword(l, a)
        PROVE  account' \in [Logins -> [enabled : BOOLEAN, primary : Nat, apps : SUBSET Nat]] /\ minted' \in Nat
    BY <1>1, <2>4 DEF RemoveAppPassword
  <2> QED BY <2>1, <2>2, <2>3, <2>4
<1> QED BY <1>2, <1>3 DEF Inv, Types, Listed

-----------------------------------------------------------------------------
(* Sessions, all steps together. *)

LEMMA InitInv == Init => Inv
<1> SUFFICES ASSUME Init PROVE Inv
  OBVIOUS
<1>1. Types
  BY FreshIsConnection DEF Init, Types
<1>2. \A c \in Conns : Listed(c)
  BY FreshIsConnection DEF Init, Listed
<1> QED BY <1>1, <1>2 DEF Inv

LEMMA StepInv == Inv /\ [Next]_vars => Inv'
<1> SUFFICES ASSUME Inv, [Next]_vars PROVE Inv'
  OBVIOUS
<1>1. ASSUME NEW c \in Conns, NEW l \in Logins,
             LoginDisabled(c, l) \/ \E try \in Tries(l) : Login(c, l, try)
      PROVE  Inv'
  <2>1. CASE LoginDisabled(c, l)
    BY <2>1, IdleRun DEF LoginDisabled, Accounts
  <2> QED BY <1>1, <2>1, LoginKeeps
<1>2. ASSUME NEW c \in Conns, Close(c) \/ CutDisabled(c) \/ VerifyPrimary(c) \/ VerifyApps(c) PROVE Inv'
  BY <1>2, CloseKeeps, CutDisabledKeeps, VerifyPrimaryKeeps, VerifyAppsKeeps
<1>3. ASSUME NEW c \in Conns, LoginBlocked(c) \/ LiteralThrows(c) PROVE Inv'
  BY <1>3, IdleRun DEF LoginBlocked, LiteralThrows, Accounts
<1>4. ASSUME NEW c \in Conns,
             Select(c) \/ Idle(c) \/ Done(c) \/ Literal(c) \/ \E size \in Sizes : AppendMail(c, size)
      PROVE  Inv'
  BY <1>4, SelectKeeps, IdleKeeps, UploadKeeps
<1>5. CASE \/ Lapse \/ UNCHANGED vars
           \/ \E d \in Submitters : Submission(d) \/ SubmissionFails(d) \/ SubmissionPasses(d)
  <2>1. UNCHANGED <<account, minted, conn, sessions>>
    BY <1>5 DEF Lapse, Submission, SubmissionFails, SubmissionPasses, vars
  <2> QED BY <2>1 DEF Inv, Types, Listed
<1>6. CASE Sweep
  BY <1>6, SweepKeeps
<1>7. ASSUME NEW l \in Managed,
             \/ \E on \in BOOLEAN : SetEnabled(l, on) \/ SetPassword(l, on)
             \/ AddAppPassword(l)
             \/ \E a \in account[l].apps : RemoveAppPassword(l, a)
      PROVE  Inv'
  BY <1>7, OperatorKeeps
<1> QED BY <1>1, <1>2, <1>3, <1>4, <1>5, <1>6, <1>7 DEF Next

\* Every live session is listed for the sweep under the account whose mailbox it
\* has open, whatever else happened while its password was checked (the gate on
\* LOGIN, bindAccount).
THEOREM SessionsOwnTheirHandles == Spec => []SessionOwnsHandle
<1>1. Inv => SessionOwnsHandle
  BY DEF Inv, Listed, SessionOwnsHandle
<1> QED BY <1>1, InitInv, StepInv, PTL DEF Spec

-----------------------------------------------------------------------------
(* Counting octets. *)

Pairs(held, S) == UNION {{c} \X (1..held[c].size) : c \in S}

\* The uploads of S have sizes.
Sized(held, S) == IsFiniteSet(S) /\ \A c \in S : held[c].size \in Nat

LEMMA PairIn ==
    ASSUME NEW held, NEW S, NEW x
    PROVE  x \in Pairs(held, S) <=> \E c \in S : x \in {c} \X (1..held[c].size)
BY DEF Pairs

LEMMA OctetsFinite ==
    ASSUME NEW held, NEW S, Sized(held, S)
    PROVE  /\ IsFiniteSet(Pairs(held, S)) /\ Octets(held, S) = Cardinality(Pairs(held, S))
           /\ Octets(held, S) \in Nat
<1> DEFINE Of(c) == {c} \X (1..held[c].size)
           F == {Of(c) : c \in S}
<1>1. \A c \in S : IsFiniteSet(Of(c))
  <2> SUFFICES ASSUME NEW c \in S PROVE IsFiniteSet({c} \X (1..held[c].size))
    OBVIOUS
  <2> DEFINE one == {c}
             n == held[c].size
             many == 1..n
  <2>1. IsFiniteSet(one)
    BY FS_Singleton
  <2>2. n \in Int /\ 1 \in Int
    BY DEF Sized
  <2>3. IsFiniteSet(many)
    BY <2>2, FS_Interval
  <2> HIDE DEF one, many
  <2>4. IsFiniteSet(one \X many)
    BY <2>1, <2>3, FS_Product
  <2> QED BY <2>4 DEF one, many
<1> HIDE DEF Of
<1>2. IsFiniteSet(F)
  <2> DEFINE f == [c \in S |-> Of(c)]
  <2>1. f \in Surjection(S, F)
    BY DEF Surjection
  <2> HIDE DEF f, F
  <2> QED BY <2>1, FS_Surjection DEF Sized
<1>3. \A T \in F : IsFiniteSet(T)
  BY <1>1
<1> HIDE DEF F
<1>4. IsFiniteSet(UNION F)
  BY <1>2, <1>3, FS_UNION
<1>5. Pairs(held, S) = UNION F
  BY DEF Pairs, F, Of
<1> QED BY <1>4, <1>5, FS_CardinalityType DEF Octets, Pairs

LEMMA OctetsOne ==
    ASSUME NEW held, NEW c, held[c].size \in Nat
    PROVE  Octets(held, {c}) = held[c].size
<1> DEFINE n == held[c].size
<1>1. Pairs(held, {c}) = {c} \X (1..n)
  BY DEF Pairs
<1> DEFINE one == {c}
           many == 1..n
<1>2. IsFiniteSet(one) /\ Cardinality(one) = 1
  BY FS_Singleton
<1>3. n \in Nat
  OBVIOUS
<1>4. IsFiniteSet(many) /\ Cardinality(many) = n
  <2> HIDE DEF n
  <2>1. n \in Int /\ 1 \in Int
    BY <1>3
  <2>2. IsFiniteSet(many) /\ Cardinality(many) = IF 1 > n THEN 0 ELSE n - 1 + 1
    BY <2>1, FS_Interval
  <2> QED BY <1>3, <2>2
<1>5. Cardinality(one \X many) = n
  <2> HIDE DEF n, one, many
  <2>1. Cardinality(one \X many) = Cardinality(one) * Cardinality(many)
    BY <1>2, <1>4, FS_Product
  <2> QED BY <1>2, <1>3, <1>4, <2>1
<1> QED BY <1>1, <1>5 DEF Octets, Pairs

\* S and T are apart and make up U.
Splits(U, S, T) == U = S \cup T /\ S \cap T = {}

LEMMA OctetsAdd ==
    ASSUME NEW held, NEW U, NEW S, NEW T, Sized(held, U), Splits(U, S, T)
    PROVE  /\ Sized(held, S) /\ Sized(held, T)
           /\ Octets(held, U) = Octets(held, S) + Octets(held, T)
<1>1. Sized(held, S) /\ Sized(held, T)
  <2>1. S \subseteq U /\ T \subseteq U
    BY DEF Splits
  <2> QED BY <2>1, FS_Subset DEF Sized
<1> DEFINE A == Pairs(held, S)
           B == Pairs(held, T)
<1>2. Pairs(held, U) = A \cup B
  BY DEF Pairs, Splits
<1>3. A \cap B = {}
  <2> SUFFICES ASSUME NEW x, x \in A, x \in B PROVE FALSE
    OBVIOUS
  <2>1. PICK c \in S : x \in {c} \X (1..held[c].size)
    BY PairIn
  <2>2. PICK d \in T : x \in {d} \X (1..held[d].size)
    BY PairIn
  <2>3. c = d
    BY <2>1, <2>2
  <2> QED BY <2>3 DEF Splits
<1>4. IsFiniteSet(A) /\ IsFiniteSet(B) /\ Octets(held, S) = Cardinality(A) /\ Octets(held, T) = Cardinality(B)
  BY <1>1, OctetsFinite
<1> HIDE DEF A, B
<1>5. Cardinality(A \cup B) = Cardinality(A) + Cardinality(B) - Cardinality(A \cap B)
  BY <1>4, FS_Union
<1>6. Cardinality({}) = 0 /\ Cardinality(A) \in Nat /\ Cardinality(B) \in Nat
  BY <1>4, FS_EmptySet, FS_CardinalityType
<1>7. Octets(held, U) = Cardinality(A \cup B)
  <2>1. Octets(held, U) = Cardinality(Pairs(held, U))
    BY OctetsFinite
  <2> QED BY <1>2, <2>1
<1>8. Cardinality(A \cup B) = Cardinality(A) + Cardinality(B)
  <2>1. Cardinality(A \cap B) = 0
    BY <1>3, <1>6
  <2> QED BY <1>5, <1>6, <2>1
<1> QED BY <1>1, <1>4, <1>7, <1>8

LEMMA OctetsSame ==
    ASSUME NEW held, NEW other, NEW S, \A c \in S : other[c] = held[c]
    PROVE  Octets(other, S) = Octets(held, S)
<1>1. Pairs(other, S) = Pairs(held, S)
  <2>1. \A x : x \in Pairs(other, S) <=> x \in Pairs(held, S)
    BY PairIn
  <2> QED BY <2>1
<1> QED BY <1>1 DEF Octets, Pairs

-----------------------------------------------------------------------------
(* The budget. *)

\* The entries are those of connections, with a size and a login each.
Entries(held) == DOMAIN held \subseteq Conns /\ \A c \in DOMAIN held : held[c].size \in Nat /\ held[c].login \in Logins

\* The counters are the octets held, in all and by each login, and within bounds.
Counted(b) ==
    /\ \A l \in Logins : b.byLogin[l] = Octets(b.held, HeldBy(b.held, l, Conns)) /\ b.byLogin[l] <= PerLogin
    /\ b.total = Octets(b.held, DOMAIN b.held) /\ b.total <= MaxInflight

Sound(b) == Entries(b.held) /\ b.byLogin \in [Logins -> Int] /\ Counted(b)

LEMMA EntriesSized ==
    ASSUME NEW held, Entries(held), NEW S, S \subseteq DOMAIN held
    PROVE  Sized(held, S)
<1>1. IsFiniteSet(Conns) /\ S \subseteq Conns
  BY ImapAccessAssumption DEF Entries
<1> QED BY <1>1, FS_Subset DEF Sized, Entries

LEMMA ReleasedSound == ASSUME NEW b, NEW S, Sound(b) PROVE Sound(Released(b, S))
<1> DEFINE r == Released(b, S)
           D == DOMAIN b.held
<1>1. /\ DOMAIN r.held = D \ S /\ \A c \in D \ S : r.held[c] = b.held[c]
      /\ \A l \in Logins : r.byLogin[l] = b.byLogin[l] - Octets(b.held, HeldBy(b.held, l, S))
      /\ r.total = b.total - Octets(b.held, D \cap S)
      /\ DOMAIN r.byLogin = Logins
      /\ r.byLogin = [l \in Logins |-> b.byLogin[l] - Octets(b.held, HeldBy(b.held, l, S))]
  BY DEF Released
<1>2. /\ Entries(b.held) /\ b.byLogin \in [Logins -> Int] /\ D \subseteq Conns
      /\ \A l \in Logins : b.byLogin[l] = Octets(b.held, HeldBy(b.held, l, Conns)) /\ b.byLogin[l] <= PerLogin
      /\ b.total = Octets(b.held, D) /\ b.total <= MaxInflight
  BY DEF Sound, Counted, Entries
<1>3. MaxInflight \in Nat /\ PerLogin \in Int
  BY ImapAccessAssumption DEF PerLogin
<1> HIDE DEF r
<1>4. Entries(r.held)
  BY <1>1, <1>2 DEF Entries
<1>5. ASSUME NEW l \in Logins
      PROVE  /\ r.byLogin[l] = Octets(r.held, HeldBy(r.held, l, Conns)) /\ r.byLogin[l] <= PerLogin
             /\ r.byLogin[l] \in Int
  <2> DEFINE H == HeldBy(b.held, l, Conns)
             G == HeldBy(b.held, l, S)
             K == HeldBy(r.held, l, Conns)
  <2>1. Splits(H, G, K)
    BY <1>1, <1>2 DEF Splits, HeldBy
  <2>2. Sized(b.held, H)
    <3>1. H \subseteq D
      BY DEF HeldBy
    <3> QED BY <1>2, <3>1, EntriesSized
  <2>3. Octets(r.held, K) = Octets(b.held, K)
    <3>1. \A c \in K : r.held[c] = b.held[c]
      BY <1>1 DEF HeldBy
    <3> QED BY <3>1, OctetsSame
  <2> HIDE DEF H, G, K
  <2>4. Octets(b.held, H) = Octets(b.held, G) + Octets(b.held, K) /\ Sized(b.held, G) /\ Sized(b.held, K)
    BY <2>1, <2>2, OctetsAdd
  <2>5. Octets(b.held, G) \in Nat /\ Octets(b.held, K) \in Nat
    BY <2>4, OctetsFinite
  <2>6. b.byLogin[l] = Octets(b.held, H) /\ b.byLogin[l] <= PerLogin
    BY <1>2 DEF H
  <2>7. r.byLogin[l] = b.byLogin[l] - Octets(b.held, G)
    BY <1>1 DEF G
  <2>8. r.byLogin[l] = Octets(r.held, K)
    BY <2>3, <2>4, <2>5, <2>6, <2>7
  <2>9. r.byLogin[l] <= PerLogin /\ r.byLogin[l] \in Int
    BY <1>3, <2>4, <2>5, <2>6, <2>7
  <2> QED BY <2>8, <2>9 DEF K
<1>6. r.total = Octets(r.held, DOMAIN r.held) /\ r.total <= MaxInflight
  <2> DEFINE G == D \cap S
             K == D \ S
  <2>1. Splits(D, G, K)
    BY DEF Splits
  <2>2. Sized(b.held, D)
    BY <1>2, EntriesSized
  <2>3. Octets(r.held, K) = Octets(b.held, K)
    BY <1>1, OctetsSame
  <2>4. DOMAIN r.held = K /\ r.total = b.total - Octets(b.held, G)
    BY <1>1
  <2> HIDE DEF G, K, D
  <2>5. Octets(b.held, D) = Octets(b.held, G) + Octets(b.held, K) /\ Sized(b.held, G) /\ Sized(b.held, K)
    BY <2>1, <2>2, OctetsAdd
  <2>6. Octets(b.held, G) \in Nat /\ Octets(b.held, K) \in Nat
    BY <2>5, OctetsFinite
  <2>7. b.total = Octets(b.held, D) /\ b.total <= MaxInflight
    BY <1>2
  <2> QED BY <1>3, <2>3, <2>4, <2>5, <2>6, <2>7
<1>7. r.byLogin \in [Logins -> Int]
  <2>1. \A l \in Logins : b.byLogin[l] - Octets(b.held, HeldBy(b.held, l, S)) \in Int
    BY <1>1, <1>5
  <2> QED BY <1>1, <2>1
<1> QED BY <1>4, <1>5, <1>6, <1>7 DEF Sound, Counted, r

LEMMA ReservedSound ==
    ASSUME NEW b, NEW c \in Conns, NEW l \in Logins, NEW size \in Nat, Sound(b), c \notin DOMAIN b.held,
           b.byLogin[l] + size <= PerLogin, b.total + size <= MaxInflight
    PROVE  Sound(Reserved(b, c, l, size))
<1> DEFINE r == Reserved(b, c, l, size)
           D == DOMAIN b.held
<1>1. /\ DOMAIN r.held = D \cup {c} /\ \A d \in D : r.held[d] = b.held[d]
      /\ r.held[c].size = size /\ r.held[c].login = l
      /\ r.byLogin = [b.byLogin EXCEPT ![l] = b.byLogin[l] + size]
      /\ r.total = b.total + size
  BY DEF Reserved
<1>2. /\ Entries(b.held) /\ b.byLogin \in [Logins -> Int] /\ D \subseteq Conns
      /\ \A k \in Logins : b.byLogin[k] = Octets(b.held, HeldBy(b.held, k, Conns)) /\ b.byLogin[k] <= PerLogin
      /\ b.total = Octets(b.held, D) /\ b.total <= MaxInflight
  BY DEF Sound, Counted, Entries
<1> HIDE DEF r
<1>3. Entries(r.held)
  BY <1>1, <1>2 DEF Entries
<1>4. Octets(r.held, {c}) = size
  BY <1>1, OctetsOne
<1>5. ASSUME NEW k \in Logins
      PROVE  r.byLogin[k] = Octets(r.held, HeldBy(r.held, k, Conns)) /\ r.byLogin[k] <= PerLogin
  <2> DEFINE H == HeldBy(b.held, k, Conns)
             K == HeldBy(r.held, k, Conns)
  <2>1. Octets(r.held, H) = Octets(b.held, H)
    <3>1. \A d \in H : r.held[d] = b.held[d]
      BY <1>1 DEF HeldBy
    <3> QED BY <3>1, OctetsSame
  <2>2. b.byLogin[k] = Octets(b.held, H) /\ b.byLogin[k] <= PerLogin /\ b.byLogin[k] \in Int
    BY <1>2
  <2>3. CASE k = l
    <3>1. Splits(K, H, {c})
      BY <1>1, <1>2, <2>3 DEF Splits, HeldBy
    <3>2. Sized(r.held, K)
      <4>1. K \subseteq DOMAIN r.held
        BY DEF HeldBy
      <4> QED BY <1>3, <4>1, EntriesSized
    <3>3. r.byLogin[k] = b.byLogin[k] + size
      BY <1>1, <1>2, <2>3
    <3> HIDE DEF H, K
    <3>4. Octets(r.held, K) = Octets(r.held, H) + Octets(r.held, {c})
      BY <3>1, <3>2, OctetsAdd
    <3>5. r.byLogin[k] = Octets(r.held, K)
      BY <1>4, <2>1, <2>2, <3>3, <3>4
    <3>6. r.byLogin[k] <= PerLogin
      BY <2>3, <3>3
    <3> QED BY <3>5, <3>6 DEF K
  <2>4. CASE k # l
    <3>1. K = H
      BY <1>1, <1>2, <2>4 DEF HeldBy
    <3>2. r.byLogin[k] = b.byLogin[k]
      BY <1>1, <1>2, <2>4
    <3> QED BY <2>1, <2>2, <3>1, <3>2
  <2> QED BY <2>3, <2>4
<1>6. r.total = Octets(r.held, DOMAIN r.held)
  <2>1. Splits(DOMAIN r.held, D, {c})
    BY <1>1 DEF Splits
  <2>2. Sized(r.held, DOMAIN r.held)
    BY <1>3, EntriesSized
  <2>3. Octets(r.held, DOMAIN r.held) = Octets(r.held, D) + Octets(r.held, {c})
    BY <2>1, <2>2, OctetsAdd
  <2>4. Octets(r.held, D) = Octets(b.held, D)
    BY <1>1, OctetsSame
  <2> QED BY <1>1, <1>2, <1>4, <2>3, <2>4
<1>7. r.byLogin \in [Logins -> Int]
  <2>1. b.byLogin[l] + size \in Int
    BY <1>2
  <2> QED BY <1>1, <1>2, <2>1
<1>8. r.total <= MaxInflight
  BY <1>1
<1> QED BY <1>3, <1>5, <1>6, <1>7, <1>8 DEF Sound, Counted, r

\* A connection's upload is what is held for it, and only a session has one.
Matches(c) ==
    /\ c \in DOMAIN budget.held <=> conn[c].pending # 0
    /\ c \in DOMAIN budget.held => budget.held[c] = [size |-> conn[c].pending, login |-> conn[c].login]
    /\ conn[c].pending # 0 => conn[c].phase = "authed"

BudgetInv == Sound(budget) /\ \A c \in Conns : Matches(c)

\* c has the upload it had.
SameUpload(c) ==
    /\ conn'[c].pending = conn[c].pending
    /\ conn[c].pending # 0 => conn'[c].login = conn[c].login /\ conn'[c].phase = conn[c].phase

LEMMA SameUploads ==
    ASSUME BudgetInv, UNCHANGED budget, \A c \in Conns : SameUpload(c)
    PROVE  BudgetInv'
BY DEF BudgetInv, Matches, SameUpload

\* c becomes s, which has the upload c had.
LEMMA BecomesUpload ==
    ASSUME Inv, BudgetInv, UNCHANGED budget, NEW c \in Conns, NEW s, conn' = [conn EXCEPT ![c] = s],
           s.pending = conn[c].pending,
           conn[c].pending # 0 => s.login = conn[c].login /\ s.phase = conn[c].phase
    PROVE  BudgetInv'
<1>1. \A d \in Conns : SameUpload(d)
  BY DEF SameUpload, Inv, Types
<1> QED BY <1>1, SameUploads

LEMMA RanRecord ==
    ASSUME NEW c, NEW s, Ran(c, s)
    PROVE  \E r : /\ conn' = [conn EXCEPT ![c] = r]
                  /\ r.pending = s.pending /\ r.login = s.login /\ r.phase = s.phase
<1>1. CASE s.up
  BY <1>1 DEF Ran
<1>2. CASE ~s.up
  <2> DEFINE r == [s EXCEPT !.ahead = @ - 1]
  <2>1. r.pending = s.pending /\ r.login = s.login /\ r.phase = s.phase
    OBVIOUS
  <2>2. conn' = [conn EXCEPT ![c] = r]
    BY <1>2 DEF Ran
  <2> HIDE DEF r
  <2> QED BY <2>1, <2>2
<1> QED BY <1>1, <1>2

LEMMA RanUpload ==
    ASSUME Inv, BudgetInv, UNCHANGED budget, NEW c \in Conns, NEW s, Ran(c, s),
           s.pending = conn[c].pending,
           conn[c].pending # 0 => s.login = conn[c].login /\ s.phase = conn[c].phase
    PROVE  BudgetInv'
<1>1. PICK r : /\ conn' = [conn EXCEPT ![c] = r]
               /\ r.pending = s.pending /\ r.login = s.login /\ r.phase = s.phase
  BY RanRecord
<1> QED BY <1>1, BecomesUpload

\* Whatever ends a connection releases what it holds.
LEMMA ShutUploads == ASSUME Inv, BudgetInv, NEW S, Shut(S) PROVE BudgetInv'
<1>1. budget' = Released(budget, S)
  BY DEF Shut
<1>2. Sound(budget')
  BY <1>1, ReleasedSound DEF BudgetInv
<1>3. DOMAIN budget'.held = DOMAIN budget.held \ S
      /\ \A c \in DOMAIN budget.held \ S : budget'.held[c] = budget.held[c]
  BY <1>1 DEF Released
<1>4. ASSUME NEW c \in Conns PROVE Matches(c)'
  <2>1. conn[c] \in Connection /\ Matches(c)
    BY DEF Inv, Types, BudgetInv
  <2>2. CASE c \notin S
    <3>1. conn'[c] = conn[c]
      BY <2>2 DEF Shut
    <3> QED BY <1>3, <2>1, <2>2, <3>1 DEF Matches
  <2>3. CASE c \in S
    <3>1. conn'[c].pending = 0
      <4>1. CASE conn[c].phase \in {"primary", "apps"}
        <5> DEFINE s == [conn[c] EXCEPT !.up = FALSE, !.ahead = MaxAhead]
        <5>1. conn'[c] = s
          BY <2>3, <4>1 DEF Shut
        <5>2. s.pending = conn[c].pending
          OBVIOUS
        <5>3. conn[c].pending = 0
          BY <2>1, <4>1 DEF Matches
        <5> QED BY <5>1, <5>2, <5>3
      <4>2. CASE conn[c].phase \notin {"primary", "apps"}
        <5>1. conn'[c] = Fresh
          BY <2>3, <4>2 DEF Shut
        <5> QED BY <5>1 DEF Fresh
      <4> QED BY <4>1, <4>2
    <3> QED BY <1>3, <2>3, <3>1 DEF Matches
  <2> QED BY <2>2, <2>3
<1> QED BY <1>2, <1>4 DEF BudgetInv

LEMMA AppendUploads ==
    ASSUME Inv, BudgetInv, NEW c \in Conns, NEW size \in Sizes, AppendMail(c, size)
    PROVE  BudgetInv'
<1> DEFINE l == conn[c].login
           s == [conn[c] EXCEPT !.pending = size]
<1>1. /\ conn[c] \in Connection /\ l \in Logins /\ conn[c].phase = "authed" /\ conn[c].pending = 0
      /\ conn \in [Conns -> Connection] /\ Matches(c)
  BY Commands DEF AppendMail, Admitted, Command, Inv, Types, BudgetInv
<1>2. size \in Nat /\ size # 0
  BY ImapAccessAssumption
<1>3. budget' = Reserved(budget, c, l, size)
  BY DEF AppendMail
<1>4. Sound(budget')
  <2>1. budget.byLogin[l] + size <= PerLogin /\ budget.total + size <= MaxInflight
    BY DEF AppendMail, FitsBudget
  <2>2. c \notin DOMAIN budget.held /\ Sound(budget)
    BY <1>1 DEF Matches, BudgetInv
  <2> HIDE DEF l
  <2> QED BY <1>1, <1>2, <1>3, <2>1, <2>2, ReservedSound
<1>5. /\ DOMAIN budget'.held = DOMAIN budget.held \cup {c}
      /\ \A d \in DOMAIN budget.held \ {c} : budget'.held[d] = budget.held[d]
      /\ budget'.held[c] = [size |-> size, login |-> l]
  BY <1>3 DEF Reserved
<1>6. s.pending = size /\ s.login = l /\ s.phase = "authed"
  BY <1>1 DEF Connection
<1>7. Ran(c, s)
  BY DEF AppendMail
<1> HIDE DEF s
<1>8. PICK r : /\ conn' = [conn EXCEPT ![c] = r]
               /\ r.pending = s.pending /\ r.login = s.login /\ r.phase = s.phase
  BY <1>7, RanRecord
<1>9. ASSUME NEW d \in Conns PROVE Matches(d)'
  <2>1. CASE d = c
    <3>1. conn'[c] = r
      BY <1>1, <1>8
    <3> QED BY <1>2, <1>5, <1>6, <1>8, <2>1, <3>1 DEF Matches
  <2>2. CASE d # c
    <3>1. conn'[d] = conn[d]
      BY <1>1, <1>8, <2>2
    <3>2. Matches(d)
      BY DEF BudgetInv
    <3> QED BY <1>5, <2>2, <3>1, <3>2 DEF Matches
  <2> QED BY <2>1, <2>2
<1> QED BY <1>4, <1>9 DEF BudgetInv

LEMMA LiteralUploads == ASSUME Inv, BudgetInv, NEW c \in Conns, Literal(c) PROVE BudgetInv'
<1> DEFINE s == [conn[c] EXCEPT !.pending = 0]
<1>1. budget' = Released(budget, {c})
  BY DEF Literal
<1>2. Sound(budget')
  BY <1>1, ReleasedSound DEF BudgetInv
<1>3. DOMAIN budget'.held = DOMAIN budget.held \ {c}
      /\ \A d \in DOMAIN budget.held \ {c} : budget'.held[d] = budget.held[d]
  BY <1>1 DEF Released
<1>4. s.pending = 0
  BY DEF Inv, Types, Connection
<1>5. Ran(c, s) /\ conn \in [Conns -> Connection]
  BY DEF Literal, Inv, Types
<1> HIDE DEF s
<1>6. PICK r : conn' = [conn EXCEPT ![c] = r] /\ r.pending = s.pending
  BY <1>5, RanRecord
<1>7. ASSUME NEW d \in Conns PROVE Matches(d)'
  <2>1. CASE d = c
    <3>1. conn'[c] = r
      BY <1>5, <1>6
    <3> QED BY <1>3, <1>4, <1>6, <2>1, <3>1 DEF Matches
  <2>2. CASE d # c
    <3>1. conn'[d] = conn[d]
      BY <1>5, <1>6, <2>2
    <3>2. Matches(d)
      BY DEF BudgetInv
    <3> QED BY <1>3, <2>2, <3>1, <3>2 DEF Matches
  <2> QED BY <2>1, <2>2
<1> QED BY <1>2, <1>7 DEF BudgetInv

\* A login, refused or not: there is no upload before the session begins.
LEMMA LoginUploads ==
    ASSUME Inv, BudgetInv, NEW c \in Conns,
           \/ LoginBlocked(c) \/ VerifyPrimary(c) \/ VerifyApps(c)
           \/ \E l \in Logins : LoginDisabled(c, l) \/ \E try \in Tries(l) : Login(c, l, try)
    PROVE  BudgetInv'
<1>1. conn[c].phase # "authed" /\ conn[c].pending = 0 /\ UNCHANGED budget /\ conn[c] \in Connection
  <2>1. conn[c].phase # "authed" /\ Matches(c) /\ conn[c] \in Connection
    BY DEF LoginBlocked, VerifyPrimary, VerifyApps, LoginDisabled, Login, MayLogin, BudgetInv, Inv, Types
  <2>2. UNCHANGED budget
    BY DEF LoginBlocked, VerifyPrimary, VerifyApps, LoginDisabled, Login, Bind, Refuse
  <2> QED BY <2>1, <2>2 DEF Matches
<1>2. \/ Ran(c, conn[c])
      \/ \E l \in Logins, try \in Nat : Ran(c, [conn[c] EXCEPT !.phase = "primary", !.login = l, !.try = try,
                                                            !.row = account[l].primary])
      \/ Bind(c) \/ Refuse(c)
      \/ conn' = [conn EXCEPT ![c].phase = "apps", ![c].list = account[conn[c].login].apps]
  <2>1. \A l \in Logins : Tries(l) \subseteq Nat
    BY DEF Tries, Inv, Types
  <2> QED BY <2>1 DEF LoginBlocked, VerifyPrimary, VerifyApps, LoginDisabled, Login
<1>3. CASE Ran(c, conn[c])
  BY <1>1, <1>3, RanUpload
<1>4. ASSUME NEW l \in Logins, NEW try \in Nat,
             Ran(c, [conn[c] EXCEPT !.phase = "primary", !.login = l, !.try = try, !.row = account[l].primary])
      PROVE  BudgetInv'
  <2> DEFINE s == [conn[c] EXCEPT !.phase = "primary", !.login = l, !.try = try, !.row = account[l].primary]
  <2>1. s.pending = 0
    BY <1>1
  <2>2. Ran(c, s)
    BY <1>4
  <2> HIDE DEF s
  <2> QED BY <1>1, <2>1, <2>2, RanUpload
<1>5. CASE Refuse(c)
  <2> DEFINE s == [conn[c] EXCEPT !.phase = "ready", !.login = Nobody, !.try = 0, !.row = 0, !.list = {}]
  <2>1. s.pending = 0
    BY <1>1
  <2>2. conn' = [conn EXCEPT ![c] = s]
    BY <1>5 DEF Refuse
  <2> HIDE DEF s
  <2> QED BY <1>1, <2>1, <2>2, BecomesUpload
<1>6. CASE Bind(c) /\ ~Refuse(c)
  <2> DEFINE s == [conn[c] EXCEPT !.phase = "authed", !.row = 0, !.list = {}, !.since = Tag(conn[c].login)]
  <2>1. s.pending = 0
    BY <1>1
  <2>2. conn' = [conn EXCEPT ![c] = s]
    BY <1>6 DEF Bind
  <2> HIDE DEF s
  <2> QED BY <1>1, <2>1, <2>2, BecomesUpload
<1>7. CASE conn' = [conn EXCEPT ![c].phase = "apps", ![c].list = account[conn[c].login].apps]
  <2> DEFINE apps == account[conn[c].login].apps
             s == [conn[c] EXCEPT !.phase = "apps", !.list = apps]
  <2> HIDE DEF apps
  <2>1. s.pending = 0
    BY <1>1
  <2>2. conn' = [conn EXCEPT ![c] = s]
    BY <1>7 DEF Inv, Types, apps
  <2> HIDE DEF s
  <2> QED BY <1>1, <2>1, <2>2, BecomesUpload
<1> QED BY <1>2, <1>3, <1>4, <1>5, <1>6, <1>7

\* A command that is not about an upload.
LEMMA CommandUploads ==
    ASSUME Inv, BudgetInv, NEW c \in Conns, Select(c) \/ Idle(c) \/ Done(c) \/ LiteralThrows(c)
    PROVE  BudgetInv'
<1>1. UNCHANGED budget
  BY DEF Select, Idle, Done, LiteralThrows
<1>2. PICK k, i : Ran(c, [conn[c] EXCEPT !.sel = k]) \/ Ran(c, [conn[c] EXCEPT !.idle = i]) \/ Ran(c, conn[c])
  BY DEF Select, Idle, Done, LiteralThrows
<1>3. CASE Ran(c, [conn[c] EXCEPT !.sel = k])
  <2> DEFINE s == [conn[c] EXCEPT !.sel = k]
  <2>1. s.pending = conn[c].pending /\ s.login = conn[c].login /\ s.phase = conn[c].phase
    OBVIOUS
  <2>2. Ran(c, s)
    BY <1>3
  <2> HIDE DEF s
  <2> QED BY <1>1, <2>1, <2>2, RanUpload
<1>4. CASE Ran(c, [conn[c] EXCEPT !.idle = i])
  <2> DEFINE s == [conn[c] EXCEPT !.idle = i]
  <2>1. s.pending = conn[c].pending /\ s.login = conn[c].login /\ s.phase = conn[c].phase
    OBVIOUS
  <2>2. Ran(c, s)
    BY <1>4
  <2> HIDE DEF s
  <2> QED BY <1>1, <2>1, <2>2, RanUpload
<1> QED BY <1>1, <1>2, <1>3, <1>4, RanUpload

LEMMA CutUploads == ASSUME Inv, BudgetInv, NEW c \in Conns, CutDisabled(c) PROVE BudgetInv'
<1>1. CASE conn[c].up
  BY <1>1, ShutUploads DEF CutDisabled
<1>2. CASE ~conn[c].up
  <2> DEFINE s == [conn[c] EXCEPT !.ahead = 0]
  <2>1. s.pending = conn[c].pending /\ s.login = conn[c].login /\ s.phase = conn[c].phase
    OBVIOUS
  <2>2. conn' = [conn EXCEPT ![c] = s] /\ UNCHANGED budget
    BY <1>2 DEF CutDisabled
  <2> HIDE DEF s
  <2> QED BY <2>1, <2>2, BecomesUpload
<1> QED BY <1>1, <1>2

LEMMA InitBudget == Init => BudgetInv
<1> SUFFICES ASSUME Init PROVE BudgetInv
  OBVIOUS
<1>1. /\ DOMAIN budget.held = {} /\ budget.byLogin = [l \in Logins |-> 0] /\ budget.total = 0
      /\ \A c \in Conns : conn[c].pending = 0
  BY DEF Init, Fresh
<1>2. Octets(budget.held, {}) = 0
  <2>1. UNION {{c} \X (1..budget.held[c].size) : c \in {}} = {}
    OBVIOUS
  <2> QED BY <2>1, FS_EmptySet DEF Octets
<1>3. \A l \in Logins : HeldBy(budget.held, l, Conns) = {}
  BY <1>1 DEF HeldBy
<1>4. 0 <= MaxInflight /\ 0 <= PerLogin
  <2>1. MaxLiteral \in Nat /\ MaxInflight \in Nat /\ MaxLiteral >= 0
    BY ImapAccessAssumption
  <2> DEFINE share == MaxInflight \div Shares
  <2> HIDE DEF share
  <2>2. PerLogin = IF MaxLiteral > share THEN MaxLiteral ELSE share
    BY DEF PerLogin, share
  <2>3. share \in Int
    BY <2>1, ImapAccessAssumption DEF share
  <2> QED BY <2>1, <2>2, <2>3
<1> QED BY <1>1, <1>2, <1>3, <1>4 DEF BudgetInv, Sound, Entries, Counted, Matches

LEMMA StepBudget == Inv /\ BudgetInv /\ [Next]_vars => BudgetInv'
<1> SUFFICES ASSUME Inv, BudgetInv, [Next]_vars PROVE BudgetInv'
  OBVIOUS
<1>1. CASE \/ Lapse \/ UNCHANGED vars
           \/ \E d \in Submitters : Submission(d) \/ SubmissionFails(d) \/ SubmissionPasses(d)
           \/ \E l \in Managed :
                 \/ \E on \in BOOLEAN : SetEnabled(l, on) \/ SetPassword(l, on)
                 \/ AddAppPassword(l)
                 \/ \E a \in account[l].apps : RemoveAppPassword(l, a)
  <2>1. UNCHANGED <<conn, budget>>
    BY <1>1 DEF Lapse, Submission, SubmissionFails, SubmissionPasses, vars,
                SetEnabled, SetPassword, AddAppPassword, RemoveAppPassword, Operator
  <2> QED BY <2>1 DEF BudgetInv, Matches
<1>2. CASE Sweep
  BY <1>2, ShutUploads DEF Sweep
<1>3. ASSUME NEW c \in Conns, Close(c) PROVE BudgetInv'
  BY <1>3, ShutUploads DEF Close
<1>4. ASSUME NEW c \in Conns,
             \/ LoginBlocked(c) \/ VerifyPrimary(c) \/ VerifyApps(c)
             \/ \E l \in Logins : LoginDisabled(c, l) \/ \E try \in Tries(l) : Login(c, l, try)
      PROVE  BudgetInv'
  BY <1>4, LoginUploads
<1>5. ASSUME NEW c \in Conns, Select(c) \/ Idle(c) \/ Done(c) \/ LiteralThrows(c) PROVE BudgetInv'
  BY <1>5, CommandUploads
<1>6. ASSUME NEW c \in Conns, CutDisabled(c) \/ Literal(c) \/ \E size \in Sizes : AppendMail(c, size)
      PROVE  BudgetInv'
  BY <1>6, CutUploads, LiteralUploads, AppendUploads
<1> QED BY <1>1, <1>2, <1>3, <1>4, <1>5, <1>6 DEF Next

\* The octets counted against the limits are those of the uploads in progress,
\* none twice and none forgotten, and no login exceeds its slice nor all of them
\* the whole, however connections end (#reserveAppend, #releaseAppend).
THEOREM BudgetExactAlways == Spec => []BudgetExact
<1>1. Inv /\ BudgetInv => BudgetExact
  <2> SUFFICES ASSUME BudgetInv PROVE BudgetExact
    OBVIOUS
  <2> QED BY DEF BudgetInv, Sound, Counted, Matches, BudgetExact
<1> QED BY <1>1, InitInv, StepInv, InitBudget, StepBudget, PTL DEF Spec

-----------------------------------------------------------------------------
(* Tables of failures. *)

LEMMA RemoveAtFacts ==
  ASSUME NEW T, NEW s \in Seq(T), NEW k \in 1..Len(s)
  PROVE  /\ RemoveAt(s, k) \in Seq(T)
         /\ Len(RemoveAt(s, k)) = Len(s) - 1
         /\ DOMAIN RemoveAt(s, k) = 1..(Len(s) - 1)
         /\ \A j \in 1..(Len(s) - 1) : RemoveAt(s, k)[j] = IF j < k THEN s[j] ELSE s[j + 1]
<1> DEFINE n == Len(s)
           a == SubSeq(s, 1, k - 1)
           b == SubSeq(s, k + 1, n)
<1>1. n \in Nat /\ s \in [1..n -> T] /\ DOMAIN s = 1..n
  BY LenProperties
<1>2. /\ a \in Seq(T) /\ Len(a) = k - 1
      /\ \A i \in 1..(k - 1) : a[i] = s[i]
  <2>1. k \in Int /\ k - 1 \in Int /\ 1 \in Int /\ \A i \in 1..(k - 1) : s[i] \in T
    BY <1>1
  <2>2. /\ a \in Seq(T) /\ Len(a) = IF 1 <= k - 1 THEN k - 1 - 1 + 1 ELSE 0
        /\ \A i \in 1..(k - 1 - 1 + 1) : a[i] = s[1 + i - 1]
    BY <2>1, SubSeqProperties
  <2> QED BY <1>1, <2>2
<1>3. /\ b \in Seq(T) /\ Len(b) = n - k
      /\ \A i \in 1..(n - k) : b[i] = s[k + i]
  <2>1. k + 1 \in Int /\ n \in Int /\ \A i \in (k + 1)..n : s[i] \in T
    BY <1>1
  <2>2. /\ b \in Seq(T) /\ Len(b) = IF k + 1 <= n THEN n - (k + 1) + 1 ELSE 0
        /\ \A i \in 1..(n - (k + 1) + 1) : b[i] = s[k + 1 + i - 1]
    BY <2>1, SubSeqProperties
  <2>3. Len(b) = n - k
    <3>1. k \in Nat /\ n \in Nat /\ k <= n
      BY <1>1
    <3>a. k + 1 <= n <=> k # n
      <4> HIDE DEF n
      <4> QED BY <3>1
    <3>2. Len(b) = IF k # n THEN n - (k + 1) + 1 ELSE 0
      BY <2>2, <3>a
    <3> HIDE DEF n, b
    <3> QED BY <3>1, <3>2
  <2> HIDE DEF b
  <2>4. ASSUME NEW i \in 1..(n - k) PROVE b[i] = s[k + i]
    <3>1. i \in 1..(n - (k + 1) + 1) /\ k + 1 + i - 1 = k + i
      BY <1>1
    <3> QED BY <2>2, <3>1
  <2> QED BY <2>2, <2>3, <2>4
<1>4. RemoveAt(s, k) = a \o b
  BY DEF RemoveAt
<1> HIDE DEF a, b
<1>5. /\ a \o b \in Seq(T) /\ Len(a \o b) = Len(a) + Len(b)
      /\ \A i \in 1..(Len(a) + Len(b)) : (a \o b)[i] = IF i <= Len(a) THEN a[i] ELSE b[i - Len(a)]
  BY <1>2, <1>3, ConcatProperties
<1>6. Len(a \o b) = n - 1 /\ Len(a) + Len(b) = n - 1
  BY <1>1, <1>2, <1>3, <1>5
<1>7. DOMAIN (a \o b) = 1..(n - 1)
  BY <1>5, <1>6, LenProperties
<1>8. ASSUME NEW j \in 1..(n - 1)
      PROVE  (a \o b)[j] = IF j < k THEN s[j] ELSE s[j + 1]
  <2>1. (a \o b)[j] = IF j <= k - 1 THEN a[j] ELSE b[j - (k - 1)]
    BY <1>2, <1>5, <1>6
  <2>2. CASE j < k
    BY <1>2, <2>1, <2>2
  <2>3. CASE ~(j < k)
    <3>1. j - (k - 1) \in 1..(n - k) /\ k + (j - (k - 1)) = j + 1
      BY <1>1, <2>3
    <3> QED BY <1>3, <2>1, <2>3, <3>1
  <2> QED BY <2>2, <2>3
<1> QED BY <1>4, <1>5, <1>6, <1>7, <1>8


\* What is left in the window cut of the failures of ip.
Live(f, ip, cut) == IF ip \in Tracked(f) THEN {t \in f[At(f, ip)].times : t > cut} ELSE {}

Row == [ip : Ips, times : (SUBSET Nat) \ {{}}]

\* The rows of a table, one for each address at most.
Book(f) ==
    /\ f \in Seq(Row)
    /\ \A j, k \in DOMAIN f : f[j].ip = f[k].ip => j = k

LEMMA BookFacts ==
    ASSUME NEW f, Book(f)
    PROVE  /\ Len(f) \in Nat /\ DOMAIN f = 1..Len(f)
           /\ \A k \in 1..Len(f) : f[k] \in Row
           /\ \A j, k \in 1..Len(f) : f[j].ip = f[k].ip => j = k
<1>1. f \in Seq(Row)
  BY DEF Book
<1>2. Len(f) \in Nat /\ DOMAIN f = 1..Len(f)
  BY <1>1, LenProperties
<1>3. \A k \in 1..Len(f) : f[k] \in Row
  BY <1>1, ElementOfSeq
<1> QED BY <1>2, <1>3 DEF Book

LEMMA AtFacts ==
    ASSUME NEW f, NEW ip \in Tracked(f)
    PROVE  At(f, ip) \in DOMAIN f /\ f[At(f, ip)].ip = ip
BY DEF Tracked, At

\* t is among what is left of ip.
In(f, ip, cut, t) == \E k \in DOMAIN f : f[k].ip = ip /\ t \in f[k].times /\ t > cut

LEMMA LiveIn ==
    ASSUME NEW f, Book(f), NEW ip, NEW cut, NEW t
    PROVE  t \in Live(f, ip, cut) <=> In(f, ip, cut, t)
<1>1. CASE ip \in Tracked(f)
  <2>1. At(f, ip) \in DOMAIN f /\ f[At(f, ip)].ip = ip
    BY <1>1, AtFacts
  <2>2. \A k \in DOMAIN f : f[k].ip = ip => k = At(f, ip)
    BY <2>1 DEF Book
  <2> QED BY <1>1, <2>1, <2>2 DEF Live, In
<1>2. CASE ip \notin Tracked(f)
  BY <1>2 DEF Live, In, Tracked
<1> QED BY <1>1, <1>2

\* Two tables that have the same left of ip.
LEMMA SameLive ==
    ASSUME NEW f, NEW g, Book(f), Book(g), NEW ip, NEW cut,
           \A t : In(g, ip, cut, t) <=> In(f, ip, cut, t)
    PROVE  Live(g, ip, cut) = Live(f, ip, cut)
<1>1. \A t : t \in Live(g, ip, cut) <=> t \in Live(f, ip, cut)
  BY LiveIn
<1> QED BY <1>1

\* A row is taken out: only its address loses anything.
LEMMA RemovedRow ==
    ASSUME NEW f, Book(f), NEW k \in DOMAIN f
    PROVE  /\ Book(RemoveAt(f, k)) /\ Tracked(RemoveAt(f, k)) \subseteq Tracked(f)
           /\ f[k].ip \notin Tracked(RemoveAt(f, k))
           /\ \A ip, cut : ip # f[k].ip => Live(RemoveAt(f, k), ip, cut) = Live(f, ip, cut)
<1> DEFINE g == RemoveAt(f, k)
           n == Len(f)
<1>1. /\ n \in Nat /\ DOMAIN f = 1..n /\ k \in 1..n
      /\ \A j, l \in 1..n : f[j].ip = f[l].ip => j = l
  BY BookFacts
<1>2. /\ g \in Seq(Row) /\ DOMAIN g = 1..(n - 1)
      /\ \A j \in 1..(n - 1) : g[j] = IF j < k THEN f[j] ELSE f[j + 1]
  <2>1. f \in Seq(Row) /\ k \in 1..Len(f)
    BY <1>1 DEF Book
  <2> QED BY <2>1, RemoveAtFacts
<1> HIDE DEF g, n
<1>3. ASSUME NEW j \in DOMAIN g
      PROVE  \E i \in 1..n : i # k /\ g[j] = f[i] /\ i = IF j < k THEN j ELSE j + 1
  <2>1. j \in 1..n /\ j + 1 \in 1..n /\ j \in 1..(n - 1)
    BY <1>1, <1>2
  <2>2. CASE j < k
    BY <1>1, <1>2, <2>1, <2>2
  <2>3. CASE ~(j < k)
    <3>1. j + 1 # k
      BY <1>1, <2>1, <2>3
    <3> QED BY <1>2, <2>1, <2>3, <3>1
  <2> QED BY <2>2, <2>3
<1>4. ASSUME NEW i \in 1..n, i # k PROVE \E j \in DOMAIN g : g[j] = f[i]
  <2>1. CASE i < k
    <3>1. i \in 1..(n - 1)
      BY <1>1, <2>1
    <3> QED BY <1>2, <2>1, <3>1
  <2>2. CASE i > k
    <3>1. i - 1 \in 1..(n - 1) /\ ~(i - 1 < k) /\ i - 1 + 1 = i
      BY <1>1, <2>2
    <3>2. g[i - 1] = f[i - 1 + 1]
      BY <1>2, <3>1
    <3> QED BY <1>2, <3>1, <3>2
  <2> QED BY <1>1, <1>4, <2>1, <2>2
<1>5. Book(g)
  <2> SUFFICES ASSUME NEW j \in DOMAIN g, NEW l \in DOMAIN g, g[j].ip = g[l].ip PROVE j = l
    BY <1>2 DEF Book
  <2>1. PICK i \in 1..n : g[j] = f[i] /\ i = IF j < k THEN j ELSE j + 1
    BY <1>3
  <2>2. PICK m \in 1..n : g[l] = f[m] /\ m = IF l < k THEN l ELSE l + 1
    BY <1>3
  <2>3. i = m
    BY <1>1, <2>1, <2>2
  <2>4. j \in Int /\ l \in Int /\ k \in Int
    BY <1>1, <1>2
  <2> QED BY <2>1, <2>2, <2>3, <2>4
<1>6. Tracked(g) \subseteq Tracked(f) /\ f[k].ip \notin Tracked(g)
  BY <1>1, <1>3 DEF Tracked
<1>7. ASSUME NEW ip, NEW cut, ip # f[k].ip PROVE Live(g, ip, cut) = Live(f, ip, cut)
  <2>1. ASSUME NEW t PROVE In(g, ip, cut, t) <=> In(f, ip, cut, t)
    <3>1. In(g, ip, cut, t) => In(f, ip, cut, t)
      BY <1>1, <1>3 DEF In
    <3>2. In(f, ip, cut, t) => In(g, ip, cut, t)
      <4> SUFFICES ASSUME NEW i \in 1..n, f[i].ip = ip, t \in f[i].times, t > cut PROVE In(g, ip, cut, t)
        BY <1>1 DEF In
      <4>1. PICK j \in DOMAIN g : g[j] = f[i]
        BY <1>4, <1>7
      <4> QED BY <4>1 DEF In
    <3> QED BY <3>1, <3>2
  <2> QED BY <1>5, <2>1, SameLive
<1> QED BY <1>5, <1>6, <1>7 DEF g

\* The row of an address is given other times.
Rewritten(f, k, S) == [f EXCEPT ![k].times = S]

LEMMA ChangedRow ==
    ASSUME NEW f, Book(f), NEW k \in DOMAIN f, NEW S \in (SUBSET Nat) \ {{}}
    PROVE  /\ Book(Rewritten(f, k, S)) /\ Tracked(Rewritten(f, k, S)) = Tracked(f)
           /\ \A cut : Live(Rewritten(f, k, S), f[k].ip, cut) = {t \in S : t > cut}
           /\ \A ip, cut : ip # f[k].ip => Live(Rewritten(f, k, S), ip, cut) = Live(f, ip, cut)
<1> DEFINE g == Rewritten(f, k, S)
           n == Len(f)
<1>1. /\ n \in Nat /\ DOMAIN f = 1..n /\ k \in 1..n
      /\ \A j \in 1..n : f[j] \in Row
      /\ \A j, l \in 1..n : f[j].ip = f[l].ip => j = l
  BY BookFacts
<1>2. /\ DOMAIN g = 1..n /\ g[k].times = S /\ \A j \in 1..n : g[j].ip = f[j].ip
      /\ \A j \in 1..n \ {k} : g[j] = f[j]
      /\ \A j \in 1..n : g[j] \in Row
  BY <1>1 DEF Rewritten, Row
<1> HIDE DEF g, n
<1>3. g \in Seq(Row)
  <2> DEFINE row == [f[k] EXCEPT !.times = S]
  <2>1. row \in Row
    BY <1>1 DEF Row
  <2>2. g = [f EXCEPT ![k] = row] /\ k \in 1..Len(f)
    BY <1>1 DEF g, n, Rewritten
  <2> HIDE DEF row
  <2> QED BY <2>1, <2>2, ExceptSeq DEF Book
<1>4. Book(g)
  BY <1>1, <1>2, <1>3 DEF Book
<1>5. Tracked(g) = Tracked(f)
  BY <1>1, <1>2 DEF Tracked
<1>6. ASSUME NEW cut PROVE Live(g, f[k].ip, cut) = {t \in S : t > cut}
  <2>1. ASSUME NEW t PROVE In(g, f[k].ip, cut, t) <=> t \in S /\ t > cut
    BY <1>1, <1>2 DEF In
  <2>2. \A t : t \in Live(g, f[k].ip, cut) <=> t \in S /\ t > cut
    BY <1>4, <2>1, LiveIn
  <2> QED BY <2>2
<1>7. ASSUME NEW ip, NEW cut, ip # f[k].ip PROVE Live(g, ip, cut) = Live(f, ip, cut)
  <2>1. ASSUME NEW t PROVE In(g, ip, cut, t) <=> In(f, ip, cut, t)
    BY <1>1, <1>2, <1>7 DEF In
  <2> QED BY <1>4, <2>1, SameLive
<1> QED BY <1>4, <1>5, <1>6, <1>7 DEF g

\* An address not yet tracked is added.
LEMMA AddedRow ==
    ASSUME NEW f, Book(f), NEW e \in Row, e.ip \notin Tracked(f)
    PROVE  /\ Book(Append(f, e))
           /\ \A cut : Live(Append(f, e), e.ip, cut) = {t \in e.times : t > cut}
           /\ \A ip, cut : ip # e.ip => Live(Append(f, e), ip, cut) = Live(f, ip, cut)
<1> DEFINE g == Append(f, e)
           n == Len(f)
<1>1. /\ n \in Nat /\ DOMAIN f = 1..n
      /\ \A j, l \in 1..n : f[j].ip = f[l].ip => j = l
      /\ \A j \in 1..n : f[j].ip # e.ip
  BY BookFacts DEF Tracked
<1>2. /\ g \in Seq(Row) /\ Len(g) = n + 1
      /\ g[n + 1] = e /\ \A j \in 1..n : g[j] = f[j]
  BY AppendProperties DEF Book
<1> HIDE DEF g, n
<1>3. DOMAIN g = 1..(n + 1) /\ \A j \in DOMAIN g : j \in 1..n \/ j = n + 1
  BY <1>1, <1>2, LenProperties
<1>4. n + 1 \in DOMAIN g /\ 1..n \subseteq DOMAIN g
  BY <1>1, <1>3
<1>5. Book(g)
  BY <1>1, <1>2, <1>3 DEF Book
<1>6. ASSUME NEW cut PROVE Live(g, e.ip, cut) = {t \in e.times : t > cut}
  <2>1. ASSUME NEW t PROVE In(g, e.ip, cut, t) <=> t \in e.times /\ t > cut
    BY <1>1, <1>2, <1>3, <1>4 DEF In
  <2>2. \A t : t \in Live(g, e.ip, cut) <=> t \in e.times /\ t > cut
    BY <1>5, <2>1, LiveIn
  <2> QED BY <2>2
<1>7. ASSUME NEW ip, NEW cut, ip # e.ip PROVE Live(g, ip, cut) = Live(f, ip, cut)
  <2>1. ASSUME NEW t PROVE In(g, ip, cut, t) <=> In(f, ip, cut, t)
    BY <1>1, <1>2, <1>3, <1>4, <1>7 DEF In
  <2> QED BY <1>5, <2>1, SameLive
<1> QED BY <1>5, <1>6, <1>7 DEF g

\* The first row makes room.
LEMMA WithoutFirst ==
    ASSUME NEW f, Book(f), f # <<>>
    PROVE  /\ Book(Tail(f)) /\ Tracked(Tail(f)) \subseteq Tracked(f) /\ 1 \in DOMAIN f
           /\ \A ip, cut : ip # f[1].ip => Live(Tail(f), ip, cut) = Live(f, ip, cut)
<1> DEFINE g == Tail(f)
           n == Len(f)
<1>1. /\ n \in Nat /\ n # 0 /\ DOMAIN f = 1..n
      /\ \A j, l \in 1..n : f[j].ip = f[l].ip => j = l
  BY BookFacts, EmptySeq DEF Book
<1>2. /\ g \in Seq(Row) /\ Len(g) = n - 1
      /\ \A j \in 1..(n - 1) : g[j] = f[j + 1]
  BY HeadTailProperties DEF Book
<1> HIDE DEF g, n
<1>3. DOMAIN g = 1..(n - 1) /\ \A j \in DOMAIN g : j \in Int /\ j + 1 \in 1..n /\ j + 1 # 1 /\ g[j] = f[j + 1]
  BY <1>1, <1>2, LenProperties
<1>4. 1 \in DOMAIN f
  BY <1>1
<1>5. Book(g)
  <2> SUFFICES ASSUME NEW j \in DOMAIN g, NEW l \in DOMAIN g, g[j].ip = g[l].ip PROVE j = l
    BY <1>2 DEF Book
  <2>1. j + 1 = l + 1
    BY <1>1, <1>3
  <2> QED BY <1>3, <2>1
<1>6. Tracked(g) \subseteq Tracked(f)
  BY <1>1, <1>3 DEF Tracked
<1>7. ASSUME NEW ip, NEW cut, ip # f[1].ip PROVE Live(g, ip, cut) = Live(f, ip, cut)
  <2>1. ASSUME NEW t PROVE In(g, ip, cut, t) <=> In(f, ip, cut, t)
    <3>1. In(g, ip, cut, t) => In(f, ip, cut, t)
      BY <1>1, <1>3 DEF In
    <3>2. In(f, ip, cut, t) => In(g, ip, cut, t)
      <4> SUFFICES ASSUME NEW i \in 1..n, f[i].ip = ip, t \in f[i].times, t > cut PROVE In(g, ip, cut, t)
        BY <1>1 DEF In
      <4>1. i # 1
        BY <1>7
      <4>2. i - 1 \in DOMAIN g /\ i - 1 + 1 = i
        BY <1>1, <1>3, <4>1
      <4>3. g[i - 1] = f[i]
        BY <1>3, <4>2
      <4> QED BY <4>2, <4>3 DEF In
    <3> QED BY <3>1, <3>2
  <2> QED BY <1>5, <2>1, SameLive
<1> QED BY <1>4, <1>5, <1>6, <1>7 DEF g

-----------------------------------------------------------------------------
(* The throttle. *)

LEMMA RecentIsLive == \A f, ip : Recent(f, ip) = Live(f, ip, clock.cutoff)
BY DEF Recent, Live

\* g is f but for what has left the window.
Forgot(f, g) ==
    /\ Book(g) /\ Tracked(g) \subseteq Tracked(f)
    /\ \A ip \in Ips : Live(g, ip, clock.cutoff) = Live(f, ip, clock.cutoff)

LEMMA PrunedForgets == ASSUME NEW f, Book(f), NEW ip PROVE Forgot(f, Pruned(f, ip))
<1> DEFINE cut == clock.cutoff
           k == At(f, ip)
           left == Recent(f, ip)
<1>1. CASE ip \notin Tracked(f)
  BY <1>1 DEF Pruned, Forgot
<1>2. CASE ip \in Tracked(f)
  <2>1. k \in DOMAIN f /\ f[k].ip = ip
    BY <1>2, AtFacts
  <2>2. left = {t \in f[k].times : t > cut} /\ left = Live(f, ip, cut)
    BY <1>2, RecentIsLive DEF Recent
  <2>3. left \in SUBSET Nat
    BY <2>1, <2>2, BookFacts DEF Row
  <2>4. CASE left = {}
    <3>1. Pruned(f, ip) = RemoveAt(f, k)
      BY <1>2, <2>4 DEF Pruned
    <3> HIDE DEF k, left, cut
    <3>2. /\ Book(RemoveAt(f, k)) /\ Tracked(RemoveAt(f, k)) \subseteq Tracked(f)
          /\ ip \notin Tracked(RemoveAt(f, k))
          /\ \A p : p # ip => Live(RemoveAt(f, k), p, cut) = Live(f, p, cut)
      BY <2>1, RemovedRow
    <3>3. Live(RemoveAt(f, k), ip, cut) = {}
      BY <3>2 DEF Live
    <3>4. \A p : Live(RemoveAt(f, k), p, cut) = Live(f, p, cut)
      BY <2>2, <2>4, <3>2, <3>3
    <3> QED BY <3>1, <3>2, <3>4 DEF Forgot, cut
  <2>5. CASE left # {}
    <3>1. Pruned(f, ip) = Rewritten(f, k, left)
      BY <1>2, <2>5 DEF Pruned, Rewritten
    <3> DEFINE g == Rewritten(f, k, left)
    <3>2. left \in (SUBSET Nat) \ {{}} /\ \A t \in left : t > cut
      BY <2>2, <2>3, <2>5
    <3> HIDE DEF k, left, cut
    <3>3. /\ Book(g) /\ Tracked(g) = Tracked(f)
          /\ Live(g, ip, cut) = {t \in left : t > cut}
          /\ \A p : p # ip => Live(g, p, cut) = Live(f, p, cut)
      BY <2>1, <3>2, ChangedRow
    <3> HIDE DEF g
    <3>4. {t \in left : t > cut} = left
      BY <3>2
    <3>5. \A p : Live(g, p, cut) = Live(f, p, cut)
      BY <2>2, <3>3, <3>4
    <3> QED BY <3>1, <3>3, <3>5 DEF Forgot, cut, g
  <2> QED BY <2>4, <2>5
<1> QED BY <1>1, <1>2

\* A row that was not forgotten has exactly the failures of its address in the window.
Fair(ip) ==
    /\ guesses[ip] = Live(fails, ip, clock.cutoff)
    /\ Cardinality(guesses[ip]) < MaxFailures + Cardinality(Free(ip))

ThrottleInv ==
    /\ clock \in [now : Nat, cutoff : Nat] /\ clock.cutoff <= clock.now
    /\ Book(fails)
    /\ guesses \in [Ips -> SUBSET Nat] /\ \A ip \in Ips : guesses[ip] \subseteq 1..clock.now
    /\ \A ip \in Ips \ evicted : Fair(ip)

LEMMA FreeFinite ==
    ASSUME NEW ip
    PROVE  /\ IsFiniteSet(Free(ip)) /\ Cardinality(Free(ip)) \in Nat
           /\ IsFiniteSet(Free(ip)') /\ Cardinality(Free(ip))' \in Nat
<1>1. Free(ip) \subseteq Conns \cup Submitters /\ Free(ip)' \subseteq Conns \cup Submitters
  BY DEF Free
<1> HIDE DEF Free
<1>a. IsFiniteSet(Conns \cup Submitters)
  BY ImapAccessAssumption, FS_Union
<1>2. IsFiniteSet(Free(ip)) /\ IsFiniteSet(Free(ip)')
  BY <1>1, <1>a, FS_Subset
<1>3. Cardinality(Free(ip)') = Cardinality(Free(ip))'
  OBVIOUS
<1> QED BY <1>2, <1>3, FS_CardinalityType

LEMMA GuessesFinite ==
    ASSUME ThrottleInv, NEW ip \in Ips
    PROVE  IsFiniteSet(guesses[ip]) /\ Cardinality(guesses[ip]) \in Nat
<1>1. clock.now \in Int /\ 1 \in Int /\ guesses[ip] \subseteq 1..clock.now
  BY DEF ThrottleInv
<1>2. IsFiniteSet(1..clock.now)
  BY <1>1, FS_Interval
<1> QED BY <1>1, <1>2, FS_Subset, FS_CardinalityType

\* As many handlers of ip do not wait as before, or more.
LEMMA FreeGrows ==
    ASSUME NEW ip, Free(ip) \subseteq Free(ip)'
    PROVE  Cardinality(Free(ip)) <= Cardinality(Free(ip))'
<1>1. Cardinality(Free(ip)') = Cardinality(Free(ip))'
  OBVIOUS
<1> QED BY <1>1, FreeFinite, FS_Subset

LEMMA FreeSome == ASSUME NEW ip, Free(ip)' # {} PROVE Cardinality(Free(ip))' # 0
<1> DEFINE A == Free(ip)'
<1>1. IsFiniteSet(A) /\ Cardinality(A) = Cardinality(Free(ip))' /\ A # {}
  BY FreeFinite
<1> HIDE DEF A
<1> QED BY <1>1, FS_EmptySet

LEMMA FreeGains ==
    ASSUME NEW ip, NEW c, c \notin Free(ip), Free(ip) \cup {c} \subseteq Free(ip)'
    PROVE  Cardinality(Free(ip)) + 1 <= Cardinality(Free(ip))'
<1> DEFINE A == Free(ip)
           B == Free(ip)'
<1>1. IsFiniteSet(A) /\ IsFiniteSet(B)
  BY FreeFinite
<1>2. Cardinality(B) = Cardinality(Free(ip))'
  OBVIOUS
<1>3. c \notin A /\ A \cup {c} \subseteq B
  OBVIOUS
<1> HIDE DEF A, B
<1>4. Cardinality(A \cup {c}) = Cardinality(A) + 1
  BY <1>1, <1>3, FS_AddElement
<1>5. Cardinality(A \cup {c}) <= Cardinality(B)
  BY <1>1, <1>3, FS_Subset
<1>6. Cardinality(A) + 1 <= Cardinality(B)
  BY <1>4, <1>5
<1> QED BY <1>2, <1>6 DEF A, B

\* An address that is let in has not failed as often as is allowed.
LEMMA LetIn ==
    ASSUME ThrottleInv, NEW ip \in Ips \ evicted, ~Blocked(ip)
    PROVE  Cardinality(guesses[ip]) + 1 <= MaxFailures
<1>1. guesses[ip] = Recent(fails, ip) /\ Cardinality(guesses[ip]) \in Nat /\ MaxFailures \in Nat
  BY GuessesFinite, RecentIsLive, ImapAccessAssumption DEF ThrottleInv, Fair
<1> QED BY <1>1 DEF Blocked

\* No failure is recorded: the table forgets at most what has left the window, and
\* a handler begins to wait only if its address is let in.
LEMMA NoFailure ==
    ASSUME ThrottleInv, UNCHANGED <<clock, guesses, evicted>>,
           Forgot(fails, fails'),
           \A ip \in Ips : Free(ip) \subseteq Free(ip)' \/ ~Blocked(ip)
    PROVE  ThrottleInv'
<1>1. ASSUME NEW ip \in Ips \ evicted' PROVE Fair(ip)'
  <2>1. Fair(ip) /\ ip \in Ips \ evicted
    BY DEF ThrottleInv
  <2>2. guesses'[ip] = Live(fails', ip, clock'.cutoff)
    BY <2>1 DEF Fair, Forgot
  <2>3. Cardinality(guesses[ip]) < MaxFailures + Cardinality(Free(ip))'
    <3>1. /\ Cardinality(guesses[ip]) \in Nat /\ Cardinality(Free(ip)) \in Nat
          /\ Cardinality(Free(ip))' \in Nat /\ MaxFailures \in Nat
          /\ Cardinality(guesses[ip]) < MaxFailures + Cardinality(Free(ip))
      BY <2>1, GuessesFinite, FreeFinite, ImapAccessAssumption DEF Fair
    <3>2. CASE Free(ip) \subseteq Free(ip)'
      <4>1. Cardinality(Free(ip)) <= Cardinality(Free(ip))'
        BY <3>2, FreeGrows
      <4> QED BY <3>1, <4>1
    <3>3. CASE ~Blocked(ip)
      <4>1. Cardinality(guesses[ip]) + 1 <= MaxFailures
        BY <2>1, <3>3, LetIn
      <4> QED BY <3>1, <4>1
    <3> QED BY <3>2, <3>3
  <2> QED BY <2>2, <2>3 DEF Fair
<1> QED BY <1>1 DEF ThrottleInv, Forgot

\* The table after a failure of ip, of f.
AddsFailure(f, g, ip, now, out) ==
    /\ Book(g)
    /\ Live(g, ip, clock.cutoff) = Live(f, ip, clock.cutoff) \cup {now}
    /\ \A p \in Ips \ (out \cup {ip}) : Live(g, p, clock.cutoff) = Live(f, p, clock.cutoff)

LEMMA RecordedTable ==
    ASSUME ThrottleInv, NEW ip \in Ips, RecordFailure(ip)
    PROVE  AddsFailure(fails, fails', ip, clock.now + 1, evicted') /\ evicted \subseteq evicted'
<1> DEFINE f == Pruned(fails, ip)
           now == clock.now + 1
           cut == clock.cutoff
           k == At(f, ip)
           row == [ip |-> ip, times |-> {now}]
<1>1. Forgot(fails, f)
  BY PrunedForgets DEF ThrottleInv
<1>2. now \in Nat /\ now > cut /\ Cap \in Nat /\ Cap # 0
  BY ImapAccessAssumption DEF ThrottleInv
<1>3. CASE ip \in Tracked(f)
  <2>1. k \in DOMAIN f /\ f[k].ip = ip
    BY <1>3, AtFacts
  <2> DEFINE S == f[k].times \cup {now}
  <2>2. fails' = Rewritten(f, k, S) /\ evicted' = evicted
    <3>1. fails' = [f EXCEPT ![k].times = @ \cup {now}] /\ ~Evicting(f, ip)
      BY <1>3 DEF RecordFailure, Evicting
    <3>2. [f EXCEPT ![k].times = @ \cup {now}] = Rewritten(f, k, S)
      BY DEF Rewritten
    <3>3. evicted' = evicted
      BY <3>1 DEF RecordFailure
    <3> QED BY <3>1, <3>2, <3>3
  <2>3. S \in (SUBSET Nat) \ {{}}
    <3>1. f[k] \in Row
      BY <1>1, <2>1, BookFacts DEF Forgot
    <3> QED BY <1>2, <3>1 DEF Row
  <2>4. Live(f, ip, cut) = {t \in f[k].times : t > cut}
    BY <1>3 DEF Live
  <2> DEFINE g == Rewritten(f, k, S)
  <2>5. /\ Book(g) /\ Live(g, ip, cut) = {t \in S : t > cut}
        /\ \A p : p # ip => Live(g, p, cut) = Live(f, p, cut)
    <3> HIDE DEF S, cut, k, f
    <3> QED BY <1>1, <2>1, <2>3, ChangedRow DEF Forgot
  <2>6. {t \in S : t > cut} = Live(f, ip, cut) \cup {now}
    BY <1>2, <2>4
  <2> HIDE DEF g, S, k, f
  <2> QED BY <1>1, <2>2, <2>5, <2>6 DEF AddsFailure, Forgot, g
<1>4. CASE ip \notin Tracked(f)
  <2> DEFINE room == IF Evicting(f, ip) THEN Tail(f) ELSE f
  <2>1. /\ fails' = Append(room, row)
        /\ evicted' = IF Evicting(f, ip) THEN evicted \cup {f[1].ip} ELSE evicted
    BY <1>4 DEF RecordFailure
  <2>2. /\ Book(room) /\ ip \notin Tracked(room)
        /\ \A p \in Ips \ evicted' : Live(room, p, cut) = Live(f, p, cut)
        /\ evicted \subseteq evicted'
    <3>1. CASE ~Evicting(f, ip)
      BY <1>1, <1>4, <2>1, <3>1 DEF Forgot
    <3>2. CASE Evicting(f, ip)
      <4>1. f # <<>>
        BY <1>2, <3>2 DEF Evicting
      <4>2. Book(f)
        BY <1>1 DEF Forgot
      <4>3. room = Tail(f) /\ f[1].ip \in evicted' /\ evicted \subseteq evicted'
        BY <2>1, <3>2
      <4> HIDE DEF room, cut, f
      <4>4. /\ Book(Tail(f)) /\ Tracked(Tail(f)) \subseteq Tracked(f)
            /\ \A p : p # f[1].ip => Live(Tail(f), p, cut) = Live(f, p, cut)
        BY <4>1, <4>2, WithoutFirst
      <4> QED BY <1>4, <4>3, <4>4
    <3> QED BY <3>1, <3>2
  <2> HIDE DEF room
  <2>3. row \in Row /\ row.ip = ip /\ row.times = {now}
    BY <1>2 DEF Row
  <2> DEFINE g == Append(room, row)
  <2> HIDE DEF row
  <2>4. /\ Book(g) /\ Live(g, ip, cut) = {t \in {now} : t > cut}
        /\ \A p : p # ip => Live(g, p, cut) = Live(room, p, cut)
    <3> HIDE DEF cut, now, f
    <3> QED BY <2>2, <2>3, AddedRow
  <2>5. {t \in {now} : t > cut} = {now}
    BY <1>2
  <2>6. Live(fails, ip, cut) = {}
    <3>1. Live(f, ip, cut) = {}
      BY <1>4 DEF Live
    <3> QED BY <1>1, <3>1 DEF Forgot
  <2> HIDE DEF g
  <2>7. Live(g, ip, cut) = Live(fails, ip, cut) \cup {now}
    BY <2>4, <2>5, <2>6
  <2>8. \A p \in Ips \ (evicted' \cup {ip}) : Live(g, p, cut) = Live(fails, p, cut)
    BY <1>1, <2>2, <2>4 DEF Forgot
  <2>9. fails' = g
    BY <2>1 DEF g, row
  <2> QED BY <2>2, <2>4, <2>7, <2>8, <2>9 DEF AddsFailure
<1> QED BY <1>3, <1>4

\* A failure is recorded of an address that was let in, by a handler that did not
\* wait for it, or by one that waited and does no longer.
LEMMA Failed ==
    ASSUME ThrottleInv, NEW ip \in Ips, RecordFailure(ip),
           \A p \in Ips \ {ip} : Free(p) \subseteq Free(p)',
           \/ ~Blocked(ip) /\ Free(ip)' # {}
           \/ \E c : c \notin Free(ip) /\ Free(ip) \cup {c} \subseteq Free(ip)'
    PROVE  ThrottleInv'
<1> DEFINE now == clock.now + 1
<1>1. AddsFailure(fails, fails', ip, now, evicted') /\ evicted \subseteq evicted'
  BY RecordedTable
<1>2. clock' = [clock EXCEPT !.now = now] /\ guesses' = [guesses EXCEPT ![ip] = guesses[ip] \cup {now}]
  BY DEF RecordFailure
<1>3. /\ clock \in [now : Nat, cutoff : Nat] /\ clock.cutoff <= clock.now /\ now \in Nat
      /\ guesses \in [Ips -> SUBSET Nat] /\ \A p \in Ips : guesses[p] \subseteq 1..clock.now
  BY DEF ThrottleInv
<1>4. clock' \in [now : Nat, cutoff : Nat] /\ clock'.cutoff = clock.cutoff /\ clock'.now = now
  BY <1>2, <1>3
<1>5. /\ guesses' \in [Ips -> SUBSET Nat] /\ guesses'[ip] = guesses[ip] \cup {now}
      /\ \A p \in Ips \ {ip} : guesses'[p] = guesses[p]
  BY <1>2, <1>3
<1>6. ASSUME NEW p \in Ips PROVE guesses'[p] \subseteq 1..now
  <2>1. 1..clock.now \subseteq 1..now /\ now \in 1..now
    BY <1>3
  <2> QED BY <1>3, <1>5, <2>1
<1> HIDE DEF now
<1>7. ASSUME NEW p \in Ips \ evicted' PROVE Fair(p)'
  <2>1. p \in Ips \ evicted /\ Fair(p)
    BY <1>1 DEF ThrottleInv
  <2>2. guesses'[p] = Live(fails', p, clock'.cutoff)
    BY <1>1, <1>4, <1>5, <2>1 DEF Fair, AddsFailure
  <2>3. /\ IsFiniteSet(guesses[p]) /\ Cardinality(guesses[p]) \in Nat /\ Cardinality(Free(p)) \in Nat
        /\ Cardinality(Free(p))' \in Nat /\ MaxFailures \in Nat
        /\ Cardinality(guesses[p]) < MaxFailures + Cardinality(Free(p))
    BY <2>1, GuessesFinite, FreeFinite, ImapAccessAssumption DEF Fair
  <2>4. CASE p # ip
    <3>1. Cardinality(Free(p)) <= Cardinality(Free(p))'
      BY <2>4, FreeGrows
    <3>2. guesses'[p] = guesses[p]
      BY <1>5, <2>4
    <3>3. Cardinality(guesses'[p]) < MaxFailures + Cardinality(Free(p))'
      BY <2>3, <3>1, <3>2
    <3> QED BY <2>2, <3>3 DEF Fair
  <2>5. CASE p = ip
    <3> DEFINE S == guesses[p]
               n == Cardinality(guesses'[p])
    <3>1. n \in Nat /\ n <= Cardinality(S) + 1
      <4>1. guesses'[p] = S \cup {now}
        BY <1>5, <2>5
      <4>2. IsFiniteSet(S) /\ Cardinality(S) \in Nat
        BY <2>3
      <4> HIDE DEF S
      <4>3. /\ IsFiniteSet(S \cup {now})
            /\ Cardinality(S \cup {now}) = IF now \in S THEN Cardinality(S) ELSE Cardinality(S) + 1
        BY <4>2, FS_AddElement
      <4> QED BY <4>1, <4>2, <4>3
    <3> HIDE DEF n
    <3>2. n < MaxFailures + Cardinality(Free(p))'
      <4>1. CASE ~Blocked(ip) /\ Free(ip)' # {}
        <5>1. Cardinality(S) + 1 <= MaxFailures
          BY <2>1, <2>5, <4>1, LetIn
        <5>2. Cardinality(Free(p))' # 0
          BY <2>5, <4>1, FreeSome
        <5> QED BY <2>3, <3>1, <5>1, <5>2
      <4>2. CASE \E c : c \notin Free(ip) /\ Free(ip) \cup {c} \subseteq Free(ip)'
        <5>1. Cardinality(Free(p)) + 1 <= Cardinality(Free(p))'
          BY <2>5, <4>2, FreeGains
        <5> QED BY <2>3, <3>1, <5>1
      <4> QED BY <4>1, <4>2
    <3> QED BY <2>2, <3>2 DEF Fair, n
  <2> QED BY <2>4, <2>5
<1>8. Book(fails') /\ clock'.cutoff <= clock'.now
  BY <1>1, <1>3, <1>4 DEF AddsFailure, now
<1> QED BY <1>4, <1>5, <1>6, <1>7, <1>8 DEF ThrottleInv

\* The window moves: what leaves it leaves both.
LEMMA LapseFair == ASSUME ThrottleInv, Lapse PROVE ThrottleInv'
<1> DEFINE cut == clock.cutoff + 1
<1>1. /\ clock \in [now : Nat, cutoff : Nat] /\ clock.cutoff < clock.now
      /\ clock' = [clock EXCEPT !.cutoff = cut]
      /\ guesses \in [Ips -> SUBSET Nat] /\ \A p \in Ips : guesses[p] \subseteq 1..clock.now
      /\ guesses' = [ip \in Ips |-> {t \in guesses[ip] : t > cut}]
      /\ UNCHANGED <<conn, fails, checks, evicted>>
  BY DEF ThrottleInv, Lapse
<1>2. clock' \in [now : Nat, cutoff : Nat] /\ clock'.cutoff = cut /\ clock'.now = clock.now /\ cut <= clock.now
  BY <1>1
<1>3. ASSUME NEW p \in Ips PROVE guesses'[p] = {t \in guesses[p] : t > cut} /\ guesses'[p] \subseteq guesses[p]
  BY <1>1
<1>4. guesses' \in [Ips -> SUBSET Nat]
  BY <1>1, <1>3
<1>5. ASSUME NEW p \in Ips \ evicted PROVE Fair(p)'
  <2>1. guesses[p] = Live(fails, p, clock.cutoff) /\ Cardinality(guesses[p]) < MaxFailures + Cardinality(Free(p))
    BY DEF ThrottleInv, Fair
  <2>2. Live(fails, p, cut) = {t \in Live(fails, p, clock.cutoff) : t > cut}
    <3>1. Book(fails) /\ clock.cutoff \in Nat
      BY <1>1 DEF ThrottleInv
    <3>2. CASE p \in Tracked(fails)
      <4>1. fails[At(fails, p)].times \subseteq Nat
        BY <3>1, <3>2, AtFacts, BookFacts DEF Row
      <4> QED BY <3>1, <3>2, <4>1 DEF Live
    <3>3. CASE p \notin Tracked(fails)
      BY <3>3 DEF Live
    <3> QED BY <3>2, <3>3
  <2>3. guesses'[p] = Live(fails', p, clock'.cutoff)
    BY <1>1, <1>2, <1>3, <2>1, <2>2
  <2>4. Cardinality(guesses'[p]) <= Cardinality(guesses[p])
    BY <1>3, GuessesFinite, FS_Subset
  <2>5. Cardinality(guesses'[p]) \in Nat /\ Cardinality(guesses[p]) \in Nat
    BY <1>3, GuessesFinite, FS_Subset, FS_CardinalityType
  <2>6. Free(p)' = Free(p)
    BY <1>1 DEF Free
  <2>7. Cardinality(guesses'[p]) < MaxFailures + Cardinality(Free(p)')
    BY <2>1, <2>4, <2>5, <2>6, FreeFinite, ImapAccessAssumption
  <2> QED BY <2>3, <2>7 DEF Fair
<1> QED BY <1>1, <1>2, <1>3, <1>4, <1>5 DEF ThrottleInv

\* Of all connections at most c changes, and it does not begin to wait.
LEMMA OneSettles ==
    ASSUME Inv, NEW c \in Conns, NEW r, conn' = [conn EXCEPT ![c] = r], UNCHANGED checks,
           conn[c].phase = "ready" => r.phase = "ready"
    PROVE  \A ip \in Ips : Free(ip) \subseteq Free(ip)'
<1>1. conn \in [Conns -> Connection]
  BY DEF Inv, Types
<1> QED BY <1>1 DEF Free

LEMMA RanSettles ==
    ASSUME Inv, NEW c \in Conns, NEW s, Ran(c, s), UNCHANGED checks,
           conn[c].phase = "ready" => s.phase = "ready"
    PROVE  \A ip \in Ips : Free(ip) \subseteq Free(ip)'
<1>1. PICK r : conn' = [conn EXCEPT ![c] = r] /\ r.phase = s.phase
  BY RanRecord
<1> QED BY <1>1, OneSettles

\* Nothing happens to the throttle, and nobody begins to wait.
LEMMA ThrottleRests ==
    ASSUME ThrottleInv, UNCHANGED Throttle, \A ip \in Ips : Free(ip) \subseteq Free(ip)'
    PROVE  ThrottleInv'
<1>1. UNCHANGED <<clock, guesses, evicted>> /\ fails' = fails
  BY DEF Throttle
<1>2. Forgot(fails, fails')
  BY <1>1 DEF Forgot, ThrottleInv
<1> QED BY <1>1, <1>2, NoFailure

LEMMA ShutThrottle == ASSUME Inv, ThrottleInv, NEW S, Shut(S), UNCHANGED Throttle PROVE ThrottleInv'
<1>1. ASSUME NEW c \in Conns, conn[c].phase = "ready" PROVE conn'[c].phase = "ready"
  <2>1. CASE c \notin S
    BY <1>1, <2>1 DEF Shut
  <2>2. CASE c \in S
    <3>1. conn'[c] = Fresh
      BY <1>1, <2>2 DEF Shut
    <3> QED BY <3>1 DEF Fresh
  <2> QED BY <2>1, <2>2
<1>2. \A ip \in Ips : Free(ip) \subseteq Free(ip)'
  BY <1>1 DEF Free, Throttle
<1> QED BY <1>2, ThrottleRests

LEMMA PrunedStep == ASSUME ThrottleInv, NEW ip, fails' = Pruned(fails, ip) PROVE Forgot(fails, fails')
<1>1. Forgot(fails, Pruned(fails, ip))
  BY PrunedForgets DEF ThrottleInv
<1> QED BY <1>1

LEMMA IpOf == \A c \in Conns \cup Submitters : Ip[c] \in Ips
BY ImapAccessAssumption

LEMMA LoginThrottle ==
    ASSUME Inv, ThrottleInv, NEW c \in Conns, NEW l \in Logins, NEW try \in Tries(l), Login(c, l, try)
    PROVE  ThrottleInv'
<1> DEFINE s == [conn[c] EXCEPT !.phase = "primary", !.login = l, !.try = try, !.row = account[l].primary]
<1>1. Forgot(fails, fails') /\ UNCHANGED <<clock, checks, guesses, evicted>> /\ ~Blocked(Ip[c])
  BY PrunedStep DEF Login
<1>2. Ran(c, s)
  BY DEF Login
<1> HIDE DEF s
<1>3. PICK r : conn' = [conn EXCEPT ![c] = r]
  BY <1>2, RanRecord
<1>4. \A ip \in Ips : Free(ip) \subseteq Free(ip)' \/ ~Blocked(ip)
  <2>1. conn \in [Conns -> Connection]
    BY DEF Inv, Types
  <2>2. \A ip \in Ips \ {Ip[c]} : Free(ip) \subseteq Free(ip)'
    BY <1>1, <1>3, <2>1, ImapAccessAssumption DEF Free
  <2> QED BY <1>1, <2>2
<1> QED BY <1>1, <1>4, NoFailure

LEMMA RefusedLogins ==
    ASSUME Inv, ThrottleInv, NEW c \in Conns, LoginBlocked(c) \/ \E l \in Logins : LoginDisabled(c, l)
    PROVE  ThrottleInv'
<1>1. \A ip \in Ips : Free(ip) \subseteq Free(ip)'
  BY RanSettles DEF LoginBlocked, LoginDisabled
<1>2. CASE LoginBlocked(c)
  <2>1. Forgot(fails, fails') /\ UNCHANGED <<clock, guesses, evicted>>
    BY <1>2, PrunedStep DEF LoginBlocked
  <2> QED BY <1>1, <2>1, NoFailure
<1>3. CASE \E l \in Logins : LoginDisabled(c, l)
  <2>1. RecordFailure(Ip[c]) /\ ~Blocked(Ip[c]) /\ c \in Free(Ip[c])
    BY <1>3 DEF LoginDisabled, MayLogin, Free
  <2>2. Free(Ip[c])' # {}
    BY <1>1, <2>1, IpOf
  <2> QED BY <1>1, <2>1, <2>2, IpOf, Failed
<1> QED BY <1>2, <1>3

\* The answer to a guess: the connection that waited for it does no longer.
LEMMA RefuseThrottle ==
    ASSUME Inv, ThrottleInv, NEW c \in Conns, Refuse(c), conn[c].phase # "ready"
    PROVE  ThrottleInv'
<1> DEFINE s == [conn[c] EXCEPT !.phase = "ready", !.login = Nobody, !.try = 0, !.row = 0, !.list = {}]
<1>1. s.phase = "ready" /\ conn \in [Conns -> Connection]
  BY DEF Inv, Types, Connection
<1>2. conn' = [conn EXCEPT ![c] = s] /\ RecordFailure(Ip[c]) /\ UNCHANGED checks
  BY DEF Refuse
<1> HIDE DEF s
<1>3. \A p \in Ips \ {Ip[c]} : Free(p) \subseteq Free(p)'
  BY <1>1, <1>2, OneSettles
<1>4. c \notin Free(Ip[c]) /\ Free(Ip[c]) \cup {c} \subseteq Free(Ip[c])'
  BY <1>1, <1>2, ImapAccessAssumption DEF Free
<1> QED BY <1>2, <1>3, <1>4, IpOf, Failed

LEMMA BindThrottle ==
    ASSUME Inv, ThrottleInv, NEW c \in Conns, Bind(c), conn[c].phase # "ready"
    PROVE  ThrottleInv'
<1> DEFINE s == [conn[c] EXCEPT !.phase = "authed", !.row = 0, !.list = {}, !.since = Tag(conn[c].login)]
<1>1. CASE Refuse(c)
  BY <1>1, RefuseThrottle
<1>2. CASE ~Refuse(c)
  <2>1. conn' = [conn EXCEPT ![c] = s] /\ RecordSuccess(Ip[c])
        /\ UNCHANGED <<clock, checks, guesses, evicted>>
    BY <1>2 DEF Bind
  <2> HIDE DEF s
  <2>2. \A ip \in Ips : Free(ip) \subseteq Free(ip)'
    BY <2>1, OneSettles
  <2>3. Forgot(fails, fails')
    BY <2>1, PrunedStep DEF RecordSuccess
  <2> QED BY <2>1, <2>2, <2>3, NoFailure
<1> QED BY <1>1, <1>2

LEMMA VerifyThrottle ==
    ASSUME Inv, ThrottleInv, NEW c \in Conns, VerifyPrimary(c) \/ VerifyApps(c)
    PROVE  ThrottleInv'
<1> DEFINE apps == account[conn[c].login].apps
           s == [conn[c] EXCEPT !.phase = "apps", !.list = apps]
<1>1. conn[c].phase # "ready" /\ conn \in [Conns -> Connection]
  BY DEF VerifyPrimary, VerifyApps, Inv, Types
<1>2. CASE Bind(c) \/ Refuse(c)
  BY <1>1, <1>2, BindThrottle, RefuseThrottle
<1>3. CASE ~(Bind(c) \/ Refuse(c))
  <2>1. conn' = [conn EXCEPT ![c].phase = "apps", ![c].list = apps] /\ UNCHANGED Throttle
    BY <1>3 DEF VerifyPrimary, VerifyApps
  <2> HIDE DEF apps
  <2>2. conn' = [conn EXCEPT ![c] = s]
    BY <1>1, <2>1
  <2> HIDE DEF s
  <2>3. \A ip \in Ips : Free(ip) \subseteq Free(ip)'
    BY <1>1, <2>1, <2>2, OneSettles DEF Throttle
  <2> QED BY <2>1, <2>3, ThrottleRests
<1> QED BY <1>2, <1>3

\* A command of a session, which waits for no answer.
LEMMA CommandThrottle ==
    ASSUME Inv, ThrottleInv, NEW c \in Conns,
           \/ Select(c) \/ Idle(c) \/ Done(c) \/ Literal(c) \/ LiteralThrows(c)
           \/ \E size \in Sizes : AppendMail(c, size)
    PROVE  ThrottleInv'
<1>1. UNCHANGED Throttle
  BY DEF Select, Idle, Done, Literal, LiteralThrows, AppendMail
<1>2. \E s : Ran(c, s) /\ s.phase = conn[c].phase
  <2>1. \A x : /\ [conn[c] EXCEPT !.sel = x].phase = conn[c].phase
               /\ [conn[c] EXCEPT !.idle = x].phase = conn[c].phase
               /\ [conn[c] EXCEPT !.pending = x].phase = conn[c].phase
    OBVIOUS
  <2> QED BY <2>1 DEF Select, Idle, Done, Literal, LiteralThrows, AppendMail
<1>3. \A ip \in Ips : Free(ip) \subseteq Free(ip)'
  BY <1>1, <1>2, RanSettles DEF Throttle
<1> QED BY <1>1, <1>3, ThrottleRests

LEMMA CutThrottle == ASSUME Inv, ThrottleInv, NEW c \in Conns, CutDisabled(c) PROVE ThrottleInv'
<1>1. UNCHANGED Throttle
  BY DEF CutDisabled
<1>2. CASE conn[c].up
  BY <1>1, <1>2, ShutThrottle DEF CutDisabled
<1>3. CASE ~conn[c].up
  <2> DEFINE s == [conn[c] EXCEPT !.ahead = 0]
  <2>1. s.phase = conn[c].phase /\ conn' = [conn EXCEPT ![c] = s]
    BY <1>3 DEF CutDisabled
  <2> HIDE DEF s
  <2>2. \A ip \in Ips : Free(ip) \subseteq Free(ip)'
    BY <1>1, <2>1, OneSettles DEF Throttle
  <2> QED BY <1>1, <2>2, ThrottleRests
<1> QED BY <1>2, <1>3

\* A handler of the submission port waits, like a connection, only if it was let
\* in, and no longer once its guess has failed.
LEMMA SubmissionThrottle ==
    ASSUME Inv, ThrottleInv, NEW d \in Submitters,
           Submission(d) \/ SubmissionFails(d) \/ SubmissionPasses(d)
    PROVE  ThrottleInv'
<1>1. UNCHANGED conn /\ Ip[d] \in Ips
  BY IpOf DEF Submission, SubmissionFails, SubmissionPasses
<1>2. CASE Submission(d)
  <2>1. Forgot(fails, fails') /\ UNCHANGED <<clock, guesses, evicted>>
    BY <1>2, PrunedStep DEF Submission
  <2>2. checks' = IF Blocked(Ip[d]) THEN checks ELSE checks \cup {d}
    BY <1>2 DEF Submission
  <2>3. \A ip \in Ips : Free(ip) \subseteq Free(ip)' \/ ~Blocked(ip)
    <3>1. CASE Blocked(Ip[d])
      BY <1>1, <2>2, <3>1 DEF Free
    <3>2. CASE ~Blocked(Ip[d])
      <4>1. \A ip \in Ips \ {Ip[d]} : Free(ip) \subseteq Free(ip)'
        BY <1>1, <2>2, <3>2 DEF Free
      <4> QED BY <3>2, <4>1
    <3> QED BY <3>1, <3>2
  <2> QED BY <2>1, <2>3, NoFailure
<1>3. CASE SubmissionFails(d)
  <2>1. RecordFailure(Ip[d]) /\ d \in checks /\ checks' = checks \ {d}
    BY <1>3 DEF SubmissionFails
  <2>2. \A ip \in Ips : Free(ip) \subseteq Free(ip)'
    BY <1>1, <2>1 DEF Free
  <2>3. d \notin Free(Ip[d]) /\ Free(Ip[d]) \cup {d} \subseteq Free(Ip[d])'
    BY <1>1, <2>1, ImapAccessAssumption DEF Free
  <2> QED BY <1>1, <2>1, <2>2, <2>3, Failed
<1>4. CASE SubmissionPasses(d)
  <2>1. Forgot(fails, fails') /\ UNCHANGED <<clock, guesses, evicted>> /\ checks' = checks \ {d}
    BY <1>4, PrunedStep DEF SubmissionPasses, RecordSuccess
  <2>2. \A ip \in Ips : Free(ip) \subseteq Free(ip)'
    BY <1>1, <2>1 DEF Free
  <2> QED BY <2>1, <2>2, NoFailure
<1> QED BY <1>2, <1>3, <1>4

LEMMA InitThrottle == Init => ThrottleInv
<1> SUFFICES ASSUME Init PROVE ThrottleInv
  OBVIOUS
<1>1. /\ fails = <<>> /\ clock = [now |-> 0, cutoff |-> 0] /\ guesses = [ip \in Ips |-> {}]
  BY DEF Init
<1>2. Book(<<>>) /\ Tracked(<<>>) = {}
  BY EmptySeq DEF Book, Tracked
<1>3. \A ip \in Ips : Fair(ip)
  <2> SUFFICES ASSUME NEW ip \in Ips PROVE Fair(ip)
    OBVIOUS
  <2>1. guesses[ip] = {} /\ Live(fails, ip, clock.cutoff) = {}
    BY <1>1, <1>2 DEF Live
  <2> QED BY <2>1, FreeFinite, FS_EmptySet, ImapAccessAssumption DEF Fair
<1> QED BY <1>1, <1>2, <1>3 DEF ThrottleInv

LEMMA StepThrottle == Inv /\ ThrottleInv /\ [Next]_vars => ThrottleInv'
<1> SUFFICES ASSUME Inv, ThrottleInv, [Next]_vars PROVE ThrottleInv'
  OBVIOUS
<1>1. CASE \/ UNCHANGED vars
           \/ \E l \in Managed :
                 \/ \E on \in BOOLEAN : SetEnabled(l, on) \/ SetPassword(l, on)
                 \/ AddAppPassword(l)
                 \/ \E a \in account[l].apps : RemoveAppPassword(l, a)
  <2>1. UNCHANGED conn /\ UNCHANGED Throttle
    BY <1>1 DEF vars, Throttle, SetEnabled, SetPassword, AddAppPassword, RemoveAppPassword, Operator
  <2>2. \A ip \in Ips : Free(ip) \subseteq Free(ip)'
    BY <2>1 DEF Free, Throttle
  <2> QED BY <2>1, <2>2, ThrottleRests
<1>2. CASE Lapse
  BY <1>2, LapseFair
<1>3. CASE Sweep
  BY <1>3, ShutThrottle DEF Sweep
<1>4. ASSUME NEW d \in Submitters, Submission(d) \/ SubmissionFails(d) \/ SubmissionPasses(d)
      PROVE  ThrottleInv'
  BY <1>4, SubmissionThrottle
<1>5. ASSUME NEW c \in Conns, Close(c) PROVE ThrottleInv'
  BY <1>5, ShutThrottle DEF Close, Throttle
<1>6. ASSUME NEW c \in Conns, LoginBlocked(c) \/ VerifyPrimary(c) \/ VerifyApps(c) \/ CutDisabled(c)
      PROVE  ThrottleInv'
  BY <1>6, RefusedLogins, VerifyThrottle, CutThrottle
<1>7. ASSUME NEW c \in Conns, \E l \in Logins : LoginDisabled(c, l) \/ \E try \in Tries(l) : Login(c, l, try)
      PROVE  ThrottleInv'
  BY <1>7, RefusedLogins, LoginThrottle
<1>8. ASSUME NEW c \in Conns,
             \/ Select(c) \/ Idle(c) \/ Done(c) \/ Literal(c) \/ LiteralThrows(c)
             \/ \E size \in Sizes : AppendMail(c, size)
      PROVE  ThrottleInv'
  BY <1>8, CommandThrottle
<1> QED BY <1>1, <1>2, <1>3, <1>4, <1>5, <1>6, <1>7, <1>8 DEF Next

\* An address gets fewer wrong guesses in a window than the limit and its handlers
\* that do not await a check, IMAP's and the submission port's alike: past the
\* limit only the checks already awaited can fail.  Whatever succeeds in between,
\* and unless others made the throttle forget it (AuthThrottle, authBlocked and
\* isBlocked before each check).
THEOREM GuessesBoundedAlways == Spec => []GuessesBounded
<1>1. ThrottleInv => GuessesBounded
  BY DEF ThrottleInv, Fair, GuessesBounded
<1> QED BY <1>1, InitInv, StepInv, InitThrottle, StepThrottle, PTL DEF Spec

-----------------------------------------------------------------------------
(* Types. *)

\* An account's row, and a connection, when m credentials were drawn.
RowType(m) == [enabled : BOOLEAN, primary : 1..m, apps : SUBSET (1..m)]

ConnType(m) ==
    [up : BOOLEAN, ahead : Nat, phase : Phases, login : Logins \cup {Nobody},
     try : Nat, row : Nat, list : SUBSET (1..m), pending : Sizes \cup {0},
     sel : Logins \cup {Nobody}, idle : BOOLEAN, since : (Nat \X SUBSET Nat) \cup {<<>>}]

TypesInv ==
    /\ minted \in Nat /\ account \in [Logins -> RowType(minted)]
    /\ cached \subseteq Logins
    /\ conn \in [Conns -> ConnType(minted)]
    /\ DOMAIN sessions \subseteq Conns
    /\ \A c \in DOMAIN sessions : sessions[c].login \in Logins
    /\ checks \subseteq Submitters

LEMMA MoreCredentials ==
    ASSUME NEW m \in Nat, NEW n \in Nat, m <= n
    PROVE  RowType(m) \subseteq RowType(n) /\ ConnType(m) \subseteq ConnType(n)
<1>1. 1..m \subseteq 1..n
  OBVIOUS
<1> QED BY <1>1 DEF RowType, ConnType

\* Only c changes, to a connection.
LEMMA TypedStep ==
    ASSUME TypesInv, NEW c \in Conns, NEW r \in ConnType(minted), conn' = [conn EXCEPT ![c] = r],
           UNCHANGED <<account, minted, cached, sessions, checks>>
    PROVE  TypesInv'
<1>1. conn' \in [Conns -> ConnType(minted')]
  BY DEF TypesInv
<1> QED BY <1>1 DEF TypesInv

\* The handler of c runs, and what it holds becomes s.
LEMMA TypedRan ==
    ASSUME TypesInv, NEW c \in Conns, NEW s \in ConnType(minted), Ran(c, s), Runs(c),
           s.up = conn[c].up, s.ahead = conn[c].ahead,
           UNCHANGED <<account, minted, cached, sessions, checks>>
    PROVE  TypesInv'
<1> DEFINE r == IF s.up THEN s ELSE [s EXCEPT !.ahead = @ - 1]
<1>1. r \in ConnType(minted)
  <2>1. CASE s.up
    BY <2>1
  <2>2. CASE ~s.up
    <3>1. s.ahead \in Nat /\ s.ahead > 0
      BY <2>2 DEF Runs, ConnType
    <3>2. s.ahead - 1 \in Nat
      BY <3>1
    <3> QED BY <2>2, <3>2 DEF ConnType
  <2> QED BY <2>1, <2>2
<1>2. conn' = [conn EXCEPT ![c] = r]
  BY DEF Ran
<1> HIDE DEF r
<1> QED BY <1>1, <1>2, TypedStep

LEMMA FreshTyped == ASSUME NEW m \in Nat PROVE Fresh \in ConnType(m)
BY DEF Fresh, ConnType, Phases

LEMMA ShutTyped ==
    ASSUME TypesInv, NEW S, Shut(S), UNCHANGED <<account, minted, cached, checks>>
    PROVE  TypesInv'
<1>1. ASSUME NEW c \in Conns PROVE conn'[c] \in ConnType(minted)
  <2>1. conn[c] \in ConnType(minted) /\ MaxAhead \in Nat /\ Fresh \in ConnType(minted)
    BY Constants, FreshTyped DEF TypesInv
  <2> DEFINE s == [conn[c] EXCEPT !.up = FALSE, !.ahead = MaxAhead]
  <2>2. s \in ConnType(minted)
    BY <2>1 DEF ConnType
  <2>3. conn'[c] \in {conn[c], s, Fresh}
    BY DEF Shut
  <2> HIDE DEF s
  <2> QED BY <2>1, <2>2, <2>3
<1>2. DOMAIN conn' = Conns /\ conn' = [c \in Conns |-> conn'[c]]
  BY DEF Shut
<1>3. conn' \in [Conns -> ConnType(minted')]
  BY <1>1, <1>2
<1>4. /\ DOMAIN sessions' \subseteq DOMAIN sessions
      /\ \A c \in DOMAIN sessions' : sessions'[c] = sessions[c]
  BY DEF Shut
<1> QED BY <1>3, <1>4 DEF TypesInv

LEMMA RefuseTyped ==
    ASSUME TypesInv, NEW c \in Conns, Refuse(c), UNCHANGED cached
    PROVE  TypesInv'
<1> DEFINE s == [conn[c] EXCEPT !.phase = "ready", !.login = Nobody, !.try = 0, !.row = 0, !.list = {}]
<1>1. s \in ConnType(minted)
  <2>1. conn[c] \in ConnType(minted)
    BY DEF TypesInv
  <2> QED BY <2>1 DEF ConnType, Phases
<1>2. conn' = [conn EXCEPT ![c] = s] /\ UNCHANGED <<account, minted, sessions, checks>>
  BY DEF Refuse
<1> HIDE DEF s
<1> QED BY <1>1, <1>2, TypedStep

LEMMA BindTyped ==
    ASSUME TypesInv, NEW c \in Conns, Bind(c), conn[c].login \in Logins
    PROVE  TypesInv'
<1> DEFINE l == conn[c].login
<1>1. CASE ~(l \in cached \/ account[l].enabled)
  BY <1>1, RefuseTyped DEF Bind
<1>2. CASE l \in cached \/ account[l].enabled
  <2> DEFINE s == [conn[c] EXCEPT !.phase = "authed", !.row = 0, !.list = {}, !.since = Tag(l)]
  <2>1. s \in ConnType(minted)
    <3>1. Tag(l) \in Nat \X SUBSET Nat
      <4>1. account[l] \in RowType(minted)
        BY DEF TypesInv
      <4>2. account[l].primary \in Nat /\ account[l].apps \subseteq Nat
        BY <4>1 DEF RowType, TypesInv
      <4> QED BY <4>2 DEF Tag
    <3>2. conn[c] \in ConnType(minted)
      BY DEF TypesInv
    <3> HIDE DEF l
    <3> QED BY <3>1, <3>2 DEF ConnType, Phases
  <2>2. /\ conn' = [conn EXCEPT ![c] = s] /\ UNCHANGED <<account, minted, checks>>
        /\ cached' = cached \cup {l}
        /\ sessions' = [d \in DOMAIN sessions \cup {c} |->
                          IF d = c THEN [login |-> l, tag |-> Tag(l)] ELSE sessions[d]]
    BY <1>2 DEF Bind
  <2> HIDE DEF s
  <2>3. conn' \in [Conns -> ConnType(minted')]
    BY <2>1, <2>2 DEF TypesInv
  <2>4. DOMAIN sessions' \subseteq Conns /\ \A d \in DOMAIN sessions' : sessions'[d].login \in Logins
    BY <2>2 DEF TypesInv
  <2> QED BY <2>2, <2>3, <2>4 DEF TypesInv
<1> QED BY <1>1, <1>2

\* A login, up to the answer.
LEMMA LoginTyped ==
    ASSUME Inv, TypesInv, NEW c \in Conns,
           \/ LoginBlocked(c) \/ VerifyPrimary(c) \/ VerifyApps(c)
           \/ \E l \in Logins : LoginDisabled(c, l) \/ \E try \in Tries(l) : Login(c, l, try)
    PROVE  TypesInv'
<1>1. conn[c] \in ConnType(minted) /\ \A l \in Logins : account[l] \in RowType(minted)
  BY DEF TypesInv
<1>2. CASE LoginBlocked(c)
  BY <1>1, <1>2, TypedRan DEF LoginBlocked, MayLogin, Accounts
<1>3. ASSUME NEW l \in Logins, LoginDisabled(c, l) PROVE TypesInv'
  BY <1>1, <1>3, TypedRan DEF LoginDisabled, MayLogin, Accounts
<1>4. ASSUME NEW l \in Logins, NEW try \in Tries(l), Login(c, l, try) PROVE TypesInv'
  <2> DEFINE s == [conn[c] EXCEPT !.phase = "primary", !.login = l, !.try = try, !.row = account[l].primary]
  <2>1. try \in Nat /\ account[l].primary \in Nat
    BY <1>1 DEF Tries, RowType, TypesInv
  <2>2. s \in ConnType(minted) /\ s.up = conn[c].up /\ s.ahead = conn[c].ahead
    BY <1>1, <2>1 DEF ConnType, Phases
  <2>3. Ran(c, s) /\ Runs(c) /\ UNCHANGED <<account, minted, cached, sessions, checks>>
    BY <1>4 DEF Login, MayLogin, Accounts
  <2> HIDE DEF s
  <2> QED BY <2>2, <2>3, TypedRan
<1>5. CASE VerifyPrimary(c) \/ VerifyApps(c)
  <2>1. conn[c].login \in Logins
    BY <1>5 DEF VerifyPrimary, VerifyApps, Inv, Listed
  <2>2. CASE Bind(c) \/ (Refuse(c) /\ UNCHANGED cached)
    BY <2>1, <2>2, BindTyped, RefuseTyped
  <2>3. CASE ~(Bind(c) \/ (Refuse(c) /\ UNCHANGED cached))
    <3> DEFINE apps == account[conn[c].login].apps
               s == [conn[c] EXCEPT !.phase = "apps", !.list = apps]
    <3>1. conn' = [conn EXCEPT ![c].phase = "apps", ![c].list = apps]
          /\ UNCHANGED <<Accounts, cached, sessions, Throttle>>
      BY <1>5, <2>3 DEF VerifyPrimary, VerifyApps
    <3>2. apps \in SUBSET (1..minted)
      BY <1>1, <2>1 DEF RowType
    <3> HIDE DEF apps
    <3>3. conn' = [conn EXCEPT ![c] = s]
      BY <3>1 DEF TypesInv
    <3>4. s \in ConnType(minted)
      BY <1>1, <3>2 DEF ConnType, Phases
    <3> HIDE DEF s
    <3> QED BY <3>1, <3>3, <3>4, TypedStep DEF Accounts, Throttle
  <2> QED BY <2>2, <2>3
<1> QED BY <1>2, <1>3, <1>4, <1>5

LEMMA CommandTyped ==
    ASSUME TypesInv, NEW c \in Conns,
           \/ Select(c) \/ Idle(c) \/ Done(c) \/ Literal(c) \/ LiteralThrows(c)
           \/ \E size \in Sizes : AppendMail(c, size)
    PROVE  TypesInv'
<1>1. conn[c] \in ConnType(minted)
  BY DEF TypesInv
<1>2. Runs(c) /\ UNCHANGED <<account, minted, cached, sessions, checks>>
  BY DEF Select, Idle, Done, Literal, LiteralThrows, AppendMail, Admitted, Command, Accounts, Throttle
<1>3. \E s \in ConnType(minted) : Ran(c, s) /\ s.up = conn[c].up /\ s.ahead = conn[c].ahead
  <2>1. ASSUME NEW k \in Logins \cup {Nobody}
        PROVE  LET s == [conn[c] EXCEPT !.sel = k]
               IN  s \in ConnType(minted) /\ s.up = conn[c].up /\ s.ahead = conn[c].ahead
    BY <1>1 DEF ConnType
  <2>2. ASSUME NEW i \in BOOLEAN
        PROVE  LET s == [conn[c] EXCEPT !.idle = i]
               IN  s \in ConnType(minted) /\ s.up = conn[c].up /\ s.ahead = conn[c].ahead
    BY <1>1 DEF ConnType
  <2>3. ASSUME NEW p \in Sizes \cup {0}
        PROVE  LET s == [conn[c] EXCEPT !.pending = p]
               IN  s \in ConnType(minted) /\ s.up = conn[c].up /\ s.ahead = conn[c].ahead
    BY <1>1 DEF ConnType
  <2>4. CASE Select(c)
    <3>1. conn[c].login \in Logins \cup {Nobody}
      BY <1>1 DEF ConnType
    <3> QED BY <2>1, <2>4, <3>1 DEF Select
  <2>5. CASE Idle(c) \/ Done(c)
    BY <2>2, <2>5 DEF Idle, Done
  <2>6. CASE Literal(c) \/ \E size \in Sizes : AppendMail(c, size)
    BY <2>3, <2>6 DEF Literal, AppendMail
  <2>7. CASE LiteralThrows(c)
    BY <1>1, <2>7 DEF LiteralThrows
  <2> QED BY <2>4, <2>5, <2>6, <2>7
<1> QED BY <1>2, <1>3, TypedRan

LEMMA CutTyped == ASSUME TypesInv, NEW c \in Conns, CutDisabled(c) PROVE TypesInv'
<1>1. UNCHANGED <<account, minted, cached, checks>>
  BY DEF CutDisabled, Accounts, Throttle
<1>2. CASE conn[c].up
  BY <1>1, <1>2, ShutTyped DEF CutDisabled
<1>3. CASE ~conn[c].up
  <2> DEFINE s == [conn[c] EXCEPT !.ahead = 0]
  <2>1. s \in ConnType(minted)
    <3>1. conn[c] \in ConnType(minted)
      BY DEF TypesInv
    <3> QED BY <3>1 DEF ConnType
  <2>2. conn' = [conn EXCEPT ![c] = s] /\ UNCHANGED sessions
    BY <1>3 DEF CutDisabled, TypesInv
  <2> HIDE DEF s
  <2> QED BY <1>1, <2>1, <2>2, TypedStep
<1> QED BY <1>2, <1>3

LEMMA OperatorTyped ==
    ASSUME TypesInv, NEW l \in Managed,
           \/ \E on \in BOOLEAN : SetEnabled(l, on) \/ SetPassword(l, on)
           \/ AddAppPassword(l)
           \/ \E a \in account[l].apps : RemoveAppPassword(l, a)
    PROVE  TypesInv'
<1>1. l \in Logins /\ account \in [Logins -> RowType(minted)] /\ minted \in Nat
  BY ImapAccessAssumption DEF TypesInv
<1>2. UNCHANGED <<conn, sessions, cached, checks>>
  BY DEF SetEnabled, SetPassword, AddAppPassword, RemoveAppPassword, Operator, Throttle
<1>3. \E row \in RowType(minted') : account' = [account EXCEPT ![l] = row] /\ minted' \in {minted, minted + 1}
  <2>1. account[l] \in RowType(minted)
    BY <1>1
  <2>2. ASSUME NEW on \in BOOLEAN, SetEnabled(l, on)
        PROVE  \E row \in RowType(minted') : account' = [account EXCEPT ![l] = row] /\ minted' = minted
    <3> DEFINE row == [account[l] EXCEPT !.enabled = on]
    <3>1. row \in RowType(minted)
      BY <2>1 DEF RowType
    <3>2. account' = [account EXCEPT ![l] = row] /\ minted' = minted
      BY <2>2 DEF SetEnabled
    <3> HIDE DEF row
    <3> QED BY <3>1, <3>2
  <2>3. ASSUME NEW on \in BOOLEAN, SetPassword(l, on)
        PROVE  \E row \in RowType(minted') : account' = [account EXCEPT ![l] = row] /\ minted' = minted + 1
    <3> DEFINE n == minted + 1
               row == [account[l] EXCEPT !.primary = n, !.enabled = on]
    <3>1. account' = [account EXCEPT ![l] = row] /\ minted' = n
      BY <2>3 DEF SetPassword
    <3>2. account[l] \in RowType(n) /\ n \in 1..n
      BY <1>1, <2>1, MoreCredentials
    <3> HIDE DEF n
    <3>3. row \in RowType(n)
      BY <3>2 DEF RowType
    <3> HIDE DEF row
    <3> QED BY <3>1, <3>3 DEF n
  <2>4. ASSUME AddAppPassword(l)
        PROVE  \E row \in RowType(minted') : account' = [account EXCEPT ![l] = row] /\ minted' = minted + 1
    <3> DEFINE n == minted + 1
               row == [account[l] EXCEPT !.apps = account[l].apps \cup {n}]
    <3>1. account' = [account EXCEPT ![l] = row] /\ minted' = n
      BY <2>4 DEF AddAppPassword
    <3>2. account[l] \in RowType(n) /\ n \in 1..n
      BY <1>1, <2>1, MoreCredentials
    <3> HIDE DEF n
    <3>3. row \in RowType(n)
      BY <3>2 DEF RowType
    <3> HIDE DEF row
    <3> QED BY <3>1, <3>3 DEF n
  <2>5. ASSUME NEW a \in account[l].apps, RemoveAppPassword(l, a)
        PROVE  \E row \in RowType(minted') : account' = [account EXCEPT ![l] = row] /\ minted' = minted
    <3> DEFINE row == [account[l] EXCEPT !.apps = account[l].apps \ {a}]
    <3>1. row \in RowType(minted)
      BY <2>1 DEF RowType
    <3>2. account' = [account EXCEPT ![l] = row] /\ minted' = minted
      BY <2>5 DEF RemoveAppPassword
    <3> HIDE DEF row
    <3> QED BY <3>1, <3>2
  <2> QED BY <2>2, <2>3, <2>4, <2>5
<1>4. RowType(minted) \subseteq RowType(minted') /\ ConnType(minted) \subseteq ConnType(minted') /\ minted' \in Nat
  BY <1>1, <1>3, MoreCredentials
<1>5. account' \in [Logins -> RowType(minted')]
  BY <1>1, <1>3, <1>4
<1>6. conn' \in [Conns -> ConnType(minted')]
  BY <1>2, <1>4 DEF TypesInv
<1> QED BY <1>2, <1>4, <1>5, <1>6 DEF TypesInv

LEMMA InitTyped == Init => TypesInv
<1> SUFFICES ASSUME Init PROVE TypesInv
  OBVIOUS
<1>1. 1 \in Nat /\ [enabled |-> TRUE, primary |-> 1, apps |-> {}] \in RowType(1)
  BY DEF RowType
<1>2. account \in [Logins -> RowType(1)] /\ conn \in [Conns -> ConnType(1)] /\ minted = 1
  BY <1>1, FreshTyped DEF Init
<1> QED BY <1>2 DEF Init, TypesInv

LEMMA StepTyped == Inv /\ TypesInv /\ [Next]_vars => TypesInv'
<1> SUFFICES ASSUME Inv, TypesInv, [Next]_vars PROVE TypesInv'
  OBVIOUS
<1>1. CASE \/ Lapse \/ UNCHANGED vars
           \/ \E d \in Submitters : Submission(d) \/ SubmissionFails(d) \/ SubmissionPasses(d)
  BY <1>1 DEF TypesInv, Lapse, Submission, SubmissionFails, SubmissionPasses, vars
<1>2. CASE Sweep
  BY <1>2, ShutTyped DEF Sweep, Accounts, Throttle
<1>3. ASSUME NEW c \in Conns, Close(c) PROVE TypesInv'
  BY <1>3, ShutTyped DEF Close, Throttle
<1>4. ASSUME NEW l \in Managed,
             \/ \E on \in BOOLEAN : SetEnabled(l, on) \/ SetPassword(l, on)
             \/ AddAppPassword(l)
             \/ \E a \in account[l].apps : RemoveAppPassword(l, a)
      PROVE  TypesInv'
  BY <1>4, OperatorTyped
<1>5. ASSUME NEW c \in Conns,
             \/ LoginBlocked(c) \/ VerifyPrimary(c) \/ VerifyApps(c)
             \/ \E l \in Logins : LoginDisabled(c, l) \/ \E try \in Tries(l) : Login(c, l, try)
      PROVE  TypesInv'
  BY <1>5, LoginTyped
<1>6. ASSUME NEW c \in Conns,
             \/ Select(c) \/ Idle(c) \/ Done(c) \/ Literal(c) \/ LiteralThrows(c) \/ CutDisabled(c)
             \/ \E size \in Sizes : AppendMail(c, size)
      PROVE  TypesInv'
  BY <1>6, CommandTyped, CutTyped
<1> QED BY <1>1, <1>2, <1>3, <1>4, <1>5, <1>6 DEF Next

\* Every reachable state is well typed; the uploads and the throttle's rows are by
\* what is said of them above.
THEOREM TypeCorrect == Spec => []TypeOK
<1>1. Inv /\ TypesInv /\ BudgetInv /\ ThrottleInv => TypeOK
  <2> SUFFICES ASSUME Inv, TypesInv, BudgetInv, ThrottleInv PROVE TypeOK
    OBVIOUS
  <2>1. DOMAIN budget.held \subseteq Conns
    BY DEF BudgetInv, Sound, Entries
  <2>2. ASSUME NEW c \in DOMAIN budget.held PROVE budget.held[c] \in Upload
    <3>1. c \in Conns /\ Matches(c) /\ Listed(c) /\ conn[c] \in ConnType(minted)
      BY <2>1 DEF BudgetInv, Inv, TypesInv
    <3>2. conn[c].pending \in Sizes /\ conn[c].login \in Logins
      BY <3>1 DEF Matches, Listed, ConnType
    <3> QED BY <3>1, <3>2 DEF Matches, Upload
  <2>3. \A k \in DOMAIN fails : fails[k] \in [ip : Ips, times : (SUBSET Nat) \ {{}}]
    BY BookFacts DEF ThrottleInv, Row
  <2> QED BY <2>1, <2>2, <2>3 DEF TypeOK, TypesInv, RowType, ConnType
<1> QED BY <1>1, InitInv, StepInv, InitTyped, StepTyped, InitBudget, StepBudget, InitThrottle, StepThrottle, PTL DEF Spec

===============================================================================
