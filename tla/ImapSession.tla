----------------------------- MODULE ImapSession -----------------------------
(***************************************************************************)
(* The selected mailbox of several IMAP connections to one account, and    *)
(* the deliveries that change it under them: imap-server.ts from SELECT to *)
(* CLOSE, mailbox-notifier.ts, and the local delivery of main.ts.  The     *)
(* store is synchronous and the process has one thread, so a command is    *)
(* one step, the pushes to idling connections included; only the death of  *)
(* the process comes between the two transactions of a MOVE.               *)
(*                                                                         *)
(* A connection keeps the uids its client was told of and the flags last   *)
(* reported.  `told` is the client's own side, built from nothing but the  *)
(* responses it is sent: EXISTS lengthens its list, EXPUNGE n strikes the  *)
(* n-th entry, VANISHED strikes by uid, FETCH reports flags.  An entry     *)
(* stands for the message the server meant by that number.  `apart` is     *)
(* neither's: history, the messages of which the client took flags while a *)
(* change to them was unreported, so that the two may differ for good.     *)
(*                                                                         *)
(* Left out: SEARCH, STATUS and LIST, which change nothing; CHANGEDSINCE   *)
(* and UNCHANGEDSINCE; what a FETCH shows but for flags.                   *)
(*                                                                         *)
(* An operator named Bug... is the definition after it as a plausible      *)
(* mistake would have it; nothing uses it.                                 *)
(***************************************************************************)
EXTENDS MailStore, SequencesExt

CONSTANTS
    Conns,          \* the account's connections, logged in
    Qresync,        \* those that enabled QRESYNC
    Examined,       \* who may open which mailbox with EXAMINE
    Idlers,         \* those that may IDLE
    Watched,        \* whose client's idea of the flags of which uid is followed
    FlagStores,     \* the STOREs clients ask for: a mode and flags
    Seen,           \* the flag \Seen
    Unknown,        \* flags the client has not been told
    MaxUid, MaxStored, MaxValidity      \* bounds

ASSUME ImapSessionAssumption ==
    /\ Qresync \cup Idlers \subseteq Conns
    /\ Watched \subseteq Conns \X Nat
    /\ Examined \subseteq Conns \X Names
    /\ FlagStores \subseteq StoreModes \X SUBSET Flags
    /\ Seen \in Flags
    /\ \A F \in SUBSET Flags : Unknown # F
    /\ {MaxUid, MaxStored, MaxValidity} \subseteq Nat

VARIABLES
    mailbox,    \* the rows of the account's database
    meta,       \* its high-water marks
    ses,        \* what each connection holds
    owed        \* history: the mails nobody has removed

vars == <<mailbox, meta, ses, owed>>

NoName == <<>>

Deselected ==
    [sel |-> 0, name |-> NoName, readOnly |-> FALSE, known |-> <<>>, flags |-> NoRows,
     idle |-> NoName, told |-> <<>>, apart |-> {}]

TypeOK ==
    /\ \A c \in Conns :
          LET s == ses[c] IN
          /\ s.sel \in Nat /\ {s.name, s.idle} \subseteq Names \cup {NoName}
          /\ (s.sel = 0) = (s.name = NoName)
          /\ s.idle \in {NoName, s.name}
          /\ \A k \in DOMAIN s.told : s.told[k].flags # Unknown => s.told[k].flags \subseteq Flags
          /\ \A u \in DOMAIN s.flags : s.flags[u] \subseteq Flags
    /\ owed \subseteq Mails

\* What a connection finds behind the id it selected: nothing, once deleted.
BoxAt(box, i) == IF i \in DOMAIN box THEN box[i] ELSE EmptyBox(NoName, 0)

\* The entries of a list at the places P, in their order.
Picked(list, P) == [k \in 1..Cardinality(P) |-> list[Ascending(P)[k]]]

Fresh(u) == [uid |-> u, flags |-> Unknown]

-----------------------------------------------------------------------------
(* Responses, and what the client makes of them. *)

BugEachStruck(told, known, gone) ==
    LET left[n \in 0..Len(known)] ==
            IF n = 0 THEN told
            ELSE IF known[n] \in gone THEN RemoveAt(left[n - 1], n) ELSE left[n - 1]
    IN  left[Len(known)]

\* An EXPUNGE for each place from the last to the first; the places are those
\* of `known`.
EachStruck(told, known, gone) ==
    LET left[n \in 0..Len(known)] ==
            IF n = 0 THEN told
            ELSE LET k == Len(known) + 1 - n
                 IN  IF known[k] \in gone THEN RemoveAt(left[n - 1], k) ELSE left[n - 1]
    IN  left[Len(known)]

\* emitExpunged: one VANISHED, or EXPUNGEs.
Struck(c, told, known, gone) ==
    IF c \in Qresync THEN Picked(told, {k \in DOMAIN told : told[k].uid \notin gone})
    ELSE EachStruck(told, known, gone)

\* EXISTS, for the messages `current`.
Lengthened(told, current) ==
    told \o [k \in 1..(Len(current) - Len(told)) |-> Fresh(current[Len(told) + k])]

\* FETCHes of the messages E with flags F[uid], each with its number, and its
\* uid if byUid: a client goes by the uid where there is one.
Hears(c, told, byUid, E, F) ==
    LET About(k) == {e \in E : IF byUid THEN e.uid = told[k].uid ELSE e.seq = k}
    IN  [k \in DOMAIN told |->
            IF <<c, told[k].uid>> \in Watched /\ About(k) # {}
            THEN [told[k] EXCEPT !.flags = F[(CHOOSE e \in About(k) : TRUE).uid]]
            ELSE told[k]]

\* After a silent STORE to the messages E the client works out their flags
\* from those it has, if it has any.
WorksOut(c, told, byUid, E, mode, F) ==
    [k \in DOMAIN told |->
        IF /\ <<c, told[k].uid>> \in Watched
           /\ \E e \in E : IF byUid THEN e.uid = told[k].uid ELSE e.seq = k
           /\ told[k].flags # Unknown \/ mode = "replace"
        THEN [told[k] EXCEPT !.flags = NewFlags(@, mode, F)]
        ELSE told[k]]

BugSync(c, s, box) ==
    LET b == BoxAt(box, s.sel)
        current == Ascending(Uids(b))
        gone == ToSet(s.known) \ Uids(b)
        kept == Struck(c, s.told, s.known, gone)
    IN  IF s.sel = 0 THEN s
        ELSE [s EXCEPT !.known = current,
                       !.flags = [u \in Uids(b) |-> b.message[u].flags],
                       !.told = Lengthened(kept, current)]

\* syncSelected: removals, then EXISTS, then the flags that differ from those
\* last reported, by their place in the live mailbox.
Sync(c, s, box) ==
    LET b == BoxAt(box, s.sel)
        current == Ascending(Uids(b))
        gone == ToSet(s.known) \ Uids(b)
        kept == Struck(c, s.told, s.known, gone)
        list == IF Uids(b) \subseteq ToSet(s.known) THEN kept ELSE Lengthened(kept, current)
        changed == {u \in Uids(b) \cap DOMAIN s.flags : s.flags[u] # b.message[u].flags}
        news == {[seq |-> Place(u, Uids(b)), uid |-> u] : u \in changed}
    IN  IF s.sel = 0 THEN s
        ELSE [s EXCEPT
                !.known = IF Uids(b) \subseteq ToSet(@) THEN Picked(@, {k \in DOMAIN @ : @[k] \in Uids(b)})
                          ELSE current,
                !.flags = [u \in Uids(b) |-> b.message[u].flags],
                !.told = Hears(c, list, FALSE, news, [u \in changed |-> b.message[u].flags]),
                !.apart = @ \ changed]

BugResolve(s, b, byUid, S) ==
    LET current == Ascending(Uids(b)) IN
    IF byUid THEN {[seq |-> Place(u, Uids(b)), uid |-> u] : u \in S \cap Uids(b)}
    ELSE {[seq |-> k, uid |-> current[k]] : k \in S \cap DOMAIN current}

\* resolveForConn: numbers are those of the connection's view; a message the
\* client has not been told of has the number of its live place.
Resolve(s, b, byUid, S) ==
    IF byUid THEN
        {[seq |-> IF u \in ToSet(s.known) THEN CHOOSE k \in DOMAIN s.known : s.known[k] = u
                  ELSE Place(u, Uids(b)),
          uid |-> u] : u \in S \cap Uids(b)}
    ELSE {[seq |-> k, uid |-> s.known[k]] : k \in {j \in S \cap DOMAIN s.known : s.known[j] \in Uids(b)}}

UidsIn(E) == {e.uid : e \in E}

\* Those of the messages E that have other flags than last reported.
Unreported(s, b, E) ==
    {u \in UidsIn(E) : u \notin DOMAIN s.flags \/ s.flags[u] # b.message[u].flags}

\* The messages a command of the client may come down to: it gives numbers it
\* was told, or uids.
Asked(s, b, byUid) ==
    {Resolve(s, b, byUid, S) : S \in (SUBSET IF byUid THEN Uids(b) ELSE DOMAIN s.told) \ {{}}}

-----------------------------------------------------------------------------
(* Steps.  A command names a mailbox; i and j are the row of that name. *)

Init ==
    /\ mailbox = [i \in {1} |-> EmptyBox(Inbox, 1)]
    /\ meta = [validity |-> 1, id |-> 1]
    /\ ses = [c \in Conns |-> Deselected]
    /\ owed = {}

Ready(c) == ses[c].idle = NoName

Selected(c) == Ready(c) /\ ses[c].sel # 0

Fits(box) ==
    /\ \A i \in DOMAIN box : box[i].uidNext <= MaxUid + 1
    /\ Cardinality(UNION {{i} \X Uids(box[i]) : i \in DOMAIN box}) <= MaxStored

\* The store becomes box, connection c's state s; those idling on a mailbox
\* named in `changed` are pushed the news.
Reply(c, s, box, changed) ==
    /\ mailbox' = box
    /\ ses' = [d \in Conns |->
                  IF d = c THEN s
                  ELSE IF ses[d].idle \in changed THEN Sync(d, ses[d], box)
                  ELSE ses[d]]

Hold == UNCHANGED <<meta, owed>>

\* Mail arrives in INBOX.
Deliver(m) ==
    /\ \E i \in Named(mailbox, Inbox) :
          LET box == [mailbox EXCEPT ![i] = Append1(@, m, {})] IN
          /\ Fits(box)
          /\ mailbox' = box
          /\ ses' = [c \in Conns |->
                        IF ses[c].idle = Inbox THEN Sync(c, ses[c], box) ELSE ses[c]]
    /\ owed' = owed \cup {m}
    /\ UNCHANGED meta

\* SELECT and EXAMINE.
Select(c, i, examine) ==
    /\ Ready(c)
    /\ LET current == Ascending(Uids(mailbox[i])) IN
       Reply(c, [sel |-> i, name |-> mailbox[i].name, readOnly |-> examine, known |-> current,
                 flags |-> [u \in Uids(mailbox[i]) |-> mailbox[i].message[u].flags],
                 idle |-> NoName, told |-> Lengthened(<<>>, current), apart |-> {}], mailbox, {})
    /\ Hold

\* NOOP and CHECK.
Noop(c) == Ready(c) /\ Reply(c, Sync(c, ses[c], mailbox), mailbox, {}) /\ Hold

AppendMail(c, i, m, F) ==
    /\ Ready(c)
    /\ LET box == [mailbox EXCEPT ![i] = Append1(@, m, F)]
           s == ses[c]
           n == mailbox[i].name
       IN  Fits(box) /\ Reply(c, IF s.name = n THEN Sync(c, s, box) ELSE s, box, {n})
    /\ owed' = owed \cup {m}
    /\ UNCHANGED meta

\* FETCH of the flags: as they are now, whatever is on record as reported.
FetchFlags(c, byUid, E) ==
    /\ LET s == ses[c]
           b == BoxAt(mailbox, s.sel)
       IN  Reply(c, [s EXCEPT !.told = Hears(c, @, byUid, E, [u \in UidsIn(E) |-> b.message[u].flags]),
                              !.apart = (@ \ UidsIn(E)) \cup Unreported(s, b, E)], mailbox, {})
    /\ UNCHANGED <<meta, owed>>

\* The record, once the flags of the messages E are Now[uid].
Recorded(flags, E, Now) ==
    [u \in DOMAIN flags \cup UidsIn(E) |-> IF u \in UidsIn(E) THEN Now[u] ELSE flags[u]]

\* The flags of the messages E become Now[uid]: on record, and the client is told.
Flagged(c, s, byUid, E, Now) ==
    [s EXCEPT !.flags = Recorded(@, E, Now),
              !.told = Hears(c, @, byUid, E, Now),
              !.apart = @ \ UidsIn(E)]

\* The client is not told; the record takes all the flags for reported even so,
\* another connection's change among them.
FlaggedSilently(c, s, b, byUid, E, Now, mode, F) ==
    [s EXCEPT !.flags = Recorded(@, E, Now),
              !.told = WorksOut(c, @, byUid, E, mode, F),
              !.apart = IF mode = "replace" THEN @ \ UidsIn(E) ELSE @ \cup Unreported(s, b, E)]

Restored(i, U, mode, F) ==
    IF U = {} THEN mailbox ELSE [mailbox EXCEPT ![i] = StoreFlagsAll(@, U, mode, F)]

\* FETCH of a body, without .PEEK: marks it read and says so.
FetchBody(c, byUid, E) ==
    /\ ~ses[c].readOnly
    /\ LET s == ses[c]
           b == BoxAt(mailbox, s.sel)
           marked == {e \in E : Seen \notin b.message[e.uid].flags}
       IN  /\ Reply(c, Flagged(c, s, byUid, marked,
                            [u \in UidsIn(marked) |-> b.message[u].flags \cup {Seen}]),
                    Restored(s.sel, UidsIn(marked), "add", {Seen}),
                    IF marked = {} THEN {} ELSE {s.name})
    /\ UNCHANGED <<meta, owed>>

StoreFlags(c, byUid, E, mode, F, silent) ==
    /\ ~ses[c].readOnly
    /\ LET s == ses[c]
           b == BoxAt(mailbox, s.sel)
           Now == [u \in UidsIn(E) |-> NewFlags(b.message[u].flags, mode, F)]
       IN  /\ Reply(c, IF silent THEN FlaggedSilently(c, s, b, byUid, E, Now, mode, F)
                       ELSE Flagged(c, s, byUid, E, Now),
                    Restored(s.sel, UidsIn(E), mode, F),
                    IF E = {} THEN {} ELSE {s.name})
    /\ UNCHANGED <<meta, owed>>

\* The messages U of box b appended to mailbox j; the messages U of i removed.
Copied(box, j, b, U) == [box EXCEPT ![j] = AppendAll(@, b, U)]

Removed(box, i, U) == IF U = {} THEN box ELSE [box EXCEPT ![i] = ExpungeAll(@, U)]

Copy(c, U, j) ==
    /\ LET s == ses[c]
           b == BoxAt(mailbox, s.sel)
           box == Copied(mailbox, j, b, U)
       IN  /\ Fits(box)
           /\ Reply(c, Sync(c, s, box), box, IF U = {} THEN {} ELSE {mailbox[j].name})
    /\ UNCHANGED <<meta, owed>>

BugMove(c, U, j) ==
    /\ ~ses[c].readOnly
    /\ LET s == ses[c]
           b == BoxAt(mailbox, s.sel)
           box == Removed(Copied(mailbox, j, b, U), s.sel, U)
       IN  /\ Fits(box)
           /\ Reply(c, Sync(c, s, box), box, IF U = {} THEN {} ELSE {mailbox[j].name})
    /\ UNCHANGED <<meta, owed>>

Move(c, U, j) ==
    /\ ~ses[c].readOnly
    /\ LET s == ses[c]
           b == BoxAt(mailbox, s.sel)
           box == Removed(Copied(mailbox, j, b, U), s.sel, U)
       IN  /\ Fits(box)
           /\ Reply(c, Sync(c, s, box), box, IF U = {} THEN {} ELSE {mailbox[j].name, s.name})
    /\ UNCHANGED <<meta, owed>>

BugMoveCut(c, U, j) ==
    /\ ~ses[c].readOnly
    /\ mailbox' = Removed(mailbox, ses[c].sel, U)
    /\ ses' = [d \in Conns |-> Deselected]
    /\ UNCHANGED <<meta, owed>>

\* The process dies between the two transactions of a MOVE, and is restarted.
MoveCut(c, U, j) ==
    /\ ~ses[c].readOnly
    /\ LET box == Copied(mailbox, j, BoxAt(mailbox, ses[c].sel), U)
       IN  Fits(box) /\ mailbox' = box
    /\ ses' = [d \in Conns |-> Deselected]
    /\ UNCHANGED <<meta, owed>>

BodiesOf(b, S) == {b.message[u].mail : u \in S}

\* The news first, then the messages `gone` the client itself removes, which
\* makes the store box.
Purge(c, gone, box) ==
    /\ Selected(c) /\ ~ses[c].readOnly
    /\ LET s == Sync(c, ses[c], mailbox)
           b == BoxAt(mailbox, s.sel)
       IN  /\ Reply(c, [s EXCEPT !.told = Struck(c, @, Ascending(Uids(b)), gone),
                                 !.known = Ascending(Uids(b) \ gone)],
                    box, IF gone = {} THEN {} ELSE {s.name})
           /\ owed' = owed \ BodiesOf(b, gone)
    /\ UNCHANGED meta

WithoutDeleted(i, gone) ==
    IF gone = {} THEN mailbox ELSE [mailbox EXCEPT ![i] = ExpungeDeletedOf(@)]

Expunge(c) ==
    LET gone == DeletedUids(BoxAt(mailbox, ses[c].sel))
    IN  Purge(c, gone, WithoutDeleted(ses[c].sel, gone))

\* UID EXPUNGE: of the messages U only.
UidExpunge(c, U) ==
    LET gone == DeletedUids(BoxAt(mailbox, ses[c].sel)) \cap U
    IN  Purge(c, gone, Removed(mailbox, ses[c].sel, gone))

\* CLOSE expunges, unless opened with EXAMINE, and tells the others only.
Close(c) ==
    /\ Ready(c)
    /\ LET s == ses[c]
           b == BoxAt(mailbox, s.sel)
           gone == IF s.readOnly THEN {} ELSE DeletedUids(b)
           box == WithoutDeleted(s.sel, gone)
       IN  /\ Reply(c, Deselected, box, IF gone = {} THEN {} ELSE {s.name})
           /\ owed' = owed \ BodiesOf(b, gone)
    /\ UNCHANGED meta

\* UNSELECT; SELECT of a mailbox that is not there; LOGOUT, or the connection
\* goes away, which ends an IDLE too.
Unselect(c) == Reply(c, Deselected, mailbox, {}) /\ Hold

Idle(c) == c \in Idlers /\ Selected(c) /\ Reply(c, [ses[c] EXCEPT !.idle = ses[c].name], mailbox, {}) /\ Hold

Done(c) == ~Ready(c) /\ Reply(c, [ses[c] EXCEPT !.idle = NoName], mailbox, {}) /\ Hold

\* Only the connection that asks is deselected.
Delete(c, i) ==
    /\ Ready(c) /\ mailbox[i].name # Inbox
    /\ mailbox' = Dropped(mailbox, mailbox[i].name)
    /\ ses' = IF ses[c].name = mailbox[i].name THEN [ses EXCEPT ![c] = Deselected] ELSE ses
    /\ owed' = owed \ BodiesOf(mailbox[i], Uids(mailbox[i]))
    /\ UNCHANGED meta

\* The others change no connection's state: whoever asks, none is told, nor its
\* name for the mailbox brought up to date.
Create(n) ==
    /\ ~Taken(mailbox, n)
    /\ meta.validity < MaxValidity
    /\ mailbox' = Made(mailbox, meta, n)
    /\ meta' = Raised(meta)
    /\ UNCHANGED <<ses, owed>>

Rename(from, to) ==
    /\ from # Inbox
    /\ CanRenameSubtree(mailbox, from, to)
    /\ mailbox' = RenameSubtree(mailbox, from, to)
    /\ UNCHANGED <<meta, ses, owed>>

RenameInbox(to) ==
    /\ ~Taken(mailbox, to)
    /\ meta.validity < MaxValidity
    /\ \E i \in Named(mailbox, Inbox) : mailbox' = Split(mailbox, meta, i, to)
    /\ meta' = Raised(meta)
    /\ UNCHANGED <<ses, owed>>

\* A FETCH of flags, and a STORE's being silent, matter only for watched messages.
Addressed(c) ==
    /\ Selected(c)
    /\ LET s == ses[c]
           b == BoxAt(mailbox, s.sel)
       IN  \/ \E byUid \in BOOLEAN : \E E \in Asked(s, b, byUid) :
                 \/ FetchBody(c, byUid, E)
                 \/ \E st \in FlagStores : StoreFlags(c, byUid, E, st[1], st[2], FALSE)
                 \/ /\ \E u \in UidsIn(E) : <<c, u>> \in Watched
                    /\ \/ FetchFlags(c, byUid, E)
                       \/ \E st \in FlagStores : StoreFlags(c, byUid, E, st[1], st[2], TRUE)
           \/ \E U \in {UidsIn(E) : E \in Asked(s, b, TRUE) \cup Asked(s, b, FALSE)} :
                 \E j \in DOMAIN mailbox : Copy(c, U, j) \/ Move(c, U, j) \/ MoveCut(c, U, j)
           \/ \E U \in SUBSET DeletedUids(b) : UidExpunge(c, U)

Next ==
    \/ \E m \in Mails : Deliver(m)
    \/ \E c \in Conns :
          \/ \E i \in DOMAIN mailbox :
                \/ Select(c, i, FALSE) \/ (<<c, mailbox[i].name>> \in Examined /\ Select(c, i, TRUE))
                \/ Delete(c, i)
                \/ \E m \in Mails : AppendMail(c, i, m, {})
          \/ Noop(c) \/ Expunge(c) \/ Close(c) \/ Unselect(c) \/ Idle(c) \/ Done(c)
          \/ Addressed(c)
    \/ /\ \E c \in Conns : Ready(c)
       /\ \/ \E n \in Names : Create(n) \/ RenameInbox(n)
          \/ \E i \in DOMAIN mailbox, to \in Names : Rename(mailbox[i].name, to)

Spec == Init /\ [][Next]_vars

-----------------------------------------------------------------------------
(* Properties. *)

\* Between any two commands the client's list, as its responses made it, is the
\* one the server keeps for it: EXPUNGE numbers were right when they were sent,
\* whatever the other connections did in the meantime (syncSelected, EXPUNGE).
ViewAgrees ==
    \A c \in Conns :
        /\ Len(ses[c].told) = Len(ses[c].known)
        /\ \A k \in DOMAIN ses[c].told : ses[c].told[k].uid = ses[c].known[k]

\* A command by number reaches the message the client has at that number or
\* none, though another connection expunged messages before it; and a FETCH of
\* a message the client was told of carries the client's number for it
\* (resolveForConn).
NumbersHold ==
    \A c \in Conns : Selected(c) =>
        LET s == ses[c]
            told == {s.told[k].uid : k \in DOMAIN s.told}
        IN  \A byUid \in BOOLEAN : \A E \in Asked(s, BoxAt(mailbox, s.sel), byUid) : \A e \in E :
                (byUid => e.uid \in told) => e.seq \in DOMAIN s.told /\ s.told[e.seq].uid = e.uid

\* The flags a client has are those the server has on record as reported to
\* it, so that a change by another connection is still to be reported at the
\* next boundary, or has been (syncSelected, STORE, FETCH).  Not so of a message
\* the client fetched flags of, or stored to silently, while such a change was
\* unreported: NoopTellsFlags is what fails then.
FlagChangesReach ==
    \A c \in Conns : \A k \in DOMAIN ses[c].told :
        LET e == ses[c].told[k] IN
        /\ e.flags # Unknown
        /\ e.uid \in DOMAIN ses[c].flags \ ses[c].apart
        => e.flags = ses[c].flags[e.uid]

\* What syncSelected says of itself: it tells a client of every message whose
\* flags another connection changed, so that after a NOOP the flags the client
\* has are those of the mailbox.
NoopTellsFlags ==
    \A c \in Conns : Selected(c) =>
        LET s == Sync(c, ses[c], mailbox)
            b == BoxAt(mailbox, s.sel)
        IN  \A k \in DOMAIN s.told :
                LET e == s.told[k] IN
                e.flags # Unknown /\ e.uid \in Uids(b) => e.flags = b.message[e.uid].flags

\* The connection's view is the mailbox as it is.
Current(c) ==
    LET b == BoxAt(mailbox, ses[c].sel) IN
    /\ ses[c].known = Ascending(Uids(b))
    /\ \A u \in Uids(b) : u \in DOMAIN ses[c].flags /\ ses[c].flags[u] = b.message[u].flags

\* Every connection calls the mailbox it selected by its present name.
NamesAreCurrent ==
    \A c \in Conns : ses[c].sel \in DOMAIN mailbox => mailbox[ses[c].sel].name = ses[c].name

\* While no mailbox is renamed or deleted, an idling connection is brought up to
\* date by every change to its mailbox, in the very step that makes it
\* (MailboxNotifier, and the notify after APPEND, STORE, FETCH, MOVE, EXPUNGE,
\* CLOSE and a delivery).
IdlersHear ==
    [][\A c \in Conns :
          LET i == ses[c].sel IN
          /\ ses[c].idle # NoName /\ ses'[c].idle # NoName
          /\ NamesAreCurrent /\ meta' = meta
          /\ i \in DOMAIN mailbox \cap DOMAIN mailbox'
          /\ [u \in Uids(mailbox[i]) |-> mailbox[i].message[u].flags]
                # [u \in Uids(mailbox'[i]) |-> mailbox'[i].message[u].flags]
          => Current(c)']_vars

\* A mail leaves the account only with \Deleted set or with its mailbox: not by
\* a MOVE, of a mailbox onto itself or cut short by the end of the process, and
\* not by a RENAME.
MailKept ==
    \A m \in owed : \E i \in DOMAIN mailbox : m \in BodiesOf(mailbox[i], Uids(mailbox[i]))
==============================================================================
