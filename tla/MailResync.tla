------------------------------ MODULE MailResync ------------------------------
(***************************************************************************)
(* An account's mail database over the life of its clients' offline        *)
(* caches.  A client that opened a mailbox remembers its UIDVALIDITY, its  *)
(* HIGHESTMODSEQ and the messages by uid; much later, after any deliveries,*)
(* flag changes, expunges, creations, deletions and renames, and after the *)
(* process died and reopened the database, it hands them back with         *)
(* SELECT (QRESYNC ...) and is told only what changed.                     *)
(*                                                                         *)
(* Every transaction of sqlite-mailbox.ts is a step.  CREATE is three      *)
(* autocommitted statements on the process' only thread: nothing but its   *)
(* death comes between them.  A death elsewhere loses nothing, since the   *)
(* store keeps no state in memory, and is left out.                        *)
(*                                                                         *)
(* An operator named Bug... is the definition after it as a plausible      *)
(* mistake would have it; nothing uses it.                                 *)
(***************************************************************************)
EXTENDS MailStore

CONSTANTS MaxStored, MaxChanges, MaxValidity, MaxSnaps     \* bounds

ASSUME MailResyncAssumption ==
    {MaxStored, MaxChanges, MaxValidity, MaxSnaps} \subseteq Nat

VARIABLES
    open,       \* the process has the database open
    mailbox,    \* the rows
    meta,       \* catalog_meta: the high-water marks of UIDVALIDITY and id
    snaps       \* history: what each client remembers of a mailbox it opened

vars == <<open, mailbox, meta, snaps>>

\* What a client holds of a mailbox: body and flags by uid.
View(b) == [u \in Uids(b) |-> [mail |-> b.message[u].mail, flags |-> b.message[u].flags]]

TypeOK ==
    /\ open \in BOOLEAN
    /\ DOMAIN mailbox \subseteq Nat
    /\ \A i \in DOMAIN mailbox :
          mailbox[i] \in [name : Names, validity : Nat, uidNext : Nat, modseq : Nat,
                          message : [Uids(mailbox[i]) -> MessageRow],
                          expunged : [DOMAIN mailbox[i].expunged -> Nat]]
    /\ meta \in [validity : Nat, id : Nat]

\* A new database, or one a build without mailbox_id_hwm left behind.
Init ==
    /\ open = FALSE
    /\ \/ mailbox = NoRows /\ meta = [validity |-> 0, id |-> 0]
       \/ \E n \in Names \ {Inbox} :
             /\ mailbox = [i \in {1, 2} |-> IF i = 1 THEN EmptyBox(Inbox, 1) ELSE EmptyBox(n, 2)]
             /\ meta = [validity |-> 2, id |-> 0]
    /\ snaps = {}

-----------------------------------------------------------------------------

\* Both marks are raised to cover every row; neither is ever lowered.
Open ==
    /\ ~open
    /\ open' = TRUE
    /\ mailbox' = IF Taken(mailbox, Inbox) THEN mailbox
                  ELSE Put(mailbox, 1, EmptyBox(Inbox, 1))
    /\ LET validities == {mailbox'[i].validity : i \in DOMAIN mailbox'}
       IN  \E v \in validities \cup {meta.validity}, id \in DOMAIN mailbox' \cup {meta.id} :
              /\ \A w \in validities \cup {meta.validity} : w <= v
              /\ \A i \in DOMAIN mailbox' \cup {meta.id} : i <= id
              /\ meta' = [validity |-> v, id |-> id]
    /\ UNCHANGED snaps

Change(i, b) ==
    /\ Cardinality(UNION {{j} \X (2..mailbox[j].modseq) : j \in DOMAIN mailbox}) < MaxChanges
    /\ mailbox' = [mailbox EXCEPT ![i] = b]
    /\ UNCHANGED <<open, meta, snaps>>

AppendMail(i, m, F) ==
    /\ open
    /\ Cardinality(UNION {{j} \X Uids(mailbox[j]) : j \in DOMAIN mailbox}) < MaxStored
    /\ Change(i, Append1(mailbox[i], m, F))

StoreFlags(i, u, mode, F) == open /\ Change(i, StoreFlags1(mailbox[i], u, mode, F))

Expunge(i, u) == open /\ Change(i, Expunge1(mailbox[i], u))

ExpungeDeleted(i) == open /\ Change(i, ExpungeDeletedOf(mailbox[i]))

BugCreate(n) ==
    /\ open /\ ~Taken(mailbox, n)
    /\ meta.validity < MaxValidity
    /\ meta' = [meta EXCEPT !.validity = @ + 1]
    /\ \E id \in DOMAIN mailbox :
          /\ \A i \in DOMAIN mailbox : i <= id
          /\ mailbox' = Put(mailbox, id + 1, EmptyBox(n, meta.validity + 1))
    /\ UNCHANGED <<open, snaps>>

Create(n) ==
    /\ open /\ ~Taken(mailbox, n)
    /\ meta.validity < MaxValidity
    /\ meta' = Raised(meta)
    /\ mailbox' = Made(mailbox, meta, n)
    /\ UNCHANGED <<open, snaps>>

\* The process dies after the first or the second of CREATE's statements.
CreateCut(n) ==
    /\ open /\ ~Taken(mailbox, n)
    /\ meta.validity < MaxValidity
    /\ \E id \in {meta.id, meta.id + 1} : meta' = [validity |-> meta.validity + 1, id |-> id]
    /\ open' = FALSE
    /\ UNCHANGED <<mailbox, snaps>>

Delete(n) ==
    /\ open
    /\ n # Inbox /\ Taken(mailbox, n)
    /\ mailbox' = Dropped(mailbox, n)
    /\ UNCHANGED <<open, meta, snaps>>

BugRename(from, to) ==
    /\ open
    /\ from # Inbox /\ Taken(mailbox, from) /\ ~Taken(mailbox, to)
    /\ mailbox' = RenameSubtree(mailbox, from, to)
    /\ UNCHANGED <<open, meta, snaps>>

\* Any mailbox but INBOX moves with the names below it.
Rename(from, to) ==
    /\ open
    /\ from # Inbox /\ Taken(mailbox, from)
    /\ CanRenameSubtree(mailbox, from, to)
    /\ mailbox' = RenameSubtree(mailbox, from, to)
    /\ UNCHANGED <<open, meta, snaps>>

BugRenameInbox(to) ==
    /\ open /\ ~Taken(mailbox, to)
    /\ \E i \in Named(mailbox, Inbox) :
          LET copy == FreshCopy(mailbox[i], to, mailbox[i].validity) IN
          /\ mailbox' = Put([mailbox EXCEPT ![i] = Emptied(@)], meta.id + 1, copy)
    /\ meta' = [meta EXCEPT !.id = @ + 1]
    /\ UNCHANGED <<open, snaps>>

\* INBOX's messages move to a new mailbox and INBOX stays, empty.
RenameInbox(to) ==
    /\ open /\ ~Taken(mailbox, to)
    /\ meta.validity < MaxValidity
    /\ \E i \in Named(mailbox, Inbox) : mailbox' = Split(mailbox, meta, i, to)
    /\ meta' = Raised(meta)
    /\ UNCHANGED <<open, snaps>>

\* A client opens mailbox i, fetches all of it and goes away.
Remember(i) ==
    /\ open
    /\ Cardinality(snaps) < MaxSnaps
    /\ snaps' = snaps \cup {[id |-> i, validity |-> mailbox[i].validity,
                             modseq |-> mailbox[i].modseq, view |-> View(mailbox[i])]}
    /\ UNCHANGED <<open, mailbox, meta>>

Next ==
    \/ Open
    \/ \E n \in Names : Create(n) \/ CreateCut(n) \/ Delete(n) \/ RenameInbox(n)
    \/ \E i \in DOMAIN mailbox :
          \/ Remember(i)
          \/ \E to \in Names : Rename(mailbox[i].name, to)
          \/ ExpungeDeleted(i)
          \/ \E m \in Mails, F \in SUBSET Flags : AppendMail(i, m, F)
          \/ \E u \in Uids(mailbox[i]) :
                \/ Expunge(i, u)
                \/ \E mode \in StoreModes, F \in SUBSET Flags : StoreFlags(i, u, mode, F)

Spec == Init /\ [][Next]_vars

-----------------------------------------------------------------------------
(* Properties. *)

\* A name is one mailbox, whatever was created, deleted and renamed (with its
\* subtree) before, and once the database has been opened INBOX is always there.
NamesAreMailboxes ==
    /\ \A i, j \in DOMAIN mailbox : mailbox[i].name = mailbox[j].name => i = j
    /\ open => Taken(mailbox, Inbox)

\* Within one UIDVALIDITY a uid means one message for ever: what any client
\* remembers agrees with every other client and with what is stored now, even
\* if the mailbox was deleted, renamed or emptied in between and its name used
\* again (SqliteCatalog.#nextUidValidity, SqliteMailbox.append).
UidMeansOneMail ==
    LET Held == {[validity |-> s.validity, view |-> s.view] : s \in snaps}
                  \cup {[validity |-> mailbox[i].validity, view |-> View(mailbox[i])] :
                           i \in DOMAIN mailbox}
    IN  \A s, t \in Held : s.validity = t.validity =>
          \A u \in DOMAIN s.view \cap DOMAIN t.view : s.view[u].mail = t.view[u].mail

\* A session that still holds a mailbox by its id, after another one deleted
\* it, reaches that mailbox or none: an id is never given to another
\* (migrateMailboxIdHwm, SqliteCatalog.#nextMailboxId).
StaleHandleIsInert ==
    \A s \in snaps, i \in DOMAIN mailbox :
        s.id = i <=> s.validity = mailbox[i].validity

\* What a client has after SELECT (QRESYNC (validity modseq)): the expunge log
\* since then removed, the messages changed since then put in.
Replayed(s, b) ==
    LET changed == ChangedSince(b, s.modseq)
    IN  [u \in (DOMAIN s.view \ ExpungedSince(b, s.modseq)) \cup changed |->
            IF u \in changed THEN View(b)[u] ELSE s.view[u]]

\* The replay reconstructs the mailbox exactly: no expunged message stays in
\* the client's cache, no live one is reported vanished, no new message or flag
\* is missed (SqliteMailbox.expungedSince, #nextModseq; RENAME INBOX).
ReplayIsExact ==
    \A s \in snaps, i \in DOMAIN mailbox :
        s.validity = mailbox[i].validity => Replayed(s, mailbox[i]) = View(mailbox[i])
==============================================================================
