------------------------------ MODULE MailStore ------------------------------
(***************************************************************************)
(* One account's mail database, sqlite-mailbox.ts: what each statement or  *)
(* transaction does to it.  A mailbox row is kept with the messages and    *)
(* the expunge log that carry its id; `mailbox` is a function from the ids *)
(* in use to such rows.  A message's body is a member of Mails, its date   *)
(* and size are left out, and its flags are a set.                         *)
(*                                                                         *)
(* A mailbox name is the sequence of its segments between slashes, already *)
(* canonical; Names are the names within the bounds of mailbox-name.ts.    *)
(*                                                                         *)
(* An operator named Bug... is the definition after it as a plausible      *)
(* mistake would have it; nothing uses it.                                 *)
(***************************************************************************)
EXTENDS Integers, Sequences, FiniteSets

CONSTANTS
    Names,      \* the mailbox names
    Inbox,      \* INBOX, one of them
    Mails,      \* message bodies
    Flags,      \* flags and keywords
    Deleted     \* the flag \Deleted, one of them

ASSUME MailStoreAssumption ==
    /\ Inbox \in Names /\ Len(Inbox) = 1
    /\ \A n \in Names : Len(n) \in Nat \ {0}
    /\ Deleted \in Flags

StoreModes == {"add", "remove", "replace"}

MessageRow == [mail : Mails, flags : SUBSET Flags, modseq : Nat]

\* A table keyed by uid or id: empty, with a row put in, without some rows.
NoRows == [x \in {} |-> 0]
Put(f, k, v) == [x \in DOMAIN f \cup {k} |-> IF x = k THEN v ELSE f[x]]
Without(f, S) == [x \in DOMAIN f \ S |-> f[x]]

EmptyBox(n, v) ==
    [name |-> n, validity |-> v, uidNext |-> 1, modseq |-> 1,
     message |-> NoRows, expunged |-> NoRows]

-----------------------------------------------------------------------------
(* One mailbox. *)

Uids(b) == DOMAIN b.message

Append1(b, m, F) ==
    [b EXCEPT !.uidNext = @ + 1, !.modseq = @ + 1,
              !.message = Put(@, b.uidNext, [mail |-> m, flags |-> F, modseq |-> b.modseq + 1])]

\* The removal is logged against a mod-sequence of its own.
Expunge1(b, u) ==
    IF u \notin Uids(b) THEN b
    ELSE [b EXCEPT !.modseq = @ + 1, !.message = Without(@, {u}),
                   !.expunged = Put(@, u, b.modseq + 1)]

NewFlags(old, mode, F) ==
    CASE mode = "add" -> old \cup F
      [] mode = "remove" -> old \ F
      [] mode = "replace" -> F

\* A message's row after a store that takes the mod-sequence q.
Marked(r, mode, F, q) == [r EXCEPT !.flags = NewFlags(@, mode, F), !.modseq = q]

\* Even a store that changes no flag takes a new mod-sequence.
StoreFlags1(b, u, mode, F) ==
    IF u \notin Uids(b) THEN b
    ELSE LET m == b.message[u] IN
         [b EXCEPT !.modseq = @ + 1,
                   !.message = Put(@, u, [mail |-> m.mail, flags |-> NewFlags(m.flags, mode, F),
                                          modseq |-> b.modseq + 1])]

DeletedUids(b) == {u \in Uids(b) : Deleted \in b.message[u].flags}

\* All at one mod-sequence.
ExpungeDeletedOf(b) ==
    LET S == DeletedUids(b) IN
    IF S = {} THEN b
    ELSE [b EXCEPT !.modseq = @ + 1, !.message = Without(@, S),
                   !.expunged = [u \in DOMAIN @ \cup S |-> IF u \in S THEN b.modseq + 1 ELSE @[u]]]

\* The place of u among the uids S, in ascending order; S in that order.
Place(u, S) == Cardinality({w \in S : w <= u})
Ascending(S) == [k \in 1..Cardinality(S) |-> CHOOSE u \in S : Place(u, S) = k]

\* Several in one transaction, in the order of their uids: the messages U of
\* `from` appended, the flags of U stored, U expunged.
AppendAll(b, from, U) ==
    LET n == Cardinality(U)
        row(k) == from.message[Ascending(U)[k]]
    IN  [b EXCEPT !.uidNext = @ + n, !.modseq = @ + n,
                  !.message = [u \in Uids(b) \cup b.uidNext .. b.uidNext + n - 1 |->
                      IF u < b.uidNext THEN @[u]
                      ELSE [row(u - b.uidNext + 1) EXCEPT !.modseq = b.modseq + u - b.uidNext + 1]]]

StoreFlagsAll(b, U, mode, F) ==
    [b EXCEPT !.modseq = @ + Cardinality(U),
              !.message = [u \in Uids(b) |->
                  IF u \notin U THEN b.message[u] ELSE Marked(b.message[u], mode, F, b.modseq + Place(u, U))]]

ExpungeAll(b, U) ==
    [b EXCEPT !.modseq = @ + Cardinality(U), !.message = Without(@, U),
              !.expunged = [u \in DOMAIN @ \cup U |->
                  IF u \in U THEN b.modseq + Place(u, U) ELSE @[u]]]

ExpungedSince(b, since) == {u \in DOMAIN b.expunged : b.expunged[u] > since}

ChangedSince(b, since) == {u \in Uids(b) : b.message[u].modseq > since}

-----------------------------------------------------------------------------
(* The catalog. *)

\* The ids of the rows named n: at most one.
Named(box, n) == {i \in DOMAIN box : box[i].name = n}

Taken(box, n) == \E i \in DOMAIN box : box[i].name = n

Inferior(n, p) == Len(p) < Len(n) /\ SubSeq(n, 1, Len(p)) = p

\* The new name of `from`, or of a name below it.
Renamed(from, to, n) == to \o SubSeq(n, Len(from) + 1, Len(n))

Subtree(box, from) == {i \in DOMAIN box : box[i].name = from \/ Inferior(box[i].name, from)}

\* Every destination is within bounds, free, and nobody else's.
CanRenameSubtree(box, from, to) ==
    /\ ~Taken(box, to)
    /\ \A i \in Subtree(box, from) :
          LET dest == Renamed(from, to, box[i].name) IN
          /\ dest \in Names
          /\ ~Taken(box, dest)
          /\ \A j \in Subtree(box, from) :
                Renamed(from, to, box[j].name) = dest => j = i

RenameSubtree(box, from, to) ==
    [i \in DOMAIN box |->
        IF i \in Subtree(box, from) THEN [box[i] EXCEPT !.name = Renamed(from, to, @)]
        ELSE box[i]]

\* A new mailbox holding b's messages, numbered from 1 in their order.
FreshCopy(b, n, v) ==
    LET count == Cardinality(Uids(b))
        At(k) == CHOOSE u \in Uids(b) : Place(u, Uids(b)) = k
    IN  [name |-> n, validity |-> v, uidNext |-> count + 1, modseq |-> count + 1,
         message |-> [k \in 1..count |-> [b.message[At(k)] EXCEPT !.modseq = k + 1]],
         expunged |-> NoRows]

BugEmptied(b) ==
    [b EXCEPT !.message = NoRows,
              !.expunged = [u \in DOMAIN @ \cup Uids(b) |->
                  IF u \in Uids(b) THEN b.modseq ELSE @[u]]]

\* INBOX once its messages have moved: each is logged, the log is kept.
Emptied(b) ==
    [b EXCEPT !.modseq = @ + Cardinality(Uids(b)),
              !.message = NoRows,
              !.expunged = [u \in DOMAIN @ \cup Uids(b) |->
                  IF u \in Uids(b) THEN b.modseq + Place(u, Uids(b)) ELSE @[u]]]

\* The marks for one more mailbox, its row, and INBOX's messages moved to it.
Raised(marks) == [validity |-> marks.validity + 1, id |-> marks.id + 1]

Made(box, marks, n) == Put(box, marks.id + 1, EmptyBox(n, marks.validity + 1))

Split(box, marks, i, to) ==
    Put([box EXCEPT ![i] = Emptied(@)], marks.id + 1, FreshCopy(box[i], to, marks.validity + 1))

Dropped(box, n) == Without(box, Named(box, n))
==============================================================================
