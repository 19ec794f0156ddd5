--------------------------- MODULE MailResyncProofs ---------------------------
(***************************************************************************)
(* MailResync for every value of its constants: its types, and that a name *)
(* is one mailbox, a uid means one message for ever, a stale handle is     *)
(* inert and a QRESYNC replay is exact.                                    *)
(*                                                                         *)
(* The argument.  Every change of a mailbox Grows it: nothing it numbered  *)
(* is renumbered, what changed carries a mod-sequence above all older      *)
(* ones, and what went is in the log at one.  A client's memory that Fits  *)
(* a mailbox fits it still when it has grown, and the replay is exact for  *)
(* a memory that fits.  The high-water marks keep every id and UIDVALIDITY *)
(* that was ever handed out from being handed out again.                   *)
(***************************************************************************)
EXTENDS MailResync, FiniteSetTheorems, TLAPS

\* A table of rows R keyed by numbers.
Table(R) == UNION {[S -> R] : S \in SUBSET Nat}

Row == [name : Names, validity : Nat, uidNext : Nat, modseq : Nat,
        message : Table(MessageRow), expunged : Table(Nat)]

\* A mailbox row is well formed: it numbers below UIDNEXT and HIGHESTMODSEQ,
\* and no uid is both live and logged.
BoxOK(b) ==
    /\ b \in Row
    /\ b.uidNext >= 1
    /\ \A u \in Uids(b) : u \in 1..(b.uidNext - 1) /\ b.message[u].modseq <= b.modseq
    /\ \A u \in DOMAIN b.expunged : u \in 1..(b.uidNext - 1) /\ b.expunged[u] <= b.modseq
    /\ Uids(b) \cap DOMAIN b.expunged = {}

\* c is b after any number of transactions.
Grows(b, c) ==
    /\ c.validity = b.validity
    /\ b.uidNext <= c.uidNext /\ b.modseq <= c.modseq
    /\ \A u \in Uids(b) :
          \/ /\ u \in Uids(c)
             /\ c.message[u].mail = b.message[u].mail
             /\ c.message[u] = b.message[u] \/ c.message[u].modseq > b.modseq
          \/ u \in DOMAIN c.expunged /\ c.expunged[u] > b.modseq
    /\ \A u \in Uids(c) \ Uids(b) : u >= b.uidNext /\ c.message[u].modseq > b.modseq
    /\ \A u \in DOMAIN b.expunged : u \in DOMAIN c.expunged /\ c.expunged[u] >= b.expunged[u]

SnapOK(s) ==
    /\ s = [id |-> s.id, validity |-> s.validity, modseq |-> s.modseq, view |-> s.view]
    /\ {s.id, s.validity, s.modseq} \subseteq Nat
    /\ s.view = [u \in DOMAIN s.view |-> [mail |-> s.view[u].mail, flags |-> s.view[u].flags]]

\* What a client remembers of mailbox b: each message is as it was, changed
\* since, or logged since; every other one is newer.
Fits(s, b) ==
    /\ s.modseq <= b.modseq
    /\ \A u \in DOMAIN s.view :
          /\ u \in 1..(b.uidNext - 1)
          /\ \/ /\ u \in Uids(b)
                /\ b.message[u].mail = s.view[u].mail
                /\ b.message[u].flags = s.view[u].flags \/ b.message[u].modseq > s.modseq
             \/ u \in DOMAIN b.expunged /\ b.expunged[u] > s.modseq
    /\ \A u \in Uids(b) \ DOMAIN s.view : b.message[u].modseq > s.modseq

Rows ==
    /\ DOMAIN mailbox \subseteq Nat
    /\ \A i \in DOMAIN mailbox : BoxOK(mailbox[i])
    /\ \A i, j \in DOMAIN mailbox :
          mailbox[i].validity = mailbox[j].validity \/ mailbox[i].name = mailbox[j].name => i = j

Marks ==
    /\ open \in BOOLEAN
    /\ meta \in [validity : Nat, id : Nat]
    /\ open => Taken(mailbox, Inbox)
    /\ Taken(mailbox, Inbox) \/ (mailbox = NoRows /\ snaps = {})
    /\ open => \A i \in DOMAIN mailbox : i <= meta.id /\ mailbox[i].validity <= meta.validity
    /\ \A s \in snaps : s.id <= meta.id /\ s.validity <= meta.validity

Memories ==
    /\ \A s \in snaps : SnapOK(s)
    /\ \A s \in snaps, i \in DOMAIN mailbox :
          /\ s.id = i <=> s.validity = mailbox[i].validity
          /\ s.id = i => Fits(s, mailbox[i])
    /\ \A s, t \in snaps : s.validity = t.validity =>
          \A u \in DOMAIN s.view \cap DOMAIN t.view : s.view[u].mail = t.view[u].mail

Inv == Rows /\ Marks /\ Memories

-----------------------------------------------------------------------------
(* Each change of a mailbox keeps it well formed and grows it. *)

LEMMA TableIsFunction ==
    ASSUME NEW R, NEW f
    PROVE  f \in Table(R) <=> f \in [DOMAIN f -> R] /\ DOMAIN f \subseteq Nat
BY DEF Table

LEMMA PutInTable ==
    ASSUME NEW R, NEW f \in Table(R), NEW k \in Nat, NEW v \in R
    PROVE  Put(f, k, v) \in Table(R)
BY TableIsFunction, Put(f, k, v) \in [DOMAIN f \cup {k} -> R] DEF Put, Table

LEMMA WithoutInTable ==
    ASSUME NEW R, NEW f \in Table(R), NEW S
    PROVE  Without(f, S) \in Table(R)
BY TableIsFunction, Without(f, S) \in [DOMAIN f \ S -> R] DEF Without, Table

LEMMA NoRowsInTable ==
    ASSUME NEW R
    PROVE  NoRows \in Table(R) /\ DOMAIN NoRows = {}
BY NoRows \in [{} -> R] DEF NoRows, Table

LEMMA RowFacts ==
    ASSUME NEW b, BoxOK(b)
    PROVE  /\ b.name \in Names /\ {b.validity, b.uidNext, b.modseq} \subseteq Nat
           /\ b.message \in Table(MessageRow) /\ b.expunged \in Table(Nat)
           /\ Uids(b) \subseteq Nat
           /\ \A u \in Uids(b) : b.message[u] \in MessageRow /\ b.message[u].modseq \in Nat
           /\ \A u \in DOMAIN b.expunged : u \in Nat /\ b.expunged[u] \in Nat
<1>1. /\ b.name \in Names /\ {b.validity, b.uidNext, b.modseq} \subseteq Nat
      /\ b.message \in Table(MessageRow) /\ b.expunged \in Table(Nat)
  BY DEF BoxOK, Row
<1>2. b.message \in [Uids(b) -> MessageRow] /\ Uids(b) \subseteq Nat
  BY <1>1, TableIsFunction DEF Uids
<1>3. b.expunged \in [DOMAIN b.expunged -> Nat] /\ DOMAIN b.expunged \subseteq Nat
  BY <1>1, TableIsFunction
<1>4. \A u \in Uids(b) : b.message[u] \in MessageRow
  BY <1>2
<1>5. \A r \in MessageRow : r.modseq \in Nat
  BY DEF MessageRow
<1> QED BY <1>1, <1>2, <1>3, <1>4, <1>5

LEMMA AppendGrows ==
    ASSUME NEW b, BoxOK(b), NEW m \in Mails, NEW F \in SUBSET Flags
    PROVE  LET c == Append1(b, m, F) IN BoxOK(c) /\ Grows(b, c) /\ c.name = b.name
<1> DEFINE c == Append1(b, m, F)
           row == [mail |-> m, flags |-> F, modseq |-> b.modseq + 1]
           table == Put(b.message, b.uidNext, row)
<1>1. row \in MessageRow /\ row.mail = m /\ row.modseq = b.modseq + 1
  BY DEF MessageRow, BoxOK, Row
<1>2. table \in Table(MessageRow)
  BY <1>1, PutInTable DEF BoxOK, Row
<1>3. /\ DOMAIN table = Uids(b) \cup {b.uidNext}
      /\ table[b.uidNext] = row
      /\ \A u \in Uids(b) : u # b.uidNext => table[u] = b.message[u]
  BY DEF Put, Uids
<1> HIDE DEF table, row
<1>4. /\ c.name = b.name /\ c.validity = b.validity /\ c.expunged = b.expunged
      /\ c.uidNext = b.uidNext + 1 /\ c.modseq = b.modseq + 1 /\ c.message = table
  BY DEF Append1, BoxOK, Row, table, row
<1>5. c \in Row
  <2>1. c = [b EXCEPT !.uidNext = b.uidNext + 1, !.modseq = b.modseq + 1, !.message = table]
    BY DEF Append1, table, row
  <2> HIDE DEF c
  <2>2. b \in Row /\ b.uidNext + 1 \in Nat /\ b.modseq + 1 \in Nat
    BY RowFacts DEF BoxOK
  <2> QED BY <1>2, <2>1, <2>2 DEF Row
<1>6. Uids(c) = Uids(b) \cup {b.uidNext}
  BY <1>3, <1>4 DEF Uids
<1> HIDE DEF c
<1>7. BoxOK(c)
  <2>1. c.uidNext >= 1 /\ \A u \in Uids(c) : u \in 1..(c.uidNext - 1)
    BY <1>4, <1>6, RowFacts DEF BoxOK
  <2>2. \A u \in Uids(c) : c.message[u].modseq <= c.modseq
    BY <1>1, <1>3, <1>4, <1>6, RowFacts DEF BoxOK
  <2>3. \A u \in DOMAIN c.expunged : u \in 1..(c.uidNext - 1) /\ c.expunged[u] <= c.modseq
    BY <1>4, RowFacts DEF BoxOK
  <2>4. Uids(c) \cap DOMAIN c.expunged = {}
    BY <1>4, <1>6, RowFacts DEF BoxOK
  <2> QED BY <1>5, <2>1, <2>2, <2>3, <2>4 DEF BoxOK
<1>8. Grows(b, c)
  <2>1. \A u \in Uids(b) : u # b.uidNext
    BY RowFacts DEF BoxOK
  <2> QED BY <1>1, <1>3, <1>4, <1>6, <2>1, RowFacts DEF Grows
<1> QED BY <1>4, <1>7, <1>8 DEF c

\* A change of b to messages t and log e at mod-sequence q that numbers nothing
\* new: messages keep their body, and what it changes or removes is marked
\* above all older mod-sequences.
Edit(b, q, t, e) ==
    /\ q \in Nat /\ b.modseq <= q
    /\ t \in Table(MessageRow) /\ e \in Table(Nat)
    /\ DOMAIN t \subseteq Uids(b)
    /\ DOMAIN e = DOMAIN b.expunged \cup (Uids(b) \ DOMAIN t)
    /\ \A u \in DOMAIN t :
          /\ t[u].mail = b.message[u].mail
          /\ t[u] = b.message[u] \/ (b.modseq < t[u].modseq /\ t[u].modseq <= q)
    /\ \A u \in Uids(b) \ DOMAIN t : b.modseq < e[u] /\ e[u] <= q
    /\ \A u \in DOMAIN b.expunged : e[u] = b.expunged[u]

Edited(b, q, t, e) == [b EXCEPT !.modseq = q, !.message = t, !.expunged = e]

LEMMA EditGrows ==
    ASSUME NEW b, BoxOK(b), NEW q, NEW t, NEW e, Edit(b, q, t, e)
    PROVE  LET c == Edited(b, q, t, e) IN BoxOK(c) /\ Grows(b, c) /\ c.name = b.name
<1> DEFINE c == Edited(b, q, t, e)
<1> USE DEF Edit
<1>1. /\ c.name = b.name /\ c.validity = b.validity /\ c.uidNext = b.uidNext
      /\ c.modseq = q /\ c.message = t /\ c.expunged = e
      /\ c \in Row
  BY DEF BoxOK, Row, Edited
<1> HIDE DEF c
<1>2. Uids(c) = DOMAIN t
  BY <1>1 DEF Uids
<1>3. \A u \in DOMAIN t : t[u].modseq \in Nat
  <2>1. t \in [DOMAIN t -> MessageRow]
    BY TableIsFunction
  <2>2. \A r \in MessageRow : r.modseq \in Nat
    BY DEF MessageRow
  <2> QED BY <2>1, <2>2
<1>4. \A u \in DOMAIN e : e[u] \in Nat
  BY TableIsFunction
<1>5. BoxOK(c)
  <2>1. c.uidNext >= 1
    BY <1>1 DEF BoxOK
  <2>2. \A u \in Uids(c) : u \in 1..(c.uidNext - 1) /\ c.message[u].modseq <= c.modseq
    BY <1>1, <1>2, <1>3, RowFacts DEF BoxOK
  <2>3. \A u \in DOMAIN c.expunged : u \in 1..(c.uidNext - 1) /\ c.expunged[u] <= c.modseq
    BY <1>1, <1>4, RowFacts DEF BoxOK
  <2>4. Uids(c) \cap DOMAIN c.expunged = {}
    BY <1>1, <1>2 DEF BoxOK
  <2> QED BY <1>1, <2>1, <2>2, <2>3, <2>4 DEF BoxOK
<1>6. Grows(b, c)
  <2>1. /\ c.validity = b.validity
        /\ b.uidNext <= c.uidNext /\ b.modseq <= c.modseq
    BY <1>1, RowFacts
  <2>2. \A u \in Uids(b) :
          \/ /\ u \in Uids(c)
             /\ c.message[u].mail = b.message[u].mail
             /\ c.message[u] = b.message[u] \/ c.message[u].modseq > b.modseq
          \/ u \in DOMAIN c.expunged /\ c.expunged[u] > b.modseq
    BY <1>1, <1>2, <1>3, <1>4, RowFacts
  <2>3. \A u \in DOMAIN b.expunged : u \in DOMAIN c.expunged /\ c.expunged[u] >= b.expunged[u]
    BY <1>1, RowFacts
  <2> QED BY <1>2, <2>1, <2>2, <2>3 DEF Grows
<1> QED BY <1>1, <1>5, <1>6 DEF c

LEMMA ExpungeGrows ==
    ASSUME NEW b, BoxOK(b), NEW u
    PROVE  LET c == Expunge1(b, u) IN BoxOK(c) /\ Grows(b, c) /\ c.name = b.name
<1>1. CASE u \notin Uids(b)
  BY <1>1, RowFacts DEF Expunge1, Grows
<1>2. CASE u \in Uids(b)
  <2> DEFINE t == Without(b.message, {u})
             e == Put(b.expunged, u, b.modseq + 1)
  <2>1. /\ DOMAIN t = Uids(b) \ {u} /\ \A v \in DOMAIN t : t[v] = b.message[v]
        /\ t \in Table(MessageRow)
    BY RowFacts, WithoutInTable DEF Without, Uids
  <2>2. /\ DOMAIN e = DOMAIN b.expunged \cup {u} /\ e[u] = b.modseq + 1
        /\ \A v \in DOMAIN b.expunged : v # u => e[v] = b.expunged[v]
    BY DEF Put
  <2>3. e \in Table(Nat)
    BY <1>2, RowFacts, PutInTable
  <2>4. Expunge1(b, u) = Edited(b, b.modseq + 1, t, e)
    BY <1>2 DEF Expunge1, Edited
  <2>5. u \notin DOMAIN b.expunged
    BY <1>2 DEF BoxOK
  <2> HIDE DEF t, e
  <2>6. Edit(b, b.modseq + 1, t, e)
    BY <1>2, <2>1, <2>2, <2>3, <2>5, RowFacts DEF Edit
  <2> QED BY <2>4, <2>6, EditGrows
<1> QED BY <1>1, <1>2

LEMMA StoreGrows ==
    ASSUME NEW b, BoxOK(b), NEW u, NEW mode \in StoreModes, NEW F \in SUBSET Flags
    PROVE  LET c == StoreFlags1(b, u, mode, F) IN BoxOK(c) /\ Grows(b, c) /\ c.name = b.name
<1>1. CASE u \notin Uids(b)
  BY <1>1, RowFacts DEF StoreFlags1, Grows
<1>2. CASE u \in Uids(b)
  <2> DEFINE G == NewFlags(b.message[u].flags, mode, F)
             row == [mail |-> b.message[u].mail, flags |-> G, modseq |-> b.modseq + 1]
             t == Put(b.message, u, row)
  <2>1. b.message[u] \in MessageRow /\ b.modseq \in Nat
    BY <1>2, RowFacts
  <2>2. G \in SUBSET Flags
    BY <2>1 DEF NewFlags, StoreModes, MessageRow
  <2> HIDE DEF G
  <2>3. row \in MessageRow /\ row.mail = b.message[u].mail /\ row.modseq = b.modseq + 1
    BY <2>1, <2>2 DEF MessageRow
  <2>4. StoreFlags1(b, u, mode, F) = Edited(b, b.modseq + 1, t, b.expunged)
    <3>1. b = [b EXCEPT !.expunged = b.expunged]
      BY DEF BoxOK, Row
    <3> QED BY <1>2, <3>1 DEF StoreFlags1, G, Edited, BoxOK, Row
  <2> HIDE DEF row
  <2>5. /\ DOMAIN t = Uids(b) /\ t[u] = row
        /\ \A v \in Uids(b) : v # u => t[v] = b.message[v]
    BY <1>2 DEF Uids, Put
  <2>6. t \in Table(MessageRow)
    BY <1>2, <2>3, RowFacts, PutInTable
  <2> HIDE DEF t
  <2>7. Edit(b, b.modseq + 1, t, b.expunged)
    BY <1>2, <2>3, <2>5, <2>6, RowFacts DEF Edit
  <2> QED BY <2>4, <2>7, EditGrows
<1> QED BY <1>1, <1>2

LEMMA ExpungeDeletedGrows ==
    ASSUME NEW b, BoxOK(b)
    PROVE  LET c == ExpungeDeletedOf(b) IN BoxOK(c) /\ Grows(b, c) /\ c.name = b.name
<1> DEFINE S == DeletedUids(b)
<1>1. CASE S = {}
  BY <1>1, RowFacts DEF ExpungeDeletedOf, Grows
<1>2. CASE S # {}
  <2> DEFINE t == Without(b.message, S)
             e == [u \in DOMAIN b.expunged \cup S |->
                      IF u \in S THEN b.modseq + 1 ELSE b.expunged[u]]
  <2>1. ExpungeDeletedOf(b) = Edited(b, b.modseq + 1, t, e)
    BY <1>2 DEF ExpungeDeletedOf, Edited
  <2>2. S \subseteq Uids(b)
    BY DEF DeletedUids
  <2> HIDE DEF S
  <2>3. /\ DOMAIN t = Uids(b) \ S /\ \A v \in DOMAIN t : t[v] = b.message[v]
        /\ t \in Table(MessageRow)
    BY RowFacts, WithoutInTable DEF Without, Uids
  <2>4. \A v \in S : v \notin DOMAIN b.expunged
    BY <2>2 DEF BoxOK
  <2>5. e \in [DOMAIN b.expunged \cup S -> Nat] /\ DOMAIN e \subseteq Nat
    BY <2>2, RowFacts
  <2>6. e \in Table(Nat)
    BY <2>5, TableIsFunction
  <2>7. Edit(b, b.modseq + 1, t, e)
    BY <2>2, <2>3, <2>4, <2>6, RowFacts DEF Edit
  <2> QED BY <2>1, <2>7, EditGrows
<1> QED BY <1>1, <1>2

-----------------------------------------------------------------------------
(* INBOX's messages moved to a fresh mailbox. *)

LEMMA UidsFinite ==
    ASSUME NEW b, BoxOK(b)
    PROVE  IsFiniteSet(Uids(b)) /\ Cardinality(Uids(b)) \in Nat
<1>1. Uids(b) \subseteq 1..(b.uidNext - 1)
  BY DEF BoxOK
<1>2. IsFiniteSet(1..(b.uidNext - 1))
  BY FS_Interval, RowFacts
<1> QED BY <1>1, <1>2, FS_Subset, FS_CardinalityType

LEMMA PlaceBounds ==
    ASSUME NEW S, S \subseteq Nat, IsFiniteSet(S), NEW u \in S
    PROVE  Place(u, S) \in 1..Cardinality(S)
<1> DEFINE T == {w \in S : w <= u}
<1>1. T \subseteq S /\ u \in T
  OBVIOUS
<1>2. IsFiniteSet(T) /\ Cardinality(T) <= Cardinality(S)
  BY <1>1, FS_Subset
<1>3. Cardinality(T) \in Nat /\ Cardinality(S) \in Nat /\ Cardinality(T) # 0
  BY <1>1, <1>2, FS_CardinalityType, FS_EmptySet
<1> QED BY <1>2, <1>3 DEF Place

LEMMA EmptiedGrows ==
    ASSUME NEW b, BoxOK(b)
    PROVE  LET c == Emptied(b) IN BoxOK(c) /\ Grows(b, c) /\ c.name = b.name
<1> DEFINE S == Uids(b)
           q == b.modseq + Cardinality(S)
           e == [u \in DOMAIN b.expunged \cup S |->
                    IF u \in S THEN b.modseq + Place(u, S) ELSE b.expunged[u]]
<1>1. Emptied(b) = Edited(b, q, NoRows, e)
  BY DEF Emptied, Edited
<1>2. Cardinality(S) \in Nat /\ \A u \in S : Place(u, S) \in 1..Cardinality(S)
  BY UidsFinite, PlaceBounds, RowFacts
<1>3. \A u \in S : u \notin DOMAIN b.expunged
  BY DEF BoxOK
<1>4. NoRows \in Table(MessageRow) /\ DOMAIN NoRows = {}
  BY NoRowsInTable
<1>5. e \in [DOMAIN b.expunged \cup S -> Nat] /\ DOMAIN e \subseteq Nat
  BY <1>2, RowFacts
<1>6. e \in Table(Nat)
  BY <1>5, TableIsFunction
<1> HIDE DEF S
<1>7. /\ \A u \in S : b.modseq < e[u] /\ e[u] <= q
      /\ \A u \in DOMAIN b.expunged : e[u] = b.expunged[u]
      /\ DOMAIN e = DOMAIN b.expunged \cup S
      /\ q \in Nat /\ b.modseq <= q
  BY <1>2, <1>3, RowFacts
<1>8. Edit(b, q, NoRows, e)
  BY <1>4, <1>6, <1>7 DEF Edit, S
<1> QED BY <1>1, <1>8, EditGrows

LEMMA EmptyBoxOK ==
    ASSUME NEW n \in Names, NEW v \in Nat
    PROVE  BoxOK(EmptyBox(n, v)) /\ EmptyBox(n, v).name = n /\ EmptyBox(n, v).validity = v
<1>1. NoRows \in Table(MessageRow) /\ NoRows \in Table(Nat) /\ DOMAIN NoRows = {}
  BY NoRowsInTable
<1> QED BY <1>1 DEF EmptyBox, BoxOK, Row, Uids

\* Counting from 1 in ascending order meets every place once.
LEMMA PlacesFilled ==
    ASSUME NEW S, S \subseteq Nat, IsFiniteSet(S), NEW k \in 1..Cardinality(S)
    PROVE  \E u \in S : Place(u, S) = k
<1> DEFINE n == Cardinality(S)
           f == [u \in S |-> Place(u, S)]
<1>1. n \in Nat
  BY FS_CardinalityType
<1>2. f \in [S -> 1..n]
  BY PlaceBounds
<1>3. ASSUME NEW u \in S, NEW w \in S, u < w
      PROVE  Place(u, S) # Place(w, S)
  <2> DEFINE U == {x \in S : x <= u}
             W == {x \in S : x <= w}
  <2>1. u \in Nat /\ w \in Nat
    OBVIOUS
  <2>2. U \subseteq W /\ w \in W /\ w \notin U /\ W \subseteq S
    <3>1. \A x \in S : x \in Nat /\ (x <= u => x <= w)
      BY <1>3, <2>1
    <3>2. ~(w <= u)
      BY <1>3, <2>1
    <3>3. U \subseteq W
      BY <3>1
    <3>4. w <= w
      BY <2>1
    <3>5. w \in W /\ w \notin U /\ W \subseteq S
      BY <3>2, <3>4
    <3> QED BY <3>3, <3>5
  <2>3. IsFiniteSet(W)
    BY <2>2, FS_Subset
  <2>4. Cardinality(U) # Cardinality(W)
    BY <2>2, <2>3, FS_Subset
  <2> QED BY <2>4 DEF Place
<1>4. \A u, w \in S : f[u] = f[w] => u = w
  <2> SUFFICES ASSUME NEW u \in S, NEW w \in S, f[u] = f[w], u # w PROVE FALSE
    OBVIOUS
  <2>1. u \in Nat /\ w \in Nat
    OBVIOUS
  <2>2. u < w \/ w < u
    BY <2>1
  <2> QED BY <1>3, <2>2
<1>5. f \in Injection(S, 1..n)
  BY <1>2, <1>4 DEF Injection, IsInjective
<1>6. IsFiniteSet(1..n) /\ Cardinality(1..n) = n
  BY <1>1, FS_Interval
<1>7. f \in Surjection(S, 1..n)
  BY <1>5, <1>6, FS_Injection
<1> QED BY <1>7 DEF Surjection

LEMMA FreshCopyOK ==
    ASSUME NEW b, BoxOK(b), NEW n \in Names, NEW v \in Nat
    PROVE  LET c == FreshCopy(b, n, v) IN BoxOK(c) /\ c.name = n /\ c.validity = v
<1> DEFINE count == Cardinality(Uids(b))
           At(k) == CHOOSE u \in Uids(b) : Place(u, Uids(b)) = k
           t == [k \in 1..count |-> [b.message[At(k)] EXCEPT !.modseq = k + 1]]
           c == FreshCopy(b, n, v)
<1>1. count \in Nat
  BY UidsFinite
<1>2. \A k \in 1..count : At(k) \in Uids(b)
  BY PlacesFilled, UidsFinite, RowFacts
<1> HIDE DEF At
<1>4. ASSUME NEW k \in 1..count
      PROVE  t[k] \in MessageRow /\ t[k].modseq = k + 1
  <2>1. b.message[At(k)] \in MessageRow
    BY <1>2, RowFacts
  <2>2. k + 1 \in Nat
    BY <1>1
  <2> HIDE DEF At
  <2>3. t[k] = [b.message[At(k)] EXCEPT !.modseq = k + 1]
    OBVIOUS
  <2> QED BY <2>1, <2>2, <2>3 DEF MessageRow
<1>5. t \in [1..count -> MessageRow]
  BY <1>4
<1>6. t \in Table(MessageRow)
  BY <1>1, <1>5, TableIsFunction
<1>7. DOMAIN t = 1..count
  OBVIOUS
<1>8. c = [name |-> n, validity |-> v, uidNext |-> count + 1, modseq |-> count + 1,
           message |-> t, expunged |-> NoRows]
  BY DEF FreshCopy, At
<1> HIDE DEF c, t, count
<1>9. /\ c.name = n /\ c.validity = v /\ c.uidNext = count + 1 /\ c.modseq = count + 1
      /\ c.message = t /\ c.expunged = NoRows
      /\ c \in Row
  BY <1>1, <1>6, <1>8, NoRowsInTable DEF Row
<1>10. \A u \in Uids(c) : u \in 1..(c.uidNext - 1) /\ c.message[u].modseq <= c.modseq
  BY <1>1, <1>4, <1>7, <1>9 DEF Uids
<1>11. DOMAIN c.expunged = {} /\ c.uidNext >= 1
  BY <1>1, <1>9, NoRowsInTable
<1> QED BY <1>9, <1>10, <1>11 DEF BoxOK, c

-----------------------------------------------------------------------------
(* What a client remembers. *)

LEMMA FitsGrown ==
    ASSUME NEW s, SnapOK(s), NEW b, BoxOK(b), NEW c, BoxOK(c), Fits(s, b), Grows(b, c)
    PROVE  Fits(s, c)
<1>1. {s.modseq, b.modseq, c.modseq, b.uidNext, c.uidNext} \subseteq Nat
  BY RowFacts DEF SnapOK
<1>2. s.modseq <= c.modseq
  BY <1>1 DEF Fits, Grows
<1>3. \A u \in DOMAIN s.view : u \in 1..(c.uidNext - 1)
  BY <1>1 DEF Fits, Grows
<1>4. ASSUME NEW u \in DOMAIN s.view, u \in Uids(b)
      PROVE  \/ /\ u \in Uids(c)
                /\ c.message[u].mail = s.view[u].mail
                /\ c.message[u].flags = s.view[u].flags \/ c.message[u].modseq > s.modseq
             \/ u \in DOMAIN c.expunged /\ c.expunged[u] > s.modseq
  <2>1. CASE u \in DOMAIN c.expunged /\ c.expunged[u] > b.modseq
    BY <1>1, <2>1, RowFacts DEF Fits
  <2>2. CASE /\ u \in Uids(c)
             /\ c.message[u].mail = b.message[u].mail
             /\ c.message[u] = b.message[u] \/ c.message[u].modseq > b.modseq
    <3>1. u \notin DOMAIN b.expunged
      BY <1>4 DEF BoxOK
    <3> QED BY <1>1, <2>2, <3>1, RowFacts DEF Fits
  <2> QED BY <1>4, <2>1, <2>2 DEF Grows
<1>5. ASSUME NEW u \in DOMAIN s.view, u \notin Uids(b)
      PROVE  u \in DOMAIN c.expunged /\ c.expunged[u] > s.modseq
  <2>1. u \in DOMAIN b.expunged /\ b.expunged[u] > s.modseq
    BY <1>5 DEF Fits
  <2>2. u \in DOMAIN c.expunged /\ c.expunged[u] >= b.expunged[u]
    BY <2>1 DEF Grows
  <2> QED BY <1>1, <2>1, <2>2, RowFacts
<1>6. ASSUME NEW u \in Uids(c) \ DOMAIN s.view
      PROVE  c.message[u].modseq > s.modseq
  <2>1. CASE u \in Uids(b)
    <3>1. b.message[u].modseq > s.modseq
      BY <1>6, <2>1 DEF Fits
    <3>2. u \notin DOMAIN c.expunged
      BY <1>6 DEF BoxOK
    <3>3. c.message[u] = b.message[u] \/ c.message[u].modseq > b.modseq
      BY <2>1, <3>2 DEF Grows
    <3> QED BY <1>1, <2>1, <3>1, <3>3, RowFacts DEF Fits
  <2>2. CASE u \notin Uids(b)
    BY <1>1, <1>6, <2>2, RowFacts DEF Fits, Grows
  <2> QED BY <2>1, <2>2
<1> QED BY <1>2, <1>3, <1>4, <1>5, <1>6 DEF Fits

LEMMA ReplayOfFitting ==
    ASSUME NEW s, SnapOK(s), NEW b, BoxOK(b), Fits(s, b)
    PROVE  Replayed(s, b) = View(b)
<1> DEFINE changed == ChangedSince(b, s.modseq)
           D == (DOMAIN s.view \ ExpungedSince(b, s.modseq)) \cup changed
<1>1. D = Uids(b)
  BY DEF Fits, BoxOK, ChangedSince, ExpungedSince
<1>2. ASSUME NEW u \in D, u \notin changed
      PROVE  s.view[u] = View(b)[u]
  <2>1. u \in DOMAIN s.view /\ u \in Uids(b) /\ u \notin DOMAIN b.expunged
    BY <1>1, <1>2 DEF BoxOK
  <2>2. b.message[u].mail = s.view[u].mail /\ b.message[u].flags = s.view[u].flags
    BY <1>2, <2>1 DEF Fits, ChangedSince
  <2>3. s.view[u] = [mail |-> s.view[u].mail, flags |-> s.view[u].flags]
    BY <2>1 DEF SnapOK
  <2> QED BY <2>1, <2>2, <2>3 DEF View
<1>3. Replayed(s, b) = [u \in D |-> IF u \in changed THEN View(b)[u] ELSE s.view[u]]
  BY DEF Replayed
<1>4. Replayed(s, b) = [u \in Uids(b) |-> View(b)[u]]
  BY <1>1, <1>2, <1>3
<1> QED BY <1>4 DEF View

-----------------------------------------------------------------------------
(* The invariant. *)

LEMMA InitInv == Init => Inv
<1> SUFFICES ASSUME Init PROVE Inv
  OBVIOUS
<1> USE MailStoreAssumption
<1>1. CASE mailbox = NoRows /\ meta = [validity |-> 0, id |-> 0]
  BY <1>1 DEF Init, Inv, Rows, Marks, Memories, NoRows
<1>2. CASE \E n \in Names \ {Inbox} :
             /\ mailbox = [i \in {1, 2} |-> IF i = 1 THEN EmptyBox(Inbox, 1) ELSE EmptyBox(n, 2)]
             /\ meta = [validity |-> 2, id |-> 0]
  <2>1. PICK n \in Names \ {Inbox} :
             /\ mailbox = [i \in {1, 2} |-> IF i = 1 THEN EmptyBox(Inbox, 1) ELSE EmptyBox(n, 2)]
             /\ meta = [validity |-> 2, id |-> 0]
    BY <1>2
  <2>2. /\ DOMAIN mailbox = {1, 2}
        /\ BoxOK(mailbox[1]) /\ mailbox[1].name = Inbox /\ mailbox[1].validity = 1
        /\ BoxOK(mailbox[2]) /\ mailbox[2].name = n /\ mailbox[2].validity = 2
    BY <2>1, EmptyBoxOK
  <2>3. Rows
    BY <2>2 DEF Rows
  <2>4. Marks
    BY <2>1, <2>2 DEF Init, Marks, Taken, Named
  <2> QED BY <2>3, <2>4 DEF Init, Inv, Memories
<1> QED BY <1>1, <1>2 DEF Init

\* A transaction on one mailbox.
LEMMA ChangeKeepsInv ==
    ASSUME Inv, NEW i \in DOMAIN mailbox, NEW c, Change(i, c),
           BoxOK(c), Grows(mailbox[i], c), c.name = mailbox[i].name
    PROVE  Inv'
<1>1. /\ DOMAIN mailbox' = DOMAIN mailbox /\ mailbox'[i] = c
      /\ \A j \in DOMAIN mailbox : j # i => mailbox'[j] = mailbox[j]
      /\ UNCHANGED <<open, meta, snaps>>
  BY DEF Change
<1>2. \A j \in DOMAIN mailbox :
         mailbox'[j].name = mailbox[j].name /\ mailbox'[j].validity = mailbox[j].validity
  BY <1>1 DEF Grows
<1>3. Rows'
  BY <1>1, <1>2 DEF Inv, Rows
<1>4. Marks'
  <2>1. Taken(mailbox, Inbox)' <=> Taken(mailbox, Inbox)
    BY <1>1, <1>2 DEF Taken, Named
  <2>2. mailbox # NoRows
    BY DEF NoRows
  <2> QED BY <1>1, <1>2, <2>1, <2>2 DEF Inv, Marks
<1>5. Memories'
  <2>1. ASSUME NEW s \in snaps, NEW j \in DOMAIN mailbox, s.id = j
        PROVE  Fits(s, mailbox'[j])
    <3>1. Fits(s, mailbox[j]) /\ SnapOK(s) /\ BoxOK(mailbox[j])
      BY <2>1 DEF Inv, Memories, Rows
    <3> QED BY <1>1, <3>1, FitsGrown
  <2> QED BY <1>1, <1>2, <2>1 DEF Inv, Memories
<1> QED BY <1>3, <1>4, <1>5 DEF Inv

\* A new row with a new id and UIDVALIDITY, beside the old ones.
LEMMA NewRowKeepsInv ==
    ASSUME Inv, open, NEW n \in Names, ~Taken(mailbox, n), NEW c, BoxOK(c), c.name = n,
           c.validity = meta.validity + 1,
           mailbox' = Put(mailbox, meta.id + 1, c),
           meta' = [validity |-> meta.validity + 1, id |-> meta.id + 1],
           UNCHANGED <<open, snaps>>
    PROVE  Inv'
<1> DEFINE k == meta.id + 1
<1>1. /\ meta \in [validity : Nat, id : Nat]
      /\ \A i \in DOMAIN mailbox : i \in Nat /\ mailbox[i].validity \in Nat
      /\ \A i \in DOMAIN mailbox : i <= meta.id /\ mailbox[i].validity <= meta.validity
      /\ \A s \in snaps : {s.id, s.validity} \subseteq Nat
      /\ \A s \in snaps : s.id <= meta.id /\ s.validity <= meta.validity
  <2>1. \A i \in DOMAIN mailbox : i \in Nat /\ BoxOK(mailbox[i])
    BY DEF Inv, Rows
  <2>2. \A i \in DOMAIN mailbox : mailbox[i].validity \in Nat
    BY <2>1, RowFacts
  <2>3. \A s \in snaps : {s.id, s.validity} \subseteq Nat
    BY DEF Inv, Memories, SnapOK
  <2> QED BY <2>1, <2>2, <2>3 DEF Inv, Marks
<1>2. k \in Nat /\ k \notin DOMAIN mailbox /\ \A s \in snaps : s.id # k
  BY <1>1
<1>3. /\ DOMAIN mailbox' = DOMAIN mailbox \cup {k} /\ mailbox'[k] = c
      /\ \A i \in DOMAIN mailbox : mailbox'[i] = mailbox[i]
  BY <1>2 DEF Put
<1>4. meta'.validity = meta.validity + 1 /\ meta'.id = k
  OBVIOUS
<1>5. \A i \in DOMAIN mailbox : mailbox[i].validity # c.validity /\ mailbox[i].name # c.name
  BY <1>1 DEF Taken, Named
<1>6. \A s \in snaps : s.validity # c.validity
  BY <1>1
<1> HIDE DEF k
<1>7. Rows'
  BY <1>2, <1>3, <1>5 DEF Inv, Rows
<1>8. Marks'
  <2>1. Taken(mailbox, Inbox)'
    BY <1>3 DEF Inv, Marks, Taken, Named
  <2>2. \A i \in DOMAIN mailbox' : i <= meta'.id /\ mailbox'[i].validity <= meta'.validity
    BY <1>1, <1>2, <1>3, <1>4 DEF k
  <2>3. \A s \in snaps' : s.id <= meta'.id /\ s.validity <= meta'.validity
    BY <1>1, <1>4 DEF k
  <2> QED BY <1>1, <1>2, <1>4, <2>1, <2>2, <2>3 DEF Inv, Marks
<1>9. Memories'
  BY <1>2, <1>3, <1>6 DEF Inv, Memories
<1> QED BY <1>7, <1>8, <1>9 DEF Inv

LEMMA OpenKeepsInv == Inv /\ Open => Inv'
<1> SUFFICES ASSUME Inv, Open PROVE Inv'
  OBVIOUS
<1> USE MailStoreAssumption
<1>1. /\ Rows'
      /\ Taken(mailbox, Inbox)'
      /\ snaps' = snaps
      /\ mailbox' = mailbox \/ snaps = {}
  <2>1. CASE Taken(mailbox, Inbox)
    BY <2>1 DEF Open, Inv, Rows, Taken, Named
  <2>2. CASE ~Taken(mailbox, Inbox)
    <3>1. mailbox = NoRows /\ snaps = {}
      BY <2>2 DEF Inv, Marks
    <3>2. /\ DOMAIN mailbox' = {1} /\ mailbox'[1] = EmptyBox(Inbox, 1)
      BY <2>2, <3>1 DEF Open, Put, NoRows
    <3>3. BoxOK(mailbox'[1]) /\ mailbox'[1].name = Inbox
      BY <3>2, EmptyBoxOK
    <3> QED BY <3>1, <3>2, <3>3 DEF Open, Rows, Taken, Named
  <2> QED BY <2>1, <2>2
<1>2. \A i \in DOMAIN mailbox' : i \in Nat /\ mailbox'[i].validity \in Nat
  <2>1. \A i \in DOMAIN mailbox' : i \in Nat /\ BoxOK(mailbox'[i])
    BY <1>1 DEF Rows
  <2> QED BY <2>1, RowFacts
<1>3. PICK v \in {mailbox'[i].validity : i \in DOMAIN mailbox'} \cup {meta.validity},
           id \in DOMAIN mailbox' \cup {meta.id} :
        /\ \A w \in {mailbox'[i].validity : i \in DOMAIN mailbox'} \cup {meta.validity} : w <= v
        /\ \A i \in DOMAIN mailbox' \cup {meta.id} : i <= id
        /\ meta' = [validity |-> v, id |-> id]
  BY DEF Open
<1>4. /\ meta.validity \in Nat /\ meta.id \in Nat /\ v \in Nat /\ id \in Nat
      /\ meta.validity <= v /\ meta.id <= id
      /\ \A i \in DOMAIN mailbox' : i <= id /\ mailbox'[i].validity <= v
  BY <1>2, <1>3 DEF Inv, Marks
<1>5. Marks'
  <2>1. \A s \in snaps : s.id <= id /\ s.validity <= v
    <3>1. \A s \in snaps : {s.id, s.validity} \subseteq Nat
                              /\ s.id <= meta.id /\ s.validity <= meta.validity
      BY DEF Inv, Marks, Memories, SnapOK
    <3> QED BY <1>4, <3>1
  <2>2. open' = TRUE /\ meta' \in [validity : Nat, id : Nat]
    BY <1>3, <1>4 DEF Open
  <2>3. meta'.validity = v /\ meta'.id = id
    BY <1>3
  <2> QED BY <1>1, <1>4, <2>1, <2>2, <2>3 DEF Marks
<1>6. Memories'
  BY <1>1 DEF Inv, Memories
<1> QED BY <1>1, <1>5, <1>6 DEF Inv

LEMMA CreateCutKeepsInv ==
    ASSUME Inv, NEW n \in Names, CreateCut(n)
    PROVE  Inv'
<1>1. /\ mailbox' = mailbox /\ snaps' = snaps /\ open' = FALSE
      /\ meta.validity \in Nat /\ meta.id \in Nat
      /\ meta' \in [validity : Nat, id : Nat]
      /\ meta.validity <= meta'.validity /\ meta.id <= meta'.id
  BY DEF CreateCut, Inv, Marks
<1>2. \A s \in snaps : {s.id, s.validity} \subseteq Nat
                          /\ s.id <= meta.id /\ s.validity <= meta.validity
  BY DEF Inv, Marks, Memories, SnapOK
<1>3. \A s \in snaps : s.id <= meta'.id /\ s.validity <= meta'.validity
  BY <1>1, <1>2
<1>4. Rows' /\ Memories'
  BY <1>1 DEF Inv, Rows, Memories
<1>5. Marks'
  BY <1>1, <1>3 DEF Inv, Marks, Taken, Named
<1> QED BY <1>4, <1>5 DEF Inv

LEMMA DeleteKeepsInv ==
    ASSUME Inv, NEW n \in Names, Delete(n)
    PROVE  Inv'
<1>1. /\ DOMAIN mailbox' = DOMAIN mailbox \ Named(mailbox, n)
      /\ \A i \in DOMAIN mailbox' : mailbox'[i] = mailbox[i]
      /\ UNCHANGED <<open, meta, snaps>>
  BY DEF Delete, Dropped, Without
<1>2. Taken(mailbox, Inbox)' <=> Taken(mailbox, Inbox)
  BY <1>1 DEF Delete, Taken, Named
<1>3. Rows'
  BY <1>1 DEF Inv, Rows
<1>4. Marks'
  BY <1>1, <1>2 DEF Delete, Inv, Marks
<1>5. Memories'
  BY <1>1 DEF Inv, Memories
<1> QED BY <1>3, <1>4, <1>5 DEF Inv

LEMMA RenameKeepsInv ==
    ASSUME Inv, NEW from \in Names, NEW to \in Names, Rename(from, to)
    PROVE  Inv'
<1> DEFINE S == Subtree(mailbox, from)
           N(i) == IF i \in S THEN Renamed(from, to, mailbox[i].name) ELSE mailbox[i].name
<1>1. /\ DOMAIN mailbox' = DOMAIN mailbox
      /\ \A i \in DOMAIN mailbox : mailbox'[i] =
            IF i \in S THEN [mailbox[i] EXCEPT !.name = Renamed(from, to, mailbox[i].name)]
            ELSE mailbox[i]
      /\ UNCHANGED <<open, meta, snaps>>
      /\ open
  BY DEF Rename, RenameSubtree
<1>2. /\ S \subseteq DOMAIN mailbox
      /\ \A i \in S :
            LET dest == Renamed(from, to, mailbox[i].name) IN
            /\ dest \in Names
            /\ ~Taken(mailbox, dest)
            /\ \A j \in S : Renamed(from, to, mailbox[j].name) = dest => j = i
  BY DEF Rename, CanRenameSubtree, Subtree
<1>3. \A i \in DOMAIN mailbox : mailbox[i].name = Inbox => i \notin S
  <2>1. ~(Len(from) < Len(Inbox)) /\ from # Inbox
    BY MailStoreAssumption DEF Rename
  <2> QED BY <2>1 DEF Subtree, Inferior
<1>4. \A i \in DOMAIN mailbox : BoxOK(mailbox[i])
  BY DEF Inv, Rows
<1> HIDE DEF S
<1>5. ASSUME NEW i \in DOMAIN mailbox
      PROVE  /\ mailbox'[i].name = N(i)
             /\ mailbox'[i].validity = mailbox[i].validity
             /\ BoxOK(mailbox'[i])
             /\ Grows(mailbox[i], mailbox'[i])
  <2>1. CASE i \in S
    <3> DEFINE b == mailbox[i]
               c == mailbox'[i]
               nn == Renamed(from, to, b.name)
    <3>1. c = [b EXCEPT !.name = nn] /\ nn \in Names /\ b \in Row
      BY <1>1, <1>2, <1>4, <2>1 DEF BoxOK
    <3> HIDE DEF b, c, nn
    <3>2. /\ c.name = nn /\ c.validity = b.validity /\ c.uidNext = b.uidNext
          /\ c.modseq = b.modseq /\ c.message = b.message /\ c.expunged = b.expunged
          /\ c \in Row
      BY <3>1 DEF Row
    <3>3. BoxOK(b)
      BY <1>4 DEF b
    <3>4. BoxOK(c)
      BY <3>2, <3>3 DEF BoxOK, Uids
    <3>5. Grows(b, c)
      BY <3>2, <3>3, RowFacts DEF Grows, Uids
    <3> QED BY <2>1, <3>2, <3>4, <3>5 DEF b, c, nn
  <2>2. CASE i \notin S
    BY <1>1, <1>4, <2>2, RowFacts DEF Grows
  <2> QED BY <2>1, <2>2
<1>6. ASSUME NEW i \in DOMAIN mailbox, NEW j \in DOMAIN mailbox, N(i) = N(j)
      PROVE  i = j
  <2>1. CASE i \in S /\ j \in S
    BY <1>2, <1>6, <2>1
  <2>2. CASE i \in S /\ j \notin S
    BY <1>2, <1>6, <2>2 DEF Taken, Named
  <2>3. CASE i \notin S /\ j \in S
    BY <1>2, <1>6, <2>3 DEF Taken, Named
  <2>4. CASE i \notin S /\ j \notin S
    BY <1>6, <2>4 DEF Inv, Rows
  <2> QED BY <2>1, <2>2, <2>3, <2>4
<1>7. Rows'
  BY <1>1, <1>5, <1>6 DEF Inv, Rows
<1>8. Marks'
  <2>1. Taken(mailbox, Inbox)'
    <3>1. PICK i \in DOMAIN mailbox : mailbox[i].name = Inbox
      BY <1>1 DEF Inv, Marks, Taken, Named
    <3> QED BY <1>1, <1>3, <1>5, <3>1 DEF Taken, Named
  <2> QED BY <1>1, <1>5, <2>1 DEF Inv, Marks
<1>9. Memories'
  <2>1. ASSUME NEW s \in snaps, NEW j \in DOMAIN mailbox, s.id = j
        PROVE  Fits(s, mailbox'[j])
    <3>1. Fits(s, mailbox[j]) /\ SnapOK(s)
      BY <2>1 DEF Inv, Memories
    <3> QED BY <1>4, <1>5, <3>1, FitsGrown
  <2> QED BY <1>1, <1>5, <2>1 DEF Inv, Memories
<1> QED BY <1>7, <1>8, <1>9 DEF Inv

LEMMA RenameInboxKeepsInv ==
    ASSUME Inv, NEW to \in Names, RenameInbox(to)
    PROVE  Inv'
<1>1. PICK i \in Named(mailbox, Inbox) :
         mailbox' = Put([mailbox EXCEPT ![i] = Emptied(mailbox[i])], meta.id + 1,
                        FreshCopy(mailbox[i], to, meta.validity + 1))
  BY DEF RenameInbox, Split, Raised
<1> DEFINE b == mailbox[i]
           e == Emptied(b)
           c == FreshCopy(b, to, meta.validity + 1)
           half == [mailbox EXCEPT ![i] = e]
           k == meta.id + 1
<1>2. /\ i \in DOMAIN mailbox /\ b.name = Inbox /\ BoxOK(b)
      /\ meta.validity \in Nat /\ meta.id \in Nat
      /\ open /\ ~Taken(mailbox, to)
      /\ meta' = [validity |-> meta.validity + 1, id |-> k]
      /\ UNCHANGED <<open, snaps>>
  BY DEF Inv, Rows, Marks, RenameInbox, Raised, Named
<1>3. BoxOK(e) /\ Grows(b, e) /\ e.name = b.name /\ e.validity = b.validity
  BY <1>2, EmptiedGrows DEF Grows
<1>4. BoxOK(c) /\ c.name = to /\ c.validity = meta.validity + 1
  BY <1>2, FreshCopyOK
<1> HIDE DEF e, c
<1>5. /\ \A j \in DOMAIN mailbox : j \in Nat /\ mailbox[j].validity \in Nat
      /\ \A j \in DOMAIN mailbox : j <= meta.id /\ mailbox[j].validity <= meta.validity
      /\ \A s \in snaps : {s.id, s.validity} \subseteq Nat
      /\ \A s \in snaps : s.id <= meta.id /\ s.validity <= meta.validity
  <2>1. \A j \in DOMAIN mailbox : j \in Nat /\ BoxOK(mailbox[j])
    BY DEF Inv, Rows
  <2>2. \A j \in DOMAIN mailbox : mailbox[j].validity \in Nat
    BY <2>1, RowFacts
  <2>3. \A s \in snaps : {s.id, s.validity} \subseteq Nat
    BY DEF Inv, Memories, SnapOK
  <2> QED BY <1>2, <2>1, <2>2, <2>3 DEF Inv, Marks
<1>6. k \in Nat /\ k \notin DOMAIN mailbox /\ \A s \in snaps : s.id # k
  BY <1>2, <1>5
<1>7. /\ DOMAIN mailbox' = DOMAIN mailbox \cup {k} /\ mailbox'[k] = c /\ mailbox'[i] = e
      /\ \A j \in DOMAIN mailbox : j # i => mailbox'[j] = mailbox[j]
  <2>1. /\ DOMAIN half = DOMAIN mailbox /\ half[i] = e
        /\ \A j \in DOMAIN mailbox : j # i => half[j] = mailbox[j]
    BY <1>2
  <2>2. mailbox' = Put(half, k, c)
    BY <1>1 DEF e, c
  <2> HIDE DEF half
  <2> QED BY <1>2, <1>6, <2>1, <2>2 DEF Put
<1>8. \A j \in DOMAIN mailbox :
         /\ mailbox'[j].name = mailbox[j].name /\ mailbox'[j].validity = mailbox[j].validity
         /\ BoxOK(mailbox'[j])
  BY <1>3, <1>7 DEF Inv, Rows
<1>9. \A j \in DOMAIN mailbox : mailbox[j].validity # c.validity /\ mailbox[j].name # c.name
  BY <1>2, <1>4, <1>5 DEF Taken, Named
<1>10. \A s \in snaps : s.validity # c.validity
  BY <1>2, <1>4, <1>5
<1>11. meta'.validity = meta.validity + 1 /\ meta'.id = k
  BY <1>2
<1> HIDE DEF k
<1>12. Rows'
  <2>1. BoxOK(mailbox'[k])
    BY <1>4, <1>7
  <2>2. ASSUME NEW j \in DOMAIN mailbox', NEW l \in DOMAIN mailbox',
               mailbox'[j].validity = mailbox'[l].validity \/ mailbox'[j].name = mailbox'[l].name
        PROVE  j = l
    <3>1. CASE j = k \/ l = k
      BY <1>7, <1>8, <1>9, <2>2, <3>1
    <3>2. CASE j # k /\ l # k
      BY <1>7, <1>8, <2>2, <3>2 DEF Inv, Rows
    <3> QED BY <3>1, <3>2
  <2> QED BY <1>6, <1>7, <1>8, <2>1, <2>2 DEF Inv, Rows
<1>13. Marks'
  <2>1. Taken(mailbox, Inbox)'
    BY <1>2, <1>7, <1>8 DEF Taken, Named
  <2>2. \A j \in DOMAIN mailbox' : j <= meta'.id /\ mailbox'[j].validity <= meta'.validity
    BY <1>2, <1>4, <1>5, <1>6, <1>7, <1>8, <1>11 DEF k
  <2>3. \A s \in snaps' : s.id <= meta'.id /\ s.validity <= meta'.validity
    BY <1>2, <1>5, <1>11 DEF k
  <2>4. meta' \in [validity : Nat, id : Nat]
    BY <1>2, <1>6
  <2> QED BY <1>2, <2>1, <2>2, <2>3, <2>4 DEF Inv, Marks
<1>14. Memories'
  <2>1. ASSUME NEW s \in snaps, NEW j \in DOMAIN mailbox'
        PROVE  /\ s.id = j <=> s.validity = mailbox'[j].validity
               /\ s.id = j => Fits(s, mailbox'[j])
    <3>1. CASE j = k
      BY <1>6, <1>7, <1>10, <3>1
    <3>2. CASE j \in DOMAIN mailbox /\ j # i
      BY <1>7, <3>2 DEF Inv, Memories
    <3>3. CASE j = i
      <4>1. s.id = i => Fits(s, b) /\ SnapOK(s)
        BY <1>2 DEF Inv, Memories
      <4>2. s.id = i => Fits(s, e)
        BY <1>2, <1>3, <4>1, FitsGrown
      <4>3. s.id = i <=> s.validity = b.validity
        BY <1>2 DEF Inv, Memories
      <4> QED BY <1>3, <1>7, <3>3, <4>2, <4>3
    <3> QED BY <1>7, <3>1, <3>2, <3>3
  <2> QED BY <1>2, <2>1 DEF Inv, Memories
<1> QED BY <1>12, <1>13, <1>14 DEF Inv

LEMMA RememberKeepsInv ==
    ASSUME Inv, NEW i \in DOMAIN mailbox, Remember(i)
    PROVE  Inv'
<1> DEFINE b == mailbox[i]
           t == [id |-> i, validity |-> b.validity, modseq |-> b.modseq, view |-> View(b)]
<1>1. /\ snaps' = snaps \cup {t}
      /\ UNCHANGED <<open, mailbox, meta>> /\ open
  BY DEF Remember
<1>2. BoxOK(b) /\ i \in Nat
  BY DEF Inv, Rows
<1>3. /\ t.id = i /\ t.validity = b.validity /\ t.modseq = b.modseq /\ t.view = View(b)
      /\ DOMAIN t.view = Uids(b)
      /\ \A u \in Uids(b) : /\ t.view[u] = [mail |-> b.message[u].mail, flags |-> b.message[u].flags]
                            /\ t.view[u].mail = b.message[u].mail
                            /\ t.view[u].flags = b.message[u].flags
      /\ t = [id |-> t.id, validity |-> t.validity, modseq |-> t.modseq, view |-> t.view]
  BY DEF View
<1> HIDE DEF t
<1>4. SnapOK(t)
  <2>1. t.view = [u \in DOMAIN t.view |-> [mail |-> t.view[u].mail, flags |-> t.view[u].flags]]
    BY <1>3 DEF View
  <2> QED BY <1>2, <1>3, <2>1, RowFacts DEF SnapOK
<1>5. Fits(t, b)
  BY <1>2, <1>3, RowFacts DEF Fits, BoxOK
<1>6. Rows'
  BY <1>1 DEF Inv, Rows
<1>7. Marks'
  <2>1. t.id <= meta.id /\ t.validity <= meta.validity
    BY <1>1, <1>3 DEF Inv, Marks
  <2>2. Taken(mailbox, Inbox)
    BY <1>1 DEF Inv, Marks
  <2> QED BY <1>1, <2>1, <2>2 DEF Inv, Marks, Taken, Named
<1>8. Memories'
  <2>1. \A j \in DOMAIN mailbox :
           /\ t.id = j <=> t.validity = mailbox[j].validity
           /\ t.id = j => Fits(t, mailbox[j])
    BY <1>3, <1>5 DEF Inv, Rows
  <2>2. ASSUME NEW s \in snaps, s.validity = t.validity,
               NEW u \in DOMAIN s.view \cap DOMAIN t.view
        PROVE  s.view[u].mail = t.view[u].mail
    <3>1. Fits(s, b)
      BY <1>3, <2>2 DEF Inv, Memories
    <3>2. u \in Uids(b) /\ u \notin DOMAIN b.expunged
      BY <1>2, <1>3, <2>2 DEF BoxOK
    <3> QED BY <1>3, <2>2, <3>1, <3>2 DEF Fits
  <2>3. \A s \in snaps' : SnapOK(s)
    BY <1>1, <1>4 DEF Inv, Memories
  <2>4. \A s \in snaps', j \in DOMAIN mailbox' :
           /\ s.id = j <=> s.validity = mailbox'[j].validity
           /\ s.id = j => Fits(s, mailbox'[j])
    BY <1>1, <2>1 DEF Inv, Memories
  <2>5. \A s, r \in snaps' : s.validity = r.validity =>
           \A u \in DOMAIN s.view \cap DOMAIN r.view : s.view[u].mail = r.view[u].mail
    BY <1>1, <2>2 DEF Inv, Memories
  <2> QED BY <2>3, <2>4, <2>5 DEF Memories
<1> QED BY <1>6, <1>7, <1>8 DEF Inv

LEMMA NextKeepsInv == Inv /\ [Next]_vars => Inv'
<1> SUFFICES ASSUME Inv, [Next]_vars PROVE Inv'
  OBVIOUS
<1>1. \A i \in DOMAIN mailbox : BoxOK(mailbox[i])
  BY DEF Inv, Rows
<1>2. CASE Open
  BY <1>2, OpenKeepsInv
<1>3. ASSUME NEW n \in Names, Create(n)
      PROVE  Inv'
  <2>1. meta.validity + 1 \in Nat
    BY DEF Inv, Marks
  <2>2. LET c == EmptyBox(n, meta.validity + 1)
        IN  BoxOK(c) /\ c.name = n /\ c.validity = meta.validity + 1
    BY <2>1, EmptyBoxOK
  <2> QED BY <1>3, <2>2, NewRowKeepsInv DEF Create, Made, Raised
<1>4. ASSUME NEW n \in Names, CreateCut(n) \/ Delete(n) \/ RenameInbox(n)
      PROVE  Inv'
  BY <1>4, CreateCutKeepsInv, DeleteKeepsInv, RenameInboxKeepsInv
<1>5. ASSUME NEW i \in DOMAIN mailbox, NEW to \in Names, Rename(mailbox[i].name, to)
      PROVE  Inv'
  <2>1. mailbox[i].name \in Names
    BY <1>1 DEF BoxOK, Row
  <2> QED BY <1>5, <2>1, RenameKeepsInv
<1>6. ASSUME NEW i \in DOMAIN mailbox, Remember(i)
      PROVE  Inv'
  BY <1>6, RememberKeepsInv
<1>7. ASSUME NEW i \in DOMAIN mailbox, ExpungeDeleted(i)
      PROVE  Inv'
  BY <1>1, <1>7, ExpungeDeletedGrows, ChangeKeepsInv DEF ExpungeDeleted
<1>8. ASSUME NEW i \in DOMAIN mailbox, NEW m \in Mails, NEW F \in SUBSET Flags, AppendMail(i, m, F)
      PROVE  Inv'
  BY <1>1, <1>8, AppendGrows, ChangeKeepsInv DEF AppendMail
<1>9. ASSUME NEW i \in DOMAIN mailbox, NEW u \in Uids(mailbox[i]), Expunge(i, u)
      PROVE  Inv'
  BY <1>1, <1>9, ExpungeGrows, ChangeKeepsInv DEF Expunge
<1>10. ASSUME NEW i \in DOMAIN mailbox, NEW u \in Uids(mailbox[i]), NEW mode \in StoreModes,
              NEW F \in SUBSET Flags, StoreFlags(i, u, mode, F)
       PROVE  Inv'
  BY <1>1, <1>10, StoreGrows, ChangeKeepsInv DEF StoreFlags
<1>11. CASE UNCHANGED vars
  BY <1>11 DEF vars, Inv, Rows, Marks, Memories, Taken, Named
<1> QED BY <1>2, <1>3, <1>4, <1>5, <1>6, <1>7, <1>8, <1>9, <1>10, <1>11 DEF Next

LEMMA Invariance == Spec => []Inv
BY InitInv, NextKeepsInv, PTL DEF Spec

-----------------------------------------------------------------------------

\* Rows, marks and history keep their types (sqlite-mailbox.ts, SCHEMA).
THEOREM TypesKept == Spec => []TypeOK
<1>1. Inv => TypeOK
  <2> SUFFICES ASSUME Inv, NEW i \in DOMAIN mailbox
               PROVE  mailbox[i] \in [name : Names, validity : Nat, uidNext : Nat, modseq : Nat,
                                      message : [Uids(mailbox[i]) -> MessageRow],
                                      expunged : [DOMAIN mailbox[i].expunged -> Nat]]
    BY DEF Inv, Rows, Marks, TypeOK
  <2>1. mailbox[i] \in Row
    BY DEF Inv, Rows, BoxOK
  <2>2. /\ mailbox[i].message \in [Uids(mailbox[i]) -> MessageRow]
        /\ mailbox[i].expunged \in [DOMAIN mailbox[i].expunged -> Nat]
    BY <2>1, TableIsFunction DEF Row, Uids
  <2> QED BY <2>1, <2>2 DEF Row
<1> QED BY <1>1, Invariance, PTL

\* Creating, deleting and renaming never give two mailboxes one name, and
\* INBOX stays (SqliteCatalog.create, delete, rename; subtreeRenames).
THEOREM NamesStayMailboxes == Spec => []NamesAreMailboxes
<1>1. Inv => NamesAreMailboxes
  BY DEF Inv, Rows, Marks, NamesAreMailboxes
<1> QED BY <1>1, Invariance, PTL

\* One UIDVALIDITY and uid means one message, for every client, for ever
\* (SqliteCatalog.#nextUidValidity, SqliteMailbox.append, RENAME INBOX).
THEOREM UidsStayMessages == Spec => []UidMeansOneMail
<1>1. Inv => UidMeansOneMail
  <2> SUFFICES ASSUME Inv PROVE UidMeansOneMail
    OBVIOUS
  <2> DEFINE A == {[validity |-> s.validity, view |-> s.view] : s \in snaps}
             B == {[validity |-> mailbox[i].validity, view |-> View(mailbox[i])] :
                      i \in DOMAIN mailbox}
  <2>1. ASSUME NEW s \in snaps, NEW i \in DOMAIN mailbox, s.validity = mailbox[i].validity,
               NEW u \in DOMAIN s.view \cap Uids(mailbox[i])
        PROVE  s.view[u].mail = View(mailbox[i])[u].mail
    <3>1. Fits(s, mailbox[i]) /\ BoxOK(mailbox[i])
      BY <2>1 DEF Inv, Rows, Memories
    <3>2. u \notin DOMAIN mailbox[i].expunged
      BY <2>1, <3>1 DEF BoxOK
    <3> QED BY <2>1, <3>1, <3>2 DEF Fits, View
  <2>2. \A i \in DOMAIN mailbox : DOMAIN View(mailbox[i]) = Uids(mailbox[i])
    BY DEF View
  <2>3. ASSUME NEW s \in A \cup B, NEW t \in A \cup B, s.validity = t.validity,
               NEW u \in DOMAIN s.view \cap DOMAIN t.view
        PROVE  s.view[u].mail = t.view[u].mail
    <3>1. CASE s \in A /\ t \in A
      BY <2>3, <3>1 DEF Inv, Memories
    <3>2. CASE s \in A /\ t \in B
      BY <2>1, <2>2, <2>3, <3>2
    <3>3. CASE s \in B /\ t \in A
      BY <2>1, <2>2, <2>3, <3>3
    <3>4. CASE s \in B /\ t \in B
      BY <2>3, <3>4 DEF Inv, Rows
    <3> QED BY <3>1, <3>2, <3>3, <3>4
  <2> QED BY <2>3 DEF UidMeansOneMail
<1> QED BY <1>1, Invariance, PTL

\* A mailbox id is never handed out twice, so a session whose mailbox was
\* deleted cannot reach another through it (migrateMailboxIdHwm).
THEOREM HandlesStayInert == Spec => []StaleHandleIsInert
<1>1. Inv => StaleHandleIsInert
  BY DEF Inv, Memories, StaleHandleIsInert
<1> QED BY <1>1, Invariance, PTL

\* The QRESYNC replay turns any client's old cache into the mailbox as it is
\* (SqliteMailbox.expungedSince and the mod-sequence every change takes).
THEOREM ReplaysAreExact == Spec => []ReplayIsExact
<1>1. Inv => ReplayIsExact
  <2> SUFFICES ASSUME Inv, NEW s \in snaps, NEW i \in DOMAIN mailbox,
                      s.validity = mailbox[i].validity
               PROVE  Replayed(s, mailbox[i]) = View(mailbox[i])
    BY DEF ReplayIsExact
  <2>1. SnapOK(s) /\ BoxOK(mailbox[i]) /\ Fits(s, mailbox[i])
    BY DEF Inv, Rows, Memories
  <2> QED BY <2>1, ReplayOfFitting
<1> QED BY <1>1, Invariance, PTL
==============================================================================
