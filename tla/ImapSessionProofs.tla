--------------------------- MODULE ImapSessionProofs ---------------------------
(***************************************************************************)
(* What is proved of ImapSession, for any connections, mailboxes, messages *)
(* and bounds: its types, each of its safety properties, and IdlersHear.   *)
(*                                                                         *)
(* Inv says of each connection that the list its client made of the        *)
(* responses is the server's (HeldOK, EntryOK), and of the mailbox it has  *)
(* selected that what it holds beyond that list comes after it (FitsBox):  *)
(* only so may the server append what is new to the list it sent.  That a  *)
(* command keeps this of the other connections depends on what it does to  *)
(* the store, which is one relation, Evolves: uids only grow (Newer,       *)
(* Advances), and no mail is lost but those named (Retains).  Each         *)
(* operation of the store has a lemma that its result has evolved; each    *)
(* action has one lemma, from that and from what its responses do to a     *)
(* client's list.                                                          *)
(*                                                                         *)
(* EXPUNGE responses are taken one by one, and each moves those after it:  *)
(* EachStruck, a recursive function, and Divided, what is left to strike   *)
(* at each point of it, by induction over its length.  The induction is    *)
(* drawn from the least member of a set of naturals (LeastNat).            *)
(***************************************************************************)
EXTENDS ImapSession, FiniteSetTheorems, SequenceTheorems, WellFoundedInduction, TLAPS

-----------------------------------------------------------------------------
(* Induction, for want of a rule with a predicate the provers can          *)
(* instantiate: a set of naturals has a least member.                      *)

LEMMA LeastNat ==
  ASSUME NEW T, T \subseteq Nat, T # {}
  PROVE  \E x \in T : \A y \in T : x <= y
<1> DEFINE R == OpToRel(<, Nat)
<1>1. IsWellFoundedOn(R, Nat)
  BY NatLessThanWellFounded
<1>2. \A x, y \in Nat : y < x => <<y, x>> \in R
  BY DEF OpToRel
<1> HIDE DEF R
<1>3. PICK x \in T : \A y \in T : ~(<<y, x>> \in R)
  BY <1>1, WFMin
<1>4. ASSUME NEW y \in T PROVE x <= y
  <2>1. ~(y < x)
    BY <1>2, <1>3
  <2>2. x \in Nat /\ y \in Nat
    OBVIOUS
  <2> QED BY <2>1, <2>2
<1> QED BY <1>4

LEMMA Induction ==
  ASSUME NEW T, 0 \in T, \A n \in Nat : n \in T => n + 1 \in T
  PROVE  Nat \subseteq T
<1> SUFFICES ASSUME Nat \ T # {} PROVE FALSE
  OBVIOUS
<1>1. PICK x \in Nat \ T : \A y \in Nat \ T : x <= y
  BY LeastNat
<1>2. x # 0 /\ x - 1 \in Nat /\ x - 1 \in T
  BY <1>1
<1> QED BY <1>1, <1>2

-----------------------------------------------------------------------------
(* Places and ascending order *)

Rising(s) == \A i, j \in DOMAIN s : i < j => s[i] < s[j]

LEMMA PlaceBounds ==
  ASSUME NEW S, S \subseteq Nat, IsFiniteSet(S), NEW u \in S
  PROVE  Place(u, S) \in 1..Cardinality(S)
<1> DEFINE T == {w \in S : w <= u}
<1>1. T \subseteq S /\ u \in T
  OBVIOUS
<1>2. IsFiniteSet(T) /\ Cardinality(T) <= Cardinality(S)
  BY <1>1, FS_Subset
<1>3. Cardinality(T) \in Nat /\ Cardinality(S) \in Nat /\ Cardinality(T) # 0
  BY <1>1, <1>2, FS_CardinalityType, FS_EmptySet
<1> QED BY <1>2, <1>3 DEF Place

LEMMA PlaceOrder ==
  ASSUME NEW S, S \subseteq Nat, IsFiniteSet(S), NEW u \in S, NEW w \in S, u < w
  PROVE  Place(u, S) < Place(w, S)
<1> DEFINE U == {x \in S : x <= u}
           W == {x \in S : x <= w}
<1>1. u \in Nat /\ w \in Nat /\ \A x \in S : x \in Nat
  OBVIOUS
<1>2. U \subseteq W
  <2> SUFFICES ASSUME NEW x \in S, x <= u PROVE x <= w
    OBVIOUS
  <2> QED BY <1>1
<1>3. w \in W /\ w \notin U
  BY <1>1
<1>4. W \subseteq S
  OBVIOUS
<1> HIDE DEF U, W
<1>5. IsFiniteSet(W) /\ IsFiniteSet(U)
  BY <1>2, <1>4, FS_Subset
<1>6. Cardinality(U) \in Nat /\ Cardinality(W) \in Nat
  BY <1>5, FS_CardinalityType
<1>7. Cardinality(U) <= Cardinality(W) /\ Cardinality(U) # Cardinality(W)
  BY <1>2, <1>3, <1>5, FS_Subset
<1> QED BY <1>6, <1>7 DEF Place, U, W

\* The places of a set's members, in ascending order, are 1, 2 and so on.
LEMMA PlaceInjective ==
  ASSUME NEW S, S \subseteq Nat, IsFiniteSet(S), NEW u \in S, NEW w \in S,
         Place(u, S) = Place(w, S)
  PROVE  u = w
<1>1. u \in Nat /\ w \in Nat
  OBVIOUS
<1>2. Cardinality(S) \in Nat
  BY FS_CardinalityType
<1>3. Place(u, S) \in 1..Cardinality(S) /\ Place(w, S) \in 1..Cardinality(S)
  BY PlaceBounds
<1>4. ~(u < w)
  <2>1. u < w => Place(u, S) < Place(w, S)
    BY PlaceOrder
  <2> QED BY <1>2, <1>3, <2>1
<1>5. ~(w < u)
  <2>1. w < u => Place(w, S) < Place(u, S)
    BY PlaceOrder
  <2> QED BY <1>2, <1>3, <2>1
<1> QED BY <1>1, <1>4, <1>5

LEMMA PlacesFilled ==
  ASSUME NEW S, S \subseteq Nat, IsFiniteSet(S), NEW k \in 1..Cardinality(S)
  PROVE  \E u \in S : Place(u, S) = k
<1> DEFINE n == Cardinality(S)
           f == [u \in S |-> Place(u, S)]
<1>1. n \in Nat
  BY FS_CardinalityType
<1>2. f \in [S -> 1..n]
  BY PlaceBounds
<1>3. f \in Injection(S, 1..n)
  BY <1>2, PlaceInjective DEF Injection, IsInjective
<1>4. IsFiniteSet(1..n) /\ Cardinality(1..n) = n
  BY <1>1, FS_Interval
<1>5. f \in Surjection(S, 1..n)
  BY <1>3, <1>4, FS_Injection
<1> QED BY <1>5 DEF Surjection

\* Ascending(S) lists S, each member at its place.
LEMMA AscendingLists ==
  ASSUME NEW S, S \subseteq Nat, IsFiniteSet(S)
  PROVE  /\ Ascending(S) \in Seq(S) /\ Ascending(S) \in Seq(Nat)
         /\ Len(Ascending(S)) = Cardinality(S) /\ Cardinality(S) \in Nat
         /\ DOMAIN Ascending(S) = 1..Cardinality(S)
         /\ Rising(Ascending(S))
         /\ ToSet(Ascending(S)) = S
         /\ \A k \in 1..Cardinality(S) : Ascending(S)[k] \in S /\ Place(Ascending(S)[k], S) = k
         /\ \A u \in S : Ascending(S)[Place(u, S)] = u
<1> DEFINE n == Cardinality(S)
           A == Ascending(S)
<1>1. n \in Nat
  BY FS_CardinalityType
<1>2. \A k \in 1..n : A[k] \in S /\ Place(A[k], S) = k
  BY PlacesFilled DEF Ascending
<1>3. DOMAIN A = 1..n /\ A = [k \in 1..n |-> A[k]]
  BY DEF Ascending
<1> HIDE DEF A
<1>4. A \in [1..n -> S] /\ A \in [1..n -> Nat]
  BY <1>2, <1>3
<1>5. A \in Seq(S) /\ A \in Seq(Nat)
  BY <1>1, <1>4, SeqDef
<1>6. Len(A) = n
  BY <1>1, <1>3, <1>5, LenProperties
<1>7. ASSUME NEW u \in S PROVE Place(u, S) \in 1..n /\ A[Place(u, S)] = u
  BY <1>2, PlaceBounds, PlaceInjective
<1>8. ToSet(A) = S
  BY <1>2, <1>3, <1>7 DEF ToSet
<1>9. ASSUME NEW i \in 1..n, NEW j \in 1..n, i < j PROVE A[i] < A[j]
  <2>1. A[i] \in Nat /\ A[j] \in Nat
    BY <1>4
  <2>2. Place(A[i], S) = i /\ Place(A[j], S) = j /\ A[i] \in S /\ A[j] \in S
    BY <1>2
  <2>3. ~(A[j] < A[i])
    <3>1. A[j] < A[i] => Place(A[j], S) < Place(A[i], S)
      BY <2>2, PlaceOrder
    <3> QED BY <1>9, <2>2, <3>1
  <2>4. A[i] # A[j]
    BY <1>9, <2>2
  <2> QED BY <2>1, <2>3, <2>4
<1>10. Rising(A)
  BY <1>3, <1>9 DEF Rising
<1> QED BY <1>1, <1>2, <1>3, <1>5, <1>6, <1>7, <1>8, <1>10 DEF A

\* A rising list is the ascending order of what it holds.
LEMMA RisingIsAscending ==
  ASSUME NEW s \in Seq(Nat), Rising(s)
  PROVE  /\ s = Ascending(ToSet(s))
         /\ IsFiniteSet(ToSet(s)) /\ ToSet(s) \subseteq Nat /\ Cardinality(ToSet(s)) = Len(s)
<1> DEFINE S == ToSet(s)
           n == Len(s)
<1>1. n \in Nat /\ s \in [1..n -> Nat] /\ DOMAIN s = 1..n
  BY LenProperties
<1>2. S = {s[i] : i \in 1..n} /\ S \subseteq Nat
  BY <1>1 DEF ToSet
<1>3. ASSUME NEW k \in 1..n
      PROVE  Place(s[k], S) = k
  <2> DEFINE T == {w \in S : w <= s[k]}
             f == [j \in 1..k |-> s[j]]
  <2>1. ASSUME NEW j \in 1..n PROVE s[j] <= s[k] <=> j <= k
    <3>1. s[j] \in Nat /\ s[k] \in Nat /\ j \in Nat /\ k \in Nat
      BY <1>1
    <3>2. (j < k => s[j] < s[k]) /\ (k < j => s[k] < s[j])
      BY <1>1 DEF Rising
    <3> QED BY <3>1, <3>2
  <2>2. \A i, j \in 1..k : s[i] = s[j] => i = j
    <3> SUFFICES ASSUME NEW i \in 1..k, NEW j \in 1..k, s[i] = s[j], i # j PROVE FALSE
      OBVIOUS
    <3>1. i \in 1..n /\ j \in 1..n /\ s[i] \in Nat /\ s[j] \in Nat
      BY <1>1
    <3>2. (j < i => s[j] < s[i]) /\ (i < j => s[i] < s[j])
      BY <1>1, <3>1 DEF Rising
    <3> QED BY <3>1, <3>2
  <2>3. T = {s[j] : j \in 1..k}
    <3>1. T \subseteq {s[j] : j \in 1..k}
      BY <1>1, <1>2, <2>1
    <3>2. \A j \in 1..k : s[j] \in T
      BY <1>1, <1>2, <2>1
    <3> QED BY <3>1, <3>2
  <2> HIDE DEF T
  <2>4. f \in Bijection(1..k, T)
    BY <2>2, <2>3 DEF Bijection, Injection, Surjection, IsInjective
  <2>5. ExistsBijection(1..k, T) /\ k \in Nat
    BY <2>4, <1>1 DEF ExistsBijection
  <2>6. Cardinality(T) = k
    BY <2>5, FS_CountingElements
  <2> QED BY <2>6 DEF Place, T
<1>4. \A i, j \in 1..n : s[i] = s[j] => i = j
  BY <1>3
<1>5. ExistsBijection(1..n, S)
  <2>1. s \in Bijection(1..n, S)
    BY <1>1, <1>2, <1>4 DEF Bijection, Injection, Surjection, IsInjective
  <2> QED BY <2>1 DEF ExistsBijection
<1>6. Cardinality(S) = n /\ IsFiniteSet(S)
  BY <1>1, <1>5, FS_CountingElements, FS_NatBijection
<1>7. \A k \in 1..n : Ascending(S)[k] = s[k]
  BY <1>2, <1>3, <1>6 DEF Ascending
<1>8. DOMAIN Ascending(S) = 1..n /\ Ascending(S) = [k \in 1..n |-> Ascending(S)[k]]
  BY <1>6 DEF Ascending
<1> QED BY <1>1, <1>2, <1>6, <1>7, <1>8

\* Where a set begins with 1 to k, these are at their own places.
LEMMA AscendingPrefix ==
  ASSUME NEW S, S \subseteq Nat \ {0}, IsFiniteSet(S), NEW k \in Nat, 1..k \subseteq S,
         NEW j \in 1..k
  PROVE  j \in 1..Cardinality(S) /\ Ascending(S)[j] = j
<1>1. j \in S /\ j \in Nat
  OBVIOUS
<1>2. {w \in S : w <= j} = 1..j
  <2>1. \A w \in S : w \in Nat /\ w >= 1
    OBVIOUS
  <2>2. \A w \in 1..j : w \in 1..k
    OBVIOUS
  <2>3. {w \in S : w <= j} \subseteq 1..j
    <3> SUFFICES ASSUME NEW w \in S, w <= j PROVE w \in 1..j
      OBVIOUS
    <3> QED BY <1>1, <2>1
  <2>4. 1..j \subseteq {w \in S : w <= j}
    BY <1>1, <2>2
  <2> QED BY <2>3, <2>4
<1>3. Cardinality(1..j) = j
  BY <1>1, FS_Interval
<1>4. Place(j, S) = j
  BY <1>2, <1>3 DEF Place
<1>5. j \in 1..Cardinality(S)
  BY <1>1, <1>4, PlaceBounds
<1> QED BY <1>1, <1>4, <1>5, AscendingLists

LEMMA RemoveAtFacts ==
  ASSUME NEW T, NEW s \in Seq(T), NEW k \in 1..Len(s)
  PROVE  /\ RemoveAt(s, k) \in Seq(T)
         /\ Len(RemoveAt(s, k)) = Len(s) - 1
         /\ DOMAIN RemoveAt(s, k) = 1..(Len(s) - 1)
         /\ \A j \in 1..(Len(s) - 1) : RemoveAt(s, k)[j] = IF j < k THEN s[j] ELSE s[j + 1]
<1> DEFINE n == Len(s)
           a == SubSeq(s, 1, k - 1)
           b == SubSeq(s, k + 1, n)
<1>1. n \in Nat /\ s \in [1..n -> T] /\ DOMAIN s = 1..n
  BY LenProperties
<1>2. /\ a \in Seq(T) /\ Len(a) = k - 1
      /\ \A i \in 1..(k - 1) : a[i] = s[i]
  <2>1. k \in Int /\ k - 1 \in Int /\ 1 \in Int /\ \A i \in 1..(k - 1) : s[i] \in T
    BY <1>1
  <2>2. /\ a \in Seq(T) /\ Len(a) = IF 1 <= k - 1 THEN k - 1 - 1 + 1 ELSE 0
        /\ \A i \in 1..(k - 1 - 1 + 1) : a[i] = s[1 + i - 1]
    BY <2>1, SubSeqProperties
  <2> QED BY <1>1, <2>2
<1>3. /\ b \in Seq(T) /\ Len(b) = n - k
      /\ \A i \in 1..(n - k) : b[i] = s[k + i]
  <2>1. k + 1 \in Int /\ n \in Int /\ \A i \in (k + 1)..n : s[i] \in T
    BY <1>1
  <2>2. /\ b \in Seq(T) /\ Len(b) = IF k + 1 <= n THEN n - (k + 1) + 1 ELSE 0
        /\ \A i \in 1..(n - (k + 1) + 1) : b[i] = s[k + 1 + i - 1]
    BY <2>1, SubSeqProperties
  <2>3. Len(b) = n - k
    <3>1. k \in Nat /\ n \in Nat /\ k <= n
      BY <1>1
    <3>a. k + 1 <= n <=> k # n
      <4> HIDE DEF n
      <4> QED BY <3>1
    <3>2. Len(b) = IF k # n THEN n - (k + 1) + 1 ELSE 0
      BY <2>2, <3>a
    <3> HIDE DEF n, b
    <3> QED BY <3>1, <3>2
  <2> HIDE DEF b
  <2>4. ASSUME NEW i \in 1..(n - k) PROVE b[i] = s[k + i]
    <3>1. i \in 1..(n - (k + 1) + 1) /\ k + 1 + i - 1 = k + i
      BY <1>1
    <3> QED BY <2>2, <3>1
  <2> QED BY <2>2, <2>3, <2>4
<1>4. RemoveAt(s, k) = a \o b
  BY DEF RemoveAt
<1> HIDE DEF a, b
<1>5. /\ a \o b \in Seq(T) /\ Len(a \o b) = Len(a) + Len(b)
      /\ \A i \in 1..(Len(a) + Len(b)) : (a \o b)[i] = IF i <= Len(a) THEN a[i] ELSE b[i - Len(a)]
  BY <1>2, <1>3, ConcatProperties
<1>6. Len(a \o b) = n - 1 /\ Len(a) + Len(b) = n - 1
  BY <1>1, <1>2, <1>3, <1>5
<1>7. DOMAIN (a \o b) = 1..(n - 1)
  BY <1>5, <1>6, LenProperties
<1>8. ASSUME NEW j \in 1..(n - 1)
      PROVE  (a \o b)[j] = IF j < k THEN s[j] ELSE s[j + 1]
  <2>1. (a \o b)[j] = IF j <= k - 1 THEN a[j] ELSE b[j - (k - 1)]
    BY <1>2, <1>5, <1>6
  <2>2. CASE j < k
    BY <1>2, <2>1, <2>2
  <2>3. CASE ~(j < k)
    <3>1. j - (k - 1) \in 1..(n - k) /\ k + (j - (k - 1)) = j + 1
      BY <1>1, <2>3
    <3> QED BY <1>3, <2>1, <2>3, <3>1
  <2> QED BY <2>2, <2>3
<1> QED BY <1>4, <1>5, <1>6, <1>7, <1>8

\* Without its k-th member, the others of a set move up.
LEMMA AscendingWithout ==
  ASSUME NEW S, S \subseteq Nat, IsFiniteSet(S), NEW k \in 1..Cardinality(S)
  PROVE  Ascending(S \ {Ascending(S)[k]}) = RemoveAt(Ascending(S), k)
<1> DEFINE A == Ascending(S)
           B == RemoveAt(A, k)
           n == Cardinality(S)
<1>1. /\ A \in Seq(Nat) /\ Len(A) = n /\ n \in Nat /\ DOMAIN A = 1..n /\ Rising(A)
      /\ ToSet(A) = S
  BY AscendingLists
<1> HIDE DEF A
<1>2. /\ B \in Seq(Nat) /\ DOMAIN B = 1..(n - 1)
      /\ \A j \in 1..(n - 1) : B[j] = IF j < k THEN A[j] ELSE A[j + 1]
  <2>1. k \in 1..Len(A)
    BY <1>1
  <2> QED BY <1>1, <2>1, RemoveAtFacts
<1> HIDE DEF B
<1>3. Rising(B)
  <2> SUFFICES ASSUME NEW i \in 1..(n - 1), NEW j \in 1..(n - 1), i < j PROVE B[i] < B[j]
    BY <1>2 DEF Rising
  <2> DEFINE ii == IF i < k THEN i ELSE i + 1
             jj == IF j < k THEN j ELSE j + 1
  <2>1. ii \in 1..n /\ jj \in 1..n /\ ii < jj
    BY <1>1
  <2>2. B[i] = A[ii] /\ B[j] = A[jj]
    BY <1>2
  <2> HIDE DEF ii, jj
  <2> QED BY <1>1, <2>1, <2>2 DEF Rising
<1>4. \A i, j \in 1..n : A[i] = A[j] => i = j
  <2> SUFFICES ASSUME NEW i \in 1..n, NEW j \in 1..n, A[i] = A[j], i # j PROVE FALSE
    OBVIOUS
  <2>1. A[i] \in Nat /\ A[j] \in Nat /\ (i < j \/ j < i)
    BY <1>1, ElementOfSeq
  <2> QED BY <1>1, <2>1 DEF Rising
<1>5. ToSet(B) = S \ {A[k]}
  <2>1. ASSUME NEW j \in 1..(n - 1) PROVE B[j] \in S \ {A[k]}
    <3>1. \E i \in 1..n : i # k /\ B[j] = A[i]
      <4>1. j + 1 \in 1..n /\ j \in 1..n
        BY <1>1
      <4>2. CASE j < k
        BY <1>2, <4>1, <4>2
      <4>3. CASE ~(j < k)
        <5>1. j + 1 # k
          BY <4>3
        <5> QED BY <1>2, <4>1, <4>3, <5>1
      <4> QED BY <4>2, <4>3
    <3> QED BY <1>1, <1>4, <3>1 DEF ToSet
  <2>2. ASSUME NEW u \in S \ {A[k]} PROVE \E j \in 1..(n - 1) : B[j] = u
    <3>1. PICK i \in 1..n : A[i] = u /\ i # k
      BY <1>1 DEF ToSet
    <3>2. CASE i < k
      <4>1. i \in 1..(n - 1)
        BY <1>1, <3>2
      <4> QED BY <1>2, <3>1, <3>2, <4>1
    <3>3. CASE i > k
      <4>1. i - 1 \in 1..(n - 1) /\ ~(i - 1 < k) /\ i - 1 + 1 = i
        BY <1>1, <3>3
      <4>2. B[i - 1] = A[i - 1 + 1]
        BY <1>2, <4>1
      <4> QED BY <3>1, <4>1, <4>2
    <3> QED BY <3>1, <3>2, <3>3
  <2> QED BY <1>2, <2>1, <2>2 DEF ToSet
<1> QED BY <1>2, <1>3, <1>5, RisingIsAscending DEF A, B

LEMMA PickedFacts ==
  ASSUME NEW T, NEW s \in Seq(T), NEW P, P \subseteq DOMAIN s
  PROVE  /\ IsFiniteSet(P) /\ P \subseteq Nat \ {0} /\ Cardinality(P) \in Nat
         /\ Picked(s, P) \in Seq(T)
         /\ Len(Picked(s, P)) = Cardinality(P) /\ DOMAIN Picked(s, P) = 1..Cardinality(P)
         /\ \A k \in 1..Cardinality(P) :
               Ascending(P)[k] \in P /\ Picked(s, P)[k] = s[Ascending(P)[k]]
         /\ ToSet(Picked(s, P)) = {s[k] : k \in P}
<1> DEFINE n == Cardinality(P)
<1>1. Len(s) \in Nat /\ s \in [1..Len(s) -> T] /\ DOMAIN s = 1..Len(s)
  BY LenProperties
<1>2. IsFiniteSet(P) /\ P \subseteq Nat \ {0}
  <2>1. IsFiniteSet(1..Len(s))
    BY <1>1, FS_Interval
  <2> QED BY <1>1, <2>1, FS_Subset
<1>3. /\ n \in Nat /\ \A k \in 1..n : Ascending(P)[k] \in P
      /\ \A u \in P : Ascending(P)[Place(u, P)] = u /\ Place(u, P) \in 1..n
  BY <1>2, AscendingLists, PlaceBounds
<1>4. DOMAIN Picked(s, P) = 1..n /\ \A k \in 1..n : Picked(s, P)[k] = s[Ascending(P)[k]]
  BY DEF Picked
<1>5. Picked(s, P) \in [1..n -> T]
  BY <1>1, <1>3 DEF Picked
<1>6. Picked(s, P) \in Seq(T)
  BY <1>3, <1>5, SeqDef
<1>7. Len(Picked(s, P)) = n
  BY <1>3, <1>4, <1>6, LenProperties
<1>8. ToSet(Picked(s, P)) = {s[k] : k \in P}
  BY <1>3, <1>4 DEF ToSet
<1> QED BY <1>2, <1>3, <1>4, <1>6, <1>7, <1>8

\* Picking everything is picking nothing out.
LEMMA PickedWhole ==
  ASSUME NEW T, NEW s \in Seq(T)
  PROVE  Picked(s, DOMAIN s) = s
<1> DEFINE n == Len(s)
<1>1. n \in Nat /\ s \in [1..n -> T] /\ DOMAIN s = 1..n
  BY LenProperties
<1>2. IsFiniteSet(1..n) /\ Cardinality(1..n) = n /\ 1..n \subseteq Nat \ {0}
  <2> HIDE DEF n
  <2>1. IsFiniteSet(1..n) /\ Cardinality(1..n) = IF 1 <= n THEN n - 1 + 1 ELSE 0
    BY <1>1, FS_Interval
  <2> QED BY <1>1, <2>1
<1>3. \A k \in 1..n : Ascending(1..n)[k] = k
  BY <1>1, <1>2, AscendingPrefix
<1> QED BY <1>1, <1>2, <1>3 DEF Picked

LEMMA RemovePicked ==
  ASSUME NEW T, NEW s \in Seq(T), NEW P, P \subseteq DOMAIN s, NEW k \in Nat \ {0}, 1..k \subseteq P
  PROVE  RemoveAt(Picked(s, P), k) = Picked(s, P \ {k})
<1> DEFINE p == Picked(s, P)
           m == Cardinality(P)
           A == Ascending(P)
           r == Picked(s, P \ {k})
           m1 == Cardinality(P \ {k})
           A1 == Ascending(P \ {k})
<1>1. /\ IsFiniteSet(P) /\ P \subseteq Nat \ {0} /\ P \subseteq Nat /\ m \in Nat
      /\ p \in Seq(T) /\ Len(p) = m
      /\ \A j \in 1..m : p[j] = s[A[j]]
  BY PickedFacts
<1>2. /\ A \in Seq(Nat) /\ Len(A) = m
  BY <1>1, AscendingLists
<1>3. k \in Nat /\ k \in 1..k /\ k \in 1..m /\ A[k] = k
  <2>1. k \in Nat /\ k \in 1..k
    OBVIOUS
  <2> QED BY <1>1, <2>1, AscendingPrefix
<1>4. k \in P
  BY <1>3
<1>5. A1 = RemoveAt(A, k)
  BY <1>1, <1>3, AscendingWithout
<1>6. P \ {k} \subseteq DOMAIN s
  OBVIOUS
<1>7. /\ r \in Seq(T) /\ DOMAIN r = 1..m1 /\ Len(r) = m1
      /\ \A j \in 1..m1 : r[j] = s[A1[j]]
  BY <1>6, PickedFacts
<1>8. m1 = m - 1
  BY <1>1, <1>4, FS_RemoveElement
<1> HIDE DEF p, r, A, A1, m, m1
<1>9. /\ RemoveAt(p, k) \in Seq(T) /\ DOMAIN RemoveAt(p, k) = 1..(m - 1)
      /\ \A j \in 1..(m - 1) : RemoveAt(p, k)[j] = IF j < k THEN p[j] ELSE p[j + 1]
  <2>1. k \in 1..Len(p)
    BY <1>1, <1>3
  <2> QED BY <1>1, <2>1, RemoveAtFacts
<1>10. \A j \in 1..(m - 1) : A1[j] = IF j < k THEN A[j] ELSE A[j + 1]
  <2>1. k \in 1..Len(A)
    BY <1>2, <1>3
  <2> QED BY <1>2, <1>5, <2>1, RemoveAtFacts
<1>11. ASSUME NEW j \in 1..(m - 1) PROVE RemoveAt(p, k)[j] = r[j]
  <2>1. j \in 1..m /\ j + 1 \in 1..m
    BY <1>1
  <2>2. CASE j < k
    BY <1>1, <1>7, <1>8, <1>9, <1>10, <2>1, <2>2
  <2>3. CASE ~(j < k)
    <3>1. RemoveAt(p, k)[j] = p[j + 1] /\ A1[j] = A[j + 1]
      BY <1>9, <1>10, <2>3
    <3>2. p[j + 1] = s[A[j + 1]]
      BY <1>1, <2>1
    <3>3. r[j] = s[A1[j]]
      BY <1>7, <1>8
    <3> QED BY <3>1, <3>2, <3>3
  <2> QED BY <2>2, <2>3
<1>12. RemoveAt(p, k) = r
  BY <1>7, <1>8, <1>9, <1>11
<1> QED BY <1>12 DEF p, r

\* EXPUNGEs from the last place to the first, each by its number at the time,
\* strike the entries they mean (emitExpunged).
LEMMA EachStruckPicks ==
  ASSUME NEW T, NEW told \in Seq(T), NEW known, NEW gone, Len(known) = Len(told)
  PROVE  EachStruck(told, known, gone) = Picked(told, {k \in DOMAIN told : known[k] \notin gone})
<1> DEFINE N == Len(told)
           Q(n) == {k \in 1..N : k <= N - n \/ known[k] \notin gone}
           Step(f, n) == IF n = 0 THEN told
                         ELSE LET k == N + 1 - n
                              IN  IF known[k] \in gone THEN RemoveAt(f[n - 1], k) ELSE f[n - 1]
           g == [n \in 0..N |-> Picked(told, Q(n))]
<1>1. N \in Nat /\ DOMAIN told = 1..N
  BY LenProperties
<1>2. ASSUME NEW n \in 0..N PROVE Picked(told, Q(n)) = Step(g, n)
  <2>1. CASE n = 0
    <3>1. Q(0) = 1..N
      BY <1>1
    <3>2. Picked(told, Q(0)) = told
      BY <1>1, <3>1, PickedWhole
    <3> QED BY <2>1, <3>2
  <2>2. CASE n # 0
    <3> DEFINE k == N + 1 - n
               P == Q(n - 1)
    <3>1. n \in 1..N /\ n - 1 \in 0..N /\ k \in 1..N
      BY <1>1, <2>2
    <3>2. Q(n) = IF known[k] \in gone THEN P \ {k} ELSE P
      <4>1. ASSUME NEW x \in 1..N PROVE x <= N - n <=> (x <= N - (n - 1) /\ x # k)
        BY <1>1, <3>1
      <4> HIDE DEF k
      <4>2. \A x \in 1..N : x \in Q(n) <=> IF known[k] \in gone THEN x \in P /\ x # k ELSE x \in P
        BY <4>1
      <4> QED BY <4>2
    <3>3. P \subseteq DOMAIN told /\ 1..k \subseteq P
      BY <1>1, <3>1
    <3>4. g[n - 1] = Picked(told, P)
      BY <3>1
    <3> HIDE DEF P, g, Q
    <3>5. RemoveAt(Picked(told, P), k) = Picked(told, P \ {k})
      <4>1. k \in Nat \ {0}
        BY <3>1
      <4> QED BY <3>3, <4>1, RemovePicked
    <3>6. CASE known[k] \in gone
      BY <2>2, <3>2, <3>4, <3>5, <3>6
    <3>7. CASE known[k] \notin gone
      BY <2>2, <3>2, <3>4, <3>7
    <3> QED BY <3>6, <3>7
  <2> QED BY <2>1, <2>2
<1>3. g = [n \in 0..N |-> Step(g, n)]
  BY <1>2
<1> DEFINE left == CHOOSE f : f = [n \in 0..N |-> Step(f, n)]
<1> HIDE DEF g, Step
<1>4. left = [n \in 0..N |-> Step(left, n)]
  BY <1>3
<1>5. EachStruck(told, known, gone) = left[N]
  BY DEF EachStruck, Step
<1> HIDE DEF left
<1>6. \A n \in 0..N : left[n] = g[n]
  <2> DEFINE Good == {n \in Nat : n \in 0..N => left[n] = g[n]}
  <2>1. 0 \in Good
    BY <1>1, <1>3, <1>4 DEF Step
  <2>2. ASSUME NEW n \in Nat, n \in Good PROVE n + 1 \in Good
    <3> SUFFICES ASSUME n + 1 \in 0..N PROVE left[n + 1] = g[n + 1]
      OBVIOUS
    <3>1. n \in 0..N /\ n + 1 # 0 /\ n + 1 - 1 = n
      BY <1>1
    <3>2. left[n] = g[n]
      BY <2>2, <3>1
    <3>3. Step(left, n + 1) = Step(g, n + 1)
      BY <3>1, <3>2 DEF Step
    <3> QED BY <1>3, <1>4, <3>3
  <2> HIDE DEF Good
  <2>3. Nat \subseteq Good
    BY <2>1, <2>2, Induction
  <2> QED BY <2>3 DEF Good
<1>7. left[N] = Picked(told, Q(N))
  BY <1>1, <1>6 DEF g
<1>8. Q(N) = {k \in DOMAIN told : known[k] \notin gone}
  BY <1>1
<1> QED BY <1>5, <1>7, <1>8

-----------------------------------------------------------------------------
(* The client's list and the server's *)

Entries == [uid : Nat, flags : (SUBSET Flags) \cup {Unknown}]

\* The client's list is the server's, entry by entry.
Agree(told, known) ==
    /\ told \in Seq(Entries) /\ known \in Seq(Nat) /\ Rising(known)
    /\ Len(told) = Len(known)
    /\ \A k \in DOMAIN told : told[k].uid = known[k]

LEMMA AgreeFacts ==
  ASSUME NEW told, NEW known, Agree(told, known)
  PROVE  DOMAIN told = DOMAIN known /\ \A k \in DOMAIN told : told[k].uid = known[k]
BY LenProperties DEF Agree

LEMMA PickedInOrder ==
  ASSUME NEW s \in Seq(Nat), Rising(s), NEW P, P \subseteq DOMAIN s
  PROVE  Picked(s, P) = Ascending({s[k] : k \in P}) /\ Rising(Picked(s, P))
<1> DEFINE r == Picked(s, P)
           A == Ascending(P)
           n == Cardinality(P)
<1>1. /\ IsFiniteSet(P) /\ P \subseteq Nat /\ n \in Nat /\ r \in Seq(Nat) /\ DOMAIN r = 1..n
      /\ \A k \in 1..n : A[k] \in P /\ r[k] = s[A[k]]
      /\ ToSet(r) = {s[k] : k \in P}
  BY PickedFacts
<1>2. Rising(A) /\ DOMAIN A = 1..n
  BY <1>1, AscendingLists
<1> HIDE DEF r, A, n
<1>3. Rising(r)
  BY <1>1, <1>2 DEF Rising
<1>4. r = Ascending(ToSet(r))
  BY <1>1, <1>3, RisingIsAscending
<1> QED BY <1>1, <1>3, <1>4 DEF r

\* The entries of a list are those of the client's old list, or new and bare.
From(list, told) == \A k \in DOMAIN list : \E j \in DOMAIN told : list[k] = told[j]

Continues(list, told) ==
    \A k \in DOMAIN list : list[k].flags = Unknown \/ \E j \in DOMAIN told : list[k] = told[j]

LEMMA PickedAgree ==
  ASSUME NEW told, NEW known, Agree(told, known), NEW P, P \subseteq DOMAIN told
  PROVE  /\ Agree(Picked(told, P), Picked(known, P))
         /\ From(Picked(told, P), told)
<1> DEFINE t == Picked(told, P)
           r == Picked(known, P)
           n == Cardinality(P)
<1>1. told \in Seq(Entries) /\ known \in Seq(Nat) /\ Rising(known) /\ DOMAIN told = DOMAIN known
  BY LenProperties DEF Agree
<1>2. /\ t \in Seq(Entries) /\ Len(t) = n /\ DOMAIN t = 1..n
      /\ \A k \in 1..n : Ascending(P)[k] \in P /\ t[k] = told[Ascending(P)[k]]
  BY <1>1, PickedFacts
<1>3. /\ r \in Seq(Nat) /\ Len(r) = n
      /\ \A k \in 1..n : r[k] = known[Ascending(P)[k]]
  BY <1>1, PickedFacts
<1>4. Rising(r)
  BY <1>1, PickedInOrder
<1> HIDE DEF t, r, n
<1>5. \A k \in 1..n : t[k].uid = r[k]
  BY <1>2, <1>3 DEF Agree
<1>6. Agree(t, r)
  BY <1>2, <1>3, <1>4, <1>5 DEF Agree
<1>7. \A k \in 1..n : \E j \in DOMAIN told : t[k] = told[j]
  BY <1>2
<1> QED BY <1>2, <1>6, <1>7 DEF t, r, From

\* P are the places of what is not gone.
Remaining(known, gone, P) ==
    P \subseteq DOMAIN known /\ \A k \in DOMAIN known : k \in P <=> known[k] \notin gone

\* VANISHED and the EXPUNGEs strike the same entries.
LEMMA StruckAgree ==
  ASSUME NEW c, NEW told, NEW known, NEW gone, NEW P,
         Agree(told, known), Remaining(known, gone, P)
  PROVE  /\ Struck(c, told, known, gone) = Picked(told, P)
         /\ P \subseteq DOMAIN told /\ P \subseteq DOMAIN known
<1>1. told \in Seq(Entries) /\ Len(known) = Len(told) /\ DOMAIN told = DOMAIN known
  BY LenProperties DEF Agree
<1>2. {k \in DOMAIN told : told[k].uid \notin gone} = P
  BY <1>1 DEF Agree, Remaining
<1>3. EachStruck(told, known, gone) = Picked(told, P)
  <2>1. EachStruck(told, known, gone) = Picked(told, {k \in DOMAIN told : known[k] \notin gone})
    BY <1>1, EachStruckPicks
  <2>2. {k \in DOMAIN told : known[k] \notin gone} = P
    BY <1>1 DEF Remaining
  <2> QED BY <2>1, <2>2
<1> QED BY <1>1, <1>2, <1>3 DEF Struck, Remaining

\* T is S and numbers above it.
Begins(S, T) ==
    /\ T \subseteq Nat /\ IsFiniteSet(T) /\ S \subseteq T
    /\ \A u \in T \ S : \A w \in S : w < u

\* What is added above a set comes after it.
LEMMA AscendingExtends ==
  ASSUME NEW T, NEW S, Begins(S, T)
  PROVE  /\ IsFiniteSet(S) /\ Cardinality(S) <= Cardinality(T)
         /\ \A k \in 1..Cardinality(S) :
               k \in 1..Cardinality(T) /\ Ascending(T)[k] = Ascending(S)[k]
<1>a. T \subseteq Nat /\ IsFiniteSet(T) /\ S \subseteq T /\ \A u \in T \ S : \A w \in S : w < u
  BY DEF Begins
<1>1. IsFiniteSet(S) /\ Cardinality(S) <= Cardinality(T) /\ S \subseteq Nat
  BY <1>a, FS_Subset
<1>2. Cardinality(S) \in Nat /\ Cardinality(T) \in Nat
  BY <1>a, <1>1, FS_CardinalityType
<1>3. ASSUME NEW k \in 1..Cardinality(S) PROVE Ascending(T)[k] = Ascending(S)[k]
  <2> DEFINE u == Ascending(S)[k]
  <2>1. u \in S /\ Place(u, S) = k
    BY <1>1, AscendingLists
  <2> HIDE DEF u
  <2>2. {w \in T : w <= u} = {w \in S : w <= u}
    <3> SUFFICES ASSUME NEW w \in T, w <= u PROVE w \in S
      BY <1>a
    <3> SUFFICES ASSUME w \notin S PROVE FALSE
      OBVIOUS
    <3>1. u < w /\ u \in Nat /\ w \in Nat
      BY <1>a, <1>1, <2>1
    <3> QED BY <3>1
  <2>3. Place(u, T) = k
    BY <2>1, <2>2 DEF Place
  <2>4. Ascending(T)[Place(u, T)] = u
    BY <1>a, <2>1, AscendingLists
  <2> QED BY <2>3, <2>4 DEF u
<1> QED BY <1>1, <1>2, <1>3

\* EXISTS: the new entries are those of the new messages.
LEMMA LengthenedAgree ==
  ASSUME NEW T, NEW S, NEW current, NEW told, NEW list,
         Begins(S, T), current = Ascending(T), Agree(told, Ascending(S)),
         list = Lengthened(told, current)
  PROVE  Agree(list, current) /\ Continues(list, told)
<1> DEFINE A == Ascending(T)
           n == Cardinality(T)
           m == Cardinality(S)
           more == [k \in 1..(Len(A) - Len(told)) |-> Fresh(A[Len(told) + k])]
           longer == told \o more
<1>1. /\ IsFiniteSet(S) /\ m <= n
      /\ \A k \in 1..m : k \in 1..n /\ A[k] = Ascending(S)[k]
  BY AscendingExtends
<1>2. /\ n \in Nat /\ A \in Seq(Nat) /\ Len(A) = n /\ Rising(A) /\ DOMAIN A = 1..n
      /\ \A k \in 1..n : A[k] \in Nat
  BY AscendingLists DEF Begins
<1>3. m \in Nat /\ Len(Ascending(S)) = m
  BY <1>1, AscendingLists DEF Begins
<1>4. /\ told \in Seq(Entries) /\ Len(told) = m /\ DOMAIN told = 1..m
      /\ \A k \in 1..m : told[k].uid = Ascending(S)[k]
  BY <1>3, LenProperties DEF Agree
<1> HIDE DEF A, n, m
<1>5. \A k \in 1..(n - m) : m + k \in 1..n /\ Fresh(A[m + k]) \in Entries
  <2>1. ASSUME NEW k \in 1..(n - m) PROVE m + k \in 1..n
    BY <1>1, <1>2, <1>3
  <2>2. ASSUME NEW u \in Nat PROVE Fresh(u) \in Entries
    <3> DEFINE F == (SUBSET Flags) \cup {Unknown}
    <3>1. Unknown \in F
      OBVIOUS
    <3> HIDE DEF F
    <3>2. [uid |-> u, flags |-> Unknown] \in [uid : Nat, flags : F]
      BY <3>1
    <3> QED BY <3>2 DEF Fresh, Entries, F
  <2> QED BY <1>2, <2>1, <2>2
<1>6. /\ more \in Seq(Entries) /\ Len(more) = n - m
      /\ \A k \in 1..(n - m) : more[k] = Fresh(A[m + k])
  <2>1. n - m \in Nat
    BY <1>1, <1>2, <1>3
  <2>2. more = [k \in 1..(n - m) |-> Fresh(A[m + k])]
    BY <1>2, <1>4
  <2> HIDE DEF more
  <2>3. more \in [1..(n - m) -> Entries]
    BY <1>5, <2>2
  <2>4. more \in Seq(Entries)
    BY <2>1, <2>3, SeqDef
  <2>5. Len(more) = n - m
    <3>1. DOMAIN more = 1..Len(more) /\ DOMAIN more = 1..(n - m) /\ Len(more) \in Nat
      BY <2>2, <2>4, LenProperties
    <3> HIDE DEF n, m
    <3> QED BY <2>1, <3>1
  <2> QED BY <2>2, <2>4, <2>5
<1> HIDE DEF more
<1>7. /\ longer \in Seq(Entries) /\ Len(longer) = m + (n - m)
      /\ \A k \in 1..(m + (n - m)) : longer[k] = IF k <= m THEN told[k] ELSE more[k - m]
  <2>1. /\ longer \in Seq(Entries) /\ Len(longer) = Len(told) + Len(more)
        /\ \A k \in 1..(Len(told) + Len(more)) :
              longer[k] = IF k <= Len(told) THEN told[k] ELSE more[k - Len(told)]
    BY <1>4, <1>6, ConcatProperties
  <2> QED BY <1>4, <1>6, <2>1
<1>8. m + (n - m) = n
  BY <1>2, <1>3
<1> HIDE DEF longer
<1>9. DOMAIN longer = 1..n
  BY <1>7, <1>8, LenProperties
<1>10. ASSUME NEW k \in 1..n
       PROVE  /\ longer[k].uid = A[k]
              /\ longer[k].flags = Unknown \/ \E j \in DOMAIN told : longer[k] = told[j]
  <2>1. CASE k <= m
    <3>1. k \in 1..m /\ longer[k] = told[k]
      BY <1>7, <1>8, <2>1
    <3> QED BY <1>1, <1>4, <3>1
  <2>2. CASE ~(k <= m)
    <3>1. k - m \in 1..(n - m) /\ m + (k - m) = k
      BY <1>2, <1>3, <2>2
    <3>2. longer[k] = Fresh(A[m + (k - m)])
      BY <1>6, <1>7, <1>8, <2>2, <3>1
    <3> QED BY <3>1, <3>2 DEF Fresh
  <2> QED BY <2>1, <2>2
<1>11. Agree(longer, A)
  BY <1>2, <1>7, <1>8, <1>9, <1>10 DEF Agree
<1>12. list = longer /\ current = A
  BY DEF Lengthened, longer, more, A
<1> QED BY <1>9, <1>10, <1>11, <1>12 DEF A, Continues

\* FETCHes change flags only, of watched messages they are about.
\* What FETCHes report.
Reports(E, F) == \A e \in E : F[e.uid] \in (SUBSET Flags) \cup {Unknown}

\* FETCH e is about the message the client has at place k, of that uid.
About(e, k, uid, byUid) == IF byUid THEN e.uid = uid ELSE e.seq = k

\* FETCHes of the messages E change told to heard.
Changed(c, told, byUid, E, F, heard) ==
    /\ DOMAIN heard = DOMAIN told
    /\ \A k \in DOMAIN told :
          /\ heard[k].uid = told[k].uid
          /\ \/ /\ heard[k] = told[k]
                /\ <<c, told[k].uid>> \notin Watched \/ \A e \in E : ~About(e, k, told[k].uid, byUid)
             \/ /\ <<c, told[k].uid>> \in Watched
                /\ \E e \in E : About(e, k, told[k].uid, byUid) /\ heard[k].flags = F[e.uid]

LEMMA HearsAgree ==
  ASSUME NEW c, NEW told, NEW known, NEW byUid, NEW E, NEW F, NEW heard,
         Agree(told, known), Reports(E, F), heard = Hears(c, told, byUid, E, F)
  PROVE  Agree(heard, known) /\ Changed(c, told, byUid, E, F, heard)
<1> DEFINE Told(k) == {e \in E : IF byUid THEN e.uid = told[k].uid ELSE e.seq = k}
           n == Len(told)
<1>1. told \in Seq(Entries) /\ n \in Nat /\ DOMAIN told = 1..n /\ \A k \in 1..n : told[k] \in Entries
  BY LenProperties, ElementOfSeq DEF Agree
<1>2. heard = [k \in 1..n |->
                  IF <<c, told[k].uid>> \in Watched /\ Told(k) # {}
                  THEN [told[k] EXCEPT !.flags = F[(CHOOSE e \in Told(k) : TRUE).uid]]
                  ELSE told[k]]
  BY <1>1 DEF Hears
<1> HIDE DEF n
<1>3. ASSUME NEW k \in 1..n
      PROVE  /\ heard[k] \in Entries /\ heard[k].uid = told[k].uid
             /\ \/ /\ heard[k] = told[k]
                   /\ <<c, told[k].uid>> \notin Watched \/ \A e \in E : ~About(e, k, told[k].uid, byUid)
                \/ /\ <<c, told[k].uid>> \in Watched
                   /\ \E e \in E : About(e, k, told[k].uid, byUid) /\ heard[k].flags = F[e.uid]
  <2>a. \A e \in E : e \in Told(k) <=> About(e, k, told[k].uid, byUid)
    BY DEF About
  <2>1. told[k] \in Entries
    BY <1>1
  <2>2. CASE <<c, told[k].uid>> \in Watched /\ Told(k) # {}
    <3> DEFINE e == CHOOSE x \in Told(k) : TRUE
    <3>1. e \in Told(k)
      BY <2>2
    <3>2. e \in E /\ F[e.uid] \in (SUBSET Flags) \cup {Unknown}
      BY <3>1 DEF Reports
    <3>3. heard[k] = [told[k] EXCEPT !.flags = F[e.uid]]
      BY <1>2, <2>2
    <3> HIDE DEF e, Told
    <3>4. heard[k].uid = told[k].uid /\ heard[k].flags = F[e.uid] /\ heard[k] \in Entries
      BY <2>1, <3>2, <3>3 DEF Entries
    <3>5. About(e, k, told[k].uid, byUid)
      BY <2>a, <3>1, <3>2
    <3> QED BY <2>2, <3>2, <3>4, <3>5
  <2>3. CASE ~(<<c, told[k].uid>> \in Watched /\ Told(k) # {})
    <3>1. heard[k] = told[k]
      BY <1>2, <2>3
    <3> QED BY <2>a, <2>1, <2>3, <3>1
  <2> QED BY <2>2, <2>3
<1>4. DOMAIN heard = 1..n
  BY <1>2
<1>5. heard \in [1..n -> Entries]
  BY <1>2, <1>3
<1>6. heard \in Seq(Entries) /\ Len(heard) = n
  <2>1. heard \in Seq(Entries)
    BY <1>1, <1>5, SeqDef
  <2> QED BY <1>1, <1>4, <2>1, LenProperties
<1>7. Agree(heard, known)
  BY <1>1, <1>3, <1>4, <1>6 DEF Agree, n
<1> QED BY <1>1, <1>3, <1>4, <1>7 DEF Changed

-----------------------------------------------------------------------------
(* The invariant *)

\* A message's row, a mailbox's row: it numbers below UIDNEXT.
RowOK(r) ==
    /\ r = [mail |-> r.mail, flags |-> r.flags, modseq |-> r.modseq]
    /\ r.flags \in SUBSET Flags

BoxOK(b) ==
    /\ b = [name |-> b.name, validity |-> b.validity, uidNext |-> b.uidNext,
            modseq |-> b.modseq, message |-> b.message, expunged |-> b.expunged]
    /\ b.name \in Names /\ b.uidNext \in Nat \ {0}
    /\ \A u \in Uids(b) : u \in 1..(b.uidNext - 1) /\ RowOK(b.message[u])

\* A name is one mailbox, an id is used once.
StoreOK(box, marks) ==
    /\ marks = [validity |-> marks.validity, id |-> marks.id] /\ marks.id \in Nat
    /\ DOMAIN box \subseteq 1..marks.id
    /\ \A i \in DOMAIN box : BoxOK(box[i])
    /\ \A i, j \in DOMAIN box : box[i].name = box[j].name => i = j

\* Flags the client has are those the server reported last, but of a message
\* apart.
EntryOK(c, s, e) ==
    /\ e.uid \in DOMAIN s.flags
    /\ e.flags # Unknown =>
          <<c, e.uid>> \in Watched /\ (e.uid \notin s.apart => e.flags = s.flags[e.uid])

\* What connection c holds: the two lists agree.
HeldOK(c, s) ==
    /\ s = [sel |-> s.sel, name |-> s.name, readOnly |-> s.readOnly, known |-> s.known,
            flags |-> s.flags, idle |-> s.idle, told |-> s.told, apart |-> s.apart]
    /\ s.sel \in Nat /\ s.name \in Names \cup {NoName} /\ (s.sel = 0 <=> s.name = NoName)
    /\ s.idle \in {NoName, s.name}
    /\ \A u \in DOMAIN s.flags : s.flags[u] \in SUBSET Flags
    /\ Agree(s.told, s.known)
    /\ \A k \in DOMAIN s.told : EntryOK(c, s, s.told[k])

\* What a mailbox holds beyond a connection's list comes after all of it.
FitsBox(s, box) ==
    /\ s.sel \in DOMAIN box => \A w \in ToSet(s.known) : w < box[s.sel].uidNext
    /\ \A u \in Uids(BoxAt(box, s.sel)) \ ToSet(s.known) : \A w \in ToSet(s.known) : w < u

SesOK(c, s, box, marks) == HeldOK(c, s) /\ s.sel <= marks.id /\ FitsBox(s, box)

\* The connection's list and flags are those of the mailbox.
InStep(s, box) ==
    LET b == BoxAt(box, s.sel)
    IN  s.known = Ascending(Uids(b)) /\ s.flags = [u \in Uids(b) |-> b.message[u].flags]

Inv ==
    /\ StoreOK(mailbox, meta)
    /\ \A c \in Conns : SesOK(c, ses[c], mailbox, meta)
    /\ owed \subseteq Mails /\ MailKept

LEMMA BoxAtFacts ==
  ASSUME NEW box, NEW marks, StoreOK(box, marks), NEW i
  PROVE  LET b == BoxAt(box, i) IN
         /\ Uids(b) \subseteq Nat \ {0} /\ Uids(b) \subseteq Nat /\ IsFiniteSet(Uids(b))
         /\ \A u \in Uids(b) : RowOK(b.message[u]) /\ b.message[u].flags \in SUBSET Flags
         /\ i \notin DOMAIN box => Uids(b) = {}
         /\ i \in DOMAIN box => b = box[i] /\ BoxOK(b) /\ b.uidNext \in Nat
         /\ 0 \notin DOMAIN box
<1> DEFINE b == BoxAt(box, i)
<1>1. 0 \notin DOMAIN box
  BY DEF StoreOK
<1>2. CASE i \notin DOMAIN box
  <2>1. Uids(b) = {}
    BY <1>2 DEF BoxAt, EmptyBox, NoRows, Uids
  <2> QED BY <1>1, <1>2, <2>1, FS_EmptySet
<1>3. CASE i \in DOMAIN box
  <2>1. b = box[i] /\ BoxOK(b)
    BY <1>3 DEF BoxAt, StoreOK
  <2> HIDE DEF b
  <2>2. b.uidNext \in Nat /\ Uids(b) \subseteq 1..(b.uidNext - 1)
    BY <2>1 DEF BoxOK
  <2>3. IsFiniteSet(Uids(b))
    <3>1. IsFiniteSet(1..(b.uidNext - 1))
      BY <2>2, FS_Interval
    <3> QED BY <2>2, <3>1, FS_Subset
  <2>4. \A u \in Uids(b) : RowOK(b.message[u]) /\ b.message[u].flags \in SUBSET Flags
    BY <2>1 DEF BoxOK, RowOK
  <2> QED BY <1>1, <1>3, <2>1, <2>2, <2>3, <2>4 DEF b
<1> QED BY <1>2, <1>3

\* Of a connection's list, S are the uids in the mailbox, at the places P, and
\* `gone` the others; the mailbox, U, holds later ones besides.
Divided(known, U, S, gone, P) ==
    /\ S = U \cap ToSet(known) /\ gone = ToSet(known) \ U
    /\ P = {k \in DOMAIN known : known[k] \in U}
    /\ Begins(S, U)

LEMMA KeptAgree ==
  ASSUME NEW c, NEW told, NEW known, NEW U, NEW S, NEW gone, NEW P,
         Agree(told, known), Divided(known, U, S, gone, P)
  PROVE  /\ Picked(known, P) = Ascending(S)
         /\ Agree(Struck(c, told, known, gone), Ascending(S))
         /\ From(Struck(c, told, known, gone), told)
<1>1. known \in Seq(Nat) /\ Rising(known)
  BY DEF Agree
<1>2. Remaining(known, gone, P) /\ P \subseteq DOMAIN known
  BY DEF Remaining, Divided, ToSet
<1>3. {known[k] : k \in P} = S
  BY DEF Divided, ToSet
<1>4. Struck(c, told, known, gone) = Picked(told, P) /\ P \subseteq DOMAIN told
  BY <1>2, StruckAgree
<1>5. Picked(known, P) = Ascending(S)
  <2>1. Picked(known, P) = Ascending({known[k] : k \in P})
    BY <1>1, <1>2, PickedInOrder
  <2> QED BY <1>3, <2>1
<1>6. /\ Agree(Picked(told, P), Picked(known, P))
      /\ From(Picked(told, P), told)
  BY <1>4, PickedAgree
<1> QED BY <1>4, <1>5, <1>6

Listed(list, c, told, known, U, gone) ==
    list = IF U \subseteq ToSet(known) THEN Struck(c, told, known, gone)
           ELSE Lengthened(Struck(c, told, known, gone), Ascending(U))

LEMMA SyncList ==
  ASSUME NEW c, NEW told, NEW known, NEW U, NEW S, NEW gone, NEW P, NEW list,
         Agree(told, known), Divided(known, U, S, gone, P), Listed(list, c, told, known, U, gone)
  PROVE  /\ Agree(list, Ascending(U))
         /\ U \subseteq ToSet(known) => Picked(known, P) = Ascending(U)
         /\ Continues(list, told)
<1> DEFINE kept == Struck(c, told, known, gone)
           current == Ascending(U)
<1>1. /\ Picked(known, P) = Ascending(S)
      /\ Agree(kept, Ascending(S))
      /\ From(kept, told)
  BY KeptAgree
<1>2. CASE U \subseteq ToSet(known)
  <2>1. S = U /\ list = kept
    BY <1>2 DEF Divided, Listed
  <2> QED BY <1>1, <2>1 DEF From, Continues
<1>3. CASE ~(U \subseteq ToSet(known))
  <2>1. list = Lengthened(kept, current) /\ Begins(S, U) /\ current = Ascending(U)
    BY <1>3 DEF Divided, Listed
  <2> HIDE DEF kept, current
  <2>2. Agree(list, current) /\ Continues(list, kept)
    BY <1>1, <2>1, LengthenedAgree
  <2>3. Continues(list, told)
    <3> SUFFICES ASSUME NEW k \in DOMAIN list, NEW j \in DOMAIN kept, list[k] = kept[j]
                 PROVE  \E i \in DOMAIN told : list[k] = told[i]
      BY <2>2 DEF Continues
    <3> QED BY <1>1 DEF From
  <2> QED BY <1>3, <2>1, <2>2, <2>3
<1> QED BY <1>2, <1>3

\* A connection brought up to date still holds what its client was told, and
\* is in step with its mailbox.
LEMMA SyncOK ==
  ASSUME NEW c, NEW s, NEW box, NEW marks, NEW t,
         StoreOK(box, marks), SesOK(c, s, box, marks), t = Sync(c, s, box)
  PROVE  /\ SesOK(c, t, box, marks)
         /\ t.sel = s.sel /\ t.name = s.name /\ t.idle = s.idle /\ t.readOnly = s.readOnly
         /\ s.sel # 0 => InStep(t, box)
<1> DEFINE b == BoxAt(box, s.sel)
           U == Uids(b)
           K == ToSet(s.known)
           current == Ascending(U)
           kept == Struck(c, s.told, s.known, K \ U)
           list == IF U \subseteq K THEN kept ELSE Lengthened(kept, current)
           changed == {u \in U \cap DOMAIN s.flags : s.flags[u] # b.message[u].flags}
           news == {[seq |-> Place(u, U), uid |-> u] : u \in changed}
           F == [u \in changed |-> b.message[u].flags]
           heard == Hears(c, list, FALSE, news, F)
           known == IF U \subseteq K THEN Picked(s.known, {k \in DOMAIN s.known : s.known[k] \in U})
                    ELSE current
           flags == [u \in U |-> b.message[u].flags]
           apart == s.apart \ changed
<1>1. /\ HeldOK(c, s) /\ FitsBox(s, box) /\ s.sel <= marks.id
  BY DEF SesOK
<1>2. CASE s.sel = 0
  <2>1. t = s
    BY <1>2 DEF Sync
  <2> QED BY <1>2, <2>1
<1>3. CASE s.sel # 0
  <2>1. /\ Agree(list, current) /\ known = current
        /\ Continues(list, s.told)
    <3> DEFINE P == {k \in DOMAIN s.known : s.known[k] \in U}
               S == U \cap K
               gone == K \ U
    <3>1. Divided(s.known, U, S, gone, P)
      BY <1>1, BoxAtFacts DEF Divided, Begins, FitsBox
    <3>2. Listed(list, c, s.told, s.known, U, gone)
      BY DEF Listed
    <3>3. known = IF U \subseteq K THEN Picked(s.known, P) ELSE Ascending(U)
      OBVIOUS
    <3>4. Agree(s.told, s.known)
      BY <1>1 DEF HeldOK
    <3> HIDE DEF U, K, list, known, P, S, gone
    <3>5. /\ Agree(list, Ascending(U))
          /\ U \subseteq ToSet(s.known) => Picked(s.known, P) = Ascending(U)
          /\ Continues(list, s.told)
      BY <3>1, <3>2, <3>4, SyncList
    <3> QED BY <3>3, <3>5 DEF K
  <2>2. /\ U \subseteq Nat /\ IsFiniteSet(U)
        /\ \A u \in U : b.message[u].flags \in SUBSET Flags
    BY BoxAtFacts
  <2>3. t = [s EXCEPT !.known = known, !.flags = flags, !.told = heard, !.apart = apart]
    BY <1>3 DEF Sync
  <2>4. s = [sel |-> s.sel, name |-> s.name, readOnly |-> s.readOnly, known |-> s.known,
             flags |-> s.flags, idle |-> s.idle, told |-> s.told, apart |-> s.apart]
    BY <1>1 DEF HeldOK
  <2> HIDE DEF known, heard, list, kept, flags, U, b, apart
  <2>5. /\ t = [sel |-> s.sel, name |-> s.name, readOnly |-> s.readOnly, known |-> known,
                flags |-> flags, idle |-> s.idle, told |-> heard, apart |-> apart]
        /\ t.sel = s.sel /\ t.name = s.name /\ t.idle = s.idle /\ t.readOnly = s.readOnly
        /\ t.known = known /\ t.flags = flags /\ t.told = heard /\ t.apart = apart
    BY <2>3, <2>4
  <2>6. /\ \A e \in news : e.uid \in changed /\ e.seq = Place(e.uid, U)
        /\ \A u \in changed : [seq |-> Place(u, U), uid |-> u] \in news
        /\ \A u \in changed : u \in U /\ F[u] = b.message[u].flags /\ F[u] \in SUBSET Flags
        /\ \A u \in U \ changed : u \in DOMAIN s.flags => s.flags[u] = b.message[u].flags
        /\ \A u : u \in apart <=> u \in s.apart /\ u \notin changed
    BY <2>2 DEF apart
  <2>7. Reports(news, F)
    BY <2>6 DEF Reports
  <2> HIDE DEF news, changed, F, current
  <2>8. /\ Agree(heard, current) /\ DOMAIN heard = DOMAIN list
        /\ \A k \in DOMAIN list :
              /\ heard[k].uid = list[k].uid
              /\ \/ /\ heard[k] = list[k]
                    /\ <<c, list[k].uid>> \notin Watched \/ \A e \in news : e.seq # k
                 \/ /\ <<c, list[k].uid>> \in Watched
                    /\ \E e \in news : e.seq = k /\ heard[k].flags = F[e.uid]
    <3>1. heard = Hears(c, list, FALSE, news, F)
      BY DEF heard
    <3>2. Agree(heard, current) /\ Changed(c, list, FALSE, news, F, heard)
      BY <2>1, <2>7, <3>1, HearsAgree
    <3> QED BY <3>2 DEF Changed, About
  <2>9. /\ DOMAIN flags = U /\ \A u \in U : flags[u] = b.message[u].flags /\ flags[u] \in SUBSET Flags
    BY <2>2 DEF flags
  <2>10. /\ ToSet(current) = U /\ \A u \in U : current[Place(u, U)] = u
         /\ \A k \in DOMAIN current : current[k] \in U /\ Place(current[k], U) = k
    <3>1. /\ DOMAIN Ascending(U) = 1..Cardinality(U)
          /\ ToSet(Ascending(U)) = U
          /\ \A k \in 1..Cardinality(U) : Ascending(U)[k] \in U /\ Place(Ascending(U)[k], U) = k
          /\ \A u \in U : Ascending(U)[Place(u, U)] = u
      BY <2>2, AscendingLists
    <3> QED BY <3>1 DEF current
  <2>11. DOMAIN list = DOMAIN current /\ \A k \in DOMAIN list : list[k].uid = current[k]
    BY <2>1, LenProperties DEF Agree
  <2>12. ASSUME NEW k \in DOMAIN heard PROVE EntryOK(c, t, heard[k])
    <3> DEFINE u == current[k]
    <3>1. heard[k].uid = u /\ list[k].uid = u /\ u \in U /\ Place(u, U) = k /\ k \in DOMAIN list
      BY <2>8, <2>10, <2>11
    <3> SUFFICES ASSUME heard[k].flags # Unknown
                 PROVE  /\ <<c, u>> \in Watched
                        /\ u \notin apart => heard[k].flags = b.message[u].flags
      BY <2>5, <2>9, <3>1 DEF EntryOK
    <3>2. CASE heard[k] = list[k] /\ (<<c, list[k].uid>> \notin Watched \/ \A e \in news : e.seq # k)
      <4>1. PICK j \in DOMAIN s.told : list[k] = s.told[j]
        BY <2>1, <3>1, <3>2 DEF Continues
      <4>2. EntryOK(c, s, list[k])
        BY <1>1, <4>1 DEF HeldOK
      <4>3. /\ <<c, u>> \in Watched /\ u \in DOMAIN s.flags
            /\ u \notin s.apart => list[k].flags = s.flags[u]
        BY <3>1, <3>2, <4>2 DEF EntryOK
      <4>4. \A e \in news : e.seq # k
        BY <3>1, <3>2, <4>3
      <4>5. u \notin changed
        <5> SUFFICES ASSUME u \in changed PROVE FALSE
          OBVIOUS
        <5>1. [seq |-> Place(u, U), uid |-> u] \in news
          BY <2>6
        <5> QED BY <3>1, <4>4, <5>1
      <4>6. s.flags[u] = b.message[u].flags /\ (u \in apart <=> u \in s.apart)
        BY <2>6, <3>1, <4>3, <4>5
      <4> QED BY <3>1, <3>2, <4>3, <4>6
    <3>3. CASE <<c, list[k].uid>> \in Watched /\ \E e \in news : e.seq = k /\ heard[k].flags = F[e.uid]
      <4>1. PICK e \in news : e.seq = k /\ heard[k].flags = F[e.uid]
        BY <3>3
      <4>3. e.uid \in changed /\ k = Place(e.uid, U) /\ e.uid \in U
        BY <2>6, <4>1
      <4>4. e.uid = u
        BY <2>10, <4>3
      <4>5. heard[k].flags = b.message[u].flags
        BY <2>6, <4>1, <4>3, <4>4
      <4> QED BY <3>1, <3>3, <4>5
    <3> QED BY <2>8, <3>1, <3>2, <3>3
  <2>13. HeldOK(c, t)
    BY <1>1, <2>1, <2>5, <2>8, <2>9, <2>12 DEF HeldOK
  <2>14. FitsBox(t, box)
    <3>1. ToSet(t.known) = U
      BY <2>1, <2>5, <2>10
    <3>2. Uids(BoxAt(box, t.sel)) = U
      BY <2>5 DEF U, b
    <3>3. ASSUME t.sel \in DOMAIN box, NEW w \in U PROVE w < box[t.sel].uidNext
      <4>1. box[s.sel].uidNext \in Nat \ {0} /\ w \in Uids(box[s.sel])
        BY <2>5, <3>3 DEF U, b, BoxAt, StoreOK, BoxOK
      <4>2. w \in 1..(box[s.sel].uidNext - 1)
        BY <2>5, <3>3, <4>1 DEF StoreOK, BoxOK
      <4> QED BY <2>5, <4>1, <4>2
    <3> QED BY <3>1, <3>2, <3>3 DEF FitsBox
  <2>15. InStep(t, box)
    BY <2>1, <2>5 DEF InStep, U, b, current, flags
  <2> QED BY <1>1, <2>5, <2>13, <2>14, <2>15 DEF SesOK
<1> QED BY <1>2, <1>3

-----------------------------------------------------------------------------
(* What is done to a mailbox *)

\* c is b later on: new messages have new uids.
Later(b, c) ==
    /\ BoxOK(c) /\ c.name = b.name /\ b.uidNext <= c.uidNext
    /\ \A u \in Uids(c) \ Uids(b) : u >= b.uidNext

\* The messages U of b are in c, with their bodies.
Keeps(b, c, U) == \A u \in U : u \in Uids(c) /\ c.message[u].mail = b.message[u].mail

\* A message with a body of each of the messages U of `from` is in c, and it is
\* not among those of b.
Holds(b, c, from, U) ==
    \A u \in U : \E w \in Uids(c) : w \notin Uids(b) /\ c.message[w].mail = from.message[u].mail

LEMMA BoxFacts ==
  ASSUME NEW b, BoxOK(b)
  PROVE  /\ b.uidNext \in Nat \ {0} /\ Uids(b) \subseteq 1..(b.uidNext - 1)
         /\ Uids(b) \subseteq Nat \ {0} /\ Uids(b) \subseteq Nat
         /\ IsFiniteSet(Uids(b))
<1>1. b.uidNext \in Nat \ {0} /\ Uids(b) \subseteq 1..(b.uidNext - 1)
  BY DEF BoxOK
<1>2. IsFiniteSet(1..(b.uidNext - 1))
  BY <1>1, FS_Interval
<1>3. IsFiniteSet(Uids(b))
  BY <1>1, <1>2, FS_Subset
<1> QED BY <1>1, <1>3

\* c is b with message table t, UIDNEXT n and other marks.
Remade(b, c, t, n) ==
    /\ c = [name |-> b.name, validity |-> c.validity, uidNext |-> n, modseq |-> c.modseq,
            message |-> t, expunged |-> c.expunged]
    /\ n \in Nat /\ b.uidNext <= n
    /\ \A u \in DOMAIN t : u \in 1..(n - 1) /\ RowOK(t[u])
    /\ \A u \in DOMAIN t \ Uids(b) : u >= b.uidNext

LEMMA BoxRemade ==
  ASSUME NEW b, NEW c, NEW t, NEW n, BoxOK(b), Remade(b, c, t, n)
  PROVE  Later(b, c) /\ Uids(c) = DOMAIN t /\ c.message = t
<1>1. /\ c.name = b.name /\ c.uidNext = n /\ c.message = t /\ Uids(c) = DOMAIN t
  BY DEF Uids, Remade
<1>2. BoxOK(c)
  <2>1. c = [name |-> c.name, validity |-> c.validity, uidNext |-> c.uidNext, modseq |-> c.modseq,
             message |-> c.message, expunged |-> c.expunged]
    BY <1>1 DEF Remade
  <2>2. c.name \in Names /\ c.uidNext \in Nat \ {0}
    BY <1>1, BoxFacts DEF BoxOK, Remade
  <2>3. \A u \in Uids(c) : u \in 1..(c.uidNext - 1) /\ RowOK(c.message[u])
    BY <1>1 DEF Remade
  <2> QED BY <2>1, <2>2, <2>3 DEF BoxOK
<1> QED BY <1>1, <1>2 DEF Later, Remade

LEMMA AppendedOK ==
  ASSUME NEW b, BoxOK(b), NEW m \in Mails, NEW F \in SUBSET Flags, NEW c, c = Append1(b, m, F)
  PROVE  /\ Later(b, c) /\ Keeps(b, c, Uids(b))
         /\ \E w \in Uids(c) : w \notin Uids(b) /\ c.message[w].mail = m
<1> DEFINE row == [mail |-> m, flags |-> F, modseq |-> b.modseq + 1]
           t == Put(b.message, b.uidNext, row)
           n == b.uidNext + 1
<1>1. n \in Nat /\ b.uidNext \in Nat \ {0} /\ Uids(b) \subseteq 1..(b.uidNext - 1)
  BY BoxFacts
<1>2. /\ DOMAIN t = Uids(b) \cup {b.uidNext}
      /\ t[b.uidNext] = row
      /\ \A u \in Uids(b) : u # b.uidNext => t[u] = b.message[u]
  BY DEF Put, Uids
<1>3. RowOK(row) /\ row.mail = m
  BY DEF RowOK
<1>4. c = [b EXCEPT !.uidNext = n, !.modseq = b.modseq + 1, !.message = t]
  BY DEF Append1
<1> HIDE DEF t, row
<1>5. /\ c = [name |-> b.name, validity |-> c.validity, uidNext |-> n, modseq |-> c.modseq,
              message |-> t, expunged |-> c.expunged]
  BY <1>4 DEF BoxOK
<1>6. b.uidNext \notin Uids(b)
  BY <1>1
<1>7. ASSUME NEW u \in DOMAIN t PROVE u \in 1..(n - 1) /\ RowOK(t[u])
  <2>1. CASE u = b.uidNext
    BY <1>1, <1>2, <1>3, <2>1
  <2>2. CASE u \in Uids(b)
    <3>1. u \in 1..(b.uidNext - 1) /\ RowOK(b.message[u])
      BY <2>2 DEF BoxOK
    <3> QED BY <1>1, <1>2, <1>6, <2>2, <3>1
  <2> QED BY <1>2, <2>1, <2>2
<1>8. \A u \in DOMAIN t \ Uids(b) : u >= b.uidNext
  BY <1>1, <1>2
<1>9. n >= b.uidNext
  BY <1>1
<1> HIDE DEF n
<1>10. Later(b, c) /\ Uids(c) = DOMAIN t /\ c.message = t
  <2>1. Remade(b, c, t, n)
    BY <1>1, <1>5, <1>7, <1>8, <1>9 DEF Remade
  <2> QED BY <2>1, BoxRemade
<1> QED BY <1>2, <1>3, <1>6, <1>10 DEF Keeps

LEMMA NewFlagsOK ==
  ASSUME NEW old \in SUBSET Flags, NEW mode \in StoreModes, NEW F \in SUBSET Flags
  PROVE  NewFlags(old, mode, F) \in SUBSET Flags
BY DEF NewFlags, StoreModes

LEMMA StoredOK ==
  ASSUME NEW b, BoxOK(b), NEW U, NEW mode \in StoreModes, NEW F \in SUBSET Flags,
         NEW c, c = StoreFlagsAll(b, U, mode, F)
  PROVE  Later(b, c) /\ Keeps(b, c, Uids(b)) /\ Uids(c) = Uids(b)
<1> DEFINE Row(u) == IF u \notin U THEN b.message[u]
                     ELSE Marked(b.message[u], mode, F, b.modseq + Place(u, U))
           t == [u \in Uids(b) |-> Row(u)]
           n == b.uidNext
<1>1. c = [b EXCEPT !.modseq = b.modseq + Cardinality(U), !.message = t]
  BY DEF StoreFlagsAll
<1>2. ASSUME NEW u \in Uids(b) PROVE RowOK(Row(u)) /\ Row(u).mail = b.message[u].mail
  <2>1. RowOK(b.message[u])
    BY DEF BoxOK
  <2>2. CASE u \notin U
    BY <2>1, <2>2
  <2>3. CASE u \in U
    <3> DEFINE r == b.message[u]
               f == NewFlags(r.flags, mode, F)
               q == b.modseq + Place(u, U)
    <3>1. f \in SUBSET Flags
      BY <2>1, NewFlagsOK DEF RowOK
    <3>2. Row(u) = [r EXCEPT !.flags = f, !.modseq = q]
      BY <2>3 DEF Marked
    <3>3. r = [mail |-> r.mail, flags |-> r.flags, modseq |-> r.modseq]
      BY <2>1 DEF RowOK
    <3> HIDE DEF f, q, r, Row
    <3>4. Row(u) = [mail |-> r.mail, flags |-> f, modseq |-> q]
      BY <3>2, <3>3
    <3> QED BY <3>1, <3>4 DEF RowOK, r
  <2> QED BY <2>2, <2>3
<1> HIDE DEF Row
<1>3. DOMAIN t = Uids(b) /\ \A u \in Uids(b) : t[u] = Row(u)
  OBVIOUS
<1> HIDE DEF t
<1>4. c = [name |-> b.name, validity |-> c.validity, uidNext |-> n, modseq |-> c.modseq,
           message |-> t, expunged |-> c.expunged]
  BY <1>1 DEF BoxOK
<1>5. n \in Nat /\ b.uidNext <= n
  BY BoxFacts
<1>6. \A u \in DOMAIN t : u \in 1..(n - 1) /\ RowOK(t[u])
  BY <1>2, <1>3 DEF BoxOK
<1>7. \A u \in DOMAIN t \ Uids(b) : u >= b.uidNext
  BY <1>3
<1> HIDE DEF n
<1>8. Later(b, c) /\ Uids(c) = DOMAIN t /\ c.message = t
  <2>1. Remade(b, c, t, n)
    BY <1>4, <1>5, <1>6, <1>7 DEF Remade
  <2> QED BY <2>1, BoxRemade
<1> QED BY <1>2, <1>3, <1>8 DEF Keeps

\* c is b without the messages U, with other marks and another log.
Stripped(b, c, U) ==
    \E q, x : c = [b EXCEPT !.modseq = q, !.message = Without(b.message, U), !.expunged = x]

LEMMA WithoutOK ==
  ASSUME NEW b, NEW c, NEW U, BoxOK(b), Stripped(b, c, U)
  PROVE  Later(b, c) /\ Keeps(b, c, Uids(b) \ U) /\ Uids(c) = Uids(b) \ U
<1> DEFINE t == Without(b.message, U)
           n == b.uidNext
<1>1. DOMAIN t = Uids(b) \ U /\ \A u \in Uids(b) \ U : t[u] = b.message[u]
  BY DEF Without, Uids
<1>2. PICK q, x : c = [b EXCEPT !.modseq = q, !.message = t, !.expunged = x]
  BY DEF Stripped
<1> HIDE DEF t
<1>3. c = [name |-> b.name, validity |-> c.validity, uidNext |-> n, modseq |-> c.modseq,
           message |-> t, expunged |-> c.expunged]
  BY <1>2 DEF BoxOK
<1>4. n \in Nat /\ b.uidNext <= n
  BY BoxFacts
<1>5. \A u \in DOMAIN t : u \in 1..(n - 1) /\ RowOK(t[u])
  BY <1>1 DEF BoxOK
<1>6. \A u \in DOMAIN t \ Uids(b) : u >= b.uidNext
  BY <1>1
<1> HIDE DEF n
<1>7. Later(b, c) /\ Uids(c) = DOMAIN t /\ c.message = t
  <2>1. Remade(b, c, t, n)
    BY <1>3, <1>4, <1>5, <1>6 DEF Remade
  <2> QED BY <2>1, BoxRemade
<1> QED BY <1>1, <1>7 DEF Keeps

LEMMA ExpungedOK ==
  ASSUME NEW b, NEW c, NEW U, BoxOK(b),
         \/ c = ExpungeAll(b, U)
         \/ U = DeletedUids(b) /\ c = ExpungeDeletedOf(b)
  PROVE  Later(b, c) /\ Keeps(b, c, Uids(b) \ U) /\ Uids(c) = Uids(b) \ U
<1>1. CASE U = {} /\ c = b
  BY <1>1, BoxFacts DEF Later, Keeps
<1>2. CASE Stripped(b, c, U)
  BY <1>2, WithoutOK
<1>3. ASSUME c = ExpungeAll(b, U) PROVE Stripped(b, c, U)
  BY <1>3 DEF Stripped, ExpungeAll
<1>4. ASSUME c = ExpungeDeletedOf(b), U = DeletedUids(b) PROVE (U = {} /\ c = b) \/ Stripped(b, c, U)
  BY <1>4 DEF Stripped, ExpungeDeletedOf
<1> QED BY <1>1, <1>2, <1>3, <1>4

\* A row as another mailbox has it.
LEMMA RestampedOK ==
  ASSUME NEW r, RowOK(r), NEW q
  PROVE  LET w == [r EXCEPT !.modseq = q] IN RowOK(w) /\ w.mail = r.mail
<1> DEFINE w == [r EXCEPT !.modseq = q]
<1>1. w = [mail |-> r.mail, flags |-> r.flags, modseq |-> q]
  BY DEF RowOK
<1> QED BY <1>1 DEF RowOK

LEMMA CopiedOK ==
  ASSUME NEW b, NEW from, NEW U, NEW c, BoxOK(b), IsFiniteSet(U), U \subseteq Nat,
         \A u \in U : RowOK(from.message[u]),
         c = AppendAll(b, from, U)
  PROVE  Later(b, c) /\ Keeps(b, c, Uids(b)) /\ Holds(b, c, from, U)
<1> DEFINE n == Cardinality(U)
           next == b.uidNext
           A == Ascending(U)
           Row(u) == [from.message[A[u - next + 1]] EXCEPT !.modseq = b.modseq + u - next + 1]
           t == [u \in Uids(b) \cup next .. next + n - 1 |-> IF u < next THEN b.message[u] ELSE Row(u)]
<1>1. /\ n \in Nat /\ \A k \in 1..n : A[k] \in U
      /\ \A u \in U : Place(u, U) \in 1..n /\ A[Place(u, U)] = u
  BY AscendingLists, PlaceBounds
<1>2. next \in Nat \ {0} /\ Uids(b) \subseteq 1..(next - 1)
  BY BoxFacts
<1>3. c = [b EXCEPT !.uidNext = next + n, !.modseq = b.modseq + n, !.message = t]
  BY DEF AppendAll
<1> HIDE DEF A, n, Row
<1>4. /\ DOMAIN t = Uids(b) \cup next .. next + n - 1
      /\ \A u \in DOMAIN t : t[u] = IF u < next THEN b.message[u] ELSE Row(u)
  OBVIOUS
<1> HIDE DEF t, next
<1>5. ASSUME NEW u \in Uids(b) PROVE t[u] = b.message[u] /\ u \in 1..(next - 1) /\ RowOK(t[u])
  <2>1. u \in 1..(next - 1) /\ u < next
    BY <1>2
  <2> QED BY <1>4, <2>1 DEF BoxOK, next
<1>6. ASSUME NEW u \in next .. next + n - 1
      PROVE  /\ RowOK(t[u]) /\ t[u].mail = from.message[A[u - next + 1]].mail
             /\ u \in 1..(next + n - 1) /\ u >= next /\ u \notin Uids(b)
  <2>1. u - next + 1 \in 1..n /\ u \in 1..(next + n - 1) /\ u >= next /\ ~(u < next)
    BY <1>1, <1>2
  <2>2. RowOK(from.message[A[u - next + 1]])
    BY <1>1, <2>1
  <2>3. t[u] = Row(u)
    BY <1>4, <2>1
  <2>4. RowOK(Row(u)) /\ Row(u).mail = from.message[A[u - next + 1]].mail
    BY <2>2, RestampedOK DEF Row
  <2>5. u \notin Uids(b)
    BY <1>2, <2>1
  <2> QED BY <2>1, <2>3, <2>4, <2>5
<1>7. Remade(b, c, t, next + n)
  <2>1. c = [name |-> b.name, validity |-> c.validity, uidNext |-> next + n, modseq |-> c.modseq,
             message |-> t, expunged |-> c.expunged]
    BY <1>3 DEF BoxOK
  <2>2. next + n \in Nat /\ b.uidNext <= next + n
    BY <1>1, <1>2 DEF next
  <2>3. ASSUME NEW u \in DOMAIN t PROVE u \in 1..(next + n - 1) /\ RowOK(t[u])
    <3>1. CASE u \in Uids(b)
      <4>1. u \in 1..(next - 1) /\ RowOK(t[u])
        BY <1>5, <3>1
      <4> QED BY <1>1, <1>2, <4>1
    <3>2. CASE u \notin Uids(b)
      BY <1>4, <1>6, <3>2
    <3> QED BY <3>1, <3>2
  <2>4. \A u \in DOMAIN t \ Uids(b) : u >= b.uidNext
    BY <1>4, <1>6 DEF next
  <2> DEFINE N == next + n
  <2> HIDE DEF N
  <2>5. Remade(b, c, t, N)
    <3>1. c = [name |-> b.name, validity |-> c.validity, uidNext |-> N, modseq |-> c.modseq,
               message |-> t, expunged |-> c.expunged]
      BY <2>1 DEF N
    <3>2. N \in Nat /\ b.uidNext <= N
      BY <2>2 DEF N
    <3>3. ASSUME NEW u \in DOMAIN t PROVE u \in 1..(N - 1) /\ RowOK(t[u])
      <4>1. u \in 1..(next + n - 1) /\ RowOK(t[u])
        BY <2>3
      <4>2. N - 1 = next + n - 1
        BY <1>1, <1>2 DEF N
      <4> QED BY <4>1, <4>2
    <3> QED BY <2>4, <3>1, <3>2, <3>3 DEF Remade
  <2> QED BY <2>5 DEF N
<1>8. Later(b, c) /\ Uids(c) = DOMAIN t /\ c.message = t
  BY <1>7, BoxRemade
<1>9. Keeps(b, c, Uids(b))
  BY <1>4, <1>5, <1>8 DEF Keeps
<1>10. ASSUME NEW u \in U
       PROVE  \E w \in Uids(c) : w \notin Uids(b) /\ c.message[w].mail = from.message[u].mail
  <2> DEFINE k == Place(u, U)
             w == next + k - 1
  <2>1. k \in 1..n /\ A[k] = u
    BY <1>1
  <2> HIDE DEF k
  <2>2. w \in next .. next + n - 1 /\ w - next + 1 = k
    BY <1>1, <1>2, <2>1
  <2> HIDE DEF w
  <2>3. w \in Uids(c) /\ w \notin Uids(b) /\ c.message[w].mail = from.message[u].mail
    BY <1>4, <1>6, <1>8, <2>1, <2>2
  <2> QED BY <2>3
<1> QED BY <1>8, <1>9, <1>10 DEF Holds

LEMMA FreshCopyOK ==
  ASSUME NEW b, NEW m, NEW v, NEW c, BoxOK(b), m \in Names, c = FreshCopy(b, m, v)
  PROVE  /\ BoxOK(c) /\ c.name = m
         /\ \A u \in Uids(b) : \E w \in Uids(c) : c.message[w].mail = b.message[u].mail
<1> DEFINE U == Uids(b)
           n == Cardinality(U)
           A == Ascending(U)
           Row(k) == [b.message[A[k]] EXCEPT !.modseq = k + 1]
           t == [k \in 1..n |-> Row(k)]
<1>1. IsFiniteSet(U) /\ U \subseteq Nat
  BY BoxFacts
<1> HIDE DEF U
<1>2. /\ n \in Nat /\ \A k \in 1..n : A[k] \in U
      /\ \A u \in U : Place(u, U) \in 1..n /\ A[Place(u, U)] = u
  BY <1>1, AscendingLists, PlaceBounds
<1>3. \A k \in 1..n : A[k] = CHOOSE u \in U : Place(u, U) = k
  BY DEF Ascending
<1>4. c = [name |-> m, validity |-> v, uidNext |-> n + 1, modseq |-> n + 1,
           message |-> t, expunged |-> NoRows]
  <2> DEFINE x == [k \in 1..n |-> [b.message[CHOOSE u \in U : Place(u, U) = k] EXCEPT !.modseq = k + 1]]
  <2>1. c = [name |-> m, validity |-> v, uidNext |-> n + 1, modseq |-> n + 1,
             message |-> x, expunged |-> NoRows]
    BY DEF FreshCopy, U
  <2>2. x = t
    <3>1. \A k \in 1..n : [b.message[CHOOSE u \in U : Place(u, U) = k] EXCEPT !.modseq = k + 1] = Row(k)
      BY <1>3
    <3> HIDE DEF Row, n
    <3> QED BY <3>1
  <2> HIDE DEF x
  <2> QED BY <2>1, <2>2
<1>5. ASSUME NEW k \in 1..n PROVE RowOK(t[k]) /\ t[k].mail = b.message[A[k]].mail
  <2>1. RowOK(b.message[A[k]])
    BY <1>2 DEF U, BoxOK
  <2>2. t[k] = Row(k)
    OBVIOUS
  <2> HIDE DEF t
  <2> QED BY <2>1, <2>2, RestampedOK
<1>6. DOMAIN t = 1..n
  OBVIOUS
<1> HIDE DEF A, n, t
<1>7. Uids(c) = 1..n /\ c.name = m /\ c.uidNext = n + 1 /\ c.message = t
  BY <1>4, <1>6 DEF Uids
<1>8. n + 1 \in Nat \ {0} /\ n + 1 - 1 = n
  BY <1>2
<1>9. BoxOK(c)
  <2>1. c = [name |-> c.name, validity |-> c.validity, uidNext |-> c.uidNext, modseq |-> c.modseq,
             message |-> c.message, expunged |-> c.expunged]
    BY <1>4
  <2>2. ASSUME NEW u \in Uids(c) PROVE u \in 1..(c.uidNext - 1) /\ RowOK(c.message[u])
    <3>1. u \in 1..n /\ RowOK(t[u]) /\ c.message[u] = t[u]
      BY <1>5, <1>7
    <3>2. c.uidNext - 1 = n
      <4>1. n \in Nat /\ c.uidNext = n + 1
        BY <1>2, <1>7
      <4> QED BY <4>1
    <3> QED BY <3>1, <3>2
  <2>3. c.name \in Names /\ c.uidNext \in Nat \ {0}
    BY <1>7, <1>8
  <2> QED BY <2>1, <2>2, <2>3 DEF BoxOK
<1>10. ASSUME NEW u \in U PROVE \E w \in Uids(c) : c.message[w].mail = b.message[u].mail
  <2>1. Place(u, U) \in 1..n /\ A[Place(u, U)] = u
    BY <1>2
  <2> QED BY <1>5, <1>7, <2>1
<1> QED BY <1>7, <1>9, <1>10 DEF U

LEMMA EmptiedOK ==
  ASSUME NEW b, NEW c, BoxOK(b), c = Emptied(b)
  PROVE  Later(b, c) /\ Uids(c) = {}
<1>1. DOMAIN NoRows = {}
  BY DEF NoRows
<1>2. c = [name |-> b.name, validity |-> b.validity, uidNext |-> b.uidNext, modseq |-> c.modseq,
           message |-> NoRows, expunged |-> c.expunged]
  BY DEF Emptied, BoxOK
<1>3. Remade(b, c, NoRows, b.uidNext)
  BY <1>1, <1>2, BoxFacts DEF Remade
<1> QED BY <1>1, <1>3, BoxRemade

LEMMA EmptyBoxOK ==
  ASSUME NEW m \in Names, NEW v, NEW c, c = EmptyBox(m, v)
  PROVE  BoxOK(c) /\ c.name = m /\ Uids(c) = {}
BY DEF EmptyBox, BoxOK, Uids, NoRows

-----------------------------------------------------------------------------
(* What is done to the store, and what that leaves of the invariant *)

Newer(b, c) == b.uidNext <= c.uidNext /\ \A u \in Uids(c) \ Uids(b) : u >= b.uidNext

\* The store goes on: its rows are those it had, later on, or have new ids.
Advances(box, new, marks) ==
    \A i \in DOMAIN new : IF i \in DOMAIN box THEN Newer(box[i], new[i]) ELSE i > marks.id

LEMMA EditedStore ==
  ASSUME NEW box, NEW marks, NEW i, NEW c, NEW new,
         StoreOK(box, marks), i \in DOMAIN box, Later(box[i], c), new = [box EXCEPT ![i] = c]
  PROVE  StoreOK(new, marks) /\ Advances(box, new, marks)
<1>1. /\ DOMAIN new = DOMAIN box
      /\ \A j \in DOMAIN box : new[j] = IF j = i THEN c ELSE box[j]
  OBVIOUS
<1>2. BoxOK(c) /\ c.name = box[i].name /\ Newer(box[i], c)
  BY DEF Later, Newer
<1>3. \A j \in DOMAIN new : BoxOK(new[j]) /\ new[j].name = box[j].name
  BY <1>1, <1>2 DEF StoreOK
<1>4. StoreOK(new, marks)
  BY <1>1, <1>3 DEF StoreOK
<1>5. ASSUME NEW j \in DOMAIN box PROVE Newer(box[j], new[j])
  <2>1. Newer(box[j], box[j])
    BY BoxFacts DEF Newer, StoreOK
  <2> QED BY <1>1, <1>2, <2>1
<1> QED BY <1>1, <1>4, <1>5 DEF Advances

LEMMA SameStore ==
  ASSUME NEW box, NEW marks, StoreOK(box, marks)
  PROVE  Advances(box, box, marks)
BY BoxFacts DEF Advances, Newer, StoreOK

LEMMA SesKept ==
  ASSUME NEW box, NEW marks, NEW new, NEW marks2, NEW c, NEW s,
         StoreOK(box, marks), StoreOK(new, marks2), Advances(box, new, marks), marks.id <= marks2.id,
         SesOK(c, s, box, marks)
  PROVE  SesOK(c, s, new, marks2)
<1>1. /\ HeldOK(c, s) /\ s.sel <= marks.id /\ FitsBox(s, box) /\ s.sel \in Nat
      /\ marks.id \in Nat /\ marks2.id \in Nat
      /\ \A w \in ToSet(s.known) : w \in Nat
  <2>1. HeldOK(c, s) /\ s.known \in Seq(Nat)
    BY DEF SesOK, HeldOK, Agree
  <2>2. \A w \in ToSet(s.known) : w \in Nat
    BY <2>1, ElementOfSeq, LenProperties DEF ToSet
  <2> QED BY <2>1, <2>2 DEF SesOK, HeldOK, StoreOK
<1>2. s.sel <= marks2.id
  BY <1>1
<1>3. CASE s.sel \notin DOMAIN new
  <2>1. Uids(BoxAt(new, s.sel)) = {}
    BY <1>3, BoxAtFacts
  <2> QED BY <1>1, <1>2, <1>3, <2>1 DEF SesOK, FitsBox
<1>4. CASE s.sel \in DOMAIN new
  <2> DEFINE b == box[s.sel]
             d == new[s.sel]
  <2>1. s.sel \in DOMAIN box /\ Newer(b, d)
    BY <1>1, <1>4 DEF Advances
  <2>2. BoxAt(box, s.sel) = b /\ BoxAt(new, s.sel) = d
    BY <1>4, <2>1 DEF BoxAt
  <2>3. b.uidNext \in Nat /\ d.uidNext \in Nat /\ Uids(d) \subseteq Nat
    BY <1>4, <2>1, BoxFacts DEF StoreOK
  <2> HIDE DEF b, d
  <2>4. ASSUME NEW w \in ToSet(s.known) PROVE w < d.uidNext
    <3>1. w < b.uidNext
      BY <1>1, <2>1, <2>2 DEF FitsBox, b
    <3> QED BY <1>1, <2>1, <2>3, <3>1 DEF Newer
  <2>5. ASSUME NEW u \in Uids(d) \ ToSet(s.known), NEW w \in ToSet(s.known) PROVE w < u
    <3>1. w \in Nat /\ u \in Nat
      BY <1>1, <2>3
    <3>2. CASE u \in Uids(b)
      BY <1>1, <2>2, <3>2 DEF FitsBox
    <3>3. CASE u \notin Uids(b)
      <4>1. u >= b.uidNext
        BY <2>1, <3>3 DEF Newer
      <4>2. w < b.uidNext
        BY <1>1, <2>1, <2>2 DEF FitsBox, b
      <4> QED BY <2>3, <3>1, <4>1, <4>2
    <3> QED BY <3>2, <3>3
  <2>6. FitsBox(s, new)
    BY <2>2, <2>4, <2>5 DEF FitsBox, d
  <2> QED BY <1>1, <1>2, <2>6 DEF SesOK
<1> QED BY <1>3, <1>4

\* Every connection's hold on the store.
AllHold == StoreOK(mailbox, meta) /\ \A c \in Conns : SesOK(c, ses[c], mailbox, meta)

\* A command's reply and the pushes leave every connection holding the store.
LEMMA ReplyHolds ==
  ASSUME AllHold, NEW c \in Conns, NEW s, NEW box, NEW names, Reply(c, s, box, names), UNCHANGED meta,
         StoreOK(box, meta), Advances(mailbox, box, meta), SesOK(c, s, box, meta)
  PROVE  AllHold'
<1>1. mailbox' = box /\ meta' = meta
  BY DEF Reply
<1>2. ASSUME NEW d \in Conns PROVE SesOK(d, ses'[d], box, meta)
  <2>1. SesOK(d, ses[d], box, meta)
    <3>1. meta.id <= meta.id /\ SesOK(d, ses[d], mailbox, meta) /\ StoreOK(mailbox, meta)
      BY DEF StoreOK, AllHold
    <3> QED BY <3>1, SesKept
  <2>2. SesOK(d, Sync(d, ses[d], box), box, meta)
    BY <2>1, SyncOK
  <2>3. ses'[d] = IF d = c THEN s ELSE IF ses[d].idle \in names THEN Sync(d, ses[d], box) ELSE ses[d]
    BY DEF Reply
  <2> QED BY <2>1, <2>2, <2>3
<1> QED BY <1>1, <1>2 DEF AllHold

\* A mail in a row that is changed is still in the store, unless it was among
\* the messages taken away.
InStore(box, m) == \E i \in DOMAIN box : m \in BodiesOf(box[i], Uids(box[i]))

LEMMA MailStays ==
  ASSUME NEW box, NEW i, NEW c, NEW new, NEW gone, NEW m,
         i \in DOMAIN box, Keeps(box[i], c, Uids(box[i]) \ gone), new = [box EXCEPT ![i] = c],
         InStore(box, m), m \notin BodiesOf(box[i], gone)
  PROVE  InStore(new, m)
<1>1. PICK j \in DOMAIN box : m \in BodiesOf(box[j], Uids(box[j]))
  BY DEF InStore
<1>2. PICK u \in Uids(box[j]) : m = box[j].message[u].mail
  BY <1>1 DEF BodiesOf
<1>3. DOMAIN new = DOMAIN box /\ new[j] = IF j = i THEN c ELSE box[j]
  OBVIOUS
<1>4. u \in Uids(new[j]) /\ new[j].message[u].mail = m
  <2>1. CASE j = i
    <3>1. u \notin gone
      BY <1>2, <2>1 DEF BodiesOf
    <3> QED BY <1>2, <1>3, <2>1, <3>1 DEF Keeps
  <2> QED BY <1>2, <1>3, <2>1
<1> QED BY <1>3, <1>4 DEF InStore, BodiesOf

-----------------------------------------------------------------------------
(* What commands leave of a connection's state *)

LEMMA EmptyAgree == Agree(<<>>, <<>>)
BY EmptySeq DEF Agree, Rising

LEMMA DeselectedOK ==
  ASSUME NEW c, NEW box, NEW marks, StoreOK(box, marks)
  PROVE  SesOK(c, Deselected, box, marks)
<1> DEFINE s == Deselected
<1>1. /\ s = [sel |-> 0, name |-> NoName, readOnly |-> FALSE, known |-> <<>>, flags |-> NoRows,
              idle |-> NoName, told |-> <<>>, apart |-> {}]
      /\ s.sel = 0 /\ s.name = NoName /\ s.known = <<>> /\ s.flags = NoRows /\ s.idle = NoName
      /\ s.told = <<>>
  BY DEF Deselected
<1>2. Agree(<<>>, <<>>)
  BY EmptyAgree
<1>3. HeldOK(c, s)
  BY <1>1, <1>2 DEF HeldOK, NoRows
<1>4. FitsBox(s, box)
  <2>1. ToSet(s.known) = {}
    BY <1>1 DEF ToSet
  <2> QED BY <2>1 DEF FitsBox
<1> QED BY <1>1, <1>3, <1>4 DEF SesOK, StoreOK

\* A FETCH response by number and one by uid are about the same entry.
Right(told, byUid, E) ==
    \A e \in E : \A k \in DOMAIN told : About(e, k, told[k].uid, byUid) <=> e.uid = told[k].uid

LEMMA RisingOnce ==
  ASSUME NEW s \in Seq(Nat), Rising(s), NEW i \in DOMAIN s, NEW j \in DOMAIN s, s[i] = s[j]
  PROVE  i = j
<1>1. s[i] \in Nat /\ s[j] \in Nat /\ i \in Nat /\ j \in Nat
  BY LenProperties
<1> QED BY <1>1 DEF Rising

LEMMA AskedRight ==
  ASSUME NEW s, NEW b, NEW byUid \in BOOLEAN, NEW E, Agree(s.told, s.known), E \in Asked(s, b, byUid)
  PROVE  UidsIn(E) \subseteq Uids(b) /\ Right(s.told, byUid, E)
<1>1. PICK S : E = Resolve(s, b, byUid, S)
  BY DEF Asked
<1>2. CASE byUid
  <2>1. \A e \in E : e.uid \in Uids(b)
    BY <1>1, <1>2 DEF Resolve
  <2> QED BY <1>2, <2>1 DEF Right, About, UidsIn
<1>3. CASE ~byUid
  <2>1. \A e \in E : e.seq \in DOMAIN s.known /\ e.uid = s.known[e.seq] /\ e.uid \in Uids(b)
    BY <1>1, <1>3 DEF Resolve
  <2>2. s.known \in Seq(Nat) /\ Rising(s.known) /\ DOMAIN s.told = DOMAIN s.known
    BY LenProperties DEF Agree
  <2>3. ASSUME NEW e \in E, NEW k \in DOMAIN s.told PROVE e.seq = k <=> e.uid = s.told[k].uid
    <3>1. s.told[k].uid = s.known[k] /\ k \in DOMAIN s.known
      BY <2>2 DEF Agree
    <3>2. e.seq \in DOMAIN s.known /\ e.uid = s.known[e.seq]
      BY <2>1
    <3>3. s.known[e.seq] = s.known[k] => e.seq = k
      BY <2>2, <3>1, <3>2, RisingOnce
    <3> QED BY <3>1, <3>2, <3>3
  <2>4. Right(s.told, byUid, E)
    BY <1>3, <2>3 DEF Right, About
  <2> QED BY <2>1, <2>4 DEF UidsIn
<1> QED BY <1>2, <1>3

\* What is left to show where only flags change: what the client has of each
\* message, and what is on record.
Talked(c, flags, heard, apart) ==
    \A k \in DOMAIN heard : heard[k].flags # Unknown =>
        /\ <<c, heard[k].uid>> \in Watched
        /\ heard[k].uid \notin apart => heard[k].flags = flags[heard[k].uid]

LEMMA TalkedOK ==
  ASSUME NEW c, NEW s, NEW flags, NEW heard, NEW apart, NEW box, NEW marks, NEW t,
         SesOK(c, s, box, marks),
         t = [sel |-> s.sel, name |-> s.name, readOnly |-> s.readOnly, known |-> s.known,
              flags |-> flags, idle |-> s.idle, told |-> heard, apart |-> apart],
         DOMAIN s.flags \subseteq DOMAIN flags, \A u \in DOMAIN flags : flags[u] \in SUBSET Flags,
         Agree(heard, s.known), Talked(c, flags, heard, apart)
  PROVE  /\ SesOK(c, t, box, marks)
         /\ t.sel = s.sel /\ t.name = s.name /\ t.idle = s.idle
<1>1. HeldOK(c, s) /\ Agree(s.told, s.known) /\ s.sel <= marks.id /\ FitsBox(s, box)
  BY DEF SesOK, HeldOK
<1>2. /\ t.sel = s.sel /\ t.name = s.name /\ t.idle = s.idle /\ t.known = s.known
      /\ t.readOnly = s.readOnly /\ t.flags = flags /\ t.told = heard /\ t.apart = apart
  OBVIOUS
<1>3. ASSUME NEW k \in DOMAIN heard PROVE EntryOK(c, t, heard[k])
  <2>1. k \in DOMAIN s.told /\ s.told[k].uid = heard[k].uid
    BY <1>1, AgreeFacts
  <2>2. heard[k].uid \in DOMAIN s.flags
    BY <1>1, <2>1 DEF HeldOK, EntryOK
  <2> QED BY <1>2, <2>2 DEF EntryOK, Talked
<1>4. HeldOK(c, t)
  BY <1>1, <1>2, <1>3 DEF HeldOK
<1>5. FitsBox(t, box)
  BY <1>1, <1>2 DEF FitsBox
<1> QED BY <1>1, <1>2, <1>4, <1>5 DEF SesOK

LEMMA RecordedOK ==
  ASSUME NEW s, NEW E, NEW Now, NEW flags, flags = Recorded(s.flags, E, Now),
         \A u \in DOMAIN s.flags : s.flags[u] \in SUBSET Flags,
         \A u \in UidsIn(E) : Now[u] \in SUBSET Flags
  PROVE  /\ DOMAIN s.flags \subseteq DOMAIN flags /\ \A u \in DOMAIN flags : flags[u] \in SUBSET Flags
         /\ \A u \in UidsIn(E) : flags[u] = Now[u]
         /\ \A u \in DOMAIN s.flags : u \notin UidsIn(E) => flags[u] = s.flags[u]
BY DEF Recorded

\* Which FETCHes the client takes for news of the message at place k.
LEMMA HeardOrNot ==
  ASSUME NEW c, NEW told, NEW byUid, NEW E, NEW F, NEW heard,
         Right(told, byUid, E), Changed(c, told, byUid, E, F, heard), NEW k \in DOMAIN heard
  PROVE  LET u == told[k].uid IN
         /\ k \in DOMAIN told /\ heard[k].uid = u
         /\ \/ heard[k] = told[k] /\ (<<c, u>> \in Watched => u \notin UidsIn(E))
            \/ <<c, u>> \in Watched /\ u \in UidsIn(E) /\ heard[k].flags = F[u]
<1> DEFINE u == told[k].uid
<1>1. k \in DOMAIN told /\ heard[k].uid = u
  BY DEF Changed
<1>2. \A e \in E : About(e, k, u, byUid) <=> e.uid = u
  BY <1>1 DEF Right
<1>3. CASE heard[k] = told[k] /\ (<<c, u>> \notin Watched \/ \A e \in E : ~About(e, k, u, byUid))
  BY <1>1, <1>2, <1>3 DEF UidsIn
<1>4. CASE <<c, u>> \in Watched /\ \E e \in E : About(e, k, u, byUid) /\ heard[k].flags = F[e.uid]
  <2>1. PICK e \in E : e.uid = u /\ heard[k].flags = F[e.uid]
    BY <1>2, <1>4
  <2> QED BY <1>1, <1>4, <2>1 DEF UidsIn
<1> QED BY <1>1, <1>3, <1>4 DEF Changed

\* The flags a STORE or a FETCH set are those on record after it.
LEMMA FlaggedOK ==
  ASSUME NEW c, NEW s, NEW byUid, NEW E, NEW Now, NEW box, NEW marks, NEW t,
         SesOK(c, s, box, marks), Right(s.told, byUid, E),
         \A u \in UidsIn(E) : Now[u] \in SUBSET Flags,
         t = Flagged(c, s, byUid, E, Now)
  PROVE  /\ SesOK(c, t, box, marks)
         /\ t.sel = s.sel /\ t.name = s.name /\ t.idle = s.idle
<1> DEFINE flags == Recorded(s.flags, E, Now)
           heard == Hears(c, s.told, byUid, E, Now)
           apart == s.apart \ UidsIn(E)
<1>1. HeldOK(c, s) /\ Agree(s.told, s.known)
  BY DEF SesOK, HeldOK
<1>2. t = [s EXCEPT !.flags = flags, !.told = heard, !.apart = apart]
  BY DEF Flagged
<1>3. /\ DOMAIN s.flags \subseteq DOMAIN flags /\ \A u \in DOMAIN flags : flags[u] \in SUBSET Flags
      /\ \A u \in UidsIn(E) : flags[u] = Now[u]
      /\ \A u \in DOMAIN s.flags : u \notin UidsIn(E) => flags[u] = s.flags[u]
  BY <1>1, RecordedOK DEF HeldOK
<1>4. Reports(E, Now)
  BY DEF Reports, UidsIn
<1>5. Agree(heard, s.known) /\ Changed(c, s.told, byUid, E, Now, heard)
  BY <1>1, <1>4, HearsAgree
<1>6. \A u : u \in apart <=> u \in s.apart /\ u \notin UidsIn(E)
  OBVIOUS
<1> HIDE DEF flags, heard, apart
<1>7. Talked(c, flags, heard, apart)
  <2> SUFFICES ASSUME NEW k \in DOMAIN heard, heard[k].flags # Unknown
               PROVE  /\ <<c, heard[k].uid>> \in Watched
                      /\ heard[k].uid \notin apart => heard[k].flags = flags[heard[k].uid]
    BY DEF Talked
  <2> DEFINE u == s.told[k].uid
  <2>1. /\ k \in DOMAIN s.told /\ heard[k].uid = u
        /\ \/ heard[k] = s.told[k] /\ (<<c, u>> \in Watched => u \notin UidsIn(E))
           \/ <<c, u>> \in Watched /\ u \in UidsIn(E) /\ heard[k].flags = Now[u]
    BY <1>5, HeardOrNot
  <2>2. EntryOK(c, s, s.told[k])
    BY <1>1, <2>1 DEF HeldOK
  <2> QED BY <1>3, <1>6, <2>1, <2>2 DEF EntryOK
<1>8. t = [sel |-> s.sel, name |-> s.name, readOnly |-> s.readOnly, known |-> s.known,
           flags |-> flags, idle |-> s.idle, told |-> heard, apart |-> apart]
  BY <1>1, <1>2 DEF HeldOK
<1> QED BY <1>3, <1>5, <1>7, <1>8, TalkedOK

\* A FETCH of the flags: those that are not on record leave the message apart.
Fetched(c, s, b, byUid, E, Word, t) ==
    t = [s EXCEPT !.told = Hears(c, @, byUid, E, Word),
                  !.apart = (@ \ UidsIn(E)) \cup Unreported(s, b, E)]

LEMMA FetchedOK ==
  ASSUME NEW c, NEW s, NEW b, NEW byUid, NEW E, NEW Word, NEW box, NEW marks, NEW t,
         SesOK(c, s, box, marks), Right(s.told, byUid, E),
         \A u \in UidsIn(E) : Word[u] \in SUBSET Flags,
         \A u \in UidsIn(E) : Word[u] = b.message[u].flags,
         Fetched(c, s, b, byUid, E, Word, t)
  PROVE  /\ SesOK(c, t, box, marks)
         /\ t.sel = s.sel /\ t.name = s.name /\ t.idle = s.idle
<1> DEFINE heard == Hears(c, s.told, byUid, E, Word)
           apart == (s.apart \ UidsIn(E)) \cup Unreported(s, b, E)
<1>1. HeldOK(c, s) /\ Agree(s.told, s.known)
  BY DEF SesOK, HeldOK
<1>2. t = [s EXCEPT !.told = heard, !.apart = apart]
  BY DEF Fetched
<1>3. Reports(E, Word)
  BY DEF Reports, UidsIn
<1>4. Agree(heard, s.known) /\ Changed(c, s.told, byUid, E, Word, heard)
  BY <1>1, <1>3, HearsAgree
<1>5. /\ \A u \in UidsIn(E) : u \notin apart => u \in DOMAIN s.flags /\ s.flags[u] = Word[u]
      /\ \A u \in s.apart : u \notin UidsIn(E) => u \in apart
  BY DEF Unreported
<1> HIDE DEF heard, apart
<1>6. Talked(c, s.flags, heard, apart)
  <2> SUFFICES ASSUME NEW k \in DOMAIN heard, heard[k].flags # Unknown
               PROVE  /\ <<c, heard[k].uid>> \in Watched
                      /\ heard[k].uid \notin apart => heard[k].flags = s.flags[heard[k].uid]
    BY DEF Talked
  <2> DEFINE u == s.told[k].uid
  <2>1. /\ k \in DOMAIN s.told /\ heard[k].uid = u
        /\ \/ heard[k] = s.told[k] /\ (<<c, u>> \in Watched => u \notin UidsIn(E))
           \/ <<c, u>> \in Watched /\ u \in UidsIn(E) /\ heard[k].flags = Word[u]
    BY <1>4, HeardOrNot
  <2>2. EntryOK(c, s, s.told[k])
    BY <1>1, <2>1 DEF HeldOK
  <2> QED BY <1>5, <2>1, <2>2 DEF EntryOK
<1>7. t = [sel |-> s.sel, name |-> s.name, readOnly |-> s.readOnly, known |-> s.known,
           flags |-> s.flags, idle |-> s.idle, told |-> heard, apart |-> apart]
  BY <1>1, <1>2 DEF HeldOK
<1> DEFINE flags == s.flags
<1>8. /\ Talked(c, flags, heard, apart)
      /\ t = [sel |-> s.sel, name |-> s.name, readOnly |-> s.readOnly, known |-> s.known,
              flags |-> flags, idle |-> s.idle, told |-> heard, apart |-> apart]
      /\ DOMAIN s.flags \subseteq DOMAIN flags /\ \A u \in DOMAIN flags : flags[u] \in SUBSET Flags
  BY <1>1, <1>6, <1>7 DEF HeldOK
<1>9. SesOK(c, s, box, marks)
  OBVIOUS
<1> HIDE DEF flags
<1> QED BY ONLY <1>4, <1>8, <1>9, TalkedOK

\* What the client works out of a silent STORE: an entry with no flags is left
\* without, unless they are replaced.
Worked(c, old, new, E, mode, F) ==
    LET u == old.uid IN
    /\ new.uid = u
    /\ \/ /\ new = old
          /\ <<c, u>> \in Watched /\ u \in UidsIn(E) => old.flags = Unknown /\ mode # "replace"
       \/ /\ <<c, u>> \in Watched /\ u \in UidsIn(E)
          /\ old.flags # Unknown \/ mode = "replace"
          /\ new.flags = NewFlags(old.flags, mode, F)

LEMMA WorksOutAgree ==
  ASSUME NEW c, NEW told, NEW known, NEW byUid, NEW E, NEW mode \in StoreModes, NEW F \in SUBSET Flags,
         NEW heard, Agree(told, known), Right(told, byUid, E),
         heard = WorksOut(c, told, byUid, E, mode, F)
  PROVE  /\ Agree(heard, known) /\ DOMAIN heard = DOMAIN told
         /\ \A k \in DOMAIN told : Worked(c, told[k], heard[k], E, mode, F)
<1> DEFINE n == Len(told)
           In(k) == \E e \in E : IF byUid THEN e.uid = told[k].uid ELSE e.seq = k
           Has(k) == told[k].flags # Unknown \/ mode = "replace"
<1>1. told \in Seq(Entries) /\ n \in Nat /\ DOMAIN told = 1..n /\ \A k \in 1..n : told[k] \in Entries
  BY LenProperties, ElementOfSeq DEF Agree
<1>2. heard = [k \in 1..n |->
                  IF <<c, told[k].uid>> \in Watched /\ In(k) /\ Has(k)
                  THEN [told[k] EXCEPT !.flags = NewFlags(@, mode, F)]
                  ELSE told[k]]
  BY <1>1 DEF WorksOut
<1>3. ASSUME NEW k \in 1..n PROVE In(k) <=> told[k].uid \in UidsIn(E)
  <2>1. \A e \in E : (IF byUid THEN e.uid = told[k].uid ELSE e.seq = k) <=> e.uid = told[k].uid
    BY <1>1 DEF Right, About
  <2> QED BY <2>1 DEF UidsIn
<1> HIDE DEF n, In
<1>4. ASSUME NEW k \in 1..n
      PROVE  heard[k] \in Entries /\ Worked(c, told[k], heard[k], E, mode, F)
  <2>1. told[k] \in Entries
    BY <1>1
  <2>2. CASE <<c, told[k].uid>> \in Watched /\ In(k) /\ Has(k)
    <3> DEFINE G == NewFlags(told[k].flags, mode, F)
    <3>1. heard[k] = [told[k] EXCEPT !.flags = G]
      BY <1>2, <2>2
    <3>2. G \in SUBSET Flags
      <4>1. CASE mode = "replace"
        BY <4>1 DEF NewFlags
      <4>2. CASE mode # "replace"
        <5>1. told[k].flags \in SUBSET Flags
          BY <2>1, <2>2, <4>2 DEF Entries
        <5> QED BY <5>1, NewFlagsOK
      <4> QED BY <4>1, <4>2
    <3> HIDE DEF G
    <3>3. heard[k] \in Entries /\ heard[k].uid = told[k].uid /\ heard[k].flags = G
      BY <2>1, <3>1, <3>2 DEF Entries
    <3> QED BY <1>3, <2>2, <3>3 DEF G, Worked
  <2>3. CASE ~(<<c, told[k].uid>> \in Watched /\ In(k) /\ Has(k))
    <3>1. heard[k] = told[k]
      BY <1>2, <2>3
    <3> QED BY <1>3, <2>1, <2>3, <3>1 DEF Worked
  <2> QED BY <2>2, <2>3
<1>5. DOMAIN heard = 1..n
  BY <1>2
<1>6. heard \in [1..n -> Entries]
  BY <1>2, <1>4
<1>7. heard \in Seq(Entries) /\ Len(heard) = n
  <2>1. heard \in Seq(Entries)
    BY <1>1, <1>6, SeqDef
  <2> QED BY <1>1, <1>5, <2>1, LenProperties
<1>8. Agree(heard, known)
  BY <1>1, <1>4, <1>5, <1>7 DEF Agree, n, Worked
<1> QED BY <1>1, <1>4, <1>5, <1>8

\* After a silent STORE the client that had the flags on record, and those of
\* the mailbox, has them still.
LEMMA SilentOK ==
  ASSUME NEW c, NEW s, NEW b, NEW byUid, NEW E, NEW Now, NEW mode \in StoreModes,
         NEW F \in SUBSET Flags, NEW box, NEW marks, NEW t,
         SesOK(c, s, box, marks), Right(s.told, byUid, E),
         \A u \in UidsIn(E) : Now[u] \in SUBSET Flags,
         \A u \in UidsIn(E) : Now[u] = NewFlags(b.message[u].flags, mode, F),
         t = FlaggedSilently(c, s, b, byUid, E, Now, mode, F)
  PROVE  /\ SesOK(c, t, box, marks)
         /\ t.sel = s.sel /\ t.name = s.name /\ t.idle = s.idle
<1> DEFINE flags == Recorded(s.flags, E, Now)
           heard == WorksOut(c, s.told, byUid, E, mode, F)
           apart == IF mode = "replace" THEN s.apart \ UidsIn(E) ELSE s.apart \cup Unreported(s, b, E)
<1>1. HeldOK(c, s) /\ Agree(s.told, s.known)
  BY DEF SesOK, HeldOK
<1>2. t = [s EXCEPT !.flags = flags, !.told = heard, !.apart = apart]
  BY DEF FlaggedSilently
<1>3. /\ DOMAIN s.flags \subseteq DOMAIN flags /\ \A u \in DOMAIN flags : flags[u] \in SUBSET Flags
      /\ \A u \in UidsIn(E) : flags[u] = Now[u]
      /\ \A u \in DOMAIN s.flags : u \notin UidsIn(E) => flags[u] = s.flags[u]
  <2>1. flags = Recorded(s.flags, E, Now) /\ \A u \in UidsIn(E) : Now[u] \in SUBSET Flags
    OBVIOUS
  <2>2. \A u \in DOMAIN s.flags : s.flags[u] \in SUBSET Flags
    BY <1>1 DEF HeldOK
  <2> HIDE DEF flags
  <2> QED BY ONLY <2>1, <2>2, RecordedOK
<1>4. /\ Agree(heard, s.known) /\ DOMAIN heard = DOMAIN s.told
      /\ \A k \in DOMAIN s.told : Worked(c, s.told[k], heard[k], E, mode, F)
  <2>1. heard = WorksOut(c, s.told, byUid, E, mode, F) /\ Right(s.told, byUid, E)
    OBVIOUS
  <2>2. mode \in StoreModes /\ F \in SUBSET Flags
    OBVIOUS
  <2> HIDE DEF heard
  <2> QED BY ONLY <1>1, <2>1, <2>2, WorksOutAgree
<1>6. \A u \in s.apart : u \notin UidsIn(E) => u \in apart
  OBVIOUS
<1>7. ASSUME NEW u \in UidsIn(E), u \notin apart, mode # "replace"
      PROVE  u \notin s.apart /\ s.flags[u] = b.message[u].flags
  BY <1>7 DEF Unreported
<1> HIDE DEF flags, heard, apart
<1>8. Talked(c, flags, heard, apart)
  <2> SUFFICES ASSUME NEW k \in DOMAIN heard, heard[k].flags # Unknown
               PROVE  /\ <<c, heard[k].uid>> \in Watched
                      /\ heard[k].uid \notin apart => heard[k].flags = flags[heard[k].uid]
    BY DEF Talked
  <2> DEFINE u == s.told[k].uid
  <2>1. k \in DOMAIN s.told /\ Worked(c, s.told[k], heard[k], E, mode, F) /\ heard[k].uid = u
    BY <1>4 DEF Worked
  <2>2. EntryOK(c, s, s.told[k])
    BY <1>1, <2>1 DEF HeldOK
  <2>3. CASE /\ heard[k] = s.told[k]
             /\ <<c, u>> \in Watched /\ u \in UidsIn(E) => s.told[k].flags = Unknown
    BY <1>3, <1>6, <2>1, <2>2, <2>3 DEF EntryOK
  <2>4. CASE heard[k].flags = NewFlags(s.told[k].flags, mode, F) /\ <<c, u>> \in Watched
             /\ u \in UidsIn(E) /\ (s.told[k].flags # Unknown \/ mode = "replace")
    <3>1. CASE mode = "replace"
      <4>1. heard[k].flags = F /\ Now[u] = F
        BY <2>4, <3>1 DEF NewFlags
      <4> QED BY <1>3, <2>1, <2>4, <4>1
    <3>2. CASE mode # "replace" /\ u \notin apart
      <4>1. s.told[k].flags = b.message[u].flags
        BY <1>7, <2>2, <2>4, <3>2 DEF EntryOK
      <4> QED BY <1>3, <2>1, <2>4, <4>1
    <3> QED BY <2>1, <2>4, <3>1, <3>2
  <2> QED BY <2>1, <2>3, <2>4 DEF Worked
<1>9. t = [sel |-> s.sel, name |-> s.name, readOnly |-> s.readOnly, known |-> s.known,
           flags |-> flags, idle |-> s.idle, told |-> heard, apart |-> apart]
  BY <1>1, <1>2 DEF HeldOK
<1> QED BY <1>3, <1>4, <1>8, <1>9, TalkedOK

LEMMA SelectOK ==
  ASSUME NEW c, NEW box, NEW marks, NEW i, NEW examine, NEW s, StoreOK(box, marks), i \in DOMAIN box,
         s = [sel |-> i, name |-> box[i].name, readOnly |-> examine,
              known |-> Ascending(Uids(box[i])),
              flags |-> [u \in Uids(box[i]) |-> box[i].message[u].flags],
              idle |-> NoName, told |-> Lengthened(<<>>, Ascending(Uids(box[i]))), apart |-> {}]
  PROVE  SesOK(c, s, box, marks)
<1> DEFINE U == Uids(box[i])
           list == Lengthened(<<>>, Ascending(U))
           none == {}
           flags == [u \in U |-> box[i].message[u].flags]
<1>1. /\ BoxOK(box[i]) /\ U \subseteq Nat /\ IsFiniteSet(U)
      /\ i \in Nat /\ i # 0 /\ i <= marks.id /\ box[i].name \in Names
  <2>1. BoxOK(box[i]) /\ i \in 1..marks.id /\ marks.id \in Nat
    BY DEF StoreOK
  <2> QED BY <2>1, BoxFacts DEF BoxOK
<1>2. box[i].name # NoName
  <2>1. Len(box[i].name) # 0
    BY <1>1, MailStoreAssumption
  <2>2. Len(NoName) = 0
    BY EmptySeq DEF NoName
  <2> QED BY <2>1, <2>2
<1>3. \A u \in U : flags[u] \in SUBSET Flags
  BY <1>1 DEF BoxOK, RowOK
<1>4. Agree(list, Ascending(U)) /\ Continues(list, <<>>)
  <2>1. Begins(none, U)
    BY <1>1 DEF Begins
  <2>2. Agree(<<>>, Ascending(none))
    <3>1. IsFiniteSet(none) /\ none \subseteq Nat /\ Cardinality(none) = 0
      BY FS_EmptySet
    <3>2. Ascending(none) \in Seq(Nat) /\ Len(Ascending(none)) = 0
      <4> HIDE DEF none
      <4> QED BY <3>1, AscendingLists
    <3>3. Ascending(none) = <<>>
      BY <3>2, EmptySeq
    <3> QED BY <3>3, EmptyAgree
  <2> DEFINE current == Ascending(U)
             old == <<>>
  <2>3. list = Lengthened(old, current) /\ current = Ascending(U) /\ Agree(old, Ascending(none))
    BY <2>2
  <2> HIDE DEF list, current, none, U, old
  <2>4. Agree(list, current) /\ Continues(list, old)
    BY <2>1, <2>3, LengthenedAgree
  <2> QED BY <2>4 DEF current, old
<1>5. /\ s = [sel |-> i, name |-> box[i].name, readOnly |-> examine, known |-> Ascending(U),
              flags |-> flags, idle |-> NoName, told |-> list, apart |-> {}]
      /\ DOMAIN flags = U
  OBVIOUS
<1> HIDE DEF list, flags
<1>6. \A k \in DOMAIN list : list[k].flags = Unknown /\ list[k].uid \in U
  <2>1. \A k \in DOMAIN list : list[k].flags = Unknown
    BY <1>4, EmptySeq DEF Continues
  <2>2. \A k \in DOMAIN list : k \in DOMAIN Ascending(U) /\ list[k].uid = Ascending(U)[k]
    BY <1>4, LenProperties DEF Agree
  <2>3. \A k \in DOMAIN Ascending(U) : Ascending(U)[k] \in U
    BY <1>1, AscendingLists
  <2> QED BY <2>1, <2>2, <2>3
<1>7. HeldOK(c, s)
  BY <1>1, <1>2, <1>3, <1>4, <1>5, <1>6 DEF HeldOK, EntryOK
<1>8. ToSet(s.known) = U
  BY <1>1, <1>5, AscendingLists
<1>9. FitsBox(s, box)
  <2>1. BoxAt(box, s.sel) = box[i] /\ s.sel = i
    BY <1>5 DEF BoxAt
  <2>2. \A w \in U : w < box[i].uidNext
    BY <1>1 DEF BoxOK
  <2> QED BY <1>8, <2>1, <2>2 DEF FitsBox
<1> QED BY <1>1, <1>5, <1>7, <1>9 DEF SesOK

\* The messages a client removes itself, after the news.
Lessened(box, new, i, gone) ==
    /\ gone \subseteq Uids(BoxAt(box, i))
    /\ Uids(BoxAt(new, i)) = Uids(BoxAt(box, i)) \ gone

Purged(c, s, box, gone, t) ==
    LET U == Uids(BoxAt(box, s.sel))
    IN  t = [s EXCEPT !.told = Struck(c, @, Ascending(U), gone), !.known = Ascending(U \ gone)]

LEMMA PurgedOK ==
  ASSUME NEW c, NEW s, NEW box, NEW new, NEW marks, NEW gone, NEW t,
         StoreOK(box, marks), StoreOK(new, marks), SesOK(c, s, box, marks), InStep(s, box),
         Lessened(box, new, s.sel, gone), Purged(c, s, box, gone, t)
  PROVE  /\ SesOK(c, t, new, marks)
         /\ t.sel = s.sel /\ t.name = s.name /\ t.idle = s.idle
<1> DEFINE U == Uids(BoxAt(box, s.sel))
           S == U \ gone
           known == Ascending(U)
           P == {k \in DOMAIN known : known[k] \in S}
           told == Struck(c, s.told, known, gone)
<1>1. HeldOK(c, s) /\ Agree(s.told, s.known) /\ s.sel <= marks.id
  BY DEF SesOK, HeldOK
<1>2. s.known = known
  BY DEF InStep
<1>3. U \subseteq Nat /\ IsFiniteSet(U) /\ S \subseteq Nat /\ IsFiniteSet(S)
  <2>1. U \subseteq Nat /\ IsFiniteSet(U)
    BY BoxAtFacts
  <2> QED BY <2>1, FS_Subset
<1>4. ToSet(known) = U /\ ToSet(Ascending(S)) = S
  <2>1. ToSet(known) = U
    BY <1>3, AscendingLists
  <2> HIDE DEF S
  <2>2. ToSet(Ascending(S)) = S
    BY <1>3, AscendingLists
  <2> QED BY <2>1, <2>2
<1>5. Divided(known, S, S, gone, P)
  <2>1. gone = U \ S /\ S = S \cap U
    BY DEF Lessened
  <2> HIDE DEF S
  <2>2. Begins(S, S)
    BY <1>3 DEF Begins
  <2> QED BY <1>4, <2>1, <2>2 DEF Divided
<1>6. Uids(BoxAt(new, s.sel)) = S
  BY DEF Lessened
<1>7. t = [s EXCEPT !.told = told, !.known = Ascending(S)]
  BY DEF Purged
<1> HIDE DEF S, P, U, known
<1>8. Agree(told, Ascending(S)) /\ From(told, s.told)
  <2>1. Agree(s.told, known)
    BY <1>1, <1>2
  <2> QED BY <1>5, <2>1, KeptAgree
<1> HIDE DEF told
<1>9. s = [sel |-> s.sel, name |-> s.name, readOnly |-> s.readOnly, known |-> s.known,
           flags |-> s.flags, idle |-> s.idle, told |-> s.told, apart |-> s.apart]
  BY <1>1 DEF HeldOK
<1>10. /\ t = [sel |-> s.sel, name |-> s.name, readOnly |-> s.readOnly, known |-> Ascending(S),
               flags |-> s.flags, idle |-> s.idle, told |-> told, apart |-> s.apart]
       /\ t.sel = s.sel /\ t.name = s.name /\ t.idle = s.idle /\ t.known = Ascending(S)
       /\ t.flags = s.flags /\ t.told = told /\ t.apart = s.apart
  BY <1>7, <1>9
<1>11. ASSUME NEW k \in DOMAIN told PROVE EntryOK(c, t, told[k])
  <2>1. PICK j \in DOMAIN s.told : told[k] = s.told[j]
    BY <1>8 DEF From
  <2>2. EntryOK(c, s, s.told[j])
    BY <1>1 DEF HeldOK
  <2> QED BY <1>10, <2>1, <2>2 DEF EntryOK
<1>12. HeldOK(c, t)
  BY <1>1, <1>8, <1>10, <1>11 DEF HeldOK
<1>13. FitsBox(t, new)
  <2>1. ToSet(t.known) = S /\ t.sel = s.sel
    BY <1>4, <1>10
  <2>2. ASSUME s.sel \in DOMAIN new, NEW w \in S PROVE w < new[s.sel].uidNext
    <3>1. BoxAt(new, s.sel) = new[s.sel] /\ BoxOK(new[s.sel])
      BY <2>2 DEF BoxAt, StoreOK
    <3>2. w \in Uids(new[s.sel])
      BY <1>6, <3>1
    <3>3. new[s.sel].uidNext \in Nat /\ w \in 1..(new[s.sel].uidNext - 1)
      BY <3>1, <3>2, BoxFacts
    <3> QED BY <3>3
  <2> QED BY <1>6, <2>1, <2>2 DEF FitsBox
<1> QED BY <1>1, <1>10, <1>12, <1>13 DEF SesOK

-----------------------------------------------------------------------------
(* What a step leaves of the invariant, and whom it tells *)

\* The flags of a mailbox's messages.
View(b) == [u \in Uids(b) |-> b.message[u].flags]

\* Nothing a connection can see has changed but in the mailboxes `names`.
Quiet(box, new, names) ==
    \A i \in DOMAIN box \cap DOMAIN new : box[i].name \notin names => View(new[i]) = View(box[i])

\* Mails but `lost` stay in the store.
Retains(box, new, lost) == \A m \in Mails : InStore(box, m) /\ m \notin lost => InStore(new, m)

\* The store goes on as `new`, without the mails `lost`; what changes shows in
\* the mailboxes `names`.
Evolves(new, lost, names) ==
    /\ StoreOK(new, meta) /\ Advances(mailbox, new, meta)
    /\ Retains(mailbox, new, lost)
    /\ NamesAreCurrent => Quiet(mailbox, new, names)

\* Of an idling connection: it hears of this step.
Heard(c) ==
    LET i == ses[c].sel IN
    /\ ses[c].idle # NoName /\ ses'[c].idle # NoName
    /\ NamesAreCurrent /\ meta' = meta
    /\ i \in DOMAIN mailbox \cap DOMAIN mailbox'
    /\ [u \in Uids(mailbox[i]) |-> mailbox[i].message[u].flags]
          # [u \in Uids(mailbox'[i]) |-> mailbox'[i].message[u].flags]
    => Current(c)'

\* Every mail still owed is in the store.
MailHeld == owed \subseteq Mails /\ \A m \in owed : InStore(mailbox, m)

LEMMA InvParts == Inv <=> AllHold /\ MailHeld
BY DEF Inv, AllHold, MailHeld, MailKept, InStore

LEMMA SameEvolves ==
  ASSUME AllHold, NEW names
  PROVE  Evolves(mailbox, {}, names)
BY SameStore DEF AllHold, Evolves, Retains, Quiet

\* A row is changed, `gone` of its messages are taken away.
LEMMA EditEvolves ==
  ASSUME AllHold, NEW i, NEW c, NEW gone, NEW new, NEW lost, NEW names,
         i \in DOMAIN mailbox, new = [mailbox EXCEPT ![i] = c], lost = BodiesOf(mailbox[i], gone),
         Later(mailbox[i], c), Keeps(mailbox[i], c, Uids(mailbox[i]) \ gone),
         NamesAreCurrent => mailbox[i].name \in names \/ View(c) = View(mailbox[i])
  PROVE  Evolves(new, lost, names)
<1>1. StoreOK(new, meta) /\ Advances(mailbox, new, meta)
  BY EditedStore DEF AllHold
<1>2. ASSUME NEW m \in Mails, InStore(mailbox, m), m \notin lost PROVE InStore(new, m)
  BY <1>2, MailStays
<1>3. ASSUME NamesAreCurrent, NEW j \in DOMAIN mailbox \cap DOMAIN new, mailbox[j].name \notin names
      PROVE  View(new[j]) = View(mailbox[j])
  <2>1. new[j] = IF j = i THEN c ELSE mailbox[j]
    OBVIOUS
  <2> QED BY <1>3, <2>1
<1> QED BY <1>1, <1>2, <1>3 DEF Evolves, Retains, Quiet

\* A connection idling on a changed mailbox is brought up to date.
LEMMA PushedHeard ==
  ASSUME AllHold, NEW d \in Conns, NEW new, NEW lost, NEW names, Evolves(new, lost, names),
         mailbox' = new, ses[d].idle \in names => ses'[d] = Sync(d, ses[d], new)
  PROVE  Heard(d)
<1> DEFINE i == ses[d].sel
           t == Sync(d, ses[d], new)
<1> SUFFICES ASSUME ses[d].idle # NoName, NamesAreCurrent, meta' = meta,
                    i \in DOMAIN mailbox, i \in DOMAIN new, View(mailbox[i]) # View(new[i])
             PROVE  Current(d)'
  BY DEF Heard, View
<1>1. StoreOK(mailbox, meta) /\ SesOK(d, ses[d], mailbox, meta) /\ HeldOK(d, ses[d])
  BY DEF AllHold, SesOK
<1>2. ses[d].idle = ses[d].name /\ mailbox[i].name = ses[d].name /\ i # 0
  BY <1>1, BoxAtFacts DEF NamesAreCurrent, HeldOK
<1>3. mailbox[i].name \in names
  BY DEF Evolves, Quiet
<1>4. ses'[d] = t
  BY <1>2, <1>3
<1>5. SesOK(d, ses[d], new, meta)
  <2>1. meta.id <= meta.id
    BY <1>1 DEF StoreOK
  <2> QED BY <1>1, <2>1, SesKept DEF Evolves
<1>6. t.sel = i /\ InStep(t, new)
  BY <1>2, <1>5, SyncOK DEF Evolves
<1> HIDE DEF t
<1> QED BY <1>4, <1>6 DEF Current, InStep

\* A command's reply and the pushes.
LEMMA Replied ==
  ASSUME Inv, NEW c \in Conns, NEW s, NEW new, NEW lost, NEW names,
         Reply(c, s, new, names), UNCHANGED meta, owed' = owed \ lost,
         Evolves(new, lost, names), SesOK(c, s, new, meta), Ready(c) \/ new = mailbox
  PROVE  Inv' /\ \A d \in Conns : Heard(d)
<1>1. AllHold /\ MailHeld
  BY InvParts
<1>2. AllHold'
  BY <1>1, ReplyHolds DEF Evolves
<1>3. MailHeld'
  BY <1>1 DEF MailHeld, Evolves, Retains, Reply
<1>4. ASSUME NEW d \in Conns PROVE Heard(d)
  <2>1. CASE d = c
    BY <2>1 DEF Heard, Ready, Reply
  <2>2. CASE d # c
    <3>1. mailbox' = new /\ (ses[d].idle \in names => ses'[d] = Sync(d, ses[d], new))
      BY <2>2 DEF Reply
    <3> QED BY <1>1, <3>1, PushedHeard
  <2> QED BY <2>1, <2>2
<1>5. Inv'
  BY <1>2, <1>3 DEF Inv, AllHold, MailHeld, MailKept, InStore
<1> QED BY <1>4, <1>5

-----------------------------------------------------------------------------
(* One lemma per action *)

LEMMA DeliverStep ==
  ASSUME Inv, NEW m \in Mails, Deliver(m)
  PROVE  Inv' /\ \A d \in Conns : Heard(d)
<1>1. AllHold /\ MailHeld /\ StoreOK(mailbox, meta)
  BY InvParts DEF AllHold
<1>2. PICK i \in Named(mailbox, Inbox) :
          /\ mailbox' = [mailbox EXCEPT ![i] = Append1(@, m, {})]
          /\ ses' = [c \in Conns |->
                        IF ses[c].idle = Inbox THEN Sync(c, ses[c], mailbox') ELSE ses[c]]
  BY DEF Deliver
<1> DEFINE b == mailbox[i]
           c == Append1(b, m, {})
           new == [mailbox EXCEPT ![i] = c]
<1>3. i \in DOMAIN mailbox /\ b.name = Inbox /\ BoxOK(b)
  BY <1>1, <1>2 DEF Named, StoreOK
<1>4. mailbox' = new /\ owed' = owed \cup {m} /\ UNCHANGED meta
  BY <1>2 DEF Deliver
<1>5. Later(b, c) /\ Keeps(b, c, Uids(b)) /\ \E w \in Uids(c) : c.message[w].mail = m
  <2>1. {} \in SUBSET Flags
    OBVIOUS
  <2> QED BY <1>3, <2>1, AppendedOK
<1> DEFINE none == {}
           names == {Inbox}
<1>6. none = BodiesOf(b, none) /\ Keeps(b, c, Uids(b) \ none)
  BY <1>5 DEF BodiesOf, Keeps
<1>7. b.name \in names /\ new = [mailbox EXCEPT ![i] = c]
  BY <1>3
<1>8. InStore(new, m)
  BY <1>3, <1>5 DEF InStore, BodiesOf
<1>9. \A d \in Conns : ses'[d] = IF ses[d].idle \in names THEN Sync(d, ses[d], new) ELSE ses[d]
  BY <1>2, <1>4
<1> HIDE DEF b, c, new, none, names
<1>10. Evolves(new, none, names)
  BY <1>1, <1>3, <1>5, <1>6, <1>7, EditEvolves DEF b
<1>11. AllHold'
  <2>1. ASSUME NEW d \in Conns PROVE SesOK(d, ses'[d], new, meta)
    <3>1. SesOK(d, ses[d], new, meta)
      <4>1. meta.id <= meta.id /\ SesOK(d, ses[d], mailbox, meta)
        BY <1>1 DEF AllHold, StoreOK
      <4> QED BY <1>1, <1>10, <4>1, SesKept DEF Evolves
    <3>2. SesOK(d, Sync(d, ses[d], new), new, meta)
      BY <1>10, <3>1, SyncOK DEF Evolves
    <3> QED BY <1>9, <3>1, <3>2
  <2> QED BY <1>4, <1>10, <2>1 DEF AllHold, Evolves
<1>12. MailHeld'
  <2>1. \A x \in Mails : InStore(mailbox, x) => InStore(new, x)
    BY <1>10 DEF Evolves, Retains, none
  <2> QED BY <1>1, <1>4, <1>8, <2>1 DEF MailHeld
<1>13. \A d \in Conns : Heard(d)
  BY <1>1, <1>4, <1>9, <1>10, PushedHeard
<1>14. Inv'
  BY <1>11, <1>12 DEF Inv, AllHold, MailHeld, MailKept, InStore
<1> QED BY <1>13, <1>14

\* Steps that leave the store alone.
LEMMA StoreUntouched ==
  ASSUME Inv, NEW c \in Conns, NEW s, Reply(c, s, mailbox, {}), Hold, SesOK(c, s, mailbox, meta)
  PROVE  Inv' /\ \A d \in Conns : Heard(d)
<1>1. Evolves(mailbox, {}, {})
  BY InvParts, SameEvolves
<1>2. owed' = owed \ {} /\ UNCHANGED meta
  BY DEF Hold
<1> QED BY <1>1, <1>2, Replied

LEMMA SelectStep ==
  ASSUME Inv, NEW c \in Conns, NEW i \in DOMAIN mailbox, NEW examine, Select(c, i, examine)
  PROVE  Inv' /\ \A d \in Conns : Heard(d)
<1> DEFINE current == Ascending(Uids(mailbox[i]))
           s == [sel |-> i, name |-> mailbox[i].name, readOnly |-> examine, known |-> current,
                 flags |-> [u \in Uids(mailbox[i]) |-> mailbox[i].message[u].flags],
                 idle |-> NoName, told |-> Lengthened(<<>>, current), apart |-> {}]
<1>1. StoreOK(mailbox, meta)
  BY DEF Inv
<1>2. SesOK(c, s, mailbox, meta)
  BY <1>1, SelectOK
<1>3. Reply(c, s, mailbox, {}) /\ Hold
  BY DEF Select
<1> HIDE DEF s
<1> QED BY <1>2, <1>3, StoreUntouched

LEMMA NoopStep ==
  ASSUME Inv, NEW c \in Conns, Noop(c)
  PROVE  Inv' /\ \A d \in Conns : Heard(d)
<1> DEFINE s == Sync(c, ses[c], mailbox)
<1>1. StoreOK(mailbox, meta) /\ SesOK(c, ses[c], mailbox, meta)
  BY DEF Inv
<1>2. SesOK(c, s, mailbox, meta)
  BY <1>1, SyncOK
<1>3. Reply(c, s, mailbox, {}) /\ Hold
  BY DEF Noop
<1> HIDE DEF s
<1> QED BY <1>2, <1>3, StoreUntouched

LEMMA UnselectStep ==
  ASSUME Inv, NEW c \in Conns, Unselect(c)
  PROVE  Inv' /\ \A d \in Conns : Heard(d)
<1>1. SesOK(c, Deselected, mailbox, meta)
  BY DeselectedOK DEF Inv
<1>2. Reply(c, Deselected, mailbox, {}) /\ Hold
  BY DEF Unselect
<1> QED BY <1>1, <1>2, StoreUntouched

LEMMA IdlingStep ==
  ASSUME Inv, NEW c \in Conns, Idle(c) \/ Done(c)
  PROVE  Inv' /\ \A d \in Conns : Heard(d)
<1>1. PICK n : /\ n \in {NoName, ses[c].name}
               /\ Reply(c, [ses[c] EXCEPT !.idle = n], mailbox, {}) /\ Hold
  BY DEF Idle, Done
<1> DEFINE s == ses[c]
           t == [s EXCEPT !.idle = n]
<1>2. HeldOK(c, s) /\ s.sel <= meta.id /\ FitsBox(s, mailbox)
  BY DEF Inv, SesOK
<1>3. Reply(c, t, mailbox, {}) /\ t = [s EXCEPT !.idle = n] /\ n \in {NoName, s.name}
  BY <1>1
<1> HIDE DEF s, t
<1>4. /\ t = [sel |-> s.sel, name |-> s.name, readOnly |-> s.readOnly, known |-> s.known,
              flags |-> s.flags, idle |-> n, told |-> s.told, apart |-> s.apart]
      /\ t.sel = s.sel /\ t.name = s.name /\ t.known = s.known /\ t.flags = s.flags
      /\ t.told = s.told /\ t.idle = n /\ t.apart = s.apart
  BY <1>2, <1>3 DEF HeldOK
<1>5. HeldOK(c, t)
  BY <1>2, <1>3, <1>4 DEF HeldOK, EntryOK
<1>6. SesOK(c, t, mailbox, meta)
  BY <1>2, <1>4, <1>5 DEF SesOK, FitsBox
<1> QED BY <1>1, <1>3, <1>6, StoreUntouched

\* Unchanged in what is gone.
LEMMA NoBodies ==
  ASSUME NEW b, NEW c, Keeps(b, c, Uids(b))
  PROVE  {} = BodiesOf(b, {}) /\ Keeps(b, c, Uids(b) \ {})
BY DEF BodiesOf, Keeps

\* Connection c's mailbox: there, under the name c has for it, if it has messages.
LEMMA OwnRow ==
  ASSUME AllHold, NEW c \in Conns
  PROVE  LET i == ses[c].sel
             b == BoxAt(mailbox, i)
         IN  /\ SesOK(c, ses[c], mailbox, meta)
             /\ Uids(b) \subseteq Nat /\ IsFiniteSet(Uids(b))
             /\ \A u \in Uids(b) : RowOK(b.message[u])
             /\ \A u \in Uids(b) : i \in DOMAIN mailbox
             /\ i \in DOMAIN mailbox => b = mailbox[i] /\ BoxOK(b)
             /\ i \in DOMAIN mailbox /\ NamesAreCurrent => mailbox[i].name = ses[c].name
<1>1. StoreOK(mailbox, meta) /\ SesOK(c, ses[c], mailbox, meta)
  BY DEF AllHold
<1> QED BY <1>1, BoxAtFacts DEF NamesAreCurrent

LEMMA AppendStep ==
  ASSUME Inv, NEW c \in Conns, NEW i \in DOMAIN mailbox, NEW m \in Mails, AppendMail(c, i, m, {})
  PROVE  Inv' /\ \A d \in Conns : Heard(d)
<1> DEFINE b == mailbox[i]
           a == Append1(b, m, {})
           new == [mailbox EXCEPT ![i] = a]
           s == ses[c]
           t == IF s.name = b.name THEN Sync(c, s, new) ELSE s
           none == {}
           names == {b.name}
<1>1. AllHold /\ MailHeld /\ StoreOK(mailbox, meta) /\ SesOK(c, s, mailbox, meta) /\ BoxOK(b)
  BY InvParts DEF AllHold, StoreOK
<1>2. Reply(c, t, new, names) /\ owed' = owed \cup {m} /\ UNCHANGED meta /\ Ready(c)
  BY DEF AppendMail
<1>3. Later(b, a) /\ Keeps(b, a, Uids(b)) /\ \E w \in Uids(a) : a.message[w].mail = m
  <2>1. {} \in SUBSET Flags
    OBVIOUS
  <2> QED BY <1>1, <2>1, AppendedOK
<1>4. none = BodiesOf(b, none) /\ Keeps(b, a, Uids(b) \ none)
  BY <1>3, NoBodies
<1>5. b.name \in names /\ new = [mailbox EXCEPT ![i] = a]
  OBVIOUS
<1>6. InStore(new, m)
  BY <1>3 DEF InStore, BodiesOf
<1> HIDE DEF a, new, none, names
<1>7. Evolves(new, none, names)
  BY <1>1, <1>3, <1>4, <1>5, EditEvolves
<1>8. SesOK(c, t, new, meta)
  <2>1. SesOK(c, s, new, meta)
    <3>1. meta.id <= meta.id
      BY <1>1 DEF StoreOK
    <3> QED BY <1>1, <1>7, <3>1, SesKept DEF Evolves
  <2>2. SesOK(c, Sync(c, s, new), new, meta)
    BY <1>7, <2>1, SyncOK DEF Evolves
  <2> QED BY <2>1, <2>2
<1> HIDE DEF s, t, b
<1>9. AllHold'
  BY <1>1, <1>2, <1>7, <1>8, ReplyHolds DEF Evolves
<1>10. MailHeld'
  <2>1. \A x \in Mails : InStore(mailbox, x) => InStore(new, x)
    BY <1>7 DEF Evolves, Retains, none
  <2>2. mailbox' = new
    BY <1>2 DEF Reply
  <2> QED BY <1>1, <1>2, <1>6, <2>1, <2>2 DEF MailHeld
<1>11. ASSUME NEW d \in Conns PROVE Heard(d)
  <2>1. CASE d = c
    BY <1>2, <2>1 DEF Heard, Ready
  <2>2. CASE d # c
    <3>1. mailbox' = new /\ (ses[d].idle \in names => ses'[d] = Sync(d, ses[d], new))
      BY <1>2, <2>2 DEF Reply
    <3> QED BY <1>1, <1>7, <3>1, PushedHeard
  <2> QED BY <2>1, <2>2
<1>12. Inv'
  BY <1>9, <1>10 DEF Inv, AllHold, MailHeld, MailKept, InStore
<1> QED BY <1>11, <1>12

\* A FETCH or a STORE sets the flags of messages the client asked for.
LEMMA FlagsSet ==
  ASSUME Inv, NEW c \in Conns, NEW E, NEW mode \in StoreModes, NEW F \in SUBSET Flags, NEW t,
         Selected(c), UidsIn(E) \subseteq Uids(BoxAt(mailbox, ses[c].sel)),
         SesOK(c, t, mailbox, meta),
         t.sel = ses[c].sel, t.name = ses[c].name, t.idle = ses[c].idle,
         Reply(c, t, Restored(ses[c].sel, UidsIn(E), mode, F),
               IF E = {} THEN {} ELSE {ses[c].name}),
         Hold
  PROVE  Inv' /\ \A d \in Conns : Heard(d)
<1> DEFINE s == ses[c]
           i == s.sel
           U == UidsIn(E)
           none == {}
           new == Restored(i, U, mode, F)
           names == IF E = {} THEN {} ELSE {s.name}
<1>1. AllHold /\ SesOK(c, s, mailbox, meta) /\ StoreOK(mailbox, meta)
  BY InvParts DEF AllHold
<1>2. SesOK(c, t, mailbox, meta) /\ t.sel = s.sel /\ t.name = s.name /\ t.idle = s.idle
  OBVIOUS
<1>3. Evolves(new, none, names)
  <2>1. CASE U = {}
    <3>1. new = mailbox
      BY <2>1 DEF Restored
    <3> QED BY <1>1, <3>1, SameEvolves
  <2>2. CASE U # {}
    <3> DEFINE b == mailbox[i]
               a == StoreFlagsAll(b, U, mode, F)
    <3>1. /\ i \in DOMAIN mailbox /\ BoxOK(b)
          /\ NamesAreCurrent => mailbox[i].name = s.name
      BY <1>1, <2>2, OwnRow
    <3>2. new = [mailbox EXCEPT ![i] = a]
      BY <2>2 DEF Restored
    <3>3. Later(b, a) /\ Keeps(b, a, Uids(b))
      <4> HIDE DEF a, b, U
      <4>1. a = StoreFlagsAll(b, U, mode, F)
        BY DEF a
      <4> QED BY <3>1, <4>1, StoredOK
    <3>4. none = BodiesOf(b, none) /\ Keeps(b, a, Uids(b) \ none)
      BY <3>3, NoBodies
    <3>5. s.name \in names
      BY <2>2 DEF UidsIn
    <3> HIDE DEF a, new, names, none, s
    <3> QED BY <1>1, <3>1, <3>2, <3>3, <3>4, <3>5, EditEvolves
  <2> QED BY <2>1, <2>2
<1>4. Reply(c, t, new, names) /\ UNCHANGED meta /\ owed' = owed \ none /\ Ready(c)
  BY DEF Hold, Selected
<1> HIDE DEF s, new, names, none
<1>5. SesOK(c, t, new, meta)
  <2>1. meta.id <= meta.id
    BY <1>1 DEF StoreOK
  <2> QED BY <1>1, <1>2, <1>3, <2>1, SesKept DEF Evolves
<1> QED BY <1>3, <1>4, <1>5, Replied

LEMMA FetchBodyStep ==
  ASSUME Inv, NEW c \in Conns, NEW byUid \in BOOLEAN, Selected(c),
         NEW E \in Asked(ses[c], BoxAt(mailbox, ses[c].sel), byUid), FetchBody(c, byUid, E)
  PROVE  Inv' /\ \A d \in Conns : Heard(d)
<1> DEFINE s == ses[c]
           b == BoxAt(mailbox, s.sel)
           marked == {e \in E : Seen \notin b.message[e.uid].flags}
           Now == [u \in UidsIn(marked) |-> b.message[u].flags \cup {Seen}]
<1>1. AllHold /\ Agree(s.told, s.known)
  BY InvParts DEF AllHold, SesOK, HeldOK
<1>2. UidsIn(E) \subseteq Uids(b) /\ Right(s.told, byUid, E)
  BY <1>1, AskedRight
<1>3. UidsIn(marked) \subseteq Uids(b) /\ Right(s.told, byUid, marked)
  BY <1>2 DEF UidsIn, Right
<1>4. \A u \in UidsIn(marked) : Now[u] \in SUBSET Flags
  <2>1. \A u \in Uids(b) : b.message[u].flags \in SUBSET Flags
    BY <1>1, OwnRow DEF RowOK
  <2>2. Seen \in Flags
    BY ImapSessionAssumption
  <2> HIDE DEF b, marked
  <2> QED BY <1>3, <2>1, <2>2
<1>5. /\ Reply(c, Flagged(c, s, byUid, marked, Now),
               Restored(s.sel, UidsIn(marked), "add", {Seen}),
               IF marked = {} THEN {} ELSE {s.name})
      /\ Hold
  <2> USE DEF FetchBody
  <2>1. Hold
    BY DEF Hold
  <2> QED BY <2>1, Zenon
<1>6. "add" \in StoreModes /\ {Seen} \in SUBSET Flags
  BY ImapSessionAssumption DEF StoreModes
<1> DEFINE t == Flagged(c, s, byUid, marked, Now)
<1>7. t = Flagged(c, s, byUid, marked, Now)
  OBVIOUS
<1> HIDE DEF marked, Now, t
<1>8. SesOK(c, t, mailbox, meta) /\ t.sel = s.sel /\ t.name = s.name /\ t.idle = s.idle
  <2>1. SesOK(c, s, mailbox, meta)
    BY <1>1 DEF AllHold
  <2> QED BY <1>3, <1>4, <1>7, <2>1, FlaggedOK
<1> QED BY <1>3, <1>5, <1>6, <1>7, <1>8, FlagsSet

LEMMA StoreFlagsStep ==
  ASSUME Inv, NEW c \in Conns, NEW byUid \in BOOLEAN, Selected(c),
         NEW E \in Asked(ses[c], BoxAt(mailbox, ses[c].sel), byUid), NEW st \in FlagStores,
         NEW silent \in BOOLEAN, StoreFlags(c, byUid, E, st[1], st[2], silent)
  PROVE  Inv' /\ \A d \in Conns : Heard(d)
<1> DEFINE s == ses[c]
           b == BoxAt(mailbox, s.sel)
           mode == st[1]
           F == st[2]
           Now == [u \in UidsIn(E) |-> NewFlags(b.message[u].flags, mode, F)]
           t == IF silent THEN FlaggedSilently(c, s, b, byUid, E, Now, mode, F)
                ELSE Flagged(c, s, byUid, E, Now)
<1>1. AllHold /\ Agree(s.told, s.known)
  BY InvParts DEF AllHold, SesOK, HeldOK
<1>2. UidsIn(E) \subseteq Uids(b) /\ Right(s.told, byUid, E)
  BY <1>1, AskedRight
<1>3. mode \in StoreModes /\ F \in SUBSET Flags
  BY ImapSessionAssumption
<1>4. \A u \in UidsIn(E) : Now[u] \in SUBSET Flags
  <2>1. \A u \in Uids(b) : b.message[u].flags \in SUBSET Flags
    BY <1>1, OwnRow DEF RowOK
  <2> HIDE DEF mode, F, b
  <2> QED BY <1>2, <1>3, <2>1, NewFlagsOK
<1>5. /\ Reply(c, t, Restored(s.sel, UidsIn(E), mode, F), IF E = {} THEN {} ELSE {s.name})
      /\ Hold
  BY DEF StoreFlags, Hold
<1>6. \A u \in UidsIn(E) : Now[u] = NewFlags(b.message[u].flags, mode, F)
  OBVIOUS
<1>7. t = IF silent THEN FlaggedSilently(c, s, b, byUid, E, Now, mode, F)
          ELSE Flagged(c, s, byUid, E, Now)
  OBVIOUS
<1> HIDE DEF mode, F, Now, t, b
<1>8. SesOK(c, t, mailbox, meta) /\ t.sel = s.sel /\ t.name = s.name /\ t.idle = s.idle
  <2>1. SesOK(c, s, mailbox, meta)
    BY <1>1 DEF AllHold
  <2>2. CASE silent
    <3>1. t = FlaggedSilently(c, s, b, byUid, E, Now, mode, F)
      BY <1>7, <2>2
    <3> HIDE DEF s
    <3> QED BY <1>2, <1>3, <1>4, <1>6, <2>1, <3>1, SilentOK
  <2>3. CASE ~silent
    <3>1. t = Flagged(c, s, byUid, E, Now)
      BY <1>7, <2>3
    <3> QED BY <1>2, <1>4, <2>1, <3>1, FlaggedOK
  <2> QED BY <2>2, <2>3
<1> QED BY <1>2, <1>3, <1>5, <1>8, FlagsSet DEF b

LEMMA FetchFlagsStep ==
  ASSUME Inv, NEW c \in Conns, NEW byUid \in BOOLEAN, Selected(c),
         NEW E \in Asked(ses[c], BoxAt(mailbox, ses[c].sel), byUid), FetchFlags(c, byUid, E)
  PROVE  Inv' /\ \A d \in Conns : Heard(d)
<1> DEFINE s == ses[c]
           b == BoxAt(mailbox, s.sel)
           Word == [u \in UidsIn(E) |-> b.message[u].flags]
           t == [s EXCEPT !.told = Hears(c, @, byUid, E, Word),
                          !.apart = (@ \ UidsIn(E)) \cup Unreported(s, b, E)]
<1>1. AllHold /\ SesOK(c, s, mailbox, meta) /\ Agree(s.told, s.known)
  BY InvParts DEF AllHold, SesOK, HeldOK
<1>2. UidsIn(E) \subseteq Uids(b) /\ Right(s.told, byUid, E)
  BY <1>1, AskedRight
<1>3. /\ \A u \in UidsIn(E) : Word[u] \in SUBSET Flags
      /\ \A u \in UidsIn(E) : Word[u] = b.message[u].flags
  <2>1. \A u \in Uids(b) : b.message[u].flags \in SUBSET Flags
    BY <1>1, OwnRow DEF RowOK
  <2> HIDE DEF b
  <2> QED BY <1>2, <2>1
<1>4. Reply(c, t, mailbox, {}) /\ Hold
  BY DEF FetchFlags, Hold
<1>5. Fetched(c, s, b, byUid, E, Word, t)
  BY DEF Fetched
<1> HIDE DEF t, Word, b, s
<1>6. SesOK(c, t, mailbox, meta)
  BY ONLY <1>1, <1>2, <1>3, <1>5, FetchedOK
<1> QED BY <1>4, <1>6, StoreUntouched

LEMMA AdvancesFurther ==
  ASSUME NEW box, NEW mid, NEW new, NEW marks,
         StoreOK(box, marks), StoreOK(mid, marks), \A i \in DOMAIN new : BoxOK(new[i]),
         DOMAIN mid = DOMAIN box, Advances(box, mid, marks), Advances(mid, new, marks)
  PROVE  Advances(box, new, marks)
<1> SUFFICES ASSUME NEW i \in DOMAIN new, i \in DOMAIN box PROVE Newer(box[i], new[i])
  BY DEF Advances
<1> DEFINE a == box[i]
           b == mid[i]
           c == new[i]
<1>1. Newer(a, b) /\ Newer(b, c)
  BY DEF Advances
<1>2. /\ a.uidNext \in Nat /\ b.uidNext \in Nat /\ c.uidNext \in Nat
      /\ \A u \in Uids(c) : u \in Nat
  BY BoxFacts DEF StoreOK
<1> HIDE DEF a, b, c
<1>3. a.uidNext <= c.uidNext
  BY <1>1, <1>2 DEF Newer
<1>4. ASSUME NEW u \in Uids(c) \ Uids(a) PROVE u >= a.uidNext
  <2>1. CASE u \in Uids(b)
    BY <1>1, <2>1 DEF Newer
  <2>2. CASE u \notin Uids(b)
    <3>1. u >= b.uidNext /\ b.uidNext >= a.uidNext /\ u \in Nat
      BY <1>1, <1>2, <2>2 DEF Newer
    <3> QED BY <1>2, <3>1
  <2> QED BY <2>1, <2>2
<1> QED BY <1>3, <1>4 DEF Newer, a, c

LEMMA NothingCopied ==
  ASSUME NEW b, NEW from, NEW c, BoxOK(b), c = AppendAll(b, from, {})
  PROVE  View(c) = View(b)
<1> DEFINE n == Cardinality({})
           next == b.uidNext
           row(k) == from.message[Ascending({})[k]]
           t == [u \in Uids(b) \cup next .. next + n - 1 |->
                    IF u < next THEN b.message[u]
                    ELSE [row(u - next + 1) EXCEPT !.modseq = b.modseq + u - next + 1]]
<1>1. n = 0
  BY FS_EmptySet
<1>2. next \in Nat /\ Uids(b) \subseteq 1..(next - 1)
  BY BoxFacts
<1>3. c = [b EXCEPT !.uidNext = next + n, !.modseq = b.modseq + n, !.message = t]
  BY DEF AppendAll
<1>4. b = [name |-> b.name, validity |-> b.validity, uidNext |-> b.uidNext,
           modseq |-> b.modseq, message |-> b.message, expunged |-> b.expunged]
  BY DEF BoxOK
<1> HIDE DEF n, row
<1>5. next .. next + n - 1 = {}
  BY <1>1, <1>2
<1>6. DOMAIN t = Uids(b) /\ \A u \in Uids(b) : u < next => t[u] = b.message[u]
  BY <1>5
<1>7. \A u \in Uids(b) : u < next
  BY <1>2
<1> HIDE DEF t, next
<1>8. c.message = t
  BY <1>3, <1>4
<1> QED BY <1>6, <1>7, <1>8 DEF View, Uids

\* The messages U of connection c's mailbox, copied to mailbox j.
LEMMA CopyEvolves ==
  ASSUME AllHold, NEW c \in Conns, NEW j \in DOMAIN mailbox, NEW U,
         U \subseteq Uids(BoxAt(mailbox, ses[c].sel))
  PROVE  LET b == BoxAt(mailbox, ses[c].sel)
             new == Copied(mailbox, j, b, U)
         IN  /\ Evolves(new, {}, IF U = {} THEN {} ELSE {mailbox[j].name})
             /\ new = [mailbox EXCEPT ![j] = new[j]]
             /\ Later(mailbox[j], new[j])
             /\ Keeps(mailbox[j], new[j], Uids(mailbox[j])) /\ Holds(mailbox[j], new[j], b, U)
<1> DEFINE b == BoxAt(mailbox, ses[c].sel)
           r == mailbox[j]
           a == AppendAll(r, b, U)
           new == Copied(mailbox, j, b, U)
           none == {}
           names == IF U = {} THEN {} ELSE {r.name}
<1>1. new = [mailbox EXCEPT ![j] = a] /\ new[j] = a
  BY DEF Copied
<1>2. BoxOK(r) /\ \A u \in U : RowOK(b.message[u])
  BY OwnRow DEF AllHold, StoreOK
<1>3. IsFiniteSet(U) /\ U \subseteq Nat
  <2>1. Uids(b) \subseteq Nat /\ IsFiniteSet(Uids(b))
    BY OwnRow
  <2> QED BY <2>1, FS_Subset
<1>4. Later(r, a) /\ Keeps(r, a, Uids(r)) /\ Holds(r, a, b, U)
  BY <1>2, <1>3, CopiedOK
<1>5. r.name \in names \/ View(a) = View(r)
  BY <1>2, NothingCopied
<1>6. none = BodiesOf(r, none) /\ Keeps(r, a, Uids(r) \ none)
  BY <1>4, NoBodies
<1> HIDE DEF a, b, new, none, names
<1>7. Evolves(new, none, names)
  BY <1>1, <1>4, <1>5, <1>6, EditEvolves
<1>8. new = [mailbox EXCEPT ![j] = new[j]]
  BY <1>1
<1> QED BY <1>1, <1>4, <1>7, <1>8 DEF new, b, none, names

\* A connection's state, brought up to date with what the store becomes.
LEMMA SyncedOn ==
  ASSUME AllHold, NEW c \in Conns, NEW new, NEW lost, NEW names, Evolves(new, lost, names)
  PROVE  SesOK(c, Sync(c, ses[c], new), new, meta)
<1>1. SesOK(c, ses[c], new, meta)
  <2>1. meta.id <= meta.id
    BY DEF AllHold, StoreOK
  <2> QED BY <2>1, SesKept DEF AllHold, Evolves
<1> QED BY <1>1, SyncOK DEF Evolves

LEMMA CopyStep ==
  ASSUME Inv, NEW c \in Conns, NEW j \in DOMAIN mailbox, NEW U,
         U \subseteq Uids(BoxAt(mailbox, ses[c].sel)), Selected(c), Copy(c, U, j)
  PROVE  Inv' /\ \A d \in Conns : Heard(d)
<1> DEFINE s == ses[c]
           new == Copied(mailbox, j, BoxAt(mailbox, s.sel), U)
           names == IF U = {} THEN {} ELSE {mailbox[j].name}
           t == Sync(c, s, new)
           none == {}
<1>1. AllHold
  BY InvParts
<1>2. Evolves(new, none, names)
  BY <1>1, CopyEvolves
<1>3. Reply(c, t, new, names) /\ UNCHANGED meta /\ owed' = owed \ none /\ Ready(c)
  BY DEF Copy, Selected
<1>4. SesOK(c, t, new, meta)
  BY <1>1, <1>2, SyncedOn
<1> HIDE DEF new, names, t, none, s
<1> QED BY <1>2, <1>3, <1>4, Replied

\* A MOVE takes the messages out of one mailbox once another has them, even if
\* it is the same one.
LEMMA MoveEvolves ==
  ASSUME AllHold, NEW c \in Conns, NEW j \in DOMAIN mailbox, NEW U, U # {},
         U \subseteq Uids(BoxAt(mailbox, ses[c].sel))
  PROVE  LET i == ses[c].sel
             new == Removed(Copied(mailbox, j, BoxAt(mailbox, i), U), i, U)
         IN  Evolves(new, {}, {mailbox[j].name, ses[c].name})
<1> DEFINE i == ses[c].sel
           b == BoxAt(mailbox, i)
           mid == Copied(mailbox, j, b, U)
           a == ExpungeAll(mid[i], U)
           new == Removed(mid, i, U)
           names == {mailbox[j].name, ses[c].name}
<1>1. /\ i \in DOMAIN mailbox /\ b = mailbox[i]
      /\ NamesAreCurrent => mailbox[i].name = ses[c].name
  BY OwnRow
<1>2. /\ StoreOK(mid, meta) /\ Advances(mailbox, mid, meta)
      /\ mid = [mailbox EXCEPT ![j] = mid[j]]
      /\ Later(mailbox[j], mid[j])
      /\ Keeps(mailbox[j], mid[j], Uids(mailbox[j])) /\ Holds(mailbox[j], mid[j], b, U)
  BY CopyEvolves DEF Evolves
<1>3. new = [mid EXCEPT ![i] = a]
  BY DEF Removed
<1> HIDE DEF mid, new
<1>4. DOMAIN mid = DOMAIN mailbox /\ \A k \in DOMAIN mailbox : k # j => mid[k] = mailbox[k]
  BY <1>2
<1>5. BoxOK(mid[i])
  BY <1>1, <1>2, <1>4 DEF StoreOK
<1>6. Later(mid[i], a) /\ Keeps(mid[i], a, Uids(mid[i]) \ U)
  BY <1>5, ExpungedOK
<1> HIDE DEF a
<1>7. DOMAIN new = DOMAIN mailbox /\ \A k \in DOMAIN mailbox : new[k] = IF k = i THEN a ELSE mid[k]
  BY <1>3, <1>4
<1>8. StoreOK(new, meta) /\ Advances(mid, new, meta)
  BY <1>1, <1>2, <1>3, <1>4, <1>6, EditedStore
<1>9. Advances(mailbox, new, meta)
  <2>1. \A k \in DOMAIN new : BoxOK(new[k])
    BY <1>8 DEF StoreOK
  <2> QED BY <1>2, <1>4, <1>8, <2>1, AdvancesFurther DEF AllHold
<1>10. ASSUME NEW k \in DOMAIN mailbox, NEW u \in Uids(mailbox[k])
       PROVE  \E h \in DOMAIN new : \E w \in Uids(new[h]) : new[h].message[w].mail = mailbox[k].message[u].mail
  <2>1. CASE k = i /\ u \in U
    <3>1. PICK w \in Uids(mid[j]) : w \notin Uids(mailbox[j]) /\ mid[j].message[w].mail = b.message[u].mail
      BY <1>2, <2>1 DEF Holds
    <3>2. CASE j = i
      <4>1. w \notin U
        BY <1>1, <3>1, <3>2
      <4>2. w \in Uids(a) /\ a.message[w].mail = mid[i].message[w].mail
        BY <1>6, <3>1, <3>2, <4>1 DEF Keeps
      <4> QED BY <1>1, <1>7, <2>1, <3>1, <3>2, <4>2
    <3>3. CASE j # i
      BY <1>1, <1>7, <2>1, <3>1, <3>3
    <3> QED BY <3>2, <3>3
  <2>2. CASE ~(k = i /\ u \in U)
    <3>1. u \in Uids(mid[k]) /\ mid[k].message[u].mail = mailbox[k].message[u].mail
      BY <1>2, <1>4 DEF Keeps
    <3>2. CASE k = i
      <4>1. u \in Uids(a) /\ a.message[u].mail = mid[i].message[u].mail
        BY <1>6, <2>2, <3>1, <3>2 DEF Keeps
      <4> QED BY <1>7, <3>1, <3>2, <4>1
    <3>3. CASE k # i
      BY <1>7, <3>1, <3>3
    <3> QED BY <3>2, <3>3
  <2> QED BY <2>1, <2>2
<1>11. Retains(mailbox, new, {})
  <2> SUFFICES ASSUME NEW m, InStore(mailbox, m) PROVE InStore(new, m)
    BY DEF Retains
  <2>1. PICK k \in DOMAIN mailbox : \E u \in Uids(mailbox[k]) : m = mailbox[k].message[u].mail
    BY DEF InStore, BodiesOf
  <2> QED BY <1>10, <2>1 DEF InStore, BodiesOf
<1>12. ASSUME NamesAreCurrent PROVE Quiet(mailbox, new, names)
  BY <1>1, <1>4, <1>7, <1>12 DEF Quiet
<1> QED BY <1>8, <1>9, <1>11, <1>12 DEF Evolves, new, mid

LEMMA MoveStep ==
  ASSUME Inv, NEW c \in Conns, NEW j \in DOMAIN mailbox, NEW U,
         U \subseteq Uids(BoxAt(mailbox, ses[c].sel)), Selected(c), Move(c, U, j)
  PROVE  Inv' /\ \A d \in Conns : Heard(d)
<1> DEFINE s == ses[c]
           new == Removed(Copied(mailbox, j, BoxAt(mailbox, s.sel), U), s.sel, U)
           names == IF U = {} THEN {} ELSE {mailbox[j].name, s.name}
           t == Sync(c, s, new)
           none == {}
<1>1. AllHold
  BY InvParts
<1>2. Evolves(new, none, names)
  <2>1. CASE U = {}
    BY <1>1, <2>1, CopyEvolves DEF Removed
  <2>2. CASE U # {}
    BY <1>1, <2>2, MoveEvolves
  <2> QED BY <2>1, <2>2
<1>3. Reply(c, t, new, names) /\ UNCHANGED meta /\ owed' = owed \ none /\ Ready(c)
  BY DEF Move, Selected
<1>4. SesOK(c, t, new, meta)
  BY <1>1, <1>2, SyncedOn
<1> HIDE DEF new, names, t, none, s
<1> QED BY <1>2, <1>3, <1>4, Replied

LEMMA MoveCutStep ==
  ASSUME Inv, NEW c \in Conns, NEW j \in DOMAIN mailbox, NEW U,
         U \subseteq Uids(BoxAt(mailbox, ses[c].sel)), MoveCut(c, U, j)
  PROVE  Inv' /\ \A d \in Conns : Heard(d)
<1> DEFINE new == Copied(mailbox, j, BoxAt(mailbox, ses[c].sel), U)
<1>1. AllHold /\ MailHeld
  BY InvParts
<1>2. StoreOK(new, meta) /\ Retains(mailbox, new, {})
  BY <1>1, CopyEvolves DEF Evolves
<1>3. /\ mailbox' = new /\ UNCHANGED <<meta, owed>>
      /\ \A d \in Conns : ses'[d] = Deselected
  BY DEF MoveCut
<1> HIDE DEF new
<1>4. \A d \in Conns : SesOK(d, ses'[d], new, meta)
  BY <1>2, <1>3, DeselectedOK
<1>5. AllHold' /\ MailHeld'
  BY <1>1, <1>2, <1>3, <1>4 DEF AllHold, MailHeld, Retains
<1>6. \A d \in Conns : Heard(d)
  BY <1>3 DEF Heard, Deselected
<1>7. Inv'
  BY <1>5 DEF Inv, AllHold, MailHeld, MailKept, InStore
<1> QED BY <1>6, <1>7

\* The messages `gone` taken out of connection c's mailbox.
LEMMA GoneEvolves ==
  ASSUME AllHold, NEW c \in Conns, NEW gone, NEW new,
         gone \subseteq Uids(BoxAt(mailbox, ses[c].sel)),
         \/ new = Removed(mailbox, ses[c].sel, gone)
         \/ /\ gone = {} \/ gone = DeletedUids(BoxAt(mailbox, ses[c].sel))
            /\ new = WithoutDeleted(ses[c].sel, gone)
  PROVE  LET b == BoxAt(mailbox, ses[c].sel)
         IN  /\ Evolves(new, BodiesOf(b, gone), IF gone = {} THEN {} ELSE {ses[c].name})
             /\ Uids(BoxAt(new, ses[c].sel)) = Uids(b) \ gone
<1> DEFINE i == ses[c].sel
           b == BoxAt(mailbox, i)
           names == IF gone = {} THEN {} ELSE {ses[c].name}
           lost == BodiesOf(b, gone)
<1>1. CASE gone = {}
  <2>1. new = mailbox
    BY <1>1 DEF Removed, WithoutDeleted
  <2>2. BodiesOf(b, gone) = {}
    BY <1>1 DEF BodiesOf
  <2>3. Evolves(mailbox, {}, {})
    BY SameEvolves
  <2> QED BY <1>1, <2>1, <2>2, <2>3
<1>2. CASE gone # {}
  <2>1. /\ i \in DOMAIN mailbox /\ b = mailbox[i] /\ BoxOK(b)
        /\ NamesAreCurrent => mailbox[i].name = ses[c].name
    BY <1>2, OwnRow
  <2> DEFINE a == new[i]
  <2>2. /\ new = [mailbox EXCEPT ![i] = a]
        /\ a = ExpungeAll(b, gone) \/ (gone = DeletedUids(b) /\ a = ExpungeDeletedOf(b))
    <3>1. CASE new = Removed(mailbox, i, gone)
      BY <1>2, <2>1, <3>1 DEF Removed
    <3>2. CASE gone = DeletedUids(b) /\ new = WithoutDeleted(i, gone)
      BY <1>2, <2>1, <3>2 DEF WithoutDeleted
    <3> QED BY <1>2, <3>1, <3>2
  <2> HIDE DEF a, b
  <2>3. Later(b, a) /\ Keeps(b, a, Uids(b) \ gone) /\ Uids(a) = Uids(b) \ gone
    <3> HIDE DEF lost, names
    <3>1. CASE a = ExpungeAll(b, gone)
      BY <2>1, <3>1, ExpungedOK
    <3>2. CASE gone = DeletedUids(b) /\ a = ExpungeDeletedOf(b)
      BY <2>1, <3>2, ExpungedOK
    <3> QED BY <2>2, <3>1, <3>2
  <2>4. NamesAreCurrent => mailbox[i].name \in names
    BY <1>2, <2>1
  <2> HIDE DEF names, lost
  <2>5. lost = BodiesOf(mailbox[i], gone)
    BY <2>1 DEF lost
  <2>6. Evolves(new, lost, names)
    BY <2>1, <2>2, <2>3, <2>4, <2>5, EditEvolves
  <2>7. BoxAt(new, i) = a
    BY <2>1, <2>2 DEF BoxAt, a
  <2> QED BY <2>3, <2>6, <2>7 DEF names, lost, b
<1> QED BY <1>1, <1>2

LEMMA PurgeStep ==
  ASSUME Inv, NEW c \in Conns, NEW gone, NEW new,
         gone \subseteq Uids(BoxAt(mailbox, ses[c].sel)),
         \/ new = Removed(mailbox, ses[c].sel, gone)
         \/ /\ gone = {} \/ gone = DeletedUids(BoxAt(mailbox, ses[c].sel))
            /\ new = WithoutDeleted(ses[c].sel, gone),
         Purge(c, gone, new)
  PROVE  Inv' /\ \A d \in Conns : Heard(d)
<1> DEFINE s == Sync(c, ses[c], mailbox)
           b == BoxAt(mailbox, s.sel)
           t == [s EXCEPT !.told = Struck(c, @, Ascending(Uids(b)), gone),
                          !.known = Ascending(Uids(b) \ gone)]
           names == IF gone = {} THEN {} ELSE {s.name}
           lost == BodiesOf(b, gone)
<1>1. AllHold /\ StoreOK(mailbox, meta) /\ SesOK(c, ses[c], mailbox, meta)
  BY InvParts DEF AllHold
<1>2. Ready(c) /\ ses[c].sel # 0
  BY DEF Purge, Selected
<1>3. /\ SesOK(c, s, mailbox, meta) /\ InStep(s, mailbox)
      /\ s.sel = ses[c].sel /\ s.name = ses[c].name
  BY <1>1, <1>2, SyncOK
<1>4. /\ Reply(c, t, new, names) /\ UNCHANGED meta /\ owed' = owed \ lost
  BY DEF Purge
<1>5. Purged(c, s, mailbox, gone, t)
  BY DEF Purged
<1> HIDE DEF s
<1>6. Evolves(new, lost, names) /\ Lessened(mailbox, new, s.sel, gone)
  <2> DEFINE i == ses[c].sel
             r == BoxAt(mailbox, i)
  <2>1. /\ Evolves(new, BodiesOf(r, gone), IF gone = {} THEN {} ELSE {ses[c].name})
        /\ Uids(BoxAt(new, i)) = Uids(r) \ gone
    <3> HIDE DEF lost, names, t, b
    <3> QED BY <1>1, GoneEvolves
  <2> QED BY <1>3, <2>1 DEF Lessened
<1> HIDE DEF t, names, lost
<1>7. SesOK(c, t, new, meta)
  <2>1. StoreOK(new, meta)
    BY <1>6 DEF Evolves
  <2> QED BY <1>1, <1>3, <1>5, <1>6, <2>1, PurgedOK
<1> QED BY <1>2, <1>4, <1>6, <1>7, Replied

LEMMA ExpungeStep ==
  ASSUME Inv, NEW c \in Conns, Expunge(c) \/ \E U \in SUBSET DeletedUids(BoxAt(mailbox, ses[c].sel)) : UidExpunge(c, U)
  PROVE  Inv' /\ \A d \in Conns : Heard(d)
<1> DEFINE i == ses[c].sel
           D == DeletedUids(BoxAt(mailbox, i))
<1>1. D \subseteq Uids(BoxAt(mailbox, i))
  BY DEF DeletedUids
<1>2. CASE Expunge(c)
  <2> DEFINE new == WithoutDeleted(i, D)
  <2>1. Purge(c, D, new)
    BY <1>2 DEF Expunge
  <2> HIDE DEF D
  <2> QED BY <1>1, <2>1, PurgeStep DEF D
<1>3. ASSUME NEW U, UidExpunge(c, U) PROVE Inv' /\ \A d \in Conns : Heard(d)
  <2> DEFINE gone == D \cap U
             new == Removed(mailbox, i, gone)
  <2>1. Purge(c, gone, new) /\ gone \subseteq Uids(BoxAt(mailbox, i))
    BY <1>1, <1>3 DEF UidExpunge
  <2>2. new = Removed(mailbox, i, gone)
    OBVIOUS
  <2> HIDE DEF gone, new
  <2> QED BY <2>1, <2>2, PurgeStep
<1> QED BY <1>2, <1>3

LEMMA CloseStep ==
  ASSUME Inv, NEW c \in Conns, Close(c)
  PROVE  Inv' /\ \A d \in Conns : Heard(d)
<1> DEFINE s == ses[c]
           b == BoxAt(mailbox, s.sel)
           gone == IF s.readOnly THEN {} ELSE DeletedUids(b)
           new == WithoutDeleted(s.sel, gone)
           names == IF gone = {} THEN {} ELSE {s.name}
           lost == BodiesOf(b, gone)
<1>1. AllHold
  BY InvParts
<1>2. Reply(c, Deselected, new, names) /\ UNCHANGED meta /\ owed' = owed \ lost /\ Ready(c)
  BY DEF Close
<1>3. (gone = {} \/ gone = DeletedUids(b)) /\ gone \subseteq Uids(b) /\ new = WithoutDeleted(s.sel, gone)
  BY DEF DeletedUids
<1> HIDE DEF gone, new
<1>4. Evolves(new, lost, names)
  BY <1>1, <1>3, GoneEvolves
<1> HIDE DEF names, lost
<1>5. SesOK(c, Deselected, new, meta)
  BY <1>4, DeselectedOK DEF Evolves
<1> QED BY <1>2, <1>4, <1>5, Replied

LEMMA DeleteStep ==
  ASSUME Inv, NEW c \in Conns, NEW i \in DOMAIN mailbox, Delete(c, i)
  PROVE  Inv' /\ \A d \in Conns : Heard(d)
<1> DEFINE b == mailbox[i]
           new == Dropped(mailbox, b.name)
           lost == BodiesOf(b, Uids(b))
<1>1. AllHold /\ MailHeld /\ StoreOK(mailbox, meta)
  BY InvParts DEF AllHold
<1>2. /\ mailbox' = new /\ owed' = owed \ lost /\ UNCHANGED meta
      /\ \A d \in Conns : ses'[d] \in {ses[d], Deselected}
  BY DEF Delete
<1>3. /\ DOMAIN new = DOMAIN mailbox \ {i}
      /\ \A k \in DOMAIN new : new[k] = mailbox[k]
  BY <1>1 DEF Dropped, Without, Named, StoreOK
<1> HIDE DEF new, lost
<1>4. StoreOK(new, meta)
  BY <1>1, <1>3 DEF StoreOK
<1>5. Advances(mailbox, new, meta)
  BY <1>1, <1>3, SameStore DEF Advances
<1>6. \A d \in Conns : SesOK(d, ses'[d], new, meta)
  <2> SUFFICES ASSUME NEW d \in Conns PROVE SesOK(d, ses'[d], new, meta)
    OBVIOUS
  <2>1. SesOK(d, Deselected, new, meta)
    BY <1>4, DeselectedOK
  <2>2. SesOK(d, ses[d], new, meta)
    <3>1. meta.id <= meta.id /\ SesOK(d, ses[d], mailbox, meta)
      BY <1>1 DEF AllHold, StoreOK
    <3> QED BY <1>1, <1>4, <1>5, <3>1, SesKept
  <2> QED BY <1>2, <2>1, <2>2
<1>7. ASSUME NEW m \in owed, m \notin lost PROVE InStore(new, m)
  <2>1. PICK k \in DOMAIN mailbox : m \in BodiesOf(mailbox[k], Uids(mailbox[k]))
    BY <1>1 DEF MailHeld, InStore
  <2>2. k # i
    BY <1>7, <2>1 DEF lost
  <2> QED BY <1>3, <2>1, <2>2 DEF InStore
<1>8. AllHold' /\ MailHeld'
  BY <1>1, <1>2, <1>4, <1>6, <1>7 DEF AllHold, MailHeld
<1>9. \A d \in Conns : Heard(d)
  BY <1>2, <1>3 DEF Heard
<1>10. Inv'
  BY <1>8 DEF Inv, AllHold, MailHeld, MailKept, InStore
<1> QED BY <1>9, <1>10

\* Steps that change no connection's state.
LEMMA Untold ==
  ASSUME Inv, NEW new, mailbox' = new, StoreOK(new, meta'), Advances(mailbox, new, meta),
         Retains(mailbox, new, {}), UNCHANGED <<ses, owed>>,
         \/ meta' = Raised(meta)
         \/ meta' = meta /\ \A i \in DOMAIN mailbox \cap DOMAIN new : View(new[i]) = View(mailbox[i])
  PROVE  Inv' /\ \A d \in Conns : Heard(d)
<1>1. AllHold /\ MailHeld /\ StoreOK(mailbox, meta)
  BY InvParts DEF AllHold
<1>2. meta.id <= meta'.id /\ (meta' = Raised(meta) => meta' # meta)
  <2>1. meta.id \in Nat
    BY <1>1 DEF StoreOK
  <2> QED BY <2>1 DEF Raised
<1>3. \A d \in Conns : SesOK(d, ses'[d], new, meta')
  BY <1>1, <1>2, SesKept DEF AllHold
<1>4. AllHold' /\ MailHeld'
  BY <1>1, <1>3 DEF AllHold, MailHeld, Retains
<1>5. \A d \in Conns : Heard(d)
  BY <1>2 DEF Heard, View
<1>6. Inv'
  BY <1>4 DEF Inv, AllHold, MailHeld, MailKept, InStore
<1> QED BY <1>5, <1>6

\* The mails of box, and of the row b, are in new.
Carries(box, b, new) ==
    \A m : InStore(box, m) \/ m \in BodiesOf(b, Uids(b)) => InStore(new, m)

LEMMA RowAdded ==
  ASSUME NEW box, NEW marks, NEW b, NEW new, StoreOK(box, marks), BoxOK(b), ~Taken(box, b.name),
         new = Put(box, marks.id + 1, b)
  PROVE  /\ StoreOK(new, Raised(marks)) /\ Advances(box, new, marks)
         /\ Carries(box, b, new)
<1> DEFINE k == marks.id + 1
<1>1. marks.id \in Nat /\ DOMAIN box \subseteq 1..marks.id /\ k \notin DOMAIN box
  BY DEF StoreOK
<1>2. /\ DOMAIN new = DOMAIN box \cup {k} /\ new[k] = b
      /\ \A i \in DOMAIN box : new[i] = box[i]
  BY <1>1 DEF Put
<1>3. Raised(marks) = [validity |-> marks.validity + 1, id |-> k] /\ k \in Nat /\ k > marks.id
  BY <1>1 DEF Raised
<1>4. StoreOK(new, Raised(marks))
  <2>1. DOMAIN new \subseteq 1..k
    BY <1>1, <1>2
  <2> HIDE DEF k
  <2>2. \A i \in DOMAIN new : BoxOK(new[i])
    BY <1>2 DEF StoreOK
  <2>3. \A i, j \in DOMAIN new : new[i].name = new[j].name => i = j
    BY <1>2 DEF StoreOK, Taken
  <2> QED BY <1>3, <2>1, <2>2, <2>3 DEF StoreOK
<1> HIDE DEF k
<1>5. Advances(box, new, marks)
  BY <1>2, <1>3, SameStore DEF Advances
<1>6. ASSUME NEW m, InStore(box, m) \/ m \in BodiesOf(b, Uids(b)) PROVE InStore(new, m)
  BY <1>2, <1>6 DEF InStore
<1> QED BY <1>4, <1>5, <1>6 DEF Carries

LEMMA CreateStep ==
  ASSUME Inv, NEW n \in Names, Create(n)
  PROVE  Inv' /\ \A d \in Conns : Heard(d)
<1> DEFINE b == EmptyBox(n, meta.validity + 1)
           new == Made(mailbox, meta, n)
<1>1. StoreOK(mailbox, meta) /\ ~Taken(mailbox, n)
  BY DEF Inv, Create
<1>2. BoxOK(b) /\ b.name = n
  BY EmptyBoxOK
<1>3. new = Put(mailbox, meta.id + 1, b)
  BY DEF Made
<1>4. mailbox' = new /\ meta' = Raised(meta) /\ UNCHANGED <<ses, owed>>
  BY DEF Create
<1> HIDE DEF b, new
<1>5. /\ StoreOK(new, Raised(meta)) /\ Advances(mailbox, new, meta)
      /\ Carries(mailbox, b, new)
  BY <1>1, <1>2, <1>3, RowAdded
<1>6. Retains(mailbox, new, {})
  BY <1>5 DEF Retains, Carries
<1> QED BY <1>4, <1>5, <1>6, Untold

LEMMA RenameInboxStep ==
  ASSUME Inv, NEW n \in Names, RenameInbox(n)
  PROVE  Inv' /\ \A d \in Conns : Heard(d)
<1>1. PICK i \in Named(mailbox, Inbox) : mailbox' = Split(mailbox, meta, i, n)
  BY DEF RenameInbox
<1> DEFINE b == mailbox[i]
           a == Emptied(b)
           mid == [mailbox EXCEPT ![i] = a]
           moved == FreshCopy(b, n, meta.validity + 1)
           new == Split(mailbox, meta, i, n)
<1>2. /\ StoreOK(mailbox, meta) /\ i \in DOMAIN mailbox /\ BoxOK(b)
      /\ ~Taken(mailbox, n)
  BY <1>1 DEF Inv, RenameInbox, StoreOK, Named
<1>3. Later(b, a) /\ Uids(a) = {}
  BY <1>2, EmptiedOK
<1>4. BoxOK(moved) /\ moved.name = n /\ \A u \in Uids(b) : \E w \in Uids(moved) : moved.message[w].mail = b.message[u].mail
  BY <1>2, FreshCopyOK
<1>5. mailbox' = new /\ meta' = Raised(meta) /\ UNCHANGED <<ses, owed>>
  BY <1>1 DEF RenameInbox
<1>6. new = Put(mid, meta.id + 1, moved) /\ mid = [mailbox EXCEPT ![i] = a]
  BY DEF Split
<1> HIDE DEF a, mid, moved, new
<1>7. StoreOK(mid, meta) /\ Advances(mailbox, mid, meta) /\ DOMAIN mid = DOMAIN mailbox
  BY <1>2, <1>3, <1>6, EditedStore
<1>8. ~Taken(mid, moved.name)
  <2>1. \A k \in DOMAIN mailbox : mid[k].name = mailbox[k].name
    BY <1>3, <1>6 DEF Later
  <2> QED BY <1>2, <1>4, <1>7, <2>1 DEF Taken
<1>9. /\ StoreOK(new, Raised(meta)) /\ Advances(mid, new, meta)
      /\ Carries(mid, moved, new)
  BY <1>4, <1>6, <1>7, <1>8, RowAdded
<1>10. Advances(mailbox, new, meta)
  <2>1. \A k \in DOMAIN new : BoxOK(new[k])
    BY <1>9 DEF StoreOK
  <2> QED BY <1>2, <1>7, <1>9, <2>1, AdvancesFurther
<1>11. ASSUME NEW m, InStore(mailbox, m) PROVE InStore(new, m)
  <2>1. PICK k \in DOMAIN mailbox : \E u \in Uids(mailbox[k]) : m = mailbox[k].message[u].mail
    BY <1>11 DEF InStore, BodiesOf
  <2>2. CASE k = i
    <3>1. m \in BodiesOf(moved, Uids(moved))
      BY <1>4, <2>1, <2>2 DEF BodiesOf
    <3> QED BY <1>9, <3>1 DEF Carries
  <2>3. CASE k # i
    <3>1. InStore(mid, m)
      BY <1>6, <2>1, <2>3 DEF InStore, BodiesOf
    <3> QED BY <1>9, <3>1 DEF Carries
  <2> QED BY <2>2, <2>3
<1>12. Retains(mailbox, new, {})
  BY <1>11 DEF Retains
<1> QED BY <1>5, <1>9, <1>10, <1>12, Untold

LEMMA RenameStep ==
  ASSUME Inv, NEW from, NEW to, Rename(from, to)
  PROVE  Inv' /\ \A d \in Conns : Heard(d)
<1> DEFINE new == RenameSubtree(mailbox, from, to)
           Tree == Subtree(mailbox, from)
           Dest(i) == Renamed(from, to, mailbox[i].name)
<1>1. StoreOK(mailbox, meta) /\ CanRenameSubtree(mailbox, from, to)
  BY DEF Inv, Rename
<1>2. mailbox' = new /\ UNCHANGED <<meta, ses, owed>>
  BY DEF Rename
<1>3. \A i \in Tree : /\ i \in DOMAIN mailbox /\ Dest(i) \in Names /\ ~Taken(mailbox, Dest(i))
                      /\ \A j \in Tree : Dest(j) = Dest(i) => j = i
  BY <1>1 DEF CanRenameSubtree, Subtree
<1>4. /\ DOMAIN new = DOMAIN mailbox
      /\ \A i \in DOMAIN mailbox :
            new[i] = IF i \in Tree THEN [mailbox[i] EXCEPT !.name = Dest(i)] ELSE mailbox[i]
  BY DEF RenameSubtree
<1> HIDE DEF new, Tree, Dest
<1>5. ASSUME NEW i \in DOMAIN mailbox
      PROVE  LET b == mailbox[i]
                 c == new[i]
             IN  /\ BoxOK(c) /\ Newer(b, c) /\ c.message = b.message
                 /\ c.name = IF i \in Tree THEN Dest(i) ELSE b.name
  <2> DEFINE b == mailbox[i]
             c == new[i]
  <2>1. BoxOK(b) /\ b.uidNext \in Nat
    BY <1>1, BoxFacts DEF StoreOK
  <2>2. CASE i \in Tree
    <3> DEFINE d == Dest(i)
    <3>1. c = [b EXCEPT !.name = d] /\ d \in Names
      BY <1>3, <1>4, <2>2
    <3> HIDE DEF b, c, d
    <3>2. c = [name |-> d, validity |-> b.validity, uidNext |-> b.uidNext,
               modseq |-> b.modseq, message |-> b.message, expunged |-> b.expunged]
      BY <2>1, <3>1 DEF BoxOK
    <3>3. BoxOK(c) /\ c.message = b.message /\ c.uidNext = b.uidNext /\ c.name = d
      BY <2>1, <3>1, <3>2 DEF BoxOK, Uids
    <3> QED BY <2>1, <2>2, <3>3 DEF Newer, Uids, b, c, d
  <2>3. CASE i \notin Tree
    BY <1>4, <2>1, <2>3 DEF Newer
  <2> QED BY <2>2, <2>3
<1>6. StoreOK(new, meta)
  <2>1. ASSUME NEW i \in DOMAIN new, NEW j \in DOMAIN new, new[i].name = new[j].name PROVE i = j
    BY <1>1, <1>3, <1>4, <1>5, <2>1 DEF StoreOK, Taken
  <2> QED BY <1>1, <1>4, <1>5, <2>1 DEF StoreOK
<1>7. Advances(mailbox, new, meta)
  BY <1>4, <1>5 DEF Advances
<1>8. Retains(mailbox, new, {})
  BY <1>4, <1>5 DEF Retains, InStore, BodiesOf, Uids
<1>9. \A i \in DOMAIN mailbox \cap DOMAIN new : View(new[i]) = View(mailbox[i])
  BY <1>5 DEF View, Uids
<1> QED BY <1>2, <1>6, <1>7, <1>8, <1>9, Untold

-----------------------------------------------------------------------------
(* The invariant holds *)

LEMMA InitHolds == Init => Inv
<1> SUFFICES ASSUME Init PROVE Inv
  OBVIOUS
<1>1. /\ DOMAIN mailbox = {1} /\ mailbox[1] = EmptyBox(Inbox, 1)
      /\ meta = [validity |-> 1, id |-> 1] /\ owed = {}
      /\ \A c \in Conns : ses[c] = Deselected
  BY DEF Init
<1>2. StoreOK(mailbox, meta)
  <2>1. BoxOK(mailbox[1])
    BY <1>1, EmptyBoxOK, MailStoreAssumption
  <2> QED BY <1>1, <2>1 DEF StoreOK
<1>3. \A c \in Conns : SesOK(c, ses[c], mailbox, meta)
  BY <1>1, <1>2, DeselectedOK
<1> QED BY <1>1, <1>2, <1>3 DEF Inv, MailKept

LEMMA AddressedStep ==
  ASSUME Inv, NEW c \in Conns, Addressed(c)
  PROVE  Inv' /\ \A d \in Conns : Heard(d)
<1> DEFINE s == ses[c]
           b == BoxAt(mailbox, s.sel)
<1>1. Selected(c) /\ Agree(s.told, s.known)
  BY DEF Addressed, Inv, SesOK, HeldOK
<1>2. CASE \E byUid \in BOOLEAN : \E E \in Asked(s, b, byUid) :
              \/ FetchBody(c, byUid, E) \/ FetchFlags(c, byUid, E)
              \/ \E st \in FlagStores : \E silent \in BOOLEAN : StoreFlags(c, byUid, E, st[1], st[2], silent)
  BY <1>1, <1>2, FetchBodyStep, FetchFlagsStep, StoreFlagsStep
<1>3. ASSUME NEW U, U \subseteq Uids(b),
             NEW j \in DOMAIN mailbox, Copy(c, U, j) \/ Move(c, U, j) \/ MoveCut(c, U, j)
      PROVE  Inv' /\ \A d \in Conns : Heard(d)
  BY <1>1, <1>3, CopyStep, MoveStep, MoveCutStep
<1>4. \A E \in Asked(s, b, TRUE) \cup Asked(s, b, FALSE) : UidsIn(E) \subseteq Uids(b)
  BY <1>1, AskedRight
<1>5. CASE \E U \in SUBSET DeletedUids(b) : UidExpunge(c, U)
  BY <1>5, ExpungeStep
<1> QED BY <1>2, <1>3, <1>4, <1>5 DEF Addressed

LEMMA StepHolds ==
  ASSUME Inv, [Next]_vars
  PROVE  Inv' /\ (UNCHANGED vars \/ \A d \in Conns : Heard(d))
<1>1. CASE \E m \in Mails : Deliver(m)
  BY <1>1, DeliverStep
<1>2. ASSUME NEW c \in Conns, NEW i \in DOMAIN mailbox,
             \/ Select(c, i, FALSE) \/ Select(c, i, TRUE) \/ Delete(c, i)
             \/ \E m \in Mails : AppendMail(c, i, m, {})
      PROVE  Inv' /\ \A d \in Conns : Heard(d)
  BY <1>2, SelectStep, DeleteStep, AppendStep
<1>3. ASSUME NEW c \in Conns, Noop(c) \/ Expunge(c) \/ Close(c) \/ Unselect(c) \/ Idle(c) \/ Done(c)
      PROVE  Inv' /\ \A d \in Conns : Heard(d)
  BY <1>3, NoopStep, ExpungeStep, CloseStep, UnselectStep, IdlingStep
<1>4. CASE \E c \in Conns : Addressed(c)
  BY <1>4, AddressedStep
<1>5. CASE \E n \in Names : Create(n) \/ RenameInbox(n)
  BY <1>5, CreateStep, RenameInboxStep
<1>6. CASE \E i \in DOMAIN mailbox, to \in Names : Rename(mailbox[i].name, to)
  BY <1>6, RenameStep
<1>7. CASE UNCHANGED vars
  BY <1>7 DEF vars, Inv, MailKept
<1> QED BY <1>1, <1>2, <1>3, <1>4, <1>5, <1>6, <1>7 DEF Next

\* Whatever the connections of an account do, and the deliveries, and the death
\* of the process in a MOVE: of every connection, the client's list and the
\* server's agree, flags the client has of messages not apart are those on record, what the
\* mailbox holds beyond the list comes after it, and no mail still owed is lost
\* (imap-server.ts, sqlite-mailbox.ts).
THEOREM InvCorrect == Spec => []Inv
BY InitHolds, StepHolds, PTL DEF Spec

\* What a connection keeps is of its type (imap-server.ts, ConnState).
THEOREM TypeCorrect == Spec => []TypeOK
<1>1. Inv => TypeOK
  <2> SUFFICES ASSUME Inv, NEW c \in Conns
               PROVE  LET s == ses[c] IN
                      /\ s.sel \in Nat /\ {s.name, s.idle} \subseteq Names \cup {NoName}
                      /\ (s.sel = 0) = (s.name = NoName)
                      /\ s.idle \in {NoName, s.name}
                      /\ \A k \in DOMAIN s.told : s.told[k].flags # Unknown => s.told[k].flags \subseteq Flags
                      /\ \A u \in DOMAIN s.flags : s.flags[u] \subseteq Flags
    BY DEF TypeOK, Inv
  <2>1. HeldOK(c, ses[c])
    BY DEF Inv, SesOK
  <2>2. ASSUME NEW k \in DOMAIN ses[c].told
        PROVE  ses[c].told[k].flags \in (SUBSET Flags) \cup {Unknown}
    <3>1. ses[c].told \in Seq(Entries)
      BY <2>1 DEF HeldOK, Agree
    <3>2. ses[c].told[k] \in Entries
      BY <3>1, LenProperties, ElementOfSeq
    <3> QED BY <3>2 DEF Entries
  <2> QED BY <2>1, <2>2 DEF HeldOK
<1> QED BY <1>1, InvCorrect, PTL

\* EXPUNGE numbers were right when they were sent: the client's list, as the
\* responses made it, is the server's (syncSelected, emitExpunged).
THEOREM ViewAgreesAlways == Spec => []ViewAgrees
<1>1. Inv => ViewAgrees
  BY DEF Inv, SesOK, HeldOK, Agree, ViewAgrees
<1> QED BY <1>1, InvCorrect, PTL

\* A number in a command, and one in a FETCH response to a client that knows the
\* message, mean what the client has at that number (resolveForConn).
THEOREM NumbersHoldAlways == Spec => []NumbersHold
<1>1. ASSUME Inv, NEW c \in Conns, NEW byUid \in BOOLEAN,
             NEW E \in Asked(ses[c], BoxAt(mailbox, ses[c].sel), byUid), NEW e \in E,
             byUid => e.uid \in {ses[c].told[k].uid : k \in DOMAIN ses[c].told}
      PROVE  e.seq \in DOMAIN ses[c].told /\ ses[c].told[e.seq].uid = e.uid
  <2> DEFINE s == ses[c]
             b == BoxAt(mailbox, s.sel)
  <2>1. /\ DOMAIN s.told = DOMAIN s.known
        /\ \A k \in DOMAIN s.told : s.told[k].uid = s.known[k]
    <3>1. HeldOK(c, s)
      BY ONLY Inv, c \in Conns DEF Inv, SesOK
    <3>2. Agree(s.told, s.known)
      BY ONLY <3>1 DEF HeldOK
    <3> QED BY <3>2, AgreeFacts
  <2>2. PICK S : E = Resolve(s, b, byUid, S)
    BY DEF Asked
  <2>3. CASE byUid
    <3>1. PICK k \in DOMAIN s.known : s.known[k] = e.uid
      BY <1>1, <2>1, <2>3
    <3>2. e.uid \in ToSet(s.known)
      BY <3>1 DEF ToSet
    <3> DEFINE Number(u) == IF u \in ToSet(s.known) THEN CHOOSE j \in DOMAIN s.known : s.known[j] = u
                          ELSE Place(u, Uids(b))
    <3>3. E = {[seq |-> Number(u), uid |-> u] : u \in S \cap Uids(b)}
      BY <2>2, <2>3 DEF Resolve
    <3>4. e.seq = CHOOSE j \in DOMAIN s.known : s.known[j] = e.uid
      <4>1. Number(e.uid) = CHOOSE j \in DOMAIN s.known : s.known[j] = e.uid
        BY <3>2
      <4> HIDE DEF Number
      <4>2. e.seq = Number(e.uid)
        BY <3>3
      <4> QED BY <4>1, <4>2
    <3>5. e.seq \in DOMAIN s.known /\ s.known[e.seq] = e.uid
      BY <3>1, <3>4
    <3> QED BY <2>1, <3>5
  <2>4. CASE ~byUid
    <3>1. e.seq \in DOMAIN s.known /\ e.uid = s.known[e.seq]
      BY <2>2, <2>4 DEF Resolve
    <3> QED BY <2>1, <3>1
  <2> QED BY <2>3, <2>4
<1>2. Inv => NumbersHold
  BY <1>1 DEF NumbersHold
<1> QED BY <1>2, InvCorrect, PTL

\* Flags a client has of a message that is not apart are those the server has on
\* record for it (syncSelected, STORE, FETCH).
THEOREM FlagChangesReachAlways == Spec => []FlagChangesReach
<1>1. Inv => FlagChangesReach
  BY DEF Inv, SesOK, HeldOK, EntryOK, FlagChangesReach
<1> QED BY <1>1, InvCorrect, PTL

\* No MOVE or RENAME loses a mail, even a MOVE of a mailbox onto itself or one
\* cut short (sqlite-mailbox.ts).
THEOREM MailKeptAlways == Spec => []MailKept
<1>1. Inv => MailKept
  BY DEF Inv
<1> QED BY <1>1, InvCorrect, PTL

\* The step that changes a mailbox brings those idling on it up to date, while
\* names hold (MailboxNotifier).
THEOREM IdlersHearAlways == Spec => IdlersHear
<1>1. Inv /\ [Next]_vars =>
        [\A c \in Conns :
            LET i == ses[c].sel IN
            /\ ses[c].idle # NoName /\ ses'[c].idle # NoName
            /\ NamesAreCurrent /\ meta' = meta
            /\ i \in DOMAIN mailbox \cap DOMAIN mailbox'
            /\ [u \in Uids(mailbox[i]) |-> mailbox[i].message[u].flags]
                  # [u \in Uids(mailbox'[i]) |-> mailbox'[i].message[u].flags]
            => Current(c)']_vars
  BY StepHolds DEF Heard
<1> QED BY <1>1, InvCorrect, PTL DEF Spec, IdlersHear
================================================================================
