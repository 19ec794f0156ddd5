----------------------------- MODULE MailCustody -----------------------------
(***************************************************************************)
(* What the outbound leg promises about each recipient of each accepted    *)
(* message, with no queue, loop, clock or process in sight: from the 250   *)
(* on, the server answers for the recipient (owed: it will be tried;       *)
(* retained: the operator can still retrieve it) until a peer holds the    *)
(* message, a relay has refused it for good, or the operator purges it.    *)
(***************************************************************************)
CONSTANT Recipients     \* a message and one of its recipients

VARIABLES accepted, owed, retained, delivered, refused, discarded

vars == <<accepted, owed, retained, delivered, refused, discarded>>

Init ==
    /\ accepted = {} /\ owed = {} /\ retained = {}
    /\ delivered = {} /\ refused = {} /\ discarded = {}

Accept(P) ==
    /\ P \cap accepted = {}
    /\ accepted' = accepted \cup P
    /\ owed' = owed \cup P
    /\ UNCHANGED <<retained, delivered, refused, discarded>>

\* A relay learns where some accepted recipients stand.
Answer(D, F) ==
    /\ delivered' = delivered \cup D
    /\ refused' = refused \cup F
    /\ UNCHANGED <<accepted, owed, retained, discarded>>

\* Recipients move between the queue and the dead letters.  One leaves both
\* only when it needs no further custody: a peer has its copy or refused it, or
\* the operator discarded it (while it was also on another row, requeued
\* meanwhile); none appears that was not accepted.
Move(O, R) ==
    /\ (owed \cup retained) \ (O \cup R) \subseteq delivered \cup refused \cup discarded
    /\ owed' = O /\ retained' = R
    /\ UNCHANGED <<accepted, delivered, refused, discarded>>

\* The operator sends dead letters out again: their refusals are forgotten.
TryAgain(P, R) ==
    /\ P \subseteq retained
    /\ retained \ P \subseteq R /\ R \subseteq retained
    /\ retained' = R
    /\ owed' = owed \cup P
    /\ refused' = refused \ P
    /\ UNCHANGED <<accepted, delivered, discarded>>

Discard(P, R) ==
    /\ P \subseteq retained
    /\ retained \ P \subseteq R /\ R \subseteq retained
    /\ retained' = R
    /\ discarded' = discarded \cup P
    /\ UNCHANGED <<accepted, owed, delivered, refused>>

Next ==
    \/ \E P \in SUBSET Recipients : Accept(P)
    \/ \E D, F \in SUBSET accepted : Answer(D, F)
    \/ \E O, R \in SUBSET accepted : Move(O, R)
    \/ \E P, R \in SUBSET retained : TryAgain(P, R) \/ Discard(P, R)

Spec == Init /\ [][Next]_vars
==============================================================================
