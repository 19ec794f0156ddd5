----------------------------- MODULE MCMailResync -----------------------------
(* MailResync on a small instance. *)
EXTENDS MailResync, TLC

CONSTANTS inbox, a, c, x, m1, m2

MCInbox == <<inbox>>
\* Two mailboxes, either of which may have one below it.
MCNames == {<<inbox>>, <<a>>, <<a, x>>, <<c>>, <<c, x>>}
Interchangeable == {p @@ q : p \in Permutations(Mails), q \in Permutations({a, c})}
==============================================================================
