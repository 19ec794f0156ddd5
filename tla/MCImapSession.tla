---------------------------- MODULE MCImapSession ----------------------------
(* ImapSession on a small instance. *)
EXTENDS ImapSession, TLC

CONSTANTS inbox, work, home, m1, deleted, c1, c2

MCInbox == <<inbox>>
MCNames == {<<inbox>>, <<work>>, <<home>>}

Interchangeable == Permutations({work, home})

MCExamined == {<<c2, <<work>>>>, <<c2, <<home>>>>}

MCWatched == {<<c1, 2>>}

MCFlagStores == {<<"add", {deleted}>>, <<"replace", {}>>}

\* All but the mod-sequences and the expunge log, which nothing here reads, and
\* the flags last reported of a message whose flags are not followed, and whether
\* it is apart: no invariant and no other part of the state depends on those, and
\* what brings an idling connection up to date replaces them all.
Visible ==
    <<[i \in DOMAIN mailbox |->
          [name |-> mailbox[i].name, uidNext |-> mailbox[i].uidNext,
           message |-> [u \in Uids(mailbox[i]) |->
               [mail |-> mailbox[i].message[u].mail, flags |-> mailbox[i].message[u].flags]]]],
      meta, [c \in Conns |-> [ses[c] EXCEPT
          !.flags = [u \in {v \in DOMAIN @ : <<c, v>> \in Watched} |-> @[u]],
          !.apart = {u \in @ : <<c, u>> \in Watched}]],
      owed>>
==============================================================================
