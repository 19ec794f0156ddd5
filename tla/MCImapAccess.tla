---------------------------- MODULE MCImapAccess -----------------------------
(* ImapAccess on small instances. *)
EXTENDS ImapAccess, TLC

\* Connections, handlers of the submission port, addresses.
CONSTANTS c1, c2, s1, s2, here, there

Apart == c1 :> here @@ c2 :> there

\* One address has a connection and a handler of the submission port, another a
\* connection.
Mixed == c1 :> here @@ c2 :> there @@ s1 :> here

\* One address has two connections and a handler of the submission port, another
\* only such a handler.
Shared == c1 :> here @@ c2 :> here @@ s1 :> here @@ s2 :> there

\* The two connections are alike.
Alike == Permutations({c1, c2})
==============================================================================
