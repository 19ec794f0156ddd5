----------------------------- MODULE MCRelayLoop -----------------------------
(* RelayLoop on small instances: the sets the cfg files choose from. *)
EXTENDS RelayLoop, TLC

Plain == {"success", "transient", "permanent", "skipped"}
\* Enough for the schedule: a refusal settles a row like a delivery does.
Deferrals == Plain \ {"permanent"}
AllCommands == {"retry", "cancel", "requeue", "purge"}
ButCancel == AllCommands \ {"cancel"}
ButRetry == AllCommands \ {"retry"}

\* Ids and recipients are interchangeable (safety runs only).
Interchangeable == Permutations(Ids) \cup Permutations(Rcpts)
==============================================================================
