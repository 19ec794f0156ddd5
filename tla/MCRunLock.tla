------------------------------ MODULE MCRunLock ------------------------------
(* RunLock on small instances. *)
EXTENDS RunLock
==============================================================================
