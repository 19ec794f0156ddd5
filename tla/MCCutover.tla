------------------------------ MODULE MCCutover ------------------------------
(* Cutover on small instances. *)
EXTENDS Cutover

\* The newest version migrates the databases.
Migrates == [v \in Versions |-> IF \A w \in Versions : w <= v THEN 2 ELSE 1]
==============================================================================
