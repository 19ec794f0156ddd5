--------------------------- MODULE MCRelayOutbound ---------------------------
(* RelayOutbound on small instances. *)
EXTENDS RelayOutbound
==============================================================================
