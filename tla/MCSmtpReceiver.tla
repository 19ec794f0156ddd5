---------------------------- MODULE MCSmtpReceiver ----------------------------
(* SmtpReceiver with one session of each listener. *)
EXTENDS SmtpReceiver

CONSTANTS inSess, outSess, l1, l2, a1, a2

Listener == [c \in {inSess, outSess} |-> IF c = inSess THEN "inbound" ELSE "submission"]
OneEach == [a \in {a1, a2} |-> IF a = a1 THEN l1 ELSE l2]
===============================================================================
