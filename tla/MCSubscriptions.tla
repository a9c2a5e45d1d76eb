-------------------------- MODULE MCSubscriptions --------------------------
(* Subscriptions and a forwarded web socket.                               *)
EXTENDS Subscriptions

CONSTANTS s1, s2, f1
=============================================================================
