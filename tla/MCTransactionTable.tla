------------------------- MODULE MCTransactionTable -------------------------
(* Three calls of openTransaction race on one model.  The entries of other *)
(* models are other keys of the map, which no step for this one touches.   *)
EXTENDS TransactionTable

CONSTANT m1

MCModelOf == [c \in Calls |-> m1]
=============================================================================
