------------------------ MODULE MCTransactionContext ------------------------
EXTENDS TransactionContext

CONSTANTS r1, r2
=============================================================================
