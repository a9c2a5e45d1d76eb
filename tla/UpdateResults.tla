---------------------------- MODULE UpdateResults ----------------------------
(***************************************************************************)
(* Model update results and how the transaction context aggregates them    *)
(* (client/model-server-client.ts).  A patch is the sequence of the edits  *)
(* whose changes it describes.                                             *)
(***************************************************************************)
EXTENDS Sequences

Results(Edits) == [success : BOOLEAN, patch : Seq(Edits)]

\* The aggregate that pushNestedContext starts from.
FreshResult == [success |-> TRUE, patch |-> <<>>]

\* transactionClosed: `the transaction was already closed or was rolled back'.
TransactionClosed == [success |-> FALSE, patch |-> <<>>]

\* mergeModelUpdateResult: a source without changes is not merged at all, its
\* `success' included.
Merge(dst, src) ==
    IF src.patch = <<>>
    THEN dst
    ELSE [success |-> dst.success /\ src.success, patch |-> dst.patch \o src.patch]
=============================================================================
