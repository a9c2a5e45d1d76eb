-------------------------- MODULE AtomicTransaction --------------------------
(***************************************************************************)
(* What an edit request is promised by the transaction it runs in: a       *)
(* success answer reports exactly the edits applied, in order, and none is *)
(* applied after it; they become permanent together, and only after such   *)
(* an answer, never after a failure answer; what is not permanent may be   *)
(* discarded at any time, all of it at once.                               *)
(***************************************************************************)
EXTENDS UpdateResults

CONSTANTS Edits, Unanswered

VARIABLES log,      \* the edits applied in the transaction
          outcome,  \* what became of them
          answer    \* what the request was told

avars == <<log, outcome, answer>>

AInit == log = <<>> /\ outcome = "open" /\ answer = Unanswered

\* A lost connection can fail the request while an edit is still under way: it is
\* applied, but will never be permanent.
Apply(e) == /\ outcome = "open"
            /\ answer # Unanswered => ~answer.success
            /\ log' = Append(log, e)
            /\ UNCHANGED <<outcome, answer>>

\* Success can only be told while nothing is discarded, except that a discard on
\* the server's side may not be known yet when the answer is given.
Succeed == /\ answer = Unanswered
           /\ answer' \in [success : {TRUE}, patch : Seq(Edits)]
           /\ outcome = "open" => answer'.patch = log
           /\ outcome # "committed"
           /\ UNCHANGED <<log, outcome>>

Fail == /\ answer = Unanswered
        /\ answer' = TransactionClosed
        /\ outcome # "committed"
        /\ UNCHANGED <<log, outcome>>

Commit == /\ outcome = "open"
          /\ answer # Unanswered
          /\ answer.success
          /\ outcome' = "committed"
          /\ UNCHANGED <<log, answer>>

Discard == /\ outcome = "open"
           /\ outcome' = "rolledBack"
           /\ log' = <<>>
           /\ UNCHANGED answer

ANext == (\E e \in Edits : Apply(e)) \/ Succeed \/ Fail \/ Commit \/ Discard

ASpec == AInit /\ [][ANext]_avars
=============================================================================
