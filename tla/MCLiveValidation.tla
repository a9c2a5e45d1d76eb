-------------------------- MODULE MCLiveValidation --------------------------
(* An undo (or redo, creation, update) and a plug-in's request race each   *)
(* other and two subscribers that come and go.  The plug-in and each       *)
(* subscriber spell the model's URI in either way.                         *)
EXTENDS LiveValidation, TLC

CONSTANTS e1, e2, s1, s2

Symmetry == Permutations(Subscribers)
=============================================================================
