--------------------------- MODULE MCEditService ---------------------------
(* Two plug-ins, one of which provides twice for a custom command and the *)
(* other attempts to for a primitive one, three trigger providers, one of  *)
(* which never reacts, and two validation providers, both of which apply.  *)
EXTENDS EditService

CONSTANTS p1, p2, c1, c2, add, t1, t2, t3, v1, v2, custom, primitive

MCPluginOf == (c1 :> p1) @@ (c2 :> p1) @@ (add :> p2) @@ (t1 :> p1) @@ (t2 :> p1)
              @@ (t3 :> p2) @@ (v1 :> p2) @@ (v2 :> p2)
MCTypeOf == (c1 :> custom) @@ (c2 :> custom) @@ (add :> primitive)

\* Registrations of one kind by the same plug-in are interchangeable.
Symmetry == Permutations({c1, c2}) \cup Permutations({t1, t2}) \cup Permutations({v1, v2})
=============================================================================
