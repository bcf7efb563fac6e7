-------------------------- MODULE MCResourceCache --------------------------
(* Three pages: a zeta surface, and a color surface that shares a page     *)
(* with a larger one.                                                      *)
EXTENDS ResourceCache, TLC

CONSTANTS z, small, large, a, b

MCBlock == z :> {1} @@ small :> {2} @@ large :> {2, 3}
MCPixelsOf == [t \in Textures |-> t]
MCValues == {a, b}
Symmetry == Permutations(MCValues)
\* A linear texture, and a swizzled one whose pitch register is 0.
Linear == [tested |-> {3}, read |-> {3}]
Swizzled == [tested |-> {}, read |-> {3}]
MCSwizzled == {Swizzled}
MCLinear == {Linear}
=============================================================================
