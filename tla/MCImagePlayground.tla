-------------------------- MODULE MCImagePlayground --------------------------
(***************************************************************************)
(* Instances of ImagePlayground for TLC: tabs are model values that        *)
(* nothing tells apart.                                                    *)
(***************************************************************************)
EXTENDS ImagePlayground, TLC

Symmetry == Permutations(Tabs)
=============================================================================
