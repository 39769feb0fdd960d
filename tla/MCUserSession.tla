---------------------------- MODULE MCUserSession ----------------------------
(***************************************************************************)
(* Instances of UserSession for TLC: requests and revokers are model       *)
(* values that nothing tells apart.                                        *)
(***************************************************************************)
EXTENDS UserSession, TLC

Symmetry == Permutations(Request)
=============================================================================
