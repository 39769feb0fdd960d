---------------------------- MODULE MCSystemTask ----------------------------
(***************************************************************************)
(* Instances of SystemTask for TLC: the runners are model values that      *)
(* nothing tells apart.                                                    *)
(***************************************************************************)
EXTENDS SystemTask, TLC

RunnerSymmetry == Permutations(Runner)
=============================================================================
