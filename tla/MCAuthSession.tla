---------------------------- MODULE MCAuthSession ----------------------------
(***************************************************************************)
(* An instance of AuthSession for TLC.                                     *)
(***************************************************************************)
EXTENDS AuthSession

\* Sessions are interchangeable, so it does not matter which of them an
\* earlier visit has left.
Earlier == CHOOSE s \in Sids : TRUE

MCInit == Init /\ jar \in {None, [sid |-> Earlier, gen |-> 0]}

MCSpec == MCInit /\ [][Next]_vars /\ Fairness
=============================================================================
