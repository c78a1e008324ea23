------------------------------ MODULE MCParser ------------------------------
(***************************************************************************)
(* Every sequence of up to MaxTokens tokens over the operators, the        *)
(* parentheses, the numbers 0 and LONG_MAX and two names, with argument    *)
(* lists that define one of the names or both, repeat one or hold one that *)
(* is no identifier.                                                       *)
(***************************************************************************)
EXTENDS Grammar, TLC

CONSTANTS x, y, bad

MCArgLists == {<<x>>, <<bad, x>>, <<x, x>>}
MCEnvironments == {(x :> 2 @@ y :> 1), (x :> -3 @@ y :> 0)}
=============================================================================
