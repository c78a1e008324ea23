------------------------------ MODULE MCDriver -------------------------------
(***************************************************************************)
(* Every code of up to MaxTokens tokens over two arguments, with values at *)
(* both ends of long, in between, and out of its range.                    *)
(***************************************************************************)
EXTENDS Driver, TLC

CONSTANTS x, y

MCArgNames == <<y, x>>
MCEnvNumbers == {-9, 0, 3}
=============================================================================
