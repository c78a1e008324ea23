----------------------------- MODULE MCErrorReport ---------------------------
(***************************************************************************)
(* Every way to break up to eight characters into lines, and every range   *)
(* an error in them can have.                                              *)
(***************************************************************************)
EXTENDS ErrorReport

MCCodes == BoundedSeq({"x", Newline}, 8)
=============================================================================
