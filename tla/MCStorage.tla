----------------------------- MODULE MCStorage ------------------------------
(***************************************************************************)
(* A size_t of five bits.  Both arrays grow until a guard stops them: the  *)
(* buffer at 28 bytes, which an append of 4 would carry beyond SIZE_MAX,   *)
(* the nodes at 8 of 3 bytes, of which twice as many would need 48 bytes.  *)
(***************************************************************************)
EXTENDS Storage
=============================================================================
