----------------------------- MODULE MCFrontend ------------------------------
(***************************************************************************)
(* Every code of up to four characters out of twelve, and of up to five    *)
(* out of the six in which two names, an operator and parentheses meet     *)
(* across lines.                                                           *)
(***************************************************************************)
EXTENDS Frontend, SequencesExt

CONSTANTS
  Wide, Narrow,   \* how long the codes are
  a, b, ab, bad   \* names of arguments

MCCodes ==
  BoundedSeq({"a", "b", "1", "6", "0", "-", "/", "(", ")", "#", "\n", "$"}, Wide)
    \cup BoundedSeq({"a", "b", "-", "(", ")", "\n"}, Narrow)

MCSpelling == (a :> <<"a">> @@ b :> <<"b">> @@ ab :> <<"a", "b">> @@ bad :> <<"1">>)
MCArgLists == {<<a, b>>, <<b, ab>>, <<bad>>}
=============================================================================
