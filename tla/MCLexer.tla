------------------------------- MODULE MCLexer -------------------------------
(***************************************************************************)
(* Every code of up to five characters out of eight, one or two for each   *)
(* thing that parse_token does with a character; every number of up to     *)
(* four digits around the ends of a long; the operators side by side; a    *)
(* name of up to six characters when a block of twice the first is there.  *)
(***************************************************************************)
EXTENDS Lexer, SequencesExt

MCCodes ==
  BoundedSeq({"a", "b", "1", "-", "#", " ", Newline, "$"}, 5)
    \cup BoundedSeq({"0", "1", "2", "7", "8", "9"}, 4)
    \cup {<<"a">> \o digits : digits \in BoundedSeq(Digits, 2)}
    \cup BoundedSeq(Punctuation, 2)
    \cup {<<"a", "b", "-">> \o name : name \in BoundedSeq({"a", "b"}, 6)}
=============================================================================
