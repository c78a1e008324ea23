------------------------------ MODULE Language ------------------------------
(***************************************************************************)
(* The language of the program: what a sequence of tokens means by the     *)
(* grammar that parser.h:14-24 and README.md give, which is ambiguous in   *)
(* nothing and says nothing of a call stack.                               *)
(***************************************************************************)
EXTENDS Ast

Operators == [sum |-> {"ADD", "SUB"}, product |-> {"MUL", "DIV"}]
Token(type) == [type |-> type, value |-> 0]
Eof == Token("EOF")

\* The rules of the grammar, and what the chains of operands consist of.
Parts == {"sum", "product", "signed", "atom"}
Operand == [sum |-> "product", product |-> "signed"]

\* What comes of the operands' values, one of each.
Combinations(op, as, bs) == UNION {{StrictBinary(op, a, b) : b \in bs} : a \in as}
Negated(as) == {StrictNegate(a) : a \in as}

\* The same for the last operator of a chain of operands, whichever it is.
Chained(part, i, j, code, value) ==
  UNION {Combinations(code[k].type, value[<<part, i, k - 1>>], value[<<Operand[part], k + 1, j>>]) :
         k \in {l \in i..j : code[l].type \in Operators[part]}}

(***************************************************************************)
(* What the tokens from i to j can mean as such a part, for the values env *)
(* of the identifiers: the set of the values they come to under the        *)
(* derivations of the grammar, empty if there is none.  `value' has those  *)
(* of the other parts.                                                     *)
(***************************************************************************)
MeaningsOf(part, i, j, code, env, value) ==
  LET is(k, types) == code[k].type \in types IN
  CASE i > j -> {}
    [] i <= j /\ part = "atom" ->
         IF i = j
         THEN CASE is(i, {"INT"})   -> {code[i].value}
                [] is(i, {"IDENT"}) -> {env[code[i].value]}
                [] OTHER            -> {}
         ELSE IF is(i, {"("}) /\ is(j, {")"}) THEN value[<<"sum", i + 1, j - 1>>] ELSE {}
    [] i <= j /\ part = "signed" ->
         CASE is(i, {"ADD"}) -> value[<<"signed", i + 1, j>>]
           [] is(i, {"SUB"}) -> Negated(value[<<"signed", i + 1, j>>])
           [] OTHER          -> value[<<"atom", i, j>>]
    [] i <= j /\ part \in {"sum", "product"} ->
         value[<<Operand[part], i, j>>] \cup Chained(part, i, j, code, value)

Spans(code) == Parts \X (1..(Len(code) + 1)) \X (0..Len(code))

Denotations(code, env) ==
  LET value[s \in Spans(code)] == MeaningsOf(s[1], s[2], s[3], code, env, value)
  IN  value

\* What the sequence `code' can mean as an EXPR.
Meanings(code, env) == Denotations(code, env)[<<"sum", 1, Len(code)>>]
=============================================================================
