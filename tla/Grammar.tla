------------------------------- MODULE Grammar -------------------------------
(***************************************************************************)
(* The parser compared with the grammar of its language.                   *)
(***************************************************************************)
EXTENDS Parser, FiniteSets

CONSTANT Environments   \* values for all identifiers

ASSUME GrammarAssumption ==
  Environments # {} /\ Environments \subseteq [Identifiers -> Long]

IsSentence(code) == Meanings(code, CHOOSE env \in Environments : TRUE) # {}

\* The token before the end, and the token before that.
Code == IF read # <<>> /\ token = Eof THEN SubSeq(read, 1, Len(read) - 1) ELSE read
BeforeToken == SubSeq(read, 1, Len(read) - 1)

\* A sequence of tokens begins an EXPR exactly if one of these is one: a
\* number in place of an operand that is still due, and all parentheses closed.
Count(code, type) == Cardinality({i \in DOMAIN code : code[i].type = type})
Completions(code) ==
  LET closing == [i \in 1..(Count(code, "(") - Count(code, ")")) |-> Token(")")]
  IN  {code \o closing, Append(code, [type |-> "INT", value |-> 1]) \o closing}
BeginsASentence(code) == \E c \in Completions(code) : IsSentence(c)

-----------------------------------------------------------------------------
\* The AST computes what the code means, and means only one thing: precedence,
\* associativity, signs and parentheses come out of the descent as the grammar
\* has them.
MeansTheCode ==
  state = "DONE" =>
    \A env \in Environments :
      {AstEval(nodes, [i \in DOMAIN args |-> env[args[i]]])} = Meanings(Code, env)

\* An error about the syntax is reported at the first token with which the
\* code cannot be a sentence any more.
SyntaxErrorsAtFirstBadToken ==
  error.code \in {"ILLEGAL_TOKEN", "EXPECTED_CLOSE_PAREN"} =>
    /\ BeginsASentence(BeforeToken)
    /\ IF token = Eof THEN ~IsSentence(BeforeToken) ELSE ~BeginsASentence(read)

\* The range in error_info is the code that is wrong: an open parenthesis with
\* a whole expression behind it, a divisor that is 0 (up to parentheses that
\* close behind it) whatever the arguments, a name that is no argument.
Reported == SubSeq(read, error.from, error.to)

ErrorsAreLocated ==
  /\ error.code = "EXPECTED_CLOSE_PAREN" =>
       /\ read[error.from] = Token("(")
       /\ error.to = Len(read)
       /\ IsSentence(SubSeq(read, error.from + 1, error.to - 1))
  /\ error.code = "DIV_BY_ZERO" =>
       /\ read[error.from - 1] = Token("DIV")
       /\ \E code \in Completions(Reported) :
            \A env \in Environments : Meanings(code, env) = {0}
  /\ error.code = "UNDEFINED_VARIABLE" =>
       Reported = <<token>> /\ \A i \in DOMAIN args : args[i] # token.value

\* "value out of range" (parser.c:657) is said of numbers that are no long.
\* ERROR_VALUE_OUT_OF_RANGE of a token that was read whole is parse_signed's.
RefusedIsOutOfRange ==
  (error.code = "VALUE_OUT_OF_RANGE" /\ error.to <= Len(read)) =>
    \A i \in error.from..error.to : read[i].type = "INT" => -read[i].value \notin Long
=============================================================================
