-------------------------------- MODULE Parser -------------------------------
(***************************************************************************)
(* parser.c: the recursive descent parser, from parse_slice down to        *)
(* parse_paren, over the tokens that parse_token delivers.                 *)
(*                                                                         *)
(* `frames' is the C call stack and `result' the node that the function    *)
(* that returned last has left in its caller's `node', `right' or `child'. *)
(* A step runs from one use of a token, or from one return, to the next.   *)
(* When a call returns false all its callers return false at once: the     *)
(* stack is left as it was.  The lexer is the environment: it delivers any *)
(* token, or fails.  A source range is a pair of token numbers, counted    *)
(* from 1.                                                                 *)
(***************************************************************************)
EXTENDS Language

CONSTANTS
  Names,        \* the argument names there are
  ArgLists,     \* the lists of them that parse_slice is called with
  Identifiers,  \* the names that is_identifier accepts
  Numbers,      \* the values of integer tokens
  MaxTokens,    \* bound: how many tokens the code can have before its end
  Nothing       \* no node is on its way to a caller

ASSUME ParserAssumption ==
  /\ MaxTokens \in Nat
  /\ Numbers \subseteq 0..LONG_MAX
  /\ ArgLists \subseteq Seq(Names)
  /\ Nothing \notin [node : NodeRecord, from : Nat, to : Nat]

VARIABLES
  args,     \* parser->args
  state,    \* parser->state
  error,    \* parser->error and parser->error_info
  read,     \* the tokens delivered so far; the last one is parser->token
  nodes,    \* parser->ast.nodes
  frames,   \* the calls in progress, innermost last
  result    \* the node on its way to the caller

vars == <<args, state, error, read, nodes, frames, result>>

ArgCount == Len(args)

\* enum NodeType and enum TokenType share the four operators.
Tokens ==
  {Token(type) : type \in BinaryTypes \cup {"(", ")"}}
    \cup {[type |-> "INT", value |-> number] : number \in Numbers}
    \cup {[type |-> "IDENT", value |-> name] : name \in Identifiers}

\* parser->token
token == read[Len(read)]

Result(node, from, to) == [node |-> node, from |-> from, to |-> to]

\* A call in progress: where it is, and its local variables left_index,
\* token_type and inverse, and the range of a token that it has kept.
Call(at) ==
  [at |-> at, left |-> 0, op |-> "ADD", inverse |-> FALSE, from |-> 0, to |-> 0]

\* A call begins with the calls down to parse_signed.  That one keeps the
\* start of its first token, which is still to be read: its callers have
\* consumed theirs.
CallSigned  == <<[Call("signed") EXCEPT !.from = Len(read) + 1]>>
CallProduct == <<Call("product")>> \o CallSigned
CallSum     == <<Call("sum")>> \o CallProduct

Init ==
  /\ args \in ArgLists
  /\ state = "PENDING"
  /\ error = [code |-> "NONE", from |-> 0, to |-> 0]
  /\ read = <<>> /\ nodes = <<>>
  /\ frames = <<Call("arguments")>>
  /\ result = Nothing

-----------------------------------------------------------------------------
Top == frames[Len(frames)]
Callers == SubSeq(frames, 1, Len(frames) - 1)

\* The innermost call has got as far as `at', and has not had a node passed
\* up to it, or has.
Stopped == state \in {"DONE", "ERROR"}
Running(at)  == ~Stopped /\ Top.at = at /\ result = Nothing
Returned(at) == ~Stopped /\ Top.at = at /\ result # Nothing

\* parser_consume_token
Consume == state' = "PENDING"

\* The error exits.
Fail(code, from, to) ==
  /\ state' = "ERROR"
  /\ error' = [code |-> code, from |-> from, to |-> to]
  /\ UNCHANGED <<args, read, nodes, frames, result>>

-----------------------------------------------------------------------------
(***************************************************************************)
(* parse_slice: the argument names                                         *)
(***************************************************************************)
Duplicates(i) == \E j \in 1..(i - 1) : args[j] = args[i]
IsBadArg(i) == args[i] \notin Identifiers \/ Duplicates(i)

\* The first bad name is reported.
BadArg ==
  /\ Running("arguments")
  /\ \E i \in DOMAIN args :
       /\ IsBadArg(i)
       /\ \A j \in 1..(i - 1) : ~IsBadArg(j)
       /\ Fail(IF args[i] \in Identifiers THEN "DUPLICATED_ARG_NAME" ELSE "ILLEGAL_ARG_NAME",
               i, i)

StartParsing ==
  /\ Running("arguments")
  /\ \A i \in DOMAIN args : ~IsBadArg(i)
  /\ frames' = <<Call("expr")>> \o CallSum
  /\ UNCHANGED <<args, state, error, read, nodes, result>>

-----------------------------------------------------------------------------
(***************************************************************************)
(* parser_peek_token.  The end of parse_slice, the loops of parse_add_sub, *)
(* parse_mul_div and parse_signed, and parse_atom look at the next token   *)
(* through it; parse_paren looks at parser->token as it is.                *)
(***************************************************************************)
Peeks ==
  \/ Running("signed") \/ Running("end")
  \/ Returned("sum") \/ Returned("product")

Peek ==
  /\ Peeks
  /\ state = "PENDING"
  /\ \E next \in Tokens \cup {Eof} :
       /\ Len(read) = MaxTokens => next = Eof
       /\ read' = Append(read, next)
  /\ state' = "READY"
  /\ UNCHANGED <<args, error, nodes, frames, result>>

\* parse_token finds an illegal character or too large a number, or has no
\* memory for a name.
PeekFails ==
  /\ Peeks
  /\ state = "PENDING"
  /\ Len(read) < MaxTokens
  /\ \E code \in {"ILLEGAL_CHARACTER", "VALUE_OUT_OF_RANGE", "OUT_OF_MEMORY"} :
       Fail(code, Len(read) + 1, Len(read) + 1)

\* The token in hand is one of the types.
Sees(types) == state = "READY" /\ token.type \in types

-----------------------------------------------------------------------------
(***************************************************************************)
(* parse_signed and parse_atom                                             *)
(***************************************************************************)
\* (mutation) A second minus does not undo the first.
SignSticks ==
  /\ Running("signed") /\ Sees({"ADD", "SUB"})
  /\ frames' = Callers \o <<[Top EXCEPT !.inverse = @ \/ token.type = "SUB"]>>
  /\ Consume
  /\ UNCHANGED <<args, error, read, nodes, result>>

\* (mutation) The sign is looked at again and again.
SignStays ==
  /\ Running("signed") /\ Sees({"ADD", "SUB"})
  /\ frames' = Callers \o <<[Top EXCEPT !.inverse = (@ # (token.type = "SUB"))]>>
  /\ UNCHANGED <<args, state, error, read, nodes, result>>

Sign ==
  /\ Running("signed") /\ Sees({"ADD", "SUB"})
  /\ frames' = Callers \o <<[Top EXCEPT !.inverse = (@ # (token.type = "SUB"))]>>
  /\ Consume
  /\ UNCHANGED <<args, error, read, nodes, result>>

\* parse_atom returns the node.
ReturnAtom(node) ==
  /\ result' = Result(node, Len(read), Len(read))
  /\ Consume
  /\ UNCHANGED <<args, error, read, nodes, frames>>

AtomInt ==
  /\ Running("signed") /\ Sees({"INT"})
  /\ ReturnAtom(IntNode(token.value))

AtomVar ==
  /\ Running("signed") /\ Sees({"IDENT"})
  /\ \E arg \in DOMAIN args :
       /\ args[arg] = token.value
       /\ \A other \in 1..(arg - 1) : args[other] # token.value
       /\ ReturnAtom(VarNode(arg))

\* (mutation) The result of the search is not checked.
UndefinedVariableUnchecked ==
  /\ Running("signed") /\ Sees({"IDENT"})
  /\ \A arg \in DOMAIN args : args[arg] # token.value
  /\ ReturnAtom(VarNode(ArgCount + 1))

UndefinedVariable ==
  /\ Running("signed") /\ Sees({"IDENT"})
  /\ \A arg \in DOMAIN args : args[arg] # token.value
  /\ Fail("UNDEFINED_VARIABLE", Len(read), Len(read))

OpenParen ==
  /\ Running("signed") /\ Sees({"("})
  /\ frames' = frames \o <<[Call("paren") EXCEPT !.from = Len(read)]>> \o CallSum
  /\ Consume
  /\ UNCHANGED <<args, error, read, nodes, result>>

IllegalAtom ==
  /\ Running("signed") /\ Sees({"MUL", "DIV", ")", "EOF"})
  /\ Fail("ILLEGAL_TOKEN", Len(read), Len(read))

\* parse_atom has returned to parse_signed.
ReturnSigned(node) ==
  /\ result' = Result(node, Top.from, result.to)
  /\ frames' = Callers
  /\ UNCHANGED <<args, state, error, read>>

Positive ==
  /\ Returned("signed") /\ ~Top.inverse
  /\ ReturnSigned(result.node)
  /\ UNCHANGED nodes

NegativeInt ==
  /\ Returned("signed") /\ Top.inverse
  /\ result.node.type = "INT" /\ result.node.num # LONG_MAX
  /\ ReturnSigned(IntNode(-result.node.num))
  /\ UNCHANGED nodes

\* -LONG_MAX is refused, although it is a long.
NegativeIntRefused ==
  /\ Returned("signed") /\ Top.inverse
  /\ result.node.type = "INT" /\ result.node.num = LONG_MAX
  /\ Fail("VALUE_OUT_OF_RANGE", Top.from, result.to)

\* (mutation) The index is taken before the node is appended.
NegationOfLast ==
  /\ Returned("signed") /\ Top.inverse
  /\ result.node.type # "INT"
  /\ nodes' = Append(nodes, result.node)
  /\ ReturnSigned(InvNode(Len(nodes)))

Negation ==
  /\ Returned("signed") /\ Top.inverse
  /\ result.node.type # "INT"
  /\ nodes' = Append(nodes, result.node)
  /\ ReturnSigned(InvNode(Len(nodes) + 1))

-----------------------------------------------------------------------------
(***************************************************************************)
(* parse_add_sub and parse_mul_div, which differ in the operators, in the  *)
(* function they call for the operands, and in the check of the divisor    *)
(***************************************************************************)
RightOf(level) == IF level = "sum" THEN "sum right" ELSE "product right"
CallSignedOnly(level) == CallSigned   \* (mutation)
CallOperand(level) == IF level = "sum" THEN CallProduct ELSE CallSigned

\* The left operand is stored and the right one parsed.
Operator(level) ==
  /\ Returned(level) /\ Sees(Operators[level])
  /\ nodes' = Append(nodes, result.node)
  /\ result' = Nothing
  /\ frames' = Callers
       \o <<[Call(RightOf(level)) EXCEPT !.left = Len(nodes) + 1, !.op = token.type,
                                         !.from = Len(read), !.to = Len(read)]>>
       \o CallOperand(level)
  /\ Consume
  /\ UNCHANGED <<args, error, read>>

\* (mutation) The token that ends the loop is consumed.
NoOperatorConsumes(level) ==
  /\ Returned(level)
  /\ state = "READY" /\ token.type \notin Operators[level]
  /\ frames' = Callers
  /\ Consume
  /\ UNCHANGED <<args, error, read, nodes, result>>

\* No operator follows: the node is the caller's.
NoOperator(level) ==
  /\ Returned(level)
  /\ state = "READY" /\ token.type \notin Operators[level]
  /\ frames' = Callers
  /\ UNCHANGED <<args, state, error, read, nodes, result>>

NeverDividesByZero == FALSE   \* (mutation)
DividesByZero == Top.op = "DIV" /\ result.node.type = "INT" /\ result.node.num = 0

\* The right operand is stored and its operator becomes the node.
RightOperand(level) ==
  /\ Returned(RightOf(level))
  /\ ~DividesByZero
  /\ nodes' = Append(nodes, result.node)
  /\ result' = Result(BinaryNode(Top.op, Top.left, Len(nodes) + 1), Top.from, Top.to)
  /\ frames' = Callers \o <<Call(level)>>
  /\ UNCHANGED <<args, state, error, read>>

DivisionByZero ==
  /\ Returned("product right")
  /\ DividesByZero
  /\ Fail("DIV_BY_ZERO", result.from, result.to)

-----------------------------------------------------------------------------
(***************************************************************************)
(* The rest of parse_paren, parse_expr and parse_slice                     *)
(***************************************************************************)

\* The type of the token that parse_paren finds in parser->token.
CloseParen ==
  /\ Returned("paren") /\ token.type = ")"
  /\ frames' = Callers
  /\ Consume
  /\ UNCHANGED <<args, error, read, nodes, result>>

\* (mutation) The range starts at the token that is not a parenthesis.
ExpectedCloseParenHere ==
  /\ Returned("paren") /\ token.type # ")"
  /\ Fail("EXPECTED_CLOSE_PAREN", Len(read), Len(read))

ExpectedCloseParen ==
  /\ Returned("paren") /\ token.type # ")"
  /\ Fail("EXPECTED_CLOSE_PAREN", Top.from, Len(read))

AppendRoot ==
  /\ Returned("expr")
  /\ nodes' = Append(nodes, result.node)
  /\ result' = Nothing
  /\ frames' = <<Call("end")>>
  /\ UNCHANGED <<args, state, error, read>>

Finish ==
  /\ Running("end") /\ Sees({"EOF"})
  /\ state' = "DONE"
  /\ frames' = <<>>
  /\ UNCHANGED <<args, error, read, nodes, result>>

TrailingToken ==
  /\ Running("end") /\ state = "READY" /\ token.type # "EOF"
  /\ Fail("ILLEGAL_TOKEN", Len(read), Len(read))

\* parser_append_node gets no memory from ast_append_node, wherever it is
\* called.
Appends ==
  \/ Returned("signed") /\ Top.inverse /\ result.node.type # "INT"
  \/ \E level \in DOMAIN Operators :
       \/ Returned(level) /\ Sees(Operators[level])
       \/ Returned(RightOf(level)) /\ ~DividesByZero
  \/ Returned("expr")

AppendFails ==
  /\ Appends
  /\ Fail("OUT_OF_MEMORY", result.from, result.to)

-----------------------------------------------------------------------------
Terminated == Stopped /\ UNCHANGED vars

\* What the parser does itself, with the token it has.
Descend ==
  \/ BadArg \/ StartParsing
  \/ Sign \/ AtomInt \/ AtomVar \/ UndefinedVariable \/ OpenParen \/ IllegalAtom
  \/ Positive \/ NegativeInt \/ NegativeIntRefused \/ Negation
  \/ \E level \in DOMAIN Operators :
       Operator(level) \/ NoOperator(level) \/ RightOperand(level)
  \/ DivisionByZero
  \/ CloseParen \/ ExpectedCloseParen
  \/ AppendRoot \/ Finish \/ TrailingToken
  \/ AppendFails

Next == Peek \/ PeekFails \/ Descend \/ Terminated

Spec == Init /\ [][Next]_vars

\* The program is a single thread that runs until it is finished.
FairSpec == Spec /\ WF_vars(Next)

-----------------------------------------------------------------------------
(***************************************************************************)
(* Properties                                                              *)
(***************************************************************************)
Calls == {"arguments", "expr", "sum", "sum right", "product", "product right",
          "signed", "paren", "end"}

Frame ==
  [at : Calls, left : Nat, op : BinaryTypes, inverse : BOOLEAN, from : Nat, to : Nat]

TypeOK ==
  /\ args \in Seq(Names)
  /\ state \in {"PENDING", "READY", "DONE", "ERROR"}
  /\ read \in Seq(Tokens \cup {Eof})
  /\ nodes \in Seq(NodeRecord) /\ IsAst(nodes, ArgCount)
  /\ frames \in Seq(Frame)
  /\ result # Nothing =>
       /\ result \in [node : NodeRecord, from : Nat, to : Nat]
       /\ IsNode(result.node, Len(nodes), ArgCount)

\* parser_consume_token() is never called without a token (its assertion,
\* parser.c:318), and parse_paren, which does not peek, finds the token that
\* ended the expression in its parentheses.
TokenInHand == Returned("paren") => state = "READY"

\* What parse_slice returns is a tree, its root the last node, and in the form
\* that optimize() and bytecode_compile() are given: constants carry their own
\* sign, and nothing is divided by the constant 0.
ParsesToATree ==
  state = "DONE" =>
    /\ ParsedShape(nodes)
    /\ \A i \in DOMAIN nodes :
         /\ nodes[i].type = "INV" => nodes[nodes[i].left].type # "INT"
         /\ nodes[i].type = "DIV" =>
              ~(nodes[nodes[i].right].type = "INT" /\ nodes[nodes[i].right].num = 0)

\* The left operands whose operator waits for its right one.
AwaitsRight(f) == f.at \in {"sum right", "product right"}
OpenLefts(fs) == {fs[k].left : k \in {i \in DOMAIN fs : AwaitsRight(fs[i])}}

\* The nodes that are nobody's child yet: those, and the children of the node
\* on its way.
PendingRoots ==
  OpenLefts(frames)
    \cup (IF result # Nothing THEN Children(result.node)
          ELSE IF frames = <<>> \/ Top.at = "end" THEN {Root(nodes)} ELSE {})

\* Every node is appended after its children, which no other node has: the
\* parser builds a forest.
AsForest == INSTANCE Forest WITH argCount <- ArgCount, roots <- PendingRoots
BuildsAForest == AsForest!Spec

\* Every parse comes to an end, on every code.
Terminates == <>Stopped
=============================================================================
