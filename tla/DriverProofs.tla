----------------------------- MODULE DriverProofs -----------------------------
(***************************************************************************)
(* What is proved of the parser, the optimizer and the machine holds of    *)
(* them in main(), and makes main() do what it is for.                     *)
(*                                                                         *)
(* The components are instantiated a second time, with the proofs about    *)
(* them.  The invariant says for each phase of main() which component is   *)
(* within its own invariant and which ones have not begun; where main()    *)
(* goes on to the next one, the state that the last one left is one that   *)
(* the next can start in.                                                  *)
(*                                                                         *)
(* At the end are the theorems about the arrays that all of them append to *)
(* (Storage), which have a specification of their own.                     *)
(***************************************************************************)
EXTENDS Driver, Storage, AstProofs

ArgLongs == [1..ArgCount -> Long]

\* The ASTs that optimize() and bytecode_compile() are made for.
ParsedAsts   == {ast \in Seq(NodeRecord) : IsAst(ast, ArgCount) /\ ParsedShape(ast)}
CompiledAsts == {ast \in Seq(NodeRecord) \ {<<>>} : IsAst(ast, ArgCount) /\ Acyclic(ast)}

Par == INSTANCE ParserProofs WITH
  args <- names, frames <- calls, result <- node,
  ArgLists <- {ArgNames}, Environments <- {[name \in Identifiers |-> 0]}

Opt == INSTANCE OptimizerProofs WITH
  stack <- rewriting, Inputs <- ParsedAsts, ArgValues <- ArgLongs

Mac == INSTANCE BytecodeProofs WITH
  ast <- nodes, phase <- machine, frames <- compiling, stack <- cells, result <- answer,
  Inputs <- CompiledAsts, ArgValues <- ArgLongs

-----------------------------------------------------------------------------
(***************************************************************************)
(* The components have the same nodes                                      *)
(***************************************************************************)
LEMMA SameNodes ==
  /\ Par!NodeRecord = NodeRecord
  /\ Opt!NodeRecord = NodeRecord
  /\ Mac!NodeRecord = NodeRecord
BY DEF NodeRecord, NodeTypes, BinaryTypes, AddSub, MulDiv,
       Par!NodeRecord, Par!NodeTypes, Par!BinaryTypes, Par!AddSub, Par!MulDiv,
       Opt!NodeRecord, Opt!NodeTypes, Opt!BinaryTypes, Opt!AddSub, Opt!MulDiv,
       Mac!NodeRecord, Mac!NodeTypes, Mac!BinaryTypes, Mac!AddSub, Mac!MulDiv

LEMMA SameLongs == Par!Long = Long /\ Opt!Long = Long /\ Mac!Long = Long
BY DEF Long, LONG_MIN, Par!Long, Par!LONG_MIN, Opt!Long, Opt!LONG_MIN, Mac!Long, Mac!LONG_MIN

LEMMA SameIsAst ==
  ASSUME NEW ast, NEW argc
  PROVE  /\ Par!IsAst(ast, argc) <=> IsAst(ast, argc)
         /\ Opt!IsAst(ast, argc) <=> IsAst(ast, argc)
         /\ Mac!IsAst(ast, argc) <=> IsAst(ast, argc)
BY SameLongs
   DEF IsAst, IsNode, BinaryNode, InvNode, IntNode, VarNode, BinaryTypes, AddSub, MulDiv,
       Par!IsAst, Par!IsNode, Par!BinaryNode, Par!InvNode, Par!IntNode, Par!VarNode,
       Par!BinaryTypes, Par!AddSub, Par!MulDiv,
       Opt!IsAst, Opt!IsNode, Opt!BinaryNode, Opt!InvNode, Opt!IntNode, Opt!VarNode,
       Opt!BinaryTypes, Opt!AddSub, Opt!MulDiv,
       Mac!IsAst, Mac!IsNode, Mac!BinaryNode, Mac!InvNode, Mac!IntNode, Mac!VarNode,
       Mac!BinaryTypes, Mac!AddSub, Mac!MulDiv

LEMMA SameChildren ==
  ASSUME NEW nd
  PROVE  /\ Par!Children(nd) = Children(nd)
         /\ Opt!Children(nd) = Children(nd)
         /\ Mac!Children(nd) = Children(nd)
BY DEF Children, BinaryTypes, AddSub, MulDiv,
       Par!Children, Par!BinaryTypes, Par!AddSub, Par!MulDiv,
       Opt!Children, Opt!BinaryTypes, Opt!AddSub, Opt!MulDiv,
       Mac!Children, Mac!BinaryTypes, Mac!AddSub, Mac!MulDiv

LEMMA SameShape ==
  ASSUME NEW ast
  PROVE  /\ Par!ParsedShape(ast) <=> ParsedShape(ast)
         /\ Opt!ParsedShape(ast) <=> ParsedShape(ast)
         /\ Opt!Acyclic(ast) <=> Acyclic(ast)
         /\ Mac!Acyclic(ast) <=> Acyclic(ast)
BY SameChildren
   DEF ParsedShape, ChildBeforeParent, OneParent, Acyclic, BinaryTypes, AddSub, MulDiv,
       Par!ParsedShape, Par!ChildBeforeParent, Par!OneParent, Par!BinaryTypes, Par!AddSub,
       Par!MulDiv, Opt!ParsedShape, Opt!ChildBeforeParent, Opt!OneParent, Opt!Acyclic,
       Opt!BinaryTypes, Opt!AddSub, Opt!MulDiv, Mac!Acyclic

LEMMA SameAstEval ==
  ASSUME NEW ast, NEW ar
  PROVE  /\ Opt!AstEval(ast, ar) = AstEval(ast, ar)
         /\ Mac!AstEval(ast, ar) = AstEval(ast, ar)
<1>1. Opt!NodeEval(ast, ar) = NodeEval(ast, ar)
  BY DEF NodeEval, StrictNegate, StrictBinary, Negate, Binary, Wrap, Divide, Quotient, Abs,
         LONG_MIN, BinaryTypes, AddSub, MulDiv,
         Opt!NodeEval, Opt!StrictNegate, Opt!StrictBinary, Opt!Negate, Opt!Binary, Opt!Wrap,
         Opt!Divide, Opt!Quotient, Opt!Abs, Opt!LONG_MIN, Opt!BinaryTypes, Opt!AddSub, Opt!MulDiv
<1>2. Mac!NodeEval(ast, ar) = NodeEval(ast, ar)
  BY DEF NodeEval, StrictNegate, StrictBinary, Negate, Binary, Wrap, Divide, Quotient, Abs,
         LONG_MIN, BinaryTypes, AddSub, MulDiv,
         Mac!NodeEval, Mac!StrictNegate, Mac!StrictBinary, Mac!Negate, Mac!Binary, Mac!Wrap,
         Mac!Divide, Mac!Quotient, Mac!Abs, Mac!LONG_MIN, Mac!BinaryTypes, Mac!AddSub, Mac!MulDiv
<1>. QED
  BY <1>1, <1>2 DEF AstEval, Root, Opt!AstEval, Opt!Root, Mac!AstEval, Mac!Root

LEMMA ArgCountIs == ArgCount \in Nat
BY DriverAssumption DEF ArgCount

LEMMA ParserIsFit == Par!ParserAssumption /\ Par!GrammarAssumption
<1>1. 0 \in Long
  BY LongIs
<1>. QED
  BY <1>1, SameNodes, SameLongs, DriverAssumption DEF Par!ParserAssumption, Par!GrammarAssumption

LEMMA OptimizerIsFit == Opt!InputsAssumption
BY ArgCountIs, SameNodes, SameLongs, SameIsAst, SameShape
   DEF Opt!InputsAssumption, ArgLongs, ParsedAsts

LEMMA MachineIsFit == Mac!InputsAssumption
BY ArgCountIs, SameNodes, SameLongs, SameIsAst, SameShape
   DEF Mac!InputsAssumption, ArgLongs, CompiledAsts

\* ast_eval of an AST comes to a long or does not return.
LEMMA EvalIs ==
  ASSUME NEW ast \in CompiledAsts, NEW ar \in ArgLongs
  PROVE  AstEval(ast, ar) \in Long \cup {TRAP}
<1>1. NodeEval(ast, ar) \in [DOMAIN ast -> Value]
  BY ArgCountIs, NodeEvalIs DEF CompiledAsts, ArgLongs
<1>2. Root(ast) \in DOMAIN ast
  BY DEF CompiledAsts, Root
<1>. QED
  BY <1>1, <1>2 DEF AstEval, Value

LEMMA ParsedIsCompiled == ParsedAsts \subseteq CompiledAsts
BY ParsedIsAcyclic DEF ParsedAsts, CompiledAsts, ParsedShape

-----------------------------------------------------------------------------
(***************************************************************************)
(* The components take the same steps                                      *)
(***************************************************************************)
LEMMA SameDescend == TheParser!Descend => Par!Descend
<1> USE DEF TheParser!Running, Par!Running, TheParser!Returned, Par!Returned, TheParser!Sees,
            Par!Sees, TheParser!Stopped, Par!Stopped, TheParser!Top, Par!Top, TheParser!Callers,
            Par!Callers, TheParser!Consume, Par!Consume, TheParser!Fail, Par!Fail, TheParser!token,
            Par!token, TheParser!Result, Par!Result, TheParser!Call, Par!Call, TheParser!CallSigned,
            Par!CallSigned, TheParser!CallProduct, Par!CallProduct, TheParser!CallSum, Par!CallSum
<1>1. /\ TheParser!BadArg => Par!BadArg
      /\ TheParser!StartParsing => Par!StartParsing
  BY DEF TheParser!BadArg, Par!BadArg, TheParser!StartParsing, Par!StartParsing, TheParser!IsBadArg,
         Par!IsBadArg, TheParser!Duplicates, Par!Duplicates
<1>2. /\ TheParser!Sign => Par!Sign
      /\ TheParser!AtomInt => Par!AtomInt
      /\ TheParser!AtomVar => Par!AtomVar
  BY DEF TheParser!Sign, Par!Sign, TheParser!AtomInt, Par!AtomInt, TheParser!AtomVar, Par!AtomVar,
         TheParser!ReturnAtom, Par!ReturnAtom, TheParser!IntNode, Par!IntNode, TheParser!VarNode,
         Par!VarNode
<1>3. /\ TheParser!UndefinedVariable => Par!UndefinedVariable
      /\ TheParser!OpenParen => Par!OpenParen
      /\ TheParser!IllegalAtom => Par!IllegalAtom
  BY DEF TheParser!UndefinedVariable, Par!UndefinedVariable, TheParser!OpenParen, Par!OpenParen,
         TheParser!IllegalAtom, Par!IllegalAtom
<1>4. /\ TheParser!Positive => Par!Positive
      /\ TheParser!NegativeInt => Par!NegativeInt
      /\ TheParser!NegativeIntRefused => Par!NegativeIntRefused
      /\ TheParser!Negation => Par!Negation
  BY DEF TheParser!Positive, Par!Positive, TheParser!NegativeInt, Par!NegativeInt,
         TheParser!NegativeIntRefused, Par!NegativeIntRefused, TheParser!Negation, Par!Negation,
         TheParser!ReturnSigned, Par!ReturnSigned, TheParser!IntNode, Par!IntNode,
         TheParser!InvNode, Par!InvNode
<1>5. /\ TheParser!DivisionByZero => Par!DivisionByZero
      /\ TheParser!CloseParen => Par!CloseParen
      /\ TheParser!ExpectedCloseParen => Par!ExpectedCloseParen
  BY DEF TheParser!DivisionByZero, Par!DivisionByZero, TheParser!CloseParen, Par!CloseParen,
         TheParser!ExpectedCloseParen, Par!ExpectedCloseParen, TheParser!DividesByZero,
         Par!DividesByZero
<1>6. /\ TheParser!AppendRoot => Par!AppendRoot
      /\ TheParser!Finish => Par!Finish
      /\ TheParser!TrailingToken => Par!TrailingToken
  BY DEF TheParser!AppendRoot, Par!AppendRoot, TheParser!Finish, Par!Finish,
         TheParser!TrailingToken, Par!TrailingToken
<1>7. TheParser!AppendFails => Par!AppendFails
  BY DEF TheParser!AppendFails, Par!AppendFails, TheParser!Appends, Par!Appends,
         TheParser!DividesByZero, Par!DividesByZero, TheParser!Operators, Par!Operators,
         TheParser!RightOf, Par!RightOf
<1>8. ASSUME NEW level
      PROVE  /\ TheParser!Operator(level) => Par!Operator(level)
             /\ TheParser!NoOperator(level) => Par!NoOperator(level)
             /\ TheParser!RightOperand(level) => Par!RightOperand(level)
  BY DEF TheParser!Operator, Par!Operator, TheParser!NoOperator, Par!NoOperator,
         TheParser!RightOperand, Par!RightOperand, TheParser!Operators, Par!Operators,
         TheParser!RightOf, Par!RightOf, TheParser!CallOperand, Par!CallOperand,
         TheParser!DividesByZero, Par!DividesByZero, TheParser!BinaryNode, Par!BinaryNode
<1>9. DOMAIN TheParser!Operators = DOMAIN Par!Operators
  BY DEF TheParser!Operators, Par!Operators
<1>. QED
  BY <1>1, <1>2, <1>3, <1>4, <1>5, <1>6, <1>7, <1>8, <1>9 DEF TheParser!Descend, Par!Descend

LEMMA SameParser ==
  ASSUME TheParser!Peek \/ TheParser!PeekFails \/ TheParser!Descend
  PROVE  Par!Next
<1>1. TheParser!Peek => Par!Peek
  BY DEF TheParser!Peek, Par!Peek, TheParser!Peeks, Par!Peeks, TheParser!Running, Par!Running,
         TheParser!Returned, Par!Returned, TheParser!Stopped, Par!Stopped, TheParser!Top, Par!Top,
         TheParser!Tokens, Par!Tokens, TheParser!Token, Par!Token, TheParser!Eof, Par!Eof,
         TheParser!BinaryTypes, Par!BinaryTypes, TheParser!AddSub, Par!AddSub, TheParser!MulDiv,
         Par!MulDiv
<1>2. TheParser!PeekFails => Par!PeekFails
  BY DEF TheParser!PeekFails, Par!PeekFails, TheParser!Peeks, Par!Peeks, TheParser!Running,
         Par!Running, TheParser!Returned, Par!Returned, TheParser!Stopped, Par!Stopped,
         TheParser!Top, Par!Top, TheParser!Fail, Par!Fail
<1>. QED
  BY <1>1, <1>2, SameDescend DEF Par!Next

LEMMA SameParserInit == TheParser!Init => Par!Init
BY DEF TheParser!Init, Par!Init, TheParser!Call, Par!Call

LEMMA SameRule ==
  ASSUME NEW n
  PROVE  Opt!Rule(n) = TheOptimizer!Rule(n)
<1> USE DEF TheOptimizer!IsInt, Opt!IsInt, TheOptimizer!IsIntOf, Opt!IsIntOf, TheOptimizer!HasInt,
            Opt!HasInt, TheOptimizer!Left, Opt!Left, TheOptimizer!Right, Opt!Right,
            TheOptimizer!SameVars, Opt!SameVars, TheOptimizer!AddSub, Opt!AddSub,
            TheOptimizer!MulDiv, Opt!MulDiv
<1>1. Opt!SumRule(n) = TheOptimizer!SumRule(n)
  BY DEF TheOptimizer!SumRule, Opt!SumRule
<1>2. Opt!ProductRule(n) = TheOptimizer!ProductRule(n)
  BY DEF TheOptimizer!ProductRule, Opt!ProductRule, TheOptimizer!FoldsProduct, Opt!FoldsProduct
<1>3. Opt!InvRule(n) = TheOptimizer!InvRule(n)
  BY DEF TheOptimizer!InvRule, Opt!InvRule
<1>. QED
  BY <1>1, <1>2, <1>3 DEF TheOptimizer!Rule, Opt!Rule

LEMMA SameOptimize ==
  ASSUME NEW n
  PROVE  /\ TheOptimizer!Walk(n) => Opt!Walk(n)
         /\ TheOptimizer!WalkRight(n) => Opt!WalkRight(n)
         /\ TheOptimizer!Optimize(n) => Opt!Optimize(n)
         /\ TheOptimizer!CollapseDoubleInv(n) <=> Opt!CollapseDoubleInv(n)
<1>0. \A m : Opt!Rule(m) = TheOptimizer!Rule(m)
  BY SameRule
<1> USE <1>0 DEF TheOptimizer!Running, Opt!Running, TheOptimizer!Top, Opt!Top, TheOptimizer!Callers,
            Opt!Callers, TheOptimizer!Frame, Opt!Frame, TheOptimizer!Return, Opt!Return,
            TheOptimizer!Continue, Opt!Continue, TheOptimizer!Redo, Opt!Redo, TheOptimizer!Replace,
            Opt!Replace, TheOptimizer!ReplaceBoth, Opt!ReplaceBoth, TheOptimizer!Left, Opt!Left,
            TheOptimizer!Right, Opt!Right, TheOptimizer!IsInt, Opt!IsInt, TheOptimizer!Takes,
            Opt!Takes, TheOptimizer!AddSub, Opt!AddSub, TheOptimizer!MulDiv, Opt!MulDiv,
            TheOptimizer!BinaryTypes, Opt!BinaryTypes, TheOptimizer!NodeTypes, Opt!NodeTypes,
            TheOptimizer!BinaryNode, Opt!BinaryNode, TheOptimizer!InvNode, Opt!InvNode,
            TheOptimizer!IntNode, Opt!IntNode
<1>1. /\ TheOptimizer!Walk(n) => Opt!Walk(n)
      /\ TheOptimizer!WalkRight(n) => Opt!WalkRight(n)
  BY DEF TheOptimizer!Walk, Opt!Walk, TheOptimizer!WalkRight, Opt!WalkRight
<1>2. TheOptimizer!CollapseDoubleInv(n) <=> Opt!CollapseDoubleInv(n)
  BY DEF TheOptimizer!CollapseDoubleInv, Opt!CollapseDoubleInv
<1> USE DEF TheOptimizer!Binary, Opt!Binary, TheOptimizer!Negate, Opt!Negate, TheOptimizer!Wrap,
            Opt!Wrap, TheOptimizer!Divide, Opt!Divide, TheOptimizer!Quotient, Opt!Quotient,
            TheOptimizer!Abs, Opt!Abs, TheOptimizer!LONG_MIN, Opt!LONG_MIN
<1>3. /\ TheOptimizer!Finish(n) => Opt!Finish(n)
      /\ TheOptimizer!FoldBinary(n) => Opt!FoldBinary(n)
      /\ TheOptimizer!FoldInv(n) => Opt!FoldInv(n)
  BY DEF TheOptimizer!Finish, Opt!Finish, TheOptimizer!FoldBinary, Opt!FoldBinary,
         TheOptimizer!FoldInv, Opt!FoldInv
<1>4. /\ TheOptimizer!TakeLeft(n) => Opt!TakeLeft(n)
      /\ TheOptimizer!ZeroPlus(n) => Opt!ZeroPlus(n)
      /\ TheOptimizer!OneTimes(n) => Opt!OneTimes(n)
  BY DEF TheOptimizer!TakeLeft, Opt!TakeLeft, TheOptimizer!ZeroPlus, Opt!ZeroPlus,
         TheOptimizer!OneTimes, Opt!OneTimes
<1>5. /\ TheOptimizer!ZeroMinus(n) => Opt!ZeroMinus(n)
      /\ TheOptimizer!TakeConstant(n) => Opt!TakeConstant(n)
  BY DEF TheOptimizer!ZeroMinus, Opt!ZeroMinus, TheOptimizer!TakeConstant, Opt!TakeConstant
<1>6. TheOptimizer!MergeLeftSum(n) => Opt!MergeLeftSum(n)
  BY DEF TheOptimizer!MergeLeftSum, Opt!MergeLeftSum, TheOptimizer!SignProduct, Opt!SignProduct
<1>7. TheOptimizer!MergeRightSum(n) => Opt!MergeRightSum(n)
  BY DEF TheOptimizer!MergeRightSum, Opt!MergeRightSum
<1>8. TheOptimizer!RotateSum(n) => Opt!RotateSum(n)
  BY DEF TheOptimizer!RotateSum, Opt!RotateSum, TheOptimizer!Opposite, Opt!Opposite
<1>9. TheOptimizer!LiftSum(n) => Opt!LiftSum(n)
  BY DEF TheOptimizer!LiftSum, Opt!LiftSum
<1>10. TheOptimizer!MergeLeftProduct(n) => Opt!MergeLeftProduct(n)
  BY DEF TheOptimizer!MergeLeftProduct, Opt!MergeLeftProduct
<1>11. TheOptimizer!MergeRightProduct(n) => Opt!MergeRightProduct(n)
  BY DEF TheOptimizer!MergeRightProduct, Opt!MergeRightProduct
<1>12. TheOptimizer!RotateProduct(n) => Opt!RotateProduct(n)
  BY DEF TheOptimizer!RotateProduct, Opt!RotateProduct
<1>13. TheOptimizer!LiftProduct(n) => Opt!LiftProduct(n)
  BY DEF TheOptimizer!LiftProduct, Opt!LiftProduct
<1>. QED
  BY <1>1, <1>2, <1>3, <1>4, <1>5, <1>6, <1>7, <1>8, <1>9, <1>10, <1>11, <1>12, <1>13 DEF TheOptimizer!Optimize, Opt!Optimize

LEMMA SameResult ==
  Opt!ResultIsOptimized <=> TheOptimizer!ResultIsOptimized
<1>1. ASSUME NEW ast, NEW n
      PROVE  Opt!Subtree(ast, n) = TheOptimizer!Subtree(ast, n)
  BY DEF TheOptimizer!Subtree, Opt!Subtree, TheOptimizer!Children, Opt!Children,
         TheOptimizer!BinaryTypes, Opt!BinaryTypes, TheOptimizer!AddSub, Opt!AddSub,
         TheOptimizer!MulDiv, Opt!MulDiv
<1>2. Opt!Live = TheOptimizer!Live
  BY <1>1 DEF TheOptimizer!Live, Opt!Live, TheOptimizer!Root, Opt!Root
<1>. QED
  BY <1>2, SameRule DEF TheOptimizer!ResultIsOptimized, Opt!ResultIsOptimized, TheOptimizer!Done,
                        Opt!Done

LEMMA SameMachine == TheMachine!Next => Mac!Next
<1> USE DEF TheMachine!CODE_ADD, Mac!CODE_ADD, TheMachine!CODE_SUB, Mac!CODE_SUB,
            TheMachine!CODE_MUL, Mac!CODE_MUL, TheMachine!CODE_DIV, Mac!CODE_DIV,
            TheMachine!CODE_INV, Mac!CODE_INV, TheMachine!CODE_VAL, Mac!CODE_VAL,
            TheMachine!CODE_VAR, Mac!CODE_VAR, TheMachine!CODE_RET, Mac!CODE_RET,
            TheMachine!compileVars, Mac!compileVars, TheMachine!runVars, Mac!runVars,
            TheMachine!Top, Mac!Top, TheMachine!Callers, Mac!Callers, TheMachine!Compiling,
            Mac!Compiling, TheMachine!Frame, Mac!Frame
<1>0. /\ \A type : Mac!Opcode(type) = TheMachine!Opcode(type)
      /\ \A op : Mac!TypeOf(op) = TheMachine!TypeOf(op)
  BY DEF TheMachine!Opcode, Mac!Opcode, TheMachine!TypeOf, Mac!TypeOf, TheMachine!NodeTypes,
         Mac!NodeTypes, TheMachine!BinaryTypes, Mac!BinaryTypes, TheMachine!AddSub, Mac!AddSub,
         TheMachine!MulDiv, Mac!MulDiv
<1>1. \A n : Mac!Instruction(n) = TheMachine!Instruction(n)
  BY <1>0 DEF TheMachine!Instruction, Mac!Instruction
<1>2. Mac!Writing <=> TheMachine!Writing
  BY DEF TheMachine!Writing, Mac!Writing
<1>3. /\ TheMachine!WritePlaceholder => Mac!WritePlaceholder
      /\ TheMachine!CompileOperand => Mac!CompileOperand
      /\ TheMachine!CompileRight => Mac!CompileRight
  BY DEF TheMachine!WritePlaceholder, Mac!WritePlaceholder, TheMachine!CompileOperand,
         Mac!CompileOperand, TheMachine!CompileRight, Mac!CompileRight, TheMachine!Root, Mac!Root,
         TheMachine!BinaryTypes, Mac!BinaryTypes, TheMachine!AddSub, Mac!AddSub, TheMachine!MulDiv,
         Mac!MulDiv
<1>4. /\ TheMachine!WriteInstruction => Mac!WriteInstruction
      /\ TheMachine!WriteRet => Mac!WriteRet
  BY <1>1, <1>2 DEF TheMachine!WriteInstruction, Mac!WriteInstruction, TheMachine!WriteRet, Mac!WriteRet,
         TheMachine!Larger, Mac!Larger
<1>5. TheMachine!WriteFails => Mac!WriteFails
  BY <1>1, <1>2 DEF TheMachine!WriteFails, Mac!WriteFails, TheMachine!GiveUp, Mac!GiveUp
<1>6. /\ TheMachine!PrintInstruction => Mac!PrintInstruction
      /\ TheMachine!PrintRet => Mac!PrintRet
  BY DEF TheMachine!PrintInstruction, Mac!PrintInstruction, TheMachine!PrintRet, Mac!PrintRet,
         TheMachine!HasOperand, Mac!HasOperand
<1>7. /\ TheMachine!StartEval => Mac!StartEval
      /\ TheMachine!NoStack => Mac!NoStack
  BY DEF TheMachine!StartEval, Mac!StartEval, TheMachine!NoStack, Mac!NoStack
<1>8. /\ TheMachine!EvalVal => Mac!EvalVal
      /\ TheMachine!EvalVar => Mac!EvalVar
  BY DEF TheMachine!EvalVal, Mac!EvalVal, TheMachine!EvalVar, Mac!EvalVar, TheMachine!At, Mac!At
<1>9. /\ TheMachine!EvalInv => Mac!EvalInv
      /\ TheMachine!EvalRet => Mac!EvalRet
  BY DEF TheMachine!EvalInv, Mac!EvalInv, TheMachine!EvalRet, Mac!EvalRet, TheMachine!At, Mac!At,
         TheMachine!Negate, Mac!Negate, TheMachine!Wrap, Mac!Wrap, TheMachine!LONG_MIN,
         Mac!LONG_MIN
<1>10. Mac!Combined = TheMachine!Combined
  BY <1>0 DEF TheMachine!Combined, Mac!Combined, TheMachine!Binary, Mac!Binary, TheMachine!Wrap,
              Mac!Wrap, TheMachine!Divide, Mac!Divide, TheMachine!Quotient, Mac!Quotient,
              TheMachine!Abs, Mac!Abs, TheMachine!LONG_MIN, Mac!LONG_MIN
<1>11. TheMachine!EvalBinary => Mac!EvalBinary
  BY <1>10 DEF TheMachine!EvalBinary, Mac!EvalBinary, TheMachine!At, Mac!At
<1>12. TheMachine!Terminated => Mac!Terminated
  BY DEF TheMachine!Terminated, Mac!Terminated, TheMachine!Ended, Mac!Ended, TheMachine!vars,
         Mac!vars
<1>. QED
  BY <1>3, <1>4, <1>5, <1>6, <1>7, <1>8, <1>9, <1>10, <1>11, <1>12 DEF TheMachine!Next, Mac!Next

-----------------------------------------------------------------------------
(***************************************************************************)
(* The invariant                                                           *)
(***************************************************************************)
Answers == Long \cup {TRAP, Nothing}
None    == [ast |-> Nothing, opt |-> Nothing, bc |-> Nothing]

MachineAtRest ==
  /\ machine = "start" /\ compiling = <<>> /\ code = <<>> /\ stackSize = 0
  /\ pc = 0 /\ listing = <<>> /\ cells = <<>> /\ answer = 0

\* Neither the optimizer nor the machine has begun, and there is nothing to
\* compare.
Waiting ==
  /\ values = None /\ status = 0
  /\ rewriting = <<>> /\ trapped = FALSE /\ MachineAtRest

\* parse_slice has returned true.
IsRead == state = "DONE" /\ error.code = "NONE"

Parsing ==
  phase \in {"main", "parse"} =>
    /\ Par!Whole /\ Waiting
    /\ args = <<>> /\ held = IF phase = "main" THEN {} ELSE {"parser"}

ReadsArgs ==
  phase = "arguments" =>
    /\ Par!Whole /\ Waiting /\ IsRead
    /\ Len(args) <= ArgCount /\ held = {"parser", "args"}

Optimizes ==
  phase = "optimize" =>
    /\ IsRead /\ MachineAtRest /\ Opt!IInv /\ trapped = FALSE
    /\ Len(args) = ArgCount /\ held = {"parser", "args"} /\ status = 0
    /\ values.ast \in Long /\ values.opt = Nothing /\ values.bc = Nothing
    /\ ~collapsed => AstEval(nodes, args) = values.ast

\* The comparison of the results that there are.
StatusOf(v) == IF v.ast = v.opt /\ v.bc \in {Nothing, v.ast} THEN 0 ELSE 1

RunsCode ==
  phase = "bytecode" =>
    /\ IsRead /\ Opt!IInv /\ rewriting = <<>> /\ Mac!IInv
    /\ machine = "no stack" => answer = LONG_MAX
    /\ Len(args) = ArgCount /\ held = {"parser", "args", "bytecode"}
    /\ values.ast \in Long /\ values.opt \in Long /\ values.bc = Nothing
    /\ status = StatusOf(values)
    /\ AstEval(nodes, args) = values.opt
    /\ ~collapsed => values.opt = values.ast

\* The call has failed before there was anything to compare, or everything has
\* been compared.
Outcome ==
  \/ values = None /\ status = 1
  \/ /\ IsRead /\ Len(args) = ArgCount
     /\ values.ast \in Long /\ values.opt \in Long /\ status = StatusOf(values)
     /\ IF machine = "failed" THEN values.bc = Nothing ELSE values.bc \in Long
     /\ ~collapsed =>
          /\ values.opt = values.ast
          /\ values.bc \in {Nothing, values.opt} \/ (machine = "no stack" /\ values.bc = LONG_MAX)

Ends ==
  /\ phase \in {"cleanup", "exited"} => Outcome
  /\ phase = "cleanup" => held \subseteq {"parser", "args"}
  /\ phase = "exited" /\ held # {} => values = None /\ status = 1 /\ state = "DONE" /\ args = <<>>
  /\ phase = "killed" /\ ~collapsed =>
       values.ast = TRAP /\ values.opt = Nothing /\ values.bc = Nothing

Always ==
  /\ phase \in {"main", "parse", "arguments", "optimize", "bytecode", "cleanup", "exited", "killed"}
  /\ args \in Seq(Long)
  /\ values \in [ast : Answers, opt : Answers, bc : Answers]
  /\ names = ArgNames
  /\ Par!ErrorIsSet

IInv == Always /\ Parsing /\ ReadsArgs /\ Optimizes /\ RunsCode /\ Ends

LEMMA SpecialValues == Nothing \notin Long /\ TRAP \notin Long /\ Nothing # TRAP /\ 0 \in Long /\ LONG_MAX \in Long
BY LongIs, DriverAssumption, LongAssumption DEF Long, LONG_MIN

LEMMA InitIsFine == Init => IInv
<1>1. SUFFICES ASSUME Init
               PROVE  IInv
  OBVIOUS
<1>2. Par!Init /\ names = ArgNames
  BY <1>1, SameParserInit DEF Init, TheParser!Init
<1>3. Par!Whole /\ Par!ErrorIsSet
  BY <1>2, Par!WholeAtFirst, Par!ErrorAtFirst, ParserIsFit, LongAssumption
<1>4. /\ phase = "main" /\ Waiting /\ args = <<>> /\ held = {}
      /\ values \in [ast : Answers, opt : Answers, bc : Answers]
  BY <1>1 DEF Init, Waiting, MachineAtRest, None, Answers
<1>. QED
  BY <1>2, <1>3, <1>4 DEF IInv, Always, Parsing, ReadsArgs, Optimizes, RunsCode, Ends

-----------------------------------------------------------------------------
(***************************************************************************)
(* The steps                                                               *)
(***************************************************************************)
LEMMA ParseOnKeeps == IInv /\ ParseOn => IInv'
<1>1. SUFFICES ASSUME IInv, ParseOn
               PROVE  IInv'
  OBVIOUS
<1>2. phase = "parse" /\ UNCHANGED <<mainVars, optimizerVars, machineVars>>
  BY <1>1 DEF ParseOn
<1>3. Par!Next
  BY <1>1, SameParser DEF ParseOn
<1>4. Par!Whole' /\ names' = names /\ Par!ErrorIsSet'
  BY <1>1, <1>2, <1>3, Par!StaysWhole, Par!StepsAndErrors, ParserIsFit, LongAssumption
     DEF IInv, Always, Parsing
<1>5. Waiting'
  BY <1>1, <1>2 DEF IInv, Parsing, Waiting, MachineAtRest, mainVars, optimizerVars, machineVars
<1>. QED
  BY <1>1, <1>2, <1>4, <1>5
     DEF IInv, Always, Parsing, ReadsArgs, Optimizes, RunsCode, Ends, mainVars

\* What stays as it is while main() itself goes on.
LEMMA OthersStay ==
  ASSUME OthersRest
  PROVE  /\ Par!Whole => Par!Whole'
         /\ Par!ErrorIsSet => Par!ErrorIsSet'
         /\ Opt!IInv => Opt!IInv'
         /\ MachineAtRest => MachineAtRest'
         /\ IsRead' = IsRead /\ names' = names /\ state' = state /\ error' = error
         /\ nodes' = nodes /\ rewriting' = rewriting /\ trapped' = trapped
         /\ machine' = machine /\ answer' = answer
<1> USE DEF OthersRest, parserVars, optimizerVars, machineVars
<1>1. UNCHANGED Par!vars /\ UNCHANGED Opt!vars
  BY DEF Par!vars, Opt!vars
<1>2. Par!Whole => Par!Whole'
  BY <1>1, Par!StaysWhole, ParserIsFit, LongAssumption
<1>3. Par!ErrorIsSet => Par!ErrorIsSet'
  BY <1>1, Par!StepsAndErrors, ParserIsFit, LongAssumption
<1>4. Opt!IInv => Opt!IInv'
  BY <1>1, Opt!StepIsFine, OptimizerIsFit, LongAssumption
<1>. QED
  BY <1>2, <1>3, <1>4 DEF MachineAtRest, IsRead

LEMMA StartKeeps == IInv /\ (Usage \/ CallParser) => IInv'
<1>1. SUFFICES ASSUME IInv, Usage \/ CallParser
               PROVE  IInv'
  OBVIOUS
<1>2. /\ phase = "main" /\ OthersRest /\ Par!Whole /\ Waiting /\ args = <<>> /\ held = {}
      /\ args' = args /\ values' = values
  BY <1>1 DEF IInv, Parsing, Usage, CallParser
<1>3. Waiting /\ status' = status => Waiting'
  BY <1>2, OthersStay DEF Waiting
<1>4. CASE Usage
  <2>1. phase' = "exited" /\ status' = 1 /\ held' = {} /\ values' = None
    BY <1>2, <1>4 DEF Usage, Waiting
  <2>. QED
    BY <1>1, <1>2, <2>1, OthersStay
       DEF IInv, Always, Parsing, ReadsArgs, Optimizes, RunsCode, Ends, Outcome
<1>5. CASE CallParser
  <2>1. phase' = "parse" /\ held' = {"parser"} /\ Waiting'
    BY <1>2, <1>3, <1>5 DEF CallParser
  <2>. QED
    BY <1>1, <1>2, <2>1, OthersStay
       DEF IInv, Always, Parsing, ReadsArgs, Optimizes, RunsCode, Ends
<1>. QED
  BY <1>1, <1>4, <1>5

LEMMA ParsedIs ==
  ASSUME IInv, Parsed
  PROVE  error.code = "NONE" => state = "DONE"
BY DEF IInv, Always, Parsed, TheParser!Stopped, Par!ErrorIsSet

LEMMA ParsedKeeps == IInv /\ (ParseFailed \/ AllocateArgs \/ NoArgs) => IInv'
<1>1. SUFFICES ASSUME IInv, ParseFailed \/ AllocateArgs \/ NoArgs
               PROVE  IInv'
  OBVIOUS
<1>2. /\ phase = "parse" /\ Parsed /\ OthersRest /\ Par!Whole /\ Waiting /\ args = <<>>
      /\ held = {"parser"} /\ args' = args /\ values' = values
  BY <1>1 DEF IInv, Parsing, ParseFailed, AllocateArgs, NoArgs, Parsed, FailWith
<1>3. CASE ParseFailed
  <2>1. phase' = "cleanup" /\ status' = 1 /\ held' = {"parser"} /\ values' = None
    BY <1>2, <1>3 DEF ParseFailed, FailWith, Waiting
  <2>. QED
    BY <1>1, <1>2, <2>1, OthersStay
       DEF IInv, Always, Parsing, ReadsArgs, Optimizes, RunsCode, Ends, Outcome
<1>4. CASE AllocateArgs
  <2>1. /\ phase' = "arguments" /\ held' = {"parser", "args"} /\ status' = status
        /\ error.code = "NONE"
    BY <1>2, <1>4 DEF AllocateArgs
  <2>2. IsRead /\ Waiting'
    BY <1>1, <1>2, <2>1, ParsedIs, OthersStay DEF IsRead, Waiting
  <2>3. Len(args') <= ArgCount
    BY <1>2, ArgCountIs
  <2>. QED
    BY <1>1, <1>2, <2>1, <2>2, <2>3, OthersStay
       DEF IInv, Always, Parsing, ReadsArgs, Optimizes, RunsCode, Ends
<1>5. CASE NoArgs
  <2>1. /\ phase' = "exited" /\ status' = 1 /\ values' = None /\ state = "DONE"
    BY <1>1, <1>2, <1>5, ParsedIs DEF NoArgs, Waiting
  <2>. QED
    BY <1>1, <1>2, <2>1, OthersStay
       DEF IInv, Always, Parsing, ReadsArgs, Optimizes, RunsCode, Ends, Outcome
<1>. QED
  BY <1>1, <1>3, <1>4, <1>5

\* strtol() comes to a long.
LEMMA StrtolIsLong == \A number \in Int : Strtol(number) \in Long
BY LongAssumption DEF Strtol, Long, LONG_MIN

LEMMA ReadingKeeps == IInv /\ (ReadArg \/ NoNumber) => IInv'
<1>1. SUFFICES ASSUME IInv, ReadArg \/ NoNumber
               PROVE  IInv'
  OBVIOUS
<1>2. /\ phase = "arguments" /\ Len(args) < ArgCount /\ OthersRest /\ values' = values
      /\ held' = held
  BY <1>1 DEF ReadArg, NoNumber, Reading, FailWith
<1>3. /\ Par!Whole /\ Waiting /\ IsRead /\ held = {"parser", "args"} /\ args \in Seq(Long)
  BY <1>1, <1>2 DEF IInv, ReadsArgs, Always
<1>4. CASE ReadArg
  <2>1. PICK number \in EnvNumbers : args' = Append(args, Strtol(number))
    BY <1>4 DEF ReadArg
  <2>2. Strtol(number) \in Long
    BY StrtolIsLong, DriverAssumption
  <2>3. args' \in Seq(Long) /\ Len(args') = Len(args) + 1 /\ Len(args') <= ArgCount
    BY <1>2, <1>3, <2>1, <2>2, ArgCountIs
  <2>4. phase' = phase /\ status' = status
    BY <1>4 DEF ReadArg
  <2>5. Waiting'
    BY <1>2, <1>3, <2>4, OthersStay DEF Waiting
  <2>. QED
    BY <1>1, <1>2, <1>3, <2>3, <2>4, <2>5, OthersStay
       DEF IInv, Always, Parsing, ReadsArgs, Optimizes, RunsCode, Ends
<1>5. CASE NoNumber
  <2>1. phase' = "cleanup" /\ status' = 1 /\ args' = args /\ values' = None
    BY <1>2, <1>3, <1>5 DEF NoNumber, FailWith, Waiting
  <2>. QED
    BY <1>1, <1>2, <1>3, <2>1, OthersStay
       DEF IInv, Always, Parsing, ReadsArgs, Optimizes, RunsCode, Ends, Outcome
<1>. QED
  BY <1>1, <1>4, <1>5

-----------------------------------------------------------------------------
(***************************************************************************)
(* Evaluating and optimizing                                               *)
(***************************************************************************)

\* What parse_slice has returned is what optimize() is made for.
LEMMA TreeIsParsed ==
  ASSUME IInv, phase = "arguments"
  PROVE  nodes \in ParsedAsts
<1>1. Par!Whole /\ state = "DONE" /\ names = ArgNames
  BY DEF IInv, ReadsArgs, IsRead, Always
<1>2. Par!ParsedShape(nodes)
  BY <1>1, Par!WholeParses, ParserIsFit, LongAssumption DEF Par!ParsesToATree
<1>3. nodes \in Seq(Par!NodeRecord) /\ Par!IsAst(nodes, Par!ArgCount)
  BY <1>1 DEF Par!Whole, Par!IInv, Par!NodesOK
<1>4. Par!ArgCount = ArgCount
  BY <1>1 DEF Par!ArgCount, ArgCount
<1>. QED
  BY <1>2, <1>3, <1>4, SameNodes, SameIsAst, SameShape DEF ParsedAsts

LEMMA ArgsAreLongs ==
  ASSUME IInv, Len(args) = ArgCount
  PROVE  args \in ArgLongs
BY DEF IInv, Always, ArgLongs

\* What optimize() leaves is what bytecode_compile() is made for.
LEMMA TreeIsCompiled ==
  ASSUME Opt!IInv
  PROVE  nodes \in CompiledAsts
BY SameNodes, SameIsAst, SameShape DEF Opt!IInv, Opt!Shape, Opt!Types, CompiledAsts

LEMMA EvalAstKeeps == IInv /\ EvalAst => IInv'
<1>1. SUFFICES ASSUME IInv, EvalAst
               PROVE  IInv'
  OBVIOUS
<1>2. /\ phase = "arguments" /\ Len(args) = ArgCount
      /\ values' = [values EXCEPT !.ast = AstEval(nodes, args)]
      /\ args' = args /\ held' = held /\ collapsed' = collapsed
      /\ UNCHANGED <<parserVars, nodes, trapped, machineVars>>
  BY <1>1 DEF EvalAst
<1>3. nodes \in ParsedAsts /\ args \in ArgLongs
  BY <1>1, <1>2, TreeIsParsed, ArgsAreLongs
<1>4. AstEval(nodes, args) \in Long \cup {TRAP}
  BY <1>3, EvalIs, ParsedIsCompiled
<1>5. /\ Waiting /\ IsRead /\ held = {"parser", "args"}
      /\ names = ArgNames /\ Par!ErrorIsSet
  BY <1>1, <1>2 DEF IInv, ReadsArgs, Always
<1>6. /\ values' = [ast |-> AstEval(nodes, args), opt |-> Nothing, bc |-> Nothing]
      /\ values' \in [ast : Answers, opt : Answers, bc : Answers]
  BY <1>2, <1>4, <1>5 DEF Waiting, None, Answers
<1>7. Par!ErrorIsSet' /\ names' = ArgNames /\ IsRead' /\ MachineAtRest'
  BY <1>2, <1>5 DEF Par!ErrorIsSet, parserVars, machineVars, IsRead, MachineAtRest, Waiting
<1>8. CASE AstEval(nodes, args) = TRAP
  <2>1. phase' = "killed"
    BY <1>1, <1>6, <1>8 DEF EvalAst, Killed
  <2>. QED
    BY <1>1, <1>2, <1>6, <1>7, <1>8, <2>1
       DEF IInv, Always, Parsing, ReadsArgs, Optimizes, RunsCode, Ends
<1>9. CASE AstEval(nodes, args) # TRAP
  <2>1. /\ phase' = "optimize" /\ status' = status
        /\ rewriting' = <<TheOptimizer!Frame("walk", Root(nodes))>>
    BY <1>1, <1>6, <1>9 DEF EvalAst
  <2>2. Opt!Init'
    BY <1>2, <1>3, <1>5, <2>1
       DEF Opt!Init, Opt!Frame, TheOptimizer!Frame, Opt!Root, Root, Waiting
  <2>3. Opt!Init' => Opt!IInv'
    BY Opt!InitIsFine, OptimizerIsFit, LongAssumption, PTL
  <2>4. /\ values'.ast \in Long /\ values'.opt = Nothing /\ values'.bc = Nothing
        /\ AstEval(nodes', args') = values'.ast
    BY <1>2, <1>4, <1>6, <1>9
  <2>5. trapped' = FALSE /\ status' = 0
    BY <1>2, <1>5, <2>1 DEF Waiting
  <2>. QED
    BY <1>1, <1>2, <1>5, <1>6, <1>7, <2>1, <2>2, <2>3, <2>4, <2>5
       DEF IInv, Always, Parsing, ReadsArgs, Optimizes, RunsCode, Ends
<1>. QED
  BY <1>1, <1>8, <1>9

LEMMA OptimizeOnKeeps == IInv /\ OptimizeOn => IInv'
<1>1. SUFFICES ASSUME IInv, OptimizeOn
               PROVE  IInv'
  OBVIOUS
<1>2. PICK n \in DOMAIN nodes :
        /\ TheOptimizer!Walk(n) \/ TheOptimizer!WalkRight(n) \/ TheOptimizer!Optimize(n)
        /\ collapsed' = (collapsed \/ TheOptimizer!CollapseDoubleInv(n))
  BY <1>1 DEF OptimizeOn
<1>3. /\ phase = "optimize" /\ phase' = IF trapped' THEN "killed" ELSE phase
      /\ UNCHANGED <<args, status, values, held, parserVars, machineVars>>
  BY <1>1 DEF OptimizeOn
<1>4. /\ IsRead /\ MachineAtRest /\ Opt!IInv /\ trapped = FALSE
      /\ Len(args) = ArgCount /\ held = {"parser", "args"} /\ status = 0
      /\ values.ast \in Long /\ values.opt = Nothing /\ values.bc = Nothing
      /\ ~collapsed => AstEval(nodes, args) = values.ast
  BY <1>1, <1>3 DEF IInv, Optimizes
<1>5. Opt!Walk(n) \/ Opt!WalkRight(n) \/ Opt!Optimize(n)
  BY <1>2, SameOptimize
<1>6. Opt!IInv'
  BY <1>4, <1>5, Opt!StepIsFine, OptimizerIsFit, LongAssumption DEF Opt!Next
<1>7. args \in ArgLongs /\ TRAP \notin Long
  BY <1>1, <1>4, ArgsAreLongs, SpecialValues
<1>8. CASE trapped'
  <2>1. AstEval(nodes, args) = TRAP
    BY <1>4, <1>5, <1>7, <1>8, Opt!TrapsLikeTheProgram, OptimizerIsFit, LongAssumption, SameAstEval
  <2>2. collapsed /\ collapsed'
    BY <1>2, <1>4, <1>7, <2>1
  <2>3. phase' = "killed" /\ args' = args /\ values' = values /\ names' = names
    BY <1>3, <1>8 DEF parserVars
  <2>4. Par!ErrorIsSet'
    BY <1>1, <1>3 DEF IInv, Always, Par!ErrorIsSet, parserVars
  <2>. QED
    BY <1>1, <2>2, <2>3, <2>4 DEF IInv, Always, Parsing, ReadsArgs, Optimizes, RunsCode, Ends
<1>9. CASE ~trapped'
  <2>1. trapped' = FALSE
    BY <1>6, <1>9 DEF Opt!IInv, Opt!Shape, Opt!Types
  <2>2. ASSUME ~collapsed'
        PROVE  AstEval(nodes', args) = values.ast
    <3>1. AstEval(nodes, args) = values.ast /\ values.ast # TRAP /\ ~Opt!CollapseDoubleInv(n)
      BY <1>2, <1>4, <1>7, <2>2, SameOptimize
    <3>2. nodes' = nodes \/ Opt!SameValues
      BY <1>4, <1>5, <3>1, Opt!NodeStepAgrees, OptimizerIsFit, LongAssumption
    <3>3. Opt!SameValues => Opt!AstEval(nodes, args) \in {Opt!AstEval(nodes', args), TRAP}
      BY <1>7 DEF Opt!SameValues
    <3>. QED
      BY <3>1, <3>2, <3>3, SameAstEval
  <2>3. phase' = "optimize" /\ args' = args /\ values' = values /\ names' = names
    BY <1>3, <1>9 DEF parserVars
  <2>4. Par!ErrorIsSet' /\ IsRead' /\ MachineAtRest'
    BY <1>1, <1>3, <1>4
       DEF IInv, Always, Par!ErrorIsSet, parserVars, machineVars, IsRead, MachineAtRest
  <2>. QED
    BY <1>1, <1>3, <1>4, <1>6, <2>1, <2>2, <2>3, <2>4
       DEF IInv, Always, Parsing, ReadsArgs, Optimizes, RunsCode, Ends
<1>. QED
  BY <1>8, <1>9

LEMMA EvalOptimizedKeeps == IInv /\ EvalOptimized => IInv'
<1>1. SUFFICES ASSUME IInv, EvalOptimized
               PROVE  IInv'
  OBVIOUS
<1>2. /\ phase = "optimize" /\ rewriting = <<>>
      /\ values' = [values EXCEPT !.opt = AstEval(nodes, args)]
      /\ args' = args /\ collapsed' = collapsed /\ OthersRest
  BY <1>1 DEF EvalOptimized
<1>3. /\ IsRead /\ MachineAtRest /\ Opt!IInv
      /\ Len(args) = ArgCount /\ held = {"parser", "args"} /\ status = 0
      /\ values.ast \in Long /\ values.opt = Nothing /\ values.bc = Nothing
      /\ ~collapsed => AstEval(nodes, args) = values.ast
      /\ values \in [ast : Answers, opt : Answers, bc : Answers]
      /\ names = ArgNames /\ Par!ErrorIsSet
  BY <1>1, <1>2 DEF IInv, Optimizes, Always
<1>4. args \in ArgLongs /\ nodes \in CompiledAsts
  BY <1>1, <1>3, ArgsAreLongs, TreeIsCompiled
<1>5. AstEval(nodes, args) \in Long \cup {TRAP}
  BY <1>4, EvalIs
<1>6. /\ values' \in [ast : Answers, opt : Answers, bc : Answers]
      /\ values'.ast = values.ast /\ values'.opt = AstEval(nodes, args) /\ values'.bc = Nothing
  BY <1>2, <1>3, <1>5 DEF Answers
<1>7. CASE AstEval(nodes, args) = TRAP
  <2>1. phase' = "killed" /\ collapsed'
    BY <1>1, <1>2, <1>3, <1>6, <1>7, SpecialValues DEF EvalOptimized, Killed
  <2>. QED
    BY <1>1, <1>2, <1>3, <1>6, <2>1, OthersStay
       DEF IInv, Always, Parsing, ReadsArgs, Optimizes, RunsCode, Ends
<1>8. CASE AstEval(nodes, args) # TRAP
  <2>1. /\ phase' = "bytecode" /\ held' = {"parser", "args", "bytecode"}
        /\ status' = IF values.ast = values'.opt THEN status ELSE 1
    BY <1>1, <1>3, <1>6, <1>8 DEF EvalOptimized, Compare
  <2>2. Mac!Init
    BY <1>3, <1>4 DEF Mac!Init, MachineAtRest
  <2>3. Mac!Init' => Mac!IInv'
    BY Mac!InitIsIInv, MachineIsFit, LongAssumption, PTL
  <2>4. Mac!Init'
    BY <1>2, <2>2 DEF Mac!Init, OthersRest, machineVars
  <2>5. status' = StatusOf(values')
    BY <1>3, <1>6, <2>1 DEF StatusOf
  <2>6. machine' # "no stack"
    BY <2>4 DEF Mac!Init
  <2>7. AstEval(nodes', args') = values'.opt /\ values'.opt \in Long /\ rewriting' = <<>>
    BY <1>2, <1>5, <1>6, <1>8, OthersStay
  <2>. QED
    BY <1>1, <1>2, <1>3, <1>6, <2>1, <2>3, <2>4, <2>5, <2>6, <2>7, OthersStay
       DEF IInv, Always, Parsing, ReadsArgs, Optimizes, RunsCode, Ends
<1>. QED
  BY <1>7, <1>8

-----------------------------------------------------------------------------
(***************************************************************************)
(* Compiling and running                                                   *)
(***************************************************************************)

\* A step of the machine leaves the tree alone, and gives up the stack with
\* LONG_MAX.
LEMMA MachineLeaves ==
  ASSUME Mac!Next, ~TheMachine!Ended
  PROVE  nodes' = nodes /\ (machine' = "no stack" => answer' = LONG_MAX)
<1> USE DEF TheMachine!Ended, Mac!compileVars, Mac!runVars, Mac!Compiling, Mac!Writing, Mac!At
<1>1. CASE Mac!WritePlaceholder \/ Mac!CompileOperand \/ Mac!CompileRight \/ Mac!WriteInstruction
  BY <1>1 DEF Mac!WritePlaceholder, Mac!CompileOperand, Mac!CompileRight, Mac!WriteInstruction
<1>2. CASE Mac!WriteRet \/ Mac!WriteFails \/ Mac!PrintInstruction \/ Mac!PrintRet
  BY <1>2 DEF Mac!WriteRet, Mac!WriteFails, Mac!GiveUp, Mac!PrintInstruction, Mac!PrintRet
<1>3. CASE Mac!StartEval \/ Mac!NoStack \/ Mac!EvalVal \/ Mac!EvalVar
  BY <1>3 DEF Mac!StartEval, Mac!NoStack, Mac!EvalVal, Mac!EvalVar
<1>4. CASE Mac!EvalInv \/ Mac!EvalBinary \/ Mac!EvalRet
  BY <1>4 DEF Mac!EvalInv, Mac!EvalBinary, Mac!EvalRet
<1>5. CASE Mac!Terminated
  BY <1>5 DEF Mac!Terminated, Mac!Ended
<1>. QED
  BY <1>1, <1>2, <1>3, <1>4, <1>5 DEF Mac!Next

LEMMA MachineOnKeeps == IInv /\ MachineOn => IInv'
<1>1. SUFFICES ASSUME IInv, MachineOn
               PROVE  IInv'
  OBVIOUS
<1>2. /\ phase = "bytecode" /\ phase' = IF machine' = "trapped" THEN "killed" ELSE phase
      /\ UNCHANGED <<args, status, values, held, collapsed, parserVars, optimizerVars>>
      /\ Mac!Next /\ ~TheMachine!Ended
  BY <1>1, SameMachine DEF MachineOn
<1>3. /\ IsRead /\ Opt!IInv /\ rewriting = <<>> /\ Mac!IInv
      /\ values.opt \in Long /\ AstEval(nodes, args) = values.opt
  BY <1>1, <1>2 DEF IInv, RunsCode
<1>4. nodes' = nodes /\ (machine' = "no stack" => answer' = LONG_MAX)
  BY <1>2, MachineLeaves
<1>5. Mac!IInv'
  BY <1>2, <1>3, Mac!NextKeepsIInv, MachineIsFit, LongAssumption
<1>6. machine' # "trapped"
  <2>1. machine' = "trapped" => (Mac!AstEval(nodes, args))' = TRAP
    BY <1>5 DEF Mac!IInv, Mac!Results, Mac!Val, Mac!AstEval
  <2>2. AstEval(nodes', args') = AstEval(nodes, args) /\ values.opt # TRAP
    BY <1>2, <1>3, <1>4, SpecialValues
  <2>. QED
    BY <1>3, <2>1, <2>2, SameAstEval
<1>7. UNCHANGED Opt!vars
  BY <1>2, <1>4 DEF Opt!vars, optimizerVars
<1>8. Opt!IInv'
  BY <1>3, <1>7, Opt!StepIsFine, OptimizerIsFit, LongAssumption
<1>9. Par!ErrorIsSet' /\ IsRead' /\ names' = names /\ rewriting' = rewriting
  BY <1>1, <1>2, <1>3 DEF IInv, Always, Par!ErrorIsSet, parserVars, optimizerVars, IsRead
<1>. QED
  BY <1>1, <1>2, <1>4, <1>5, <1>6, <1>8, <1>9
     DEF IInv, Always, Parsing, ReadsArgs, Optimizes, RunsCode, Ends

LEMMA CompareKeeps == IInv /\ (NotCompiled \/ CompareBytecode) => IInv'
<1>1. SUFFICES ASSUME IInv, NotCompiled \/ CompareBytecode
               PROVE  IInv'
  OBVIOUS
<1>2. /\ phase = "bytecode" /\ phase' = "cleanup" /\ held' = held \ {"bytecode"}
      /\ args' = args /\ collapsed' = collapsed /\ OthersRest
  BY <1>1 DEF NotCompiled, CompareBytecode, DestroyBytecode
<1>3. /\ IsRead /\ Mac!IInv /\ (machine = "no stack" => answer = LONG_MAX)
      /\ Len(args) = ArgCount /\ held = {"parser", "args", "bytecode"}
      /\ values.ast \in Long /\ values.opt \in Long /\ values.bc = Nothing
      /\ status = StatusOf(values) /\ AstEval(nodes, args) = values.opt
      /\ ~collapsed => values.opt = values.ast
      /\ values \in [ast : Answers, opt : Answers, bc : Answers]
      /\ names = ArgNames /\ Par!ErrorIsSet
  BY <1>1, <1>2 DEF IInv, RunsCode, Always
<1>4. held' \subseteq {"parser", "args"} /\ IsRead' /\ Par!ErrorIsSet' /\ names' = names
  BY <1>2, <1>3, OthersStay
<1>5. CASE NotCompiled
  <2>1. machine' = "failed" /\ status' = status /\ values' = values
    BY <1>2, <1>5, OthersStay DEF NotCompiled
  <2>2. Outcome'
    BY <1>2, <1>3, <1>4, <2>1 DEF Outcome, StatusOf
  <2>. QED
    BY <1>1, <1>2, <1>3, <1>4, <2>1, <2>2
       DEF IInv, Always, Parsing, ReadsArgs, Optimizes, RunsCode, Ends
<1>6. CASE CompareBytecode
  <2>1. /\ machine \in {"done", "no stack"} /\ machine' = machine
        /\ values' = [values EXCEPT !.bc = answer]
        /\ status' = IF values.ast = answer THEN status ELSE 1
    BY <1>2, <1>6, OthersStay DEF CompareBytecode, Compare
  <2>2. answer \in Long
    BY <1>3, SameLongs DEF Mac!IInv, Mac!Types
  <2>3. /\ values'.ast = values.ast /\ values'.opt = values.opt /\ values'.bc = answer
        /\ values' \in [ast : Answers, opt : Answers, bc : Answers]
    BY <1>3, <2>1, <2>2 DEF Answers
  <2>4. status' = StatusOf(values')
    BY <1>3, <2>1, <2>2, <2>3, SpecialValues DEF StatusOf
  <2>5. machine = "done" => answer = values.opt
    <3>1. machine = "done" => answer = Mac!AstEval(nodes, args)
      BY <1>3 DEF Mac!IInv, Mac!Results, Mac!Val, Mac!AstEval
    <3>. QED
      BY <1>3, <3>1, SameAstEval
  <2>6. Outcome'
    BY <1>2, <1>3, <1>4, <2>1, <2>2, <2>3, <2>4, <2>5 DEF Outcome
  <2>. QED
    BY <1>1, <1>2, <1>3, <1>4, <2>3, <2>6
       DEF IInv, Always, Parsing, ReadsArgs, Optimizes, RunsCode, Ends
<1>. QED
  BY <1>1, <1>5, <1>6

LEMMA CleanupKeeps == IInv /\ Cleanup => IInv'
<1>1. SUFFICES ASSUME IInv, Cleanup
               PROVE  IInv'
  OBVIOUS
<1>2. /\ phase = "cleanup" /\ phase' = "exited" /\ held' = {} /\ OthersRest
      /\ UNCHANGED <<args, status, values, collapsed>>
  BY <1>1 DEF Cleanup, IInv, Ends
<1>3. Outcome'
  BY <1>1, <1>2, OthersStay DEF IInv, Ends, Outcome
<1>. QED
  BY <1>1, <1>2, <1>3, OthersStay
     DEF IInv, Always, Parsing, ReadsArgs, Optimizes, RunsCode, Ends

LEMMA StutterKeeps == IInv /\ UNCHANGED vars => IInv'
<1>1. SUFFICES ASSUME IInv, UNCHANGED vars
               PROVE  IInv'
  OBVIOUS
<1>2. UNCHANGED mainVars /\ OthersRest /\ machineVars' = machineVars
  BY <1>1 DEF vars, OthersRest
<1>3. Mac!IInv => Mac!IInv'
  <2>1. UNCHANGED Mac!vars
    BY <1>1 DEF vars, mainVars, machineVars, Mac!vars
  <2>. QED
    BY <2>1, Mac!NextKeepsIInv, MachineIsFit, LongAssumption
<1>4. /\ phase' = phase /\ args' = args /\ status' = status /\ values' = values /\ held' = held
      /\ collapsed' = collapsed
  BY <1>2 DEF mainVars
<1>5. Always' /\ Parsing' /\ ReadsArgs'
  BY <1>1, <1>2, <1>4, OthersStay DEF IInv, Always, Parsing, ReadsArgs, Waiting
<1>6. Optimizes' /\ RunsCode'
  BY <1>1, <1>2, <1>3, <1>4, OthersStay DEF IInv, Optimizes, RunsCode
<1>7. Ends'
  BY <1>1, <1>2, <1>4, OthersStay DEF IInv, Ends, Outcome
<1>. QED
  BY <1>5, <1>6, <1>7 DEF IInv

LEMMA StepIsFine == IInv /\ [Next]_vars => IInv'
BY StartKeeps, ParseOnKeeps, ParsedKeeps, ReadingKeeps, EvalAstKeeps, OptimizeOnKeeps,
   EvalOptimizedKeeps, MachineOnKeeps, CompareKeeps, CleanupKeeps, StutterKeeps
DEF Next, Terminated

-----------------------------------------------------------------------------
(***************************************************************************)
(* The theorems                                                            *)
(***************************************************************************)

\* In every phase of main() the component that it runs is within what is
\* proved of it.
THEOREM IInvHolds == Spec => []IInv
BY InitIsFine, StepIsFine, PTL DEF Spec

\* main() hands to optimize(), ast_eval() and bytecode_compile() what they are
\* made for, whatever the code and the arguments are.
THEOREM InterfacesAlwaysFit == Spec => []InterfacesFit
<1>1. IInv => InterfacesFit
  <2>1. SUFFICES ASSUME IInv
                 PROVE  InterfacesFit
    OBVIOUS
  <2>2. AllRead => nodes \in ParsedAsts /\ args \in ArgLongs
    BY <2>1, TreeIsParsed, ArgsAreLongs DEF AllRead
  <2>3. phase = "arguments" => nodes \in CompiledAsts
    BY <2>1, TreeIsParsed, ParsedIsCompiled
  <2>4. phase \in {"optimize", "bytecode"} => nodes \in CompiledAsts /\ Opt!IInv
    BY <2>1, TreeIsCompiled DEF IInv, Optimizes, RunsCode
  <2>5. phase = "bytecode" => TheOptimizer!ResultIsOptimized
    BY <2>4, Opt!OptimizedAtEnd, OptimizerIsFit, LongAssumption, SameResult
  <2>. QED
    BY <2>2, <2>3, <2>4, <2>5 DEF InterfacesFit, ParsedAsts, CompiledAsts, ArgLongs
<1>. QED
  BY <1>1, IInvHolds, PTL

\* ast_eval() before and after optimize(), and bytecode_eval(), come to the
\* same unless a double negation is collapsed, and main() is killed only where
\* the code as it was written divides by zero, or LONG_MIN by -1.
THEOREM ResultsAlwaysAgree == Spec => []ResultsAgree
<1>1. IInv => ResultsAgree
  <2>1. SUFFICES ASSUME IInv, ~collapsed
                 PROVE  /\ values.opt \in {Nothing, values.ast}
                        /\ values.bc \in {Nothing, values.opt}
                              \/ (machine = "no stack" /\ values.bc = LONG_MAX)
                        /\ phase = "killed" => values.ast = TRAP /\ values.opt = Nothing
    BY DEF ResultsAgree
  <2>2. CASE phase \in {"main", "parse", "arguments"}
    <3>1. values = None
      BY <2>1, <2>2 DEF IInv, Parsing, ReadsArgs, Waiting
    <3>. QED
      BY <2>2, <3>1 DEF None
  <2>3. CASE phase \in {"optimize", "bytecode"}
    BY <2>1, <2>3 DEF IInv, Optimizes, RunsCode
  <2>4. CASE phase \in {"cleanup", "exited"}
    <3>1. Outcome
      BY <2>1, <2>4 DEF IInv, Ends
    <3>2. values = None => values.opt = Nothing /\ values.bc = Nothing
      BY DEF None
    <3>. QED
      BY <2>1, <2>4, <3>1, <3>2 DEF Outcome
  <2>5. CASE phase = "killed"
    BY <2>1, <2>5 DEF IInv, Ends
  <2>. QED
    BY <2>1, <2>2, <2>3, <2>4, <2>5 DEF IInv, Always
<1>. QED
  BY <1>1, IInvHolds, PTL

\* What the exit status of main() says is so, and its memory is freed.
THEOREM StatusIsTheOutcome == Spec => []StatusTellsTheOutcome
<1>1. IInv => StatusTellsTheOutcome
  <2>1. SUFFICES ASSUME IInv, phase = "exited"
                 PROVE  /\ status = 0 =>
                             /\ error.code = "NONE" /\ Len(args) = ArgCount
                             /\ values.ast = values.opt
                             /\ IF values.bc = Nothing THEN machine = "failed"
                                ELSE values.bc = values.ast
                        /\ (status = 1 /\ values.ast # Nothing) =>
                             values.ast # values.opt \/ values.bc \notin {Nothing, values.ast}
                        /\ held # {} =>
                             status = 1 /\ state = "DONE" /\ args = <<>> /\ values.ast = Nothing
    BY DEF StatusTellsTheOutcome
  <2>2. /\ Outcome
        /\ held # {} => values = None /\ status = 1 /\ state = "DONE" /\ args = <<>>
    BY <2>1 DEF IInv, Ends
  <2>3. values = None => values.ast = Nothing
    BY DEF None
  <2>4. CASE values = None /\ status = 1
    BY <2>2, <2>3, <2>4
  <2>5. CASE ~(values = None /\ status = 1)
    <3>1. /\ error.code = "NONE" /\ Len(args) = ArgCount
          /\ values.ast \in Long /\ values.opt \in Long /\ status = StatusOf(values)
          /\ IF machine = "failed" THEN values.bc = Nothing ELSE values.bc \in Long
      BY <2>2, <2>5 DEF Outcome, IsRead
    <3>. QED
      BY <2>2, <2>5, <3>1, SpecialValues DEF StatusOf
  <2>. QED
    BY <2>4, <2>5
<1>. QED
  BY <1>1, IInvHolds, PTL
-----------------------------------------------------------------------------
(***************************************************************************)
(* The tree computes what the code means                                   *)
(***************************************************************************)
LEMMA SameMeanings ==
  ASSUME NEW c, NEW env
  PROVE  /\ Par!Meanings(c, env) = Meanings(c, env)
         /\ TheParser!Meanings(c, env) = Meanings(c, env)
<1> USE DEF Meanings, Denotations, Spans, MeaningsOf, Chained, Negated, Combinations, Operand, Parts,
            Operators, StrictNegate, StrictBinary, Negate, Binary, Wrap, Divide, Quotient, Abs,
            LONG_MIN
<1>1. Par!Meanings(c, env) = Meanings(c, env)
  BY DEF Par!Meanings, Par!Denotations, Par!Spans, Par!MeaningsOf, Par!Chained, Par!Negated,
         Par!Combinations, Par!Operand, Par!Parts, Par!Operators, Par!StrictNegate,
         Par!StrictBinary, Par!Negate, Par!Binary, Par!Wrap, Par!Divide, Par!Quotient, Par!Abs,
         Par!LONG_MIN
<1>2. TheParser!Meanings(c, env) = Meanings(c, env)
  BY DEF TheParser!Meanings, TheParser!Denotations, TheParser!Spans, TheParser!MeaningsOf,
         TheParser!Chained, TheParser!Negated, TheParser!Combinations, TheParser!Operand,
         TheParser!Parts, TheParser!Operators, TheParser!StrictNegate, TheParser!StrictBinary,
         TheParser!Negate, TheParser!Binary, TheParser!Wrap, TheParser!Divide,
         TheParser!Quotient, TheParser!Abs, TheParser!LONG_MIN
<1>. QED
  BY <1>1, <1>2

LEMMA SameCode == Par!Code = TheParser!Code
BY DEF Par!Code, TheParser!Code, Par!token, TheParser!token, Par!Eof, TheParser!Eof,
       Par!Token, TheParser!Token

\* The parser is sound while it runs, and until its tree has been evaluated.
Understood ==
  /\ phase \in {"main", "parse", "arguments"} => Par!Sound
  /\ ComputesTheMeaning

LEMMA UnderstoodAtFirst == Init => Understood
<1>1. SUFFICES ASSUME Init
               PROVE  Understood
  OBVIOUS
<1>2. Par!Sound
  BY <1>1, SameParserInit, Par!SoundAtFirst, ParserIsFit, LongAssumption DEF Init
<1>. QED
  BY <1>1, <1>2 DEF Init, Understood, ComputesTheMeaning

\* What parse_slice has checked of the names.
NamesFit ==
  /\ ArgNames \in Seq(Identifiers)
  /\ \A i, j \in 1..ArgCount : ArgNames[i] = ArgNames[j] => i = j

LEMMA NamesAreFit == IInv /\ Par!Sound /\ phase = "arguments" => NamesFit
<1>1. SUFFICES ASSUME IInv, Par!Sound, phase = "arguments"
               PROVE  NamesFit
  OBVIOUS
<1>2. Par!Whole /\ state = "DONE" /\ names = ArgNames
  BY <1>1 DEF IInv, ReadsArgs, IsRead, Always
<1>3. calls = <<>>
  BY <1>2 DEF Par!Whole, Par!IInv, Par!ControlOK, Par!Ended
<1>4. ArgNames \in Seq(Identifiers) /\ Par!Distinct(ArgNames)
  BY <1>1, <1>2, <1>3 DEF Par!Sound, Par!AtStart
<1>. QED
  BY <1>4 DEF NamesFit, Par!Distinct, ArgCount

LEMMA ValuationIs ==
  ASSUME NamesFit, args \in ArgLongs
  PROVE  /\ Valuation \in [Identifiers -> Long]
         /\ \A i \in 1..ArgCount : Valuation[ArgNames[i]] = args[i]
<1>1. \A i \in 1..ArgCount : ArgNames[i] \in Identifiers /\ args[i] \in Long
  BY DEF NamesFit, ArgCount, ArgLongs
<1>2. 0 \in Long
  BY LongIs
<1>3. Valuation \in [Identifiers -> Long]
  BY <1>1, <1>2 DEF Valuation
<1>4. ASSUME NEW i \in 1..ArgCount
      PROVE  Valuation[ArgNames[i]] = args[i]
  <2>1. \A j \in 1..ArgCount : ArgNames[j] = ArgNames[i] => j = i
    BY DEF NamesFit
  <2>2. (CHOOSE j \in 1..ArgCount : ArgNames[j] = ArgNames[i]) = i
    BY <2>1
  <2>. QED
    BY <1>1, <2>2 DEF Valuation
<1>. QED
  BY <1>3, <1>4

LEMMA SameEval ==
  ASSUME NEW ast, NEW ar
  PROVE  Par!AstEval(ast, ar) = AstEval(ast, ar)
<1>1. Par!NodeEval(ast, ar) = NodeEval(ast, ar)
  BY DEF NodeEval, StrictNegate, StrictBinary, Negate, Binary, Wrap, Divide, Quotient, Abs,
         LONG_MIN, BinaryTypes, AddSub, MulDiv,
         Par!NodeEval, Par!StrictNegate, Par!StrictBinary, Par!Negate, Par!Binary, Par!Wrap,
         Par!Divide, Par!Quotient, Par!Abs, Par!LONG_MIN, Par!BinaryTypes, Par!AddSub, Par!MulDiv
<1>. QED
  BY <1>1 DEF AstEval, Root, Par!AstEval, Par!Root

LEMMA TreeMeansTheCode ==
  ASSUME IInv, Par!Sound, phase = "arguments", Len(args) = ArgCount
  PROVE  {AstEval(nodes, args)} = TheParser!Meanings(TheParser!Code, Valuation)
<1>1. Par!Whole /\ state = "DONE"
  BY DEF IInv, ReadsArgs, IsRead
<1>2. PICK env \in [Identifiers -> Long] : env = Valuation /\ Par!ArgValues(env) = args
  <2>1. names = ArgNames /\ args \in ArgLongs /\ NamesFit
    BY ArgsAreLongs, NamesAreFit DEF IInv, Always
  <2>2. DOMAIN ArgNames = 1..ArgCount
    BY <2>1 DEF NamesFit, ArgCount
  <2>3. Par!ArgValues(Valuation) = [i \in 1..ArgCount |-> args[i]]
    BY <2>1, <2>2, ValuationIs DEF Par!ArgValues
  <2>. QED
    BY <2>1, <2>3, ValuationIs DEF ArgLongs
<1>3. {Par!AstEval(nodes, Par!ArgValues(env))} = Par!Meanings(Par!Code, env)
  BY <1>1, Par!SoundMeans, ParserIsFit, LongAssumption, SameLongs
<1>. QED
  BY <1>2, <1>3, SameEval, SameMeanings, SameCode

LEMMA StaysUnderstood == IInv /\ IInv' /\ Understood /\ [Next]_vars => Understood'
<1>1. SUFFICES ASSUME IInv, IInv', Understood, [Next]_vars
               PROVE  Understood'
  OBVIOUS
<1>2. phase \in {"main", "parse", "arguments"} => Par!Whole /\ values.ast = Nothing
  BY <1>1 DEF IInv, Parsing, ReadsArgs, Waiting, None
<1>3. (phase \in {"main", "parse", "arguments"})' => (Par!Whole /\ values.ast = Nothing)'
  BY <1>1 DEF IInv, Parsing, ReadsArgs, Waiting, None
\* The code stays the same once the parser is through with it.
<1>4. ASSUME UNCHANGED <<parserVars, args>>, values'.ast = values.ast
      PROVE  ComputesTheMeaning'
  <2>1. TheParser!Code' = TheParser!Code
    BY <1>4 DEF TheParser!Code, TheParser!token, parserVars
  <2>2. Valuation' = Valuation
    BY <1>4 DEF Valuation
  <2>3. values'.ast # Nothing => {values'.ast} = Meanings(TheParser!Code, Valuation)
    BY <1>1, <1>4, SameMeanings DEF Understood, ComputesTheMeaning
  <2>. QED
    BY <2>1, <2>2, <2>3, SameMeanings DEF ComputesTheMeaning
<1>5. ASSUME phase' \in {"main", "parse", "arguments"},
             phase \in {"main", "parse", "arguments"},
             Par!Next \/ UNCHANGED Par!vars
      PROVE  Understood'
  <2>1. Par!Sound'
    BY <1>1, <1>2, <1>3, <1>5, Par!StaysSound, ParserIsFit, LongAssumption DEF Understood
  <2>. QED
    BY <1>3, <1>5, <2>1 DEF Understood, ComputesTheMeaning
<1>6. CASE ParseOn
  BY <1>1, <1>5, <1>6, SameParser DEF ParseOn, mainVars
<1>7. OthersRest \/ UNCHANGED vars => UNCHANGED Par!vars /\ UNCHANGED parserVars
  BY DEF OthersRest, vars, parserVars, Par!vars
<1>8. CASE Usage \/ CallParser \/ ParseFailed \/ AllocateArgs \/ NoArgs \/ NoNumber
  <2>1. /\ phase \in {"main", "parse", "arguments"} /\ OthersRest
        /\ args' = args /\ values' = values
    BY <1>8 DEF Usage, CallParser, ParseFailed, AllocateArgs, NoArgs, NoNumber, Parsed, Reading,
                FailWith
  <2>. QED
    BY <1>4, <1>5, <1>7, <2>1 DEF Understood
<1>9. CASE ReadArg
  BY <1>5, <1>7, <1>9 DEF ReadArg, Reading
<1>10. CASE EvalAst
  <2>1. /\ phase = "arguments" /\ Len(args) = ArgCount
        /\ values' = [values EXCEPT !.ast = AstEval(nodes, args)]
        /\ phase' \in {"killed", "optimize"}
        /\ UNCHANGED <<args, parserVars>>
    BY <1>10 DEF EvalAst, Killed
  <2>2. values'.ast = AstEval(nodes, args)
    BY <1>1, <2>1 DEF IInv, Always
  <2>3. {values'.ast} = TheParser!Meanings(TheParser!Code, Valuation)
    BY <1>1, <2>1, <2>2, TreeMeansTheCode DEF Understood
  <2>4. TheParser!Code' = TheParser!Code /\ Valuation' = Valuation
    BY <2>1 DEF TheParser!Code, TheParser!token, parserVars, Valuation
  <2>5. ComputesTheMeaning'
    BY <2>3, <2>4, SameMeanings DEF ComputesTheMeaning
  <2>. QED
    BY <2>1, <2>5 DEF Understood
<1>11. CASE OptimizeOn \/ EvalOptimized \/ MachineOn \/ NotCompiled \/ CompareBytecode \/ Cleanup
  <2>1. /\ phase' \notin {"main", "parse", "arguments"}
        /\ UNCHANGED <<args, parserVars>>
        /\ values'.ast = values.ast
    BY <1>1, <1>11 DEF IInv, Always, OptimizeOn, EvalOptimized, MachineOn, NotCompiled, CompareBytecode,
                       Cleanup, DestroyBytecode, Killed, OthersRest
  <2>. QED
    BY <1>4, <2>1 DEF Understood
<1>12. CASE UNCHANGED vars
  <2>1. UNCHANGED <<phase, args, values, parserVars>>
    BY <1>12 DEF vars, mainVars
  <2>. QED
    BY <1>4, <1>5, <1>7, <1>12, <2>1 DEF Understood
<1>. QED
  BY <1>1, <1>6, <1>8, <1>9, <1>10, <1>11, <1>12 DEF Next, Terminated

\* main() computes what the code on its command line means, for every code,
\* every list of arguments and all their values: precedence, signs and
\* parentheses, the arguments' positions and the arithmetic of long.
THEOREM TheMeaningIsComputed == Spec => []ComputesTheMeaning
<1>1. IInv /\ IInv' /\ Understood /\ [Next]_vars => Understood'
  BY StaysUnderstood
<1>2. Understood => ComputesTheMeaning
  BY DEF Understood
<1>. QED
  BY <1>1, <1>2, UnderstoodAtFirst, IInvHolds, PTL DEF Spec

\* The names are still the same when the optimized tree is printed.
StillFit == phase = "optimize" => NamesFit

\* The trees that main() prints, the parsed one and the optimized one, are code
\* of its own language and mean what they compute, for every code and all
\* arguments.
THEOREM ThePrintIsTheTree == Spec => []PrintsWhatItComputes
<1>1. Init => StillFit
  BY DEF Init, StillFit
<1>2. IInv /\ Understood /\ StillFit /\ [Next]_vars => StillFit'
  <2>1. SUFFICES ASSUME IInv, Understood, StillFit, [Next]_vars, phase' = "optimize"
                 PROVE  NamesFit
    BY DEF StillFit
  <2>2. CASE phase = "optimize"
    BY <2>1, <2>2 DEF StillFit
  <2>3. CASE phase # "optimize"
    <3>1. EvalAst
      BY <2>1, <2>3
         DEF Next, Usage, CallParser, ParseOn, ParseFailed, AllocateArgs, NoArgs, ReadArg, NoNumber,
             OptimizeOn, EvalOptimized, MachineOn, NotCompiled, CompareBytecode, Cleanup,
             Terminated, FailWith, DestroyBytecode, Killed, vars, mainVars
    <3>. QED
      BY <2>1, <3>1, NamesAreFit DEF EvalAst, Understood
  <2>. QED
    BY <2>2, <2>3
<1>3. IInv /\ Understood /\ StillFit => PrintsWhatItComputes
  <2>1. SUFFICES ASSUME IInv, Understood, StillFit, AllRead \/ Optimized
                 PROVE  TheParser!Meanings(Printed(nodes, ArgNames), Valuation)
                          = {AstEval(nodes, args)}
    BY DEF PrintsWhatItComputes
  <2>2. NamesFit /\ Len(args) = ArgCount
    BY <2>1, NamesAreFit DEF AllRead, Optimized, IInv, Optimizes, Understood, StillFit
  <2>3. nodes \in CompiledAsts
    BY <2>1, TreeIsParsed, ParsedIsCompiled, TreeIsCompiled DEF AllRead, Optimized, IInv, Optimizes
  <2>4. args \in ArgLongs
    BY <2>1, <2>2, ArgsAreLongs
  <2>5. PICK env : env = Valuation
    OBVIOUS
  <2>6. Binds(env, ArgNames, args, ArgCount)
    BY <2>2, <2>4, <2>5, ValuationIs DEF Binds, NamesFit, ArgLongs, ArgCount
  <2>7. Meanings(Printed(nodes, ArgNames), env) = {AstEval(nodes, args)}
    BY <2>3, <2>6, PrintedMeansTheAst DEF CompiledAsts
  <2>. QED
    BY <2>5, <2>7, SameMeanings
<1>4. IInv /\ IInv' /\ Understood /\ [Next]_vars => Understood'
  BY StaysUnderstood
<1>. QED
  BY <1>1, <1>2, <1>3, <1>4, UnderstoodAtFirst, IInvHolds, PTL DEF Spec

-----------------------------------------------------------------------------
(***************************************************************************)
(* The arrays of the program                                               *)
(*                                                                         *)
(* The growing arrays hold what is appended to them, for every width of    *)
(* size_t, every node size and every first capacity.                       *)
(***************************************************************************)

\* What wraps around at SIZE_MAX + 1 is unchanged below it.
LEMMA SizeOfSmall == \A n \in Nat : n <= SIZE_MAX => Size(n) = n
  BY StorageAssumption, SMT DEF Size

\* A buffer that has memory has at least BUFSIZ bytes: one doubling makes room
\* for as many more.
BufferInv ==
  /\ buffer \in [used : SizeT, capacity : SizeT]
  /\ appended \in Nat /\ longest \in Nat
  /\ BufferHoldsAll
  /\ buffer.capacity = 0 \/ buffer.capacity >= BUFSIZ

ArrayInv ==
  /\ array \in [used : SizeT, capacity : SizeT]
  /\ bytes \in SizeT
  /\ NodesFit

MemoryInv == BufferInv /\ ArrayInv

LEMMA MemoryInvBegins == StorageInit => MemoryInv
  BY StorageAssumption, SMT DEF StorageInit, MemoryInv, BufferInv, ArrayInv,
      BufferHoldsAll, HoldsAll, NodesFit, Empty, SizeT

\* A write keeps the buffer's invariant if there is room for what is no longer
\* than BUFSIZ.
LEMMA WriteKeepsBuffer ==
  ASSUME BufferInv,
         NEW size \in 1..MaxAppend, NEW capacity \in SizeT,
         SumFits(size), Write(size, capacity),
         longest <= BUFSIZ /\ size <= BUFSIZ => buffer.used + size <= capacity,
         capacity >= BUFSIZ
  PROVE  BufferInv'
<1>1. buffer.used + size \in Nat /\ Size(buffer.used + size) = buffer.used + size
  BY SizeOfSmall, StorageAssumption, SMT DEF BufferInv, SizeT, SumFits
<1>2. buffer' = [used |-> buffer.used + size, capacity |-> capacity]
  BY <1>1 DEF Write
<1>3. /\ appended' = buffer.used + size
      /\ longest' = IF size > longest THEN size ELSE longest
  BY DEF Write, BufferInv, BufferHoldsAll
<1>4. buffer'.used = buffer.used + size /\ buffer'.capacity = capacity
  BY <1>2
<1>5. buffer' \in [used : SizeT, capacity : SizeT]
  BY <1>1, <1>2, StorageAssumption, SMT DEF BufferInv, SizeT, SumFits
<1>6. longest \in Nat /\ size \in Nat /\ longest' \in Nat /\ BUFSIZ \in Nat
  BY <1>3, StorageAssumption, SMT DEF BufferInv
<1>7. longest' <= BUFSIZ => longest <= BUFSIZ /\ size <= BUFSIZ
  BY <1>3, <1>6, SMT
<1>8. longest' <= BUFSIZ => appended' <= buffer'.capacity
  BY <1>3, <1>4, <1>7
<1> QED
  BY <1>1, <1>3, <1>4, <1>5, <1>6, <1>8 DEF BufferInv, BufferHoldsAll, HoldsAll

LEMMA BufferStepKeeps == ASSUME MemoryInv, StorageNext PROVE BufferInv'
<1> USE DEF MemoryInv
<1>1. ASSUME NEW size \in 1..MaxAppend, BufferAppend(size) PROVE BufferInv'
  <2>1. Size(buffer.used + size) = buffer.used + size
    BY <1>1, SizeOfSmall, StorageAssumption, SMT
    DEF BufferInv, SizeT, BufferAppend, SumFits
  <2> QED
    BY <1>1, <2>1, WriteKeepsBuffer, StorageAssumption, SMT
    DEF BufferInv, BufferHoldsAll, HoldsAll, SizeT, BufferAppend, HasRoom
<1>2. ASSUME NEW size \in 1..MaxAppend, BufferGrow(size) PROVE BufferInv'
  <2>1. /\ GrownCapacity \in SizeT
        /\ GrownCapacity >= BUFSIZ
        /\ size <= BUFSIZ => GrownCapacity >= buffer.capacity + size
    <3>1. CASE buffer.capacity = 0
      BY <3>1, StorageAssumption, SMT DEF GrownCapacity, SizeT
    <3>2. CASE buffer.capacity # 0
      <4>1. buffer.capacity * 2 \in Nat /\ buffer.capacity * 2 <= SIZE_MAX
        BY <1>2, StorageAssumption, SMT DEF BufferInv, SizeT, BufferGrow, MayDouble
      <4>2. GrownCapacity = buffer.capacity * 2
        BY <3>2, <4>1, SizeOfSmall DEF GrownCapacity
      <4> QED BY <1>2, <3>2, <4>1, <4>2, StorageAssumption, SMT DEF BufferInv, SizeT
    <3> QED BY <3>1, <3>2
  <2>2. longest <= BUFSIZ /\ size <= BUFSIZ => buffer.used + size <= GrownCapacity
    BY <2>1, StorageAssumption, SMT DEF BufferInv, BufferHoldsAll, HoldsAll, SizeT
  <2> QED BY <1>2, <2>1, <2>2, WriteKeepsBuffer DEF BufferGrow
<1>3. ASSUME NEW size \in 1..MaxAppend, BufferFails(size) PROVE BufferInv'
  BY <1>3, SMT DEF BufferFails, storageVars, BufferInv, BufferHoldsAll, HoldsAll
<1>4. CASE BufferClear \/ BufferDestroy
  BY <1>4, StorageAssumption, SMT
  DEF BufferClear, BufferDestroy, Empty, BufferInv, BufferHoldsAll, HoldsAll, SizeT
<1>5. CASE NodeAppend \/ NodeGrow \/ NodeFails \/ NodesDestroy
  BY <1>5, SMT DEF NodeAppend, NodeGrow, NodeFails, NodesDestroy, storageVars,
      BufferInv, BufferHoldsAll, HoldsAll
<1> QED BY <1>1, <1>2, <1>3, <1>4, <1>5 DEF StorageNext

\* A count that is at most (SIZE_MAX \div 2) \div NodeSize can be doubled, and
\* the bytes of twice the nodes are a size_t.
LEMMA DoubleFits ==
  ASSUME NEW count \in Nat, count <= (SIZE_MAX \div 2) \div NodeSize
  PROVE  /\ count * 2 \in Nat /\ count * 2 <= SIZE_MAX
         /\ (count * 2) * NodeSize \in Nat /\ (count * 2) * NodeSize <= SIZE_MAX
<1> DEFINE half == SIZE_MAX \div 2
           most == half \div NodeSize
           size == count * NodeSize
<1>1. half \in Nat /\ half * 2 <= SIZE_MAX
  BY StorageAssumption, SMT
<1>2. most \in Nat /\ most * NodeSize <= half
  BY <1>1, StorageAssumption, Z3
<1>3. size <= most * NodeSize /\ count <= size
  BY <1>2, StorageAssumption, Z3
<1>4. size \in Nat /\ (count * 2) * NodeSize = size * 2
  BY StorageAssumption, Z3
<1>5. size <= half
  <2>1. most * NodeSize \in Nat
    BY <1>2, StorageAssumption, Z3
  <2> HIDE DEF size, half, most
  <2> QED BY <1>1, <1>2, <1>3, <1>4, <2>1, SMT
<1> HIDE DEF size, half, most
<1>6. size * 2 \in Nat /\ size * 2 <= SIZE_MAX /\ count * 2 \in Nat /\ count * 2 <= SIZE_MAX
  BY <1>1, <1>3, <1>4, <1>5, StorageAssumption, SMT
<1> QED BY <1>4, <1>6

LEMMA ArrayStepKeeps == ASSUME MemoryInv, StorageNext PROVE ArrayInv'
<1> USE DEF MemoryInv
<1>1. CASE \E size \in 1..MaxAppend : BufferAppend(size) \/ BufferGrow(size) \/ BufferFails(size)
  BY <1>1
  DEF BufferAppend, BufferGrow, BufferFails, Write, storageVars, ArrayInv, NodesFit
<1>2. CASE BufferClear \/ BufferDestroy \/ NodeFails
  BY <1>2 DEF BufferClear, BufferDestroy, NodeFails, storageVars, ArrayInv, NodesFit
<1>3. CASE NodeAppend
  <2>1. array.used \in SizeT /\ array.capacity \in SizeT /\ array.used < array.capacity
    BY <1>3, StorageAssumption, SMT DEF NodeAppend, IsFull, ArrayInv, NodesFit, SizeT
  <2>2. Size(array.used + 1) = array.used + 1
    BY <2>1, SizeOfSmall, StorageAssumption, SMT DEF SizeT
  <2> QED
    BY <1>3, <2>1, <2>2, StorageAssumption, SMT
    DEF NodeAppend, ArrayInv, NodesFit, SizeT
<1>4. CASE NodeGrow
  <2> DEFINE grown == IF array.capacity = 0 THEN FirstNodes ELSE Size(array.capacity * 2)
  <2>1. /\ grown \in SizeT /\ grown > array.capacity
        /\ grown * NodeSize \in Nat /\ grown * NodeSize <= SIZE_MAX
    <3>1. CASE array.capacity = 0
      <4>1. FirstNodes * NodeSize \in Nat /\ FirstNodes <= FirstNodes * NodeSize
        BY StorageAssumption, Z3
      <4> QED BY <3>1, <4>1, StorageAssumption, SMT DEF SizeT
    <3>2. CASE array.capacity # 0
      <4>1. array.capacity \in Nat /\ array.capacity <= (SIZE_MAX \div 2) \div NodeSize
        BY <1>4, SMT DEF NodeGrow, MayDoubleNodes, ArrayInv, SizeT
      <4>2. Size(array.capacity * 2) = array.capacity * 2
        BY <4>1, DoubleFits, SizeOfSmall
      <4> QED BY <3>2, <4>1, <4>2, DoubleFits, StorageAssumption, SMT DEF SizeT
    <3> QED BY <3>1, <3>2
  <2>2. Size(grown * NodeSize) = grown * NodeSize
    BY <2>1, SizeOfSmall
  <2>3. array.used + 1 <= grown /\ Size(array.used + 1) = array.used + 1
    BY <1>4, <2>1, SizeOfSmall, StorageAssumption, SMT
    DEF NodeGrow, IsFull, ArrayInv, SizeT
  <2>4. /\ array' = [used |-> array.used + 1, capacity |-> grown]
        /\ bytes' = grown * NodeSize
    BY <1>4, <2>2, <2>3 DEF NodeGrow
  <2> HIDE DEF grown
  <2> QED BY <2>1, <2>3, <2>4, StorageAssumption, SMT DEF ArrayInv, NodesFit, SizeT
<1>5. CASE NodesDestroy
  BY <1>5, StorageAssumption, SMT DEF NodesDestroy, Empty, ArrayInv, NodesFit, SizeT
<1> QED BY <1>1, <1>2, <1>3, <1>4, <1>5 DEF StorageNext

LEMMA MemoryInvHolds == StorageSpec => []MemoryInv
<1>1. MemoryInv /\ [StorageNext]_storageVars => MemoryInv'
  <2> SUFFICES ASSUME MemoryInv, [StorageNext]_storageVars PROVE MemoryInv'
    OBVIOUS
  <2>1. CASE StorageNext
    BY <2>1, BufferStepKeeps, ArrayStepKeeps DEF MemoryInv
  <2>2. CASE UNCHANGED storageVars
    BY <2>2 DEF storageVars, MemoryInv, BufferInv, ArrayInv, BufferHoldsAll, HoldsAll, NodesFit
  <2> QED BY <2>1, <2>2
<1> QED BY MemoryInvBegins, <1>1, PTL DEF StorageSpec

\* Whatever sizes are appended, used is their sum; and unless one of them was
\* larger than BUFSIZ, buffer_append has never written beyond the buffer's
\* memory.  So it is with the words of the bytecode, which have 8 bytes.
THEOREM BufferIsSafe == StorageSpec => []BufferHoldsAll
<1>1. MemoryInv => BufferHoldsAll
  BY DEF MemoryInv, BufferInv
<1> QED BY MemoryInvHolds, <1>1, PTL

\* ast_append_node never writes beyond the block it has allocated.
THEOREM NodesAreSafe == StorageSpec => []NodesFit
<1>1. MemoryInv => NodesFit
  BY DEF MemoryInv, ArrayInv
<1> QED BY MemoryInvHolds, <1>1, PTL
=============================================================================
