------------------------------ MODULE Bytecode ------------------------------
(***************************************************************************)
(* bytecode.c: compiling an AST to the code of a stack machine, listing    *)
(* that code and running it, in the order in which main() does it.         *)
(*                                                                         *)
(* The code is a buffer of 8-byte words: the number of stack cells that    *)
(* bytecode_eval() must allocate, then the instructions, each an opcode    *)
(* and for VAL and VAR an operand.  Word i of the sequence `code' is at    *)
(* byte offset 8 * (i - 1).  Nothing in a word tells an opcode from an     *)
(* operand: both walks over the code rely on the lengths they assume.      *)
(***************************************************************************)
EXTENDS Ast

CONSTANTS
  ArgCount,   \* how many arguments the program has
  Inputs,     \* the ASTs that are compiled
  ArgValues   \* the values of the arguments

ASSUME InputsAssumption ==
  /\ ArgCount \in Nat
  /\ ArgValues \subseteq [1..ArgCount -> Long]
  /\ \A input \in Inputs :
       /\ input \in Seq(NodeRecord) \ {<<>>}
       /\ IsAst(input, ArgCount)
       /\ Acyclic(input)

VARIABLES
  ast,         \* the AST, as optimize() left it
  args,        \* the argument values
  phase,       \* what main() is doing
  frames,      \* the calls of node_compile() in progress, innermost last
  code,        \* bytecode.bytes
  stackSize,   \* bytecode.stack_size
  pc,          \* codeptr of bytecode_print() or bytecode_eval()
  listing,     \* the instructions bytecode_print() has written
  stack,       \* the cells below stackptr in bytecode_eval()
  result       \* what bytecode_eval() returned

vars == <<ast, args, phase, frames, code, stackSize, pc, listing, stack, result>>

CODE_ADD == 0
CODE_SUB == 1
CODE_MUL == 2
CODE_DIV == 3
CODE_INV == 4
CODE_VAL == 5
CODE_VAR == 6
CODE_RET == 7

Opcode(type) ==
  CASE type = "ADD" -> CODE_ADD
    [] type = "SUB" -> CODE_SUB
    [] type = "MUL" -> CODE_MUL
    [] type = "DIV" -> CODE_DIV
    [] type = "INV" -> CODE_INV
    [] type = "INT" -> CODE_VAL
    [] type = "VAR" -> CODE_VAR

\* The node type that the opcode was made from.
TypeOf(op) == CHOOSE type \in NodeTypes : Opcode(type) = op

Larger(a, b) == IF a > b THEN a ELSE b

Frame(at, n, depth) == [at |-> at, node |-> n, depth |-> depth]

Init ==
  /\ ast \in Inputs
  /\ args \in ArgValues
  /\ phase = "start"
  /\ frames = <<>> /\ code = <<>> /\ stackSize = 0
  /\ pc = 0 /\ listing = <<>> /\ stack = <<>> /\ result = 0

-----------------------------------------------------------------------------
(***************************************************************************)
(* bytecode_compile and node_compile                                       *)
(***************************************************************************)
compileVars == <<phase, frames, code, stackSize>>
runVars == <<pc, listing, stack, result>>

Top == frames[Len(frames)]
Callers == SubSeq(frames, 1, Len(frames) - 1)

\* node_compile(n, depth) has got as far as `at'.
Compiling(at) == phase = "compile" /\ frames # <<>> /\ Top.at = at

\* The placeholder for the stack size.
WritePlaceholder ==
  /\ phase = "start"
  /\ code' = <<0>>
  /\ frames' = <<Frame("enter", Root(ast), 0)>>
  /\ phase' = "compile"
  /\ UNCHANGED <<ast, args, stackSize, runVars>>

\* (mutation) A negation is taken for an operator with two operands.
CompileInvAsBinary ==
  /\ Compiling("enter")
  /\ ast[Top.node].type \in BinaryTypes \cup {"INV"}
  /\ frames' = Callers \o <<Frame("right", Top.node, Top.depth),
                           Frame("enter", ast[Top.node].left, Top.depth)>>
  /\ UNCHANGED <<ast, args, phase, code, stackSize, runVars>>

\* An operator: its (left) operand first.
CompileOperand ==
  LET n == Top.node
  IN  /\ Compiling("enter")
      /\ ast[n].type \in BinaryTypes \cup {"INV"}
      /\ frames' = Callers \o
           <<Frame(IF ast[n].type = "INV" THEN "operator" ELSE "right", n, Top.depth),
             Frame("enter", ast[n].left, Top.depth)>>
      /\ UNCHANGED <<ast, args, phase, code, stackSize, runVars>>

\* (mutation) The right operand is thought to start where the left one does.
CompileRightSameDepth ==
  /\ Compiling("right")
  /\ frames' = Callers \o <<Frame("operator", Top.node, Top.depth),
                           Frame("enter", ast[Top.node].right, Top.depth)>>
  /\ UNCHANGED <<ast, args, phase, code, stackSize, runVars>>

\* Then its right operand, on top of the left one.
CompileRight ==
  LET n == Top.node
  IN  /\ Compiling("right")
      /\ frames' = Callers \o
           <<Frame("operator", n, Top.depth), Frame("enter", ast[n].right, Top.depth + 1)>>
      /\ UNCHANGED <<ast, args, phase, code, stackSize, runVars>>

\* What node_compile() writes for node n itself.
Instruction(n) ==
  IF ast[n].type \in {"INT", "VAR"}
  THEN <<Opcode(ast[n].type), ast[n].num>>
  ELSE <<Opcode(ast[n].type)>>

\* node_compile() has nothing left to do for its node but to write.
Writing ==
  \/ Compiling("operator")
  \/ Compiling("enter") /\ ast[Top.node].type \in {"INT", "VAR"}

\* Writes the instruction and returns true.
WriteInstruction ==
  /\ Writing
  /\ code' = code \o Instruction(Top.node)
  /\ stackSize' = Larger(stackSize, Top.depth + 1)
  /\ frames' = Callers
  /\ UNCHANGED <<ast, args, phase, runVars>>

\* The whole tree is written: the final RET, and the stack size goes into
\* the placeholder.
WriteRet ==
  /\ phase = "compile" /\ frames = <<>>
  /\ code' = [code EXCEPT ![1] = stackSize] \o <<CODE_RET>>
  /\ phase' = "print"
  /\ pc' = 2
  /\ UNCHANGED <<ast, args, frames, stackSize, listing, stack, result>>

\* (mutation) The stack size that was worked out so far is returned.
GiveUpSilently == frames' = <<>> /\ phase' = "failed" /\ UNCHANGED stackSize

\* Every call returns false, and a stack size of 0 is all the caller learns.
GiveUp == frames' = <<>> /\ phase' = "failed" /\ stackSize' = 0

\* A buffer_append() that needs memory does not get it.  The words that fitted
\* stay in the buffer.
WriteFails ==
  /\ \/ phase = "start" /\ UNCHANGED code
     \/ /\ Writing
        /\ \E k \in 0..(Len(Instruction(Top.node)) - 1) :
             code' = code \o SubSeq(Instruction(Top.node), 1, k)
     \/ phase = "compile" /\ frames = <<>> /\ UNCHANGED code
  /\ GiveUp
  /\ UNCHANGED <<ast, args, runVars>>

-----------------------------------------------------------------------------
(***************************************************************************)
(* bytecode_print                                                          *)
(***************************************************************************)

\* The instructions after whose opcode bytecode_print() skips a word.
OnlyValHasOperand(op) == op = CODE_VAL   \* (mutation)
HasOperand(op) == op \in {CODE_VAL, CODE_VAR}

\* Lists one instruction.  A word that is no opcode is passed over.
PrintInstruction ==
  /\ phase = "print"
  /\ code[pc] # CODE_RET
  /\ IF HasOperand(code[pc])
     THEN pc' = pc + 2 /\ listing' = Append(listing, <<code[pc], code[pc + 1]>>)
     ELSE pc' = pc + 1 /\ listing' = IF code[pc] \in CODE_ADD..CODE_INV
                                     THEN Append(listing, <<code[pc]>>)
                                     ELSE listing
  /\ UNCHANGED <<ast, args, compileVars, stack, result>>

PrintRet ==
  /\ phase = "print"
  /\ code[pc] = CODE_RET
  /\ listing' = Append(listing, <<CODE_RET>>)
  /\ phase' = "call"
  /\ UNCHANGED <<ast, args, frames, code, stackSize, pc, stack, result>>

-----------------------------------------------------------------------------
(***************************************************************************)
(* bytecode_eval                                                           *)
(***************************************************************************)
Cells == code[1]   \* the cells that malloc() is asked for

\* malloc() of the stack succeeds, or fails and the call returns LONG_MAX.
StartEval ==
  /\ phase = "call"
  /\ phase' = "eval"
  /\ pc' = 2
  /\ UNCHANGED <<ast, args, frames, code, stackSize, listing, stack, result>>

NoStack ==
  /\ phase = "call"
  /\ result' = LONG_MAX
  /\ phase' = "no stack"
  /\ UNCHANGED <<ast, args, frames, code, stackSize, pc, listing, stack>>

At(ops) == phase = "eval" /\ code[pc] \in ops

\* (mutation) The operand is not skipped.
EvalValOneWord ==
  /\ At({CODE_VAL})
  /\ stack' = Append(stack, code[pc + 1])
  /\ pc' = pc + 1
  /\ UNCHANGED <<ast, args, compileVars, listing, result>>

EvalVal ==
  /\ At({CODE_VAL})
  /\ stack' = Append(stack, code[pc + 1])
  /\ pc' = pc + 2
  /\ UNCHANGED <<ast, args, compileVars, listing, result>>

EvalVar ==
  /\ At({CODE_VAR})
  /\ stack' = Append(stack, args[code[pc + 1]])
  /\ pc' = pc + 2
  /\ UNCHANGED <<ast, args, compileVars, listing, result>>

\* (mutation) The code pointer is not advanced.
EvalInvForever ==
  /\ At({CODE_INV})
  /\ stack' = [stack EXCEPT ![Len(stack)] = Negate(@)]
  /\ UNCHANGED <<ast, args, compileVars, pc, listing, result>>

EvalInv ==
  /\ At({CODE_INV})
  /\ stack' = [stack EXCEPT ![Len(stack)] = Negate(@)]
  /\ pc' = pc + 1
  /\ UNCHANGED <<ast, args, compileVars, listing, result>>

\* The current operator, applied to the two cells on top of the stack.
CombinedBackwards ==   \* (mutation)
  LET sp == Len(stack) IN Binary(TypeOf(code[pc]), stack[sp], stack[sp - 1])
Combined ==
  LET sp == Len(stack) IN Binary(TypeOf(code[pc]), stack[sp - 1], stack[sp])

\* Pops the right operand and combines it with the left one in place.
EvalBinary ==
  /\ At(CODE_ADD..CODE_DIV)
  /\ IF Combined = TRAP
     THEN phase' = "trapped" /\ UNCHANGED <<stack, pc>>
     ELSE /\ stack' = Append(SubSeq(stack, 1, Len(stack) - 2), Combined)
          /\ pc' = pc + 1
          /\ UNCHANGED phase
  /\ UNCHANGED <<ast, args, frames, code, stackSize, listing, result>>

EvalRet ==
  /\ At({CODE_RET})
  /\ result' = stack[Len(stack)]
  /\ stack' = SubSeq(stack, 1, Len(stack) - 1)
  /\ phase' = "done"
  /\ UNCHANGED <<ast, args, frames, code, stackSize, pc, listing>>

-----------------------------------------------------------------------------
Ended == phase \in {"done", "trapped", "no stack", "failed"}

Terminated == Ended /\ UNCHANGED vars

Next ==
  \/ WritePlaceholder \/ CompileOperand \/ CompileRight \/ WriteInstruction
  \/ WriteRet \/ WriteFails
  \/ PrintInstruction \/ PrintRet
  \/ StartEval \/ NoStack
  \/ EvalVal \/ EvalVar \/ EvalInv \/ EvalBinary \/ EvalRet
  \/ Terminated

Spec == Init /\ [][Next]_vars

\* The program is a single thread that runs until it is finished.
FairSpec == Spec /\ WF_vars(Next)

-----------------------------------------------------------------------------
(***************************************************************************)
(* Properties                                                              *)
(***************************************************************************)
Phases == {"start", "compile", "print", "call", "eval",
           "done", "trapped", "no stack", "failed"}

TypeOK ==
  /\ ast # <<>> /\ IsAst(ast, ArgCount)
  /\ args \in [1..ArgCount -> Long]
  /\ phase \in Phases
  /\ frames \in Seq([at : {"enter", "right", "operator"}, node : DOMAIN ast, depth : Nat])
  /\ code \in Seq(Int)
  /\ stackSize \in Nat
  /\ pc \in Nat
  /\ stack \in Seq(Long)
  /\ result \in Long

\* bytecode_eval() never writes past the stack it allocates and never pops
\* what it did not push: the size that node_compile() works out from the tree
\* covers every run of the code.
Operands ==   \* the cells the current instruction reads
  CASE code[pc] \in CODE_ADD..CODE_DIV      -> 2
    [] code[pc] \in {CODE_INV, CODE_RET}    -> 1
    [] OTHER                                -> 0

StackSafe ==
  phase = "eval" =>
    /\ Operands <= Len(stack)
    /\ Len(stack) <= Cells
    /\ code[pc] \in {CODE_VAL, CODE_VAR} => Len(stack) < Cells

\* Neither walk over the code leaves it or takes an operand for an opcode.
OnInstruction ==
  phase \in {"print", "eval"} =>
    /\ pc \in 2..Len(code)
    /\ code[pc] \in CODE_ADD..CODE_RET
    /\ code[pc] \in {CODE_VAL, CODE_VAR} => pc + 2 <= Len(code)
    /\ code[pc] = CODE_VAR => code[pc + 1] \in 1..ArgCount

\* The machine returns what ast_eval() returns, and dies where it dies.
RunsTheAst ==
  /\ phase = "done" => result = AstEval(ast, args)
  /\ phase = "trapped" => AstEval(ast, args) = TRAP

\* A stack size of 0 is how callers (main.c:90, test.h:131) recognise a
\* compilation that failed.
FailureIsMarked ==
  /\ phase = "failed" => stackSize = 0
  /\ phase \notin {"start", "compile", "failed"} => stackSize >= 1 /\ Cells = stackSize

\* The listing is the tree in postfix order, so that what is printed is what
\* is run.
PostfixOf(node, at) ==
  CASE node.type \in BinaryTypes -> at[node.left] \o at[node.right] \o <<<<Opcode(node.type)>>>>
    [] node.type = "INV"         -> at[node.left] \o <<<<CODE_INV>>>>
    [] OTHER                     -> <<<<Opcode(node.type), node.num>>>>

Postfix(tree) == LET at[i \in DOMAIN tree] == PostfixOf(tree[i], at) IN at

ListsTheAst ==
  phase = "call" => listing = Append(Postfix(ast)[Root(ast)], <<CODE_RET>>)

Terminates == <>Ended
=============================================================================
