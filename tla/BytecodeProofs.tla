---------------------------- MODULE BytecodeProofs ---------------------------
(***************************************************************************)
(* Proofs about the compiler and the machine.                              *)
(*                                                                         *)
(* The invariant annotates the code.  A marking says for the places in the *)
(* code where an instruction begins of which nodes the values lie on the   *)
(* stack when the machine comes there, and each instruction is that of     *)
(* some node whose operands are the last of these.  The compiler extends   *)
(* the marking with each instruction it writes; both walks over the code   *)
(* step from one marked place to the next.                                 *)
(***************************************************************************)
EXTENDS Bytecode, AstProofs

Nodes == DOMAIN ast
Val == NodeEval(ast, args)

\* A division by zero in this node is one in the program.
Fatal(n) == Val[n] = TRAP => Val[Root(ast)] = TRAP

IsBinary(n) == ast[n].type \in BinaryTypes
IsInv(n)    == ast[n].type = "INV"
IsLeaf(n)   == ast[n].type \in {"INT", "VAR"}

FrameRecord == [at : {"enter", "right", "operator"}, node : Nodes, depth : Nat]

-----------------------------------------------------------------------------
(***************************************************************************)
(* Markings                                                                *)
(***************************************************************************)

\* s ends with the operands of node n.
Ready(n, s) ==
  /\ IsBinary(n) => /\ Len(s) >= 2
                    /\ s[Len(s) - 1] = ast[n].left
                    /\ s[Len(s)] = ast[n].right
  /\ IsInv(n) => Len(s) >= 1 /\ s[Len(s)] = ast[n].left

\* What the instruction of node n makes of s.
After(n, s) ==
  IF IsBinary(n) THEN Append(SubSeq(s, 1, Len(s) - 2), n)
  ELSE IF IsInv(n) THEN [s EXCEPT ![Len(s)] = n]
  ELSE Append(s, n)

Width(n) == IF IsLeaf(n) THEN 2 ELSE 1

\* The instruction at p is that of node n.
InstructionOf(n, p, marks) ==
  /\ p + Width(n) \in DOMAIN marks
  /\ code[p] = Opcode(ast[n].type)
  /\ IsLeaf(n) => code[p + 1] = ast[n].num
  /\ Ready(n, marks[p])
  /\ marks[p + Width(n)] = After(n, marks[p])
  /\ Fatal(n)

\* marks is a marking of the code before end, for a stack of this size.
IsMarking(marks, end, size) ==
  /\ DOMAIN marks \subseteq 2..end
  /\ \A p \in DOMAIN marks : marks[p] \in Seq(Nodes) /\ Len(marks[p]) <= size
  /\ 2 \in DOMAIN marks /\ marks[2] = <<>>
  /\ end \in DOMAIN marks
  /\ \A p \in DOMAIN marks \ {end} : \E n \in Nodes : InstructionOf(n, p, marks)

-----------------------------------------------------------------------------
(***************************************************************************)
(* The calls of node_compile                                               *)
(***************************************************************************)

\* The call f goes on when s is what the code so far leaves on the stack.
Proceeds(f, s) ==
  \/ f.at = "enter" /\ Len(s) = f.depth
  \/ /\ f.at = "right" \/ (f.at = "operator" /\ IsInv(f.node))
     /\ Len(s) = f.depth + 1
     /\ s[f.depth + 1] = ast[f.node].left
  \/ /\ f.at = "operator" /\ IsBinary(f.node)
     /\ Len(s) = f.depth + 2
     /\ s[f.depth + 1] = ast[f.node].left
     /\ s[f.depth + 2] = ast[f.node].right

\* The call f waits for the call for node n, which began at this depth.
Waits(f, n, depth, s) ==
  \/ /\ f.at = "right" \/ (f.at = "operator" /\ IsInv(f.node))
     /\ n = ast[f.node].left /\ depth = f.depth
  \/ /\ f.at = "operator" /\ IsBinary(f.node)
     /\ n = ast[f.node].right /\ depth = f.depth + 1
     /\ depth <= Len(s) /\ s[depth] = ast[f.node].left

CallOK(f) ==
  /\ Fatal(f.node)
  /\ f.at = "right" => IsBinary(f.node)
  /\ f.at = "operator" => IsBinary(f.node) \/ IsInv(f.node)

\* fs are the calls in progress when the code leaves s on the stack.
CallsOK(fs, s) ==
  IF fs = <<>> THEN s = <<Root(ast)>>
  ELSE /\ fs[1].node = Root(ast) /\ fs[1].depth = 0
       /\ \A k \in 1..Len(fs) : CallOK(fs[k])
       /\ \A j, k \in 1..Len(fs) : j <= k => fs[j].depth <= fs[k].depth
       /\ \A k \in 1..(Len(fs) - 1) : Waits(fs[k], fs[k + 1].node, fs[k + 1].depth, s)
       /\ Proceeds(fs[Len(fs)], s)

-----------------------------------------------------------------------------
(***************************************************************************)
(* The invariant                                                           *)
(***************************************************************************)

\* The machine's stack holds the values of the nodes in s.
Holds(cells, s) ==
  Len(cells) = Len(s) /\ \A k \in 1..Len(s) : cells[k] = Val[s[k]]

Types ==
  /\ ast \in Inputs /\ args \in ArgValues
  /\ phase \in Phases
  /\ frames \in Seq(FrameRecord)
  /\ code \in Seq(Int)
  /\ stackSize \in Nat
  /\ pc \in Nat
  /\ stack \in Seq(Long)
  /\ result \in Long

Compiles ==
  phase = "compile" =>
    /\ Len(code) >= 1
    /\ \E marks :
         IsMarking(marks, Len(code) + 1, stackSize) /\ CallsOK(frames, marks[Len(code) + 1])

Finished == phase \notin {"start", "compile", "failed"}

\* The whole code is marked, up to its RET.
IsWhole(marks) ==
  /\ IsMarking(marks, Len(code), stackSize)
  /\ code[Len(code)] = CODE_RET
  /\ marks[Len(code)] = <<Root(ast)>>

Runs ==
  Finished =>
    /\ Len(code) >= 2 /\ code[1] = stackSize
    /\ \E marks :
         /\ IsWhole(marks)
         /\ phase \in {"print", "eval"} => pc \in DOMAIN marks
         /\ phase = "eval" => Holds(stack, marks[pc])

Results ==
  /\ phase \in {"start", "compile", "print", "call"} => stack = <<>>
  /\ phase = "failed" => stackSize = 0
  /\ phase = "done" => result = Val[Root(ast)]
  /\ phase = "trapped" => Val[Root(ast)] = TRAP

IInv == Types /\ Compiles /\ Runs /\ Results

-----------------------------------------------------------------------------
(***************************************************************************)
(* Facts about the nodes                                                   *)
(***************************************************************************)
LEMMA AstIs ==
  ASSUME Types
  PROVE  /\ ast \in Seq(NodeRecord) /\ IsAst(ast, ArgCount) /\ Acyclic(ast)
         /\ args \in [1..ArgCount -> Long]
         /\ Len(ast) \in Nat /\ Nodes = 1..Len(ast)
         /\ Root(ast) \in Nodes
<1>1. ast \in Seq(NodeRecord) /\ ast # <<>> /\ IsAst(ast, ArgCount) /\ Acyclic(ast)
  BY InputsAssumption DEF Types
<1>2. args \in [1..ArgCount -> Long]
  BY InputsAssumption DEF Types
<1>. QED
  BY <1>1, <1>2 DEF Nodes, Root

LEMMA ValIs ==
  ASSUME Types
  PROVE  /\ Val \in [Nodes -> Value]
         /\ \A n \in Nodes : Val[n] = NodeValue(ast[n], args, Val)
BY AstIs, NodeEvalIs DEF Val, Nodes

\* The kinds of nodes, their instructions and their values.
LEMMA NodeKinds ==
  ASSUME Types, NEW n \in Nodes
  PROVE  /\ IsBinary(n) \/ IsInv(n) \/ IsLeaf(n)
         /\ IsBinary(n) => /\ ~IsInv(n) /\ ~IsLeaf(n)
                           /\ ast[n].left \in Nodes /\ ast[n].right \in Nodes
                           /\ Val[n] = StrictBinary(ast[n].type, Val[ast[n].left], Val[ast[n].right])
         /\ IsInv(n) => /\ ~IsLeaf(n)
                        /\ ast[n].left \in Nodes
                        /\ Val[n] = StrictNegate(Val[ast[n].left])
         /\ IsLeaf(n) => /\ ast[n].type = "INT" => ast[n].num \in Long /\ Val[n] = ast[n].num
                         /\ ast[n].type = "VAR" => /\ ast[n].num \in 1..ArgCount
                                                   /\ Val[n] = args[ast[n].num]
<1>1. IsNode(ast[n], Len(ast), ArgCount) /\ Nodes = 1..Len(ast)
  BY AstIs DEF IsAst, Nodes
<1>2. Val[n] = NodeValue(ast[n], args, Val)
  BY ValIs
<1>. QED
  BY <1>1, <1>2, NodeIs
  DEF IsBinary, IsInv, IsLeaf, NodeValue, NodeTypes, BinaryTypes, AddSub, MulDiv

LEMMA OpcodeIs ==
  /\ Opcode("ADD") = 0 /\ Opcode("SUB") = 1 /\ Opcode("MUL") = 2 /\ Opcode("DIV") = 3
  /\ Opcode("INV") = 4 /\ Opcode("INT") = 5 /\ Opcode("VAR") = 6
  /\ CODE_ADD = 0 /\ CODE_DIV = 3 /\ CODE_INV = 4 /\ CODE_VAL = 5 /\ CODE_VAR = 6 /\ CODE_RET = 7
  /\ \A t \in NodeTypes : TypeOf(Opcode(t)) = t
<1>1. \A t, u \in NodeTypes : Opcode(t) = Opcode(u) => t = u
  BY DEF Opcode, NodeTypes, BinaryTypes, AddSub, MulDiv, CODE_ADD, CODE_SUB, CODE_MUL, CODE_DIV,
         CODE_INV, CODE_VAL, CODE_VAR
<1>2. \A t \in NodeTypes : TypeOf(Opcode(t)) = t
  BY <1>1 DEF TypeOf
<1>. QED
  BY <1>2
  DEF Opcode, CODE_ADD, CODE_SUB, CODE_MUL, CODE_DIV, CODE_INV, CODE_VAL, CODE_VAR, CODE_RET

LEMMA Opcodes ==
  ASSUME Types, NEW n \in Nodes
  PROVE  /\ Opcode(ast[n].type) \in 0..6
         /\ IsBinary(n) <=> Opcode(ast[n].type) \in 0..3
         /\ TypeOf(Opcode(ast[n].type)) = ast[n].type
         /\ IsInv(n) <=> Opcode(ast[n].type) = 4
         /\ IsLeaf(n) <=> Opcode(ast[n].type) \in {5, 6}
         /\ (ast[n].type = "INT") <=> (Opcode(ast[n].type) = 5)
         /\ (ast[n].type = "VAR") <=> (Opcode(ast[n].type) = 6)
<1>1. ast[n].type \in NodeTypes
  BY AstIs, ChildrenAreNodes DEF Nodes
<1>. QED
  BY <1>1, OpcodeIs DEF NodeTypes, BinaryTypes, AddSub, MulDiv, IsBinary, IsInv, IsLeaf

\* The instruction of node n takes its operands off the stack and leaves n.
LEMMA AfterIs ==
  ASSUME Types, NEW n \in Nodes, NEW s \in Seq(Nodes), Ready(n, s)
  PROVE  /\ After(n, s) \in Seq(Nodes)
         /\ Len(After(n, s)) = Len(s) + (IF IsBinary(n) THEN -1 ELSE IF IsInv(n) THEN 0 ELSE 1)
         /\ Len(After(n, s)) >= 1
         /\ After(n, s)[Len(After(n, s))] = n
         /\ \A k \in 1..(Len(After(n, s)) - 1) : After(n, s)[k] = s[k]
<1>1. CASE IsBinary(n)
  <2>1. Len(s) - 2 \in 0..Len(s)
    BY <1>1 DEF Ready
  <2> DEFINE f == SubSeq(s, 1, Len(s) - 2)
  <2>2. f \in Seq(Nodes) /\ Len(f) = Len(s) - 2 /\ \A k \in 1..(Len(s) - 2) : f[k] = s[k]
    BY <2>1, FrontIs
  <2>3. After(n, s) = Append(f, n)
    BY <1>1 DEF After
  <2> HIDE DEF f
  <2>4. /\ Len(Append(f, n)) = Len(f) + 1 /\ Append(f, n)[Len(f) + 1] = n
        /\ \A k \in 1..Len(f) : Append(f, n)[k] = f[k]
        /\ Append(f, n) \in Seq(Nodes)
    BY <2>2, LastIs
  <2>. QED
    BY <1>1, <2>1, <2>2, <2>3, <2>4
<1>2. CASE IsInv(n)
  <2>1. Len(s) >= 1 /\ ~IsBinary(n)
    BY <1>2, NodeKinds DEF Ready
  <2>2. After(n, s) = [s EXCEPT ![Len(s)] = n]
    BY <1>2, <2>1 DEF After
  <2>. QED
    BY <1>2, <2>1, <2>2
<1>3. CASE IsLeaf(n)
  <2>1. After(n, s) = Append(s, n) /\ ~IsBinary(n) /\ ~IsInv(n)
    BY <1>3, NodeKinds DEF After
  <2>2. Append(s, n) \in Seq(Nodes)
    OBVIOUS
  <2>. QED
    BY <2>1, <2>2, LastIs
<1>. QED
  BY <1>1, <1>2, <1>3, NodeKinds

LEMMA SameNode ==
  ASSUME ast' = ast, args' = args, NEW n, NEW s
  PROVE  /\ (Fatal(n)' <=> Fatal(n)) /\ (IsLeaf(n)' <=> IsLeaf(n)) /\ Width(n)' = Width(n)
         /\ (IsBinary(n)' <=> IsBinary(n)) /\ (IsInv(n)' <=> IsInv(n))
         /\ (Ready(n, s)' <=> Ready(n, s)) /\ After(n, s)' = After(n, s)
         /\ Nodes' = Nodes /\ Val' = Val /\ Root(ast)' = Root(ast)
BY DEF Fatal, Val, Width, IsLeaf, Ready, After, IsBinary, IsInv, Nodes

\* An instruction stays what it is when words are written behind it.
LEMMA KeptInstruction ==
  ASSUME Types, ast' = ast, args' = args, NEW n \in Nodes,
         NEW end, end <= Len(code) + 1, end \in Nat,
         NEW marks, DOMAIN marks \subseteq 2..end, NEW p \in DOMAIN marks,
         InstructionOf(n, p, marks),
         NEW more, DOMAIN marks \subseteq DOMAIN more,
         \A q \in DOMAIN marks : more[q] = marks[q],
         \A q \in 2..Len(code) : code'[q] = code[q]
  PROVE  InstructionOf(n, p, more)'
<1>1. Width(n) \in {1, 2} /\ (IsLeaf(n) => Width(n) = 2)
  BY DEF Width
<1>2. p + Width(n) \in DOMAIN marks /\ p + Width(n) \in 2..end /\ p \in 2..end
  BY DEF InstructionOf
<1>3. Len(code) \in Nat
  BY DEF Types
<1>4. code'[p] = code[p] /\ (IsLeaf(n) => code'[p + 1] = code[p + 1])
  <2>1. p \in 2..Len(code) /\ (IsLeaf(n) => p + 1 \in 2..Len(code))
    BY <1>1, <1>2, <1>3
  <2>. QED
    BY <2>1
<1>5. /\ (Fatal(n)' <=> Fatal(n)) /\ Width(n)' = Width(n) /\ (IsLeaf(n)' <=> IsLeaf(n))
      /\ Ready(n, marks[p])' <=> Ready(n, marks[p])
      /\ After(n, marks[p])' = After(n, marks[p])
  BY SameNode
<1>6. more[p] = marks[p] /\ more[p + Width(n)] = marks[p + Width(n)] /\ p + Width(n) \in DOMAIN more
  BY <1>2
<1>. QED
  BY <1>4, <1>5, <1>6 DEF InstructionOf

LEMMA KeptMarking ==
  ASSUME Types, ast' = ast, args' = args,
         NEW end \in Nat, end <= Len(code) + 1,
         NEW size \in Nat, NEW marks, IsMarking(marks, end, size),
         \A q \in 2..Len(code) : code'[q] = code[q],
         NEW more \in Nat, size <= more
  PROVE  IsMarking(marks, end, more)'
<1>1. \A p \in DOMAIN marks : marks[p] \in Seq(Nodes) /\ Len(marks[p]) <= more
  BY DEF IsMarking
<1>2. ASSUME NEW p \in DOMAIN marks \ {end}
      PROVE  \E n \in Nodes : InstructionOf(n, p, marks)'
  <2>1. PICK n \in Nodes : InstructionOf(n, p, marks)
    BY DEF IsMarking
  <2>2. DOMAIN marks \subseteq 2..end
    BY DEF IsMarking
  <2>3. InstructionOf(n, p, marks)'
    BY <2>1, <2>2, KeptInstruction
  <2>. QED
    BY <2>3
<1>3. Nodes' = Nodes
  BY DEF Nodes
<1>. QED
  BY <1>1, <1>2, <1>3 DEF IsMarking

LEMMA WidthIs == \A n : Width(n) \in {1, 2} /\ (IsLeaf(n) => Width(n) = 2)
<1>. QED
  BY DEF Width

\* The instruction of a node that finds its operands extends the marking.
LEMMA LongerMarking ==
  ASSUME Types, ast' = ast, args' = args,
         NEW size \in Nat, NEW marks, IsMarking(marks, Len(code) + 1, size),
         NEW n \in Nodes, Fatal(n), Ready(n, marks[Len(code) + 1]),
         code' = code \o Instruction(n),
         NEW more \in Nat, size <= more, Len(After(n, marks[Len(code) + 1])) <= more
  PROVE  \E longer : /\ IsMarking(longer, Len(code) + 1, more)'
                     /\ longer[Len(code') + 1] = After(n, marks[Len(code) + 1])
<1> DEFINE end == Len(code) + 1
           top == After(n, marks[end])
           new == end + Width(n)
<1>1. end \in Nat /\ end >= 1 /\ DOMAIN marks \subseteq 2..end /\ end \in DOMAIN marks
  <2>1. Len(code) \in Nat
    BY SeqIs DEF Types
  <2>2. DOMAIN marks \subseteq 2..end /\ end \in DOMAIN marks
    BY DEF IsMarking
  <2>. QED
    BY <2>1, <2>2
<1>2. Width(n) \in {1, 2} /\ (IsLeaf(n) => Width(n) = 2)
  BY WidthIs
<1>3. /\ Len(code') = Len(code) + Width(n) /\ Len(code') + 1 = new
      /\ \A q \in 1..Len(code) : code'[q] = code[q]
      /\ code'[end] = Opcode(ast[n].type)
      /\ IsLeaf(n) => code'[end + 1] = ast[n].num
  <2>1. code \in Seq(Int)
    BY DEF Types
  <2>2. CASE IsLeaf(n)
    BY <2>1, <2>2 DEF Instruction, Width, IsLeaf
  <2>3. CASE ~IsLeaf(n)
    BY <2>1, <2>3 DEF Instruction, Width, IsLeaf
  <2>. QED
    BY <2>2, <2>3
<1>4. \E f : /\ DOMAIN f = DOMAIN marks \cup {new} /\ f[new] = top
             /\ \A p \in DOMAIN marks : f[p] = marks[p]
  <2> DEFINE f == [p \in DOMAIN marks \cup {new} |-> IF p = new THEN top ELSE marks[p]]
  <2>1. /\ DOMAIN f = DOMAIN marks \cup {new} /\ f[new] = top
        /\ \A p \in DOMAIN marks : f[p] = marks[p]
    BY <1>1, <1>2
  <2>. QED
    BY <2>1
<1>5. marks[end] \in Seq(Nodes) /\ top \in Seq(Nodes)
  BY <1>1, AfterIs DEF IsMarking
<1>6. PICK longer : /\ DOMAIN longer = DOMAIN marks \cup {new} /\ longer[new] = top
                    /\ \A p \in DOMAIN marks : longer[p] = marks[p]
  BY <1>4
<1>7. \A p \in DOMAIN longer : longer[p] \in Seq(Nodes) /\ Len(longer[p]) <= more
  BY <1>5, <1>6 DEF IsMarking
<1>8. ASSUME NEW p \in DOMAIN longer \ {new}
      PROVE  \E m \in Nodes : InstructionOf(m, p, longer)'
  <2>1. CASE p = end
    <3>1. longer[p] = marks[p] /\ marks[p] = marks[Len(code) + 1] /\ p + Width(n) = new
      BY <1>1, <1>6, <2>1
    <3>2. Width(n)' = Width(n)
      BY SameNode
    <3>3. (p + Width(n) \in DOMAIN longer)'
      BY <1>6, <3>1, <3>2
    <3>4. (code[p] = Opcode(ast[n].type) /\ (IsLeaf(n) => code[p + 1] = ast[n].num))'
      BY <1>3, <2>1 DEF IsLeaf
    <3>5. Ready(n, longer[p])' /\ Fatal(n)'
      BY <3>1, SameNode
    <3>6. longer[p + Width(n)]' = After(n, longer[p])'
      BY <1>6, <3>1, <3>2, SameNode
    <3>7. InstructionOf(n, p, longer)'
      BY <3>3, <3>4, <3>5, <3>6 DEF InstructionOf
    <3>. QED
      BY <3>7
  <2>2. CASE p # end
    <3>1. p \in DOMAIN marks \ {Len(code) + 1}
      BY <1>6, <2>2
    <3>2. PICK m \in Nodes : InstructionOf(m, p, marks)
      BY <3>1 DEF IsMarking
    <3>3. \A q \in 2..Len(code) : code'[q] = code[q]
      BY <1>1, <1>3
    <3>4. DOMAIN marks \subseteq DOMAIN longer
      BY <1>6
    <3>5. InstructionOf(m, p, longer)'
      <4> HIDE DEF end
      <4>1. end \in Nat /\ end <= Len(code) + 1
        BY <1>1 DEF end
      <4>. QED
        BY <1>1, <1>6, <3>1, <3>2, <3>3, <3>4, <4>1, KeptInstruction
    <3>. QED
      BY <3>5
  <2>. QED
    BY <2>1, <2>2
<1>9. IsMarking(longer, Len(code) + 1, more)'
  <2>1. Nodes' = Nodes
    BY SameNode
  <2>2. DOMAIN longer \subseteq 2..new /\ 2 \in DOMAIN longer /\ longer[2] = <<>> /\ new \in DOMAIN longer
    BY <1>1, <1>2, <1>6 DEF IsMarking
  <2>3. (\A p \in DOMAIN longer \ {Len(code) + 1} : \E m \in Nodes : InstructionOf(m, p, longer))'
    BY <1>3, <1>8, <2>1
  <2>. QED
    BY <1>3, <1>7, <2>1, <2>2, <2>3 DEF IsMarking
<1>. QED
  BY <1>3, <1>6, <1>9

-----------------------------------------------------------------------------
(***************************************************************************)
(* Calls and returns                                                       *)
(***************************************************************************)

\* A division by zero in a child is one in its parent.
LEMMA ChildIsFatal ==
  ASSUME Types, NEW n \in Nodes, Fatal(n)
  PROVE  /\ IsBinary(n) => Fatal(ast[n].left) /\ Fatal(ast[n].right)
         /\ IsInv(n) => Fatal(ast[n].left)
BY NodeKinds DEF Fatal, StrictBinary, StrictNegate

LEMMA FramesAre ==
  ASSUME NEW fs \in Seq(FrameRecord)
  PROVE  \A k \in 1..Len(fs) : fs[k].node \in Nodes /\ fs[k].depth \in Nat
<1>1. \A k \in 1..Len(fs) : fs[k] \in FrameRecord
  BY SeqIs
<1>. QED
  BY <1>1 DEF FrameRecord

\* What becomes of the calls fs when the last one is replaced by two.
Pushed(new, fs, two) ==
  /\ new \in Seq(FrameRecord) /\ Len(new) = Len(fs) + 1
  /\ new[Len(fs)] = two[1] /\ new[Len(fs) + 1] = two[2]
  /\ \A k \in 1..(Len(fs) - 1) : new[k] = fs[k]

LEMMA PushedAre ==
  ASSUME NEW fs \in Seq(FrameRecord), fs # <<>>,
         NEW two \in Seq(FrameRecord), Len(two) = 2
  PROVE  Pushed(SubSeq(fs, 1, Len(fs) - 1) \o two, fs, two)
<1> DEFINE pushed == SubSeq(fs, 1, Len(fs) - 1) \o two
<1>1. pushed \in Seq(FrameRecord) /\ Len(pushed) = Len(fs) + 1
  BY PushIs
<1>2. pushed[Len(fs)] = two[1]
  BY PushIs
<1>3. pushed[Len(fs) + 1] = two[2]
  BY PushIs
<1>4. \A k \in 1..(Len(fs) - 1) : pushed[k] = fs[k]
  BY PushIs
<1> HIDE DEF pushed
<1>5. Pushed(pushed, fs, two)
  BY <1>1, <1>2, <1>3, <1>4 DEF Pushed
<1>. QED
  BY <1>5 DEF pushed

\* The last call makes a call of its own.
LEMMA CallsPushed ==
  ASSUME Types, NEW fs \in Seq(FrameRecord), fs # <<>>, NEW s, CallsOK(fs, s),
         NEW g \in FrameRecord, NEW h \in FrameRecord,
         g.node = fs[Len(fs)].node, g.depth = fs[Len(fs)].depth, g.depth <= h.depth,
         CallOK(g), CallOK(h), Waits(g, h.node, h.depth, s), Proceeds(h, s)
  PROVE  /\ SubSeq(fs, 1, Len(fs) - 1) \o <<g, h>> \in Seq(FrameRecord)
         /\ CallsOK(SubSeq(fs, 1, Len(fs) - 1) \o <<g, h>>, s)
<1> DEFINE m == Len(fs)
<1>0. PICK new : new = SubSeq(fs, 1, m - 1) \o <<g, h>>
  OBVIOUS
<1>1. /\ new \in Seq(FrameRecord) /\ Len(new) = m + 1
      /\ new[m] = g /\ new[m + 1] = h
      /\ \A k \in 1..(m - 1) : new[k] = fs[k]
  <2>1. PICK two : two = <<g, h>>
    OBVIOUS
  <2>2. two \in Seq(FrameRecord) /\ Len(two) = 2 /\ two[1] = g /\ two[2] = h
    BY <2>1
  <2>3. new = SubSeq(fs, 1, Len(fs) - 1) \o two
    BY <1>0, <2>1
  <2>4. Pushed(SubSeq(fs, 1, Len(fs) - 1) \o two, fs, two)
    BY <2>2, PushedAre, Zenon
  <2>5. Pushed(new, fs, two)
    BY <2>3, <2>4
  <2>. QED
    BY <2>2, <2>5 DEF Pushed
<1>2. m \in Nat /\ m >= 1 /\ new # <<>>
  <2>1. m \in Nat /\ m # 0
    BY SeqIs
  <2>2. Len(new) # 0
    BY <1>1, <2>1
  <2>. QED
    BY <1>1, <2>1, <2>2, SeqIs
<1>3. /\ fs[1].node = Root(ast) /\ fs[1].depth = 0
      /\ \A k \in 1..m : CallOK(fs[k])
      /\ \A j, k \in 1..m : j <= k => fs[j].depth <= fs[k].depth
      /\ \A k \in 1..(m - 1) : Waits(fs[k], fs[k + 1].node, fs[k + 1].depth, s)
  BY DEF CallsOK
<1>4. \A k \in 1..m : /\ new[k].node = fs[k].node /\ new[k].depth = fs[k].depth
                      /\ CallOK(new[k])
  BY <1>1, <1>3
<1> HIDE DEF m
<1>5. \A k \in 1..(m + 1) : k \in 1..m \/ k = m + 1
  BY <1>2
<1>6. \A k \in 1..(m + 1) : CallOK(new[k])
  BY <1>1, <1>4, <1>5
<1>7. \A j, k \in 1..(m + 1) : j <= k => new[j].depth <= new[k].depth
  <2>1. \A k \in 1..m : fs[k].depth \in Nat
    BY FramesAre DEF m
  <2>2. g.depth \in Nat /\ h.depth \in Nat /\ m \in 1..m
    BY <1>2 DEF FrameRecord
  <2>3. \A k \in 1..m : fs[k].depth <= h.depth
    <3>1. SUFFICES ASSUME NEW k \in 1..m
                   PROVE  fs[k].depth <= h.depth
      OBVIOUS
    <3>2. k <= m /\ fs[k].depth <= fs[m].depth
      BY <1>2, <1>3
    <3>3. fs[m].depth = g.depth
      BY DEF m
    <3>. QED
      BY <2>1, <2>2, <3>2, <3>3
  <2>4. SUFFICES ASSUME NEW j \in 1..(m + 1), NEW k \in 1..(m + 1), j <= k
                 PROVE  new[j].depth <= new[k].depth
    OBVIOUS
  <2>5. CASE k \in 1..m
    BY <1>2, <1>3, <1>4, <2>4, <2>5
  <2>6. CASE k = m + 1
    BY <1>1, <1>4, <1>5, <2>2, <2>3, <2>6
  <2>. QED
    BY <1>5, <2>5, <2>6
<1>8. \A k \in 1..m : Waits(new[k], new[k + 1].node, new[k + 1].depth, s)
  <2>1. SUFFICES ASSUME NEW k \in 1..m
                 PROVE  Waits(new[k], new[k + 1].node, new[k + 1].depth, s)
    OBVIOUS
  <2>2. CASE k = m
    BY <1>1, <2>2
  <2>3. CASE k # m
    <3>1. k \in 1..(m - 1) /\ k + 1 \in 1..m
      BY <1>2, <2>3
    <3>2. new[k] = fs[k] /\ new[k + 1].node = fs[k + 1].node /\ new[k + 1].depth = fs[k + 1].depth
      BY <1>1, <1>4, <3>1
    <3>. QED
      BY <1>3, <3>1, <3>2
  <2>. QED
    BY <2>2, <2>3
<1>9. new[1].node = Root(ast) /\ new[1].depth = 0
  BY <1>2, <1>3, <1>4
<1>10. CallsOK(new, s)
  BY <1>1, <1>2, <1>6, <1>7, <1>8, <1>9 DEF CallsOK
<1>. QED
  BY <1>0, <1>1, <1>10 DEF m

\* The last call returns: it leaves its node on the stack.
LEMMA CallsReturned ==
  ASSUME Types, NEW fs \in Seq(FrameRecord), fs # <<>>, NEW s \in Seq(Nodes), CallsOK(fs, s),
         NEW t \in Seq(Nodes), fs[Len(fs)].depth <= Len(s),
         Len(t) = fs[Len(fs)].depth + 1, t[fs[Len(fs)].depth + 1] = fs[Len(fs)].node,
         \A k \in 1..fs[Len(fs)].depth : t[k] = s[k]
  PROVE  /\ SubSeq(fs, 1, Len(fs) - 1) \in Seq(FrameRecord)
         /\ CallsOK(SubSeq(fs, 1, Len(fs) - 1), t)
<1> DEFINE m == Len(fs)
           f == fs[m]
<1>1. m \in Nat /\ m >= 1 /\ m - 1 \in 0..Len(fs)
  <2>1. m \in Nat /\ m # 0
    BY SeqIs
  <2>. QED
    BY <2>1
<1>0. PICK new : new = SubSeq(fs, 1, m - 1)
  OBVIOUS
<1>2. /\ new \in Seq(FrameRecord) /\ Len(new) = m - 1
      /\ \A k \in 1..(m - 1) : new[k] = fs[k]
  BY <1>0, <1>1, FrontIs
<1>3. /\ fs[1].node = Root(ast) /\ fs[1].depth = 0
      /\ \A k \in 1..m : CallOK(fs[k])
      /\ \A j, k \in 1..m : j <= k => fs[j].depth <= fs[k].depth
      /\ \A k \in 1..(m - 1) : Waits(fs[k], fs[k + 1].node, fs[k + 1].depth, s)
  BY DEF CallsOK
<1>4. /\ f.depth \in Nat /\ f.depth <= Len(s)
      /\ Len(t) = f.depth + 1 /\ t[f.depth + 1] = f.node
      /\ \A k \in 1..f.depth : t[k] = s[k]
      /\ \A k \in 1..m : fs[k].depth \in Nat
      /\ Len(s) \in Nat /\ Len(t) \in Nat
  <2>1. \A k \in 1..m : fs[k].depth \in Nat
    BY FramesAre
  <2>2. Len(s) \in Nat /\ Len(t) \in Nat
    BY SeqIs
  <2>. QED
    BY <1>1, <2>1, <2>2
<1>5. CASE m = 1
  <2>1. Len(t) = 1 /\ t[1] = Root(ast)
    BY <1>3, <1>4, <1>5
  <2>2. t = <<Root(ast)>>
    BY <2>1
  <2>3. new = <<>>
    BY <1>2, <1>5
  <2>. QED
    BY <1>0, <1>2, <2>2, <2>3 DEF CallsOK
<1>6. CASE m # 1
  <2> DEFINE e == m - 1
  <2>1. e \in Nat /\ e >= 1 /\ Len(new) = e /\ e + 1 = m /\ new # <<>>
    BY <1>1, <1>2, <1>6
  <2> HIDE DEF f, m, e
  <2>2. \A k \in 1..e : new[k] = fs[k] /\ k \in 1..m /\ k + 1 \in 1..m
    BY <1>2, <2>1 DEF e
  <2>3. f = fs[e + 1]
    BY <2>1 DEF f
  <2>4. Proceeds(new[e], t)
    <3>1. Waits(fs[e], f.node, f.depth, s) /\ new[e] = fs[e] /\ fs[e].depth \in Nat
      <4>1. e \in 1..(m - 1) /\ e \in 1..e /\ e \in 1..m
        BY <2>1, <2>2 DEF e
      <4>2. Waits(fs[e], fs[e + 1].node, fs[e + 1].depth, s)
        BY <1>3, <4>1
      <4>. QED
        BY <1>4, <2>2, <2>3, <4>1, <4>2
    <3>2. f.depth \in Nat /\ Len(t) = f.depth + 1 /\ t[f.depth + 1] = f.node
      BY <1>4
    <3>3. CASE /\ fs[e].at = "right" \/ (fs[e].at = "operator" /\ IsInv(fs[e].node))
               /\ f.node = ast[fs[e].node].left /\ f.depth = fs[e].depth
      BY <3>1, <3>2, <3>3 DEF Proceeds
    <3>4. CASE /\ fs[e].at = "operator" /\ IsBinary(fs[e].node)
               /\ f.node = ast[fs[e].node].right /\ f.depth = fs[e].depth + 1
               /\ s[f.depth] = ast[fs[e].node].left
      <4>1. f.depth \in 1..f.depth
        <5>1. f.depth >= 1
          BY <3>1, <3>4
        <5>. QED
          BY <3>2, <5>1
      <4>2. t[f.depth] = s[f.depth]
        BY <1>4, <4>1
      <4>3. f.depth + 1 = fs[e].depth + 2
        BY <3>1, <3>4
      <4>. QED
        BY <3>1, <3>2, <3>4, <4>2, <4>3 DEF Proceeds
    <3>. QED
      BY <3>1, <3>3, <3>4 DEF Waits
  <2>5. ASSUME NEW k \in 1..(e - 1)
        PROVE  Waits(new[k], new[k + 1].node, new[k + 1].depth, t)
    <3>1. new[k] = fs[k] /\ new[k + 1] = fs[k + 1]
      <4>1. k \in 1..e /\ k + 1 \in 1..e
        BY <2>1
      <4>. QED
        BY <2>2, <4>1
    <3>2. k \in 1..m /\ k + 1 \in 1..m /\ k \in 1..(m - 1) /\ k + 1 <= m /\ m \in 1..m
      BY <1>1, <2>1
    <3>3. Waits(fs[k], fs[k + 1].node, fs[k + 1].depth, s)
      BY <1>3, <3>2
    <3>4. fs[k].depth \in Nat /\ fs[k + 1].depth \in Nat /\ fs[k + 1].depth <= f.depth
      BY <1>3, <1>4, <3>2 DEF f
    <3>5. /\ fs[k + 1].depth = fs[k].depth + 1 => fs[k + 1].depth \in 1..f.depth
          /\ fs[k + 1].depth <= Len(t)
      <4>1. f.depth \in Nat /\ Len(t) = f.depth + 1
        BY <1>4
      <4>2. \A c, d, b, n \in Nat :
              c <= b /\ n = b + 1 => (c = d + 1 => c \in 1..b) /\ c <= n
        OBVIOUS
      <4>. QED
        BY <3>4, <4>1, <4>2, <1>4
    <3>6. Waits(fs[k], fs[k + 1].node, fs[k + 1].depth, t)
      BY <1>4, <3>3, <3>5 DEF Waits
    <3>. QED
      BY <3>1, <3>6
  <2>6. /\ new[1].node = Root(ast) /\ new[1].depth = 0
        /\ \A k \in 1..e : CallOK(new[k])
        /\ \A j, k \in 1..e : j <= k => new[j].depth <= new[k].depth
    <3>1. 1 \in 1..e
      BY <2>1
    <3>2. \A j, k \in 1..e : j <= k => new[j].depth <= new[k].depth
      BY <1>3, <2>2
    <3>. QED
      BY <1>3, <2>2, <3>1, <3>2
  <2>7. CallsOK(new, t)
    BY <2>1, <2>4, <2>5, <2>6 DEF CallsOK
  <2>. QED
    BY <1>0, <1>2, <2>7 DEF m
<1>. QED
  BY <1>5, <1>6

\* A call that writes its instruction finds the operands and leaves its node.
LEMMA CallWrites ==
  ASSUME Types, NEW f \in FrameRecord, NEW s \in Seq(Nodes), CallOK(f), Proceeds(f, s),
         f.at = "operator" \/ (f.at = "enter" /\ IsLeaf(f.node))
  PROVE  /\ Ready(f.node, s) /\ f.depth <= Len(s)
         /\ After(f.node, s) \in Seq(Nodes)
         /\ Len(After(f.node, s)) = f.depth + 1
         /\ After(f.node, s)[f.depth + 1] = f.node
         /\ \A k \in 1..f.depth : After(f.node, s)[k] = s[k]
<1>1. f.node \in Nodes /\ f.depth \in Nat /\ Len(s) \in Nat
  BY DEF FrameRecord
<1>2. \/ IsBinary(f.node) /\ ~IsInv(f.node) /\ ~IsLeaf(f.node)
      \/ IsInv(f.node) /\ ~IsBinary(f.node) /\ ~IsLeaf(f.node)
      \/ IsLeaf(f.node) /\ ~IsBinary(f.node) /\ ~IsInv(f.node)
  BY <1>1, NodeKinds
<1>3. /\ Ready(f.node, s) /\ f.depth <= Len(s)
      /\ Len(s) + (IF IsBinary(f.node) THEN -1 ELSE IF IsInv(f.node) THEN 0 ELSE 1) = f.depth + 1
  BY <1>1, <1>2 DEF Proceeds, Ready, CallOK
<1>4. /\ After(f.node, s) \in Seq(Nodes)
      /\ Len(After(f.node, s)) = f.depth + 1
      /\ After(f.node, s)[Len(After(f.node, s))] = f.node
      /\ \A k \in 1..(Len(After(f.node, s)) - 1) : After(f.node, s)[k] = s[k]
  BY <1>1, <1>3, AfterIs
<1>. QED
  BY <1>1, <1>3, <1>4

-----------------------------------------------------------------------------
(***************************************************************************)
(* The steps of the compiler                                               *)
(***************************************************************************)
Fixed == ast' = ast /\ args' = args

LEMMA SameCalls ==
  ASSUME Fixed, NEW fs, NEW s
  PROVE  CallsOK(fs, s)' <=> CallsOK(fs, s)
BY DEF Fixed, CallsOK, CallOK, Waits, Proceeds, Fatal, Val, IsBinary, IsInv

LEMMA SameFrames == Fixed => FrameRecord' = FrameRecord
BY DEF Fixed, FrameRecord, Nodes

LEMMA InitIsIInv == Init => IInv
<1>1. 0 \in Long /\ 0 \in Nat
  BY LongIs
<1>2. SUFFICES ASSUME Init
               PROVE  IInv
  OBVIOUS
<1>3. /\ ast \in Inputs /\ args \in ArgValues /\ phase = "start" /\ frames = <<>> /\ code = <<>>
      /\ stackSize = 0 /\ pc = 0 /\ stack = <<>> /\ result = 0
  BY <1>2 DEF Init
<1>4. phase \in Phases
  BY <1>3 DEF Phases
<1>5. Types
  BY <1>1, <1>3, <1>4 DEF Types
<1>6. Compiles /\ Runs /\ Results
  BY <1>3 DEF Compiles, Runs, Finished, Results
<1>. QED
  BY <1>5, <1>6 DEF IInv

LEMMA PlaceholderKeepsIInv == IInv /\ WritePlaceholder => IInv'
<1>1. SUFFICES ASSUME IInv, WritePlaceholder
               PROVE  IInv'
  OBVIOUS
<1>2. Types /\ Fixed /\ phase' = "compile"
  BY <1>1 DEF IInv, WritePlaceholder, Fixed
<1>3. Root(ast) \in Nodes /\ Nodes' = Nodes
  BY <1>2, AstIs, SameNode DEF Fixed
<1>4. PICK f : f = Frame("enter", Root(ast), 0)
  OBVIOUS
<1>5. f \in FrameRecord /\ frames' = <<f>> /\ f.at = "enter" /\ f.node = Root(ast) /\ f.depth = 0
  BY <1>1, <1>3, <1>4 DEF FrameRecord, WritePlaceholder, Frame
<1>6. Types'
  BY <1>1, <1>2, <1>5, SameFrames DEF Types, WritePlaceholder, Phases, runVars
<1>7. Compiles'
  <2> DEFINE marks == [p \in {2} |-> <<>>]
  <2>1. IsMarking(marks, 2, stackSize)'
    BY <1>3, <1>6 DEF IsMarking, Types
  <2>2. CallsOK(<<f>>, <<>>)
    BY <1>5 DEF CallsOK, CallOK, Fatal, Proceeds
  <2>3. CallsOK(frames, marks[2])'
    BY <1>2, <1>5, <2>2, SameCalls
  <2>4. (Len(code) = 1)'
    BY <1>1 DEF WritePlaceholder
  <2>. QED
    BY <2>1, <2>3, <2>4 DEF Compiles
<1>8. Runs' /\ Results'
  BY <1>1, <1>2 DEF IInv, Runs, Results, Finished, WritePlaceholder, runVars
<1>. QED
  BY <1>6, <1>7, <1>8 DEF IInv

\* What holds when a call of node_compile() is about to go on.
LEMMA Compilation ==
  ASSUME IInv, phase = "compile", frames # <<>>
  PROVE  /\ Top \in FrameRecord /\ Top.node \in Nodes /\ Top.depth \in Nat
         /\ CallOK(Top)
         /\ Len(code) \in Nat /\ Len(code) >= 1
         /\ \E marks : /\ IsMarking(marks, Len(code) + 1, stackSize)
                       /\ marks[Len(code) + 1] \in Seq(Nodes)
                       /\ CallsOK(frames, marks[Len(code) + 1])
                       /\ Proceeds(Top, marks[Len(code) + 1])
<1>1. frames \in Seq(FrameRecord) /\ code \in Seq(Int)
  BY DEF IInv, Types
<1>2. Len(frames) \in Nat /\ Len(frames) # 0 /\ Len(code) \in Nat
  BY <1>1, SeqIs
<1>3. Len(frames) \in 1..Len(frames)
  BY <1>2
<1>4. Top \in FrameRecord
  BY <1>1, <1>3, SeqIs DEF Top
<1>5. Top.node \in Nodes /\ Top.depth \in Nat
  BY <1>4 DEF FrameRecord
<1>6. PICK marks : IsMarking(marks, Len(code) + 1, stackSize) /\ CallsOK(frames, marks[Len(code) + 1])
  BY DEF IInv, Compiles
<1>7. marks[Len(code) + 1] \in Seq(Nodes)
  BY <1>6 DEF IsMarking
<1>8. CallOK(Top) /\ Proceeds(Top, marks[Len(code) + 1])
  BY <1>3, <1>6 DEF CallsOK, Top
<1>9. Len(code) >= 1
  BY DEF IInv, Compiles
<1>. QED
  BY <1>2, <1>4, <1>5, <1>6, <1>7, <1>8, <1>9

\* A call that makes a call, with the code as it is.
LEMMA CallKeepsIInv ==
  ASSUME IInv, phase = "compile", frames # <<>>, Fixed,
         UNCHANGED <<phase, code, stackSize, runVars>>,
         NEW g \in FrameRecord, NEW h \in FrameRecord,
         frames' = Callers \o <<g, h>>,
         g.node = Top.node, g.depth = Top.depth, g.depth <= h.depth,
         CallOK(g), CallOK(h),
         \A s : Proceeds(Top, s) => Waits(g, h.node, h.depth, s) /\ Proceeds(h, s)
  PROVE  IInv'
<1>1. PICK marks : /\ IsMarking(marks, Len(code) + 1, stackSize)
                   /\ CallsOK(frames, marks[Len(code) + 1])
                   /\ Proceeds(Top, marks[Len(code) + 1])
  BY Compilation
<1>2. Types /\ frames \in Seq(FrameRecord) /\ stackSize \in Nat /\ Len(code) \in Nat /\ Len(code) >= 1
  BY Compilation DEF IInv, Types
<1>3. PICK s : s = marks[Len(code) + 1]
  OBVIOUS
<1>4. frames' \in Seq(FrameRecord) /\ CallsOK(Callers \o <<g, h>>, s)
  BY <1>1, <1>2, <1>3, CallsPushed DEF Top, Callers
<1>5. Types'
  BY <1>2, <1>4, SameFrames DEF Types, Fixed, runVars
<1>6. CallsOK(frames, marks[Len(code) + 1])'
  <2>1. PICK fs : fs = Callers \o <<g, h>>
    OBVIOUS
  <2>2. CallsOK(fs, s)'
    BY <1>4, <2>1, SameCalls
  <2>. QED
    BY <1>3, <2>1, <2>2
<1>7. IsMarking(marks, Len(code) + 1, stackSize)'
  <2>1. PICK end \in Nat : end = Len(code) + 1 /\ end <= Len(code) + 1
    BY <1>2
  <2>2. PICK size \in Nat : size = stackSize /\ size <= size
    BY <1>2
  <2>3. IsMarking(marks, end, size)'
    BY <1>1, <1>2, <2>1, <2>2, KeptMarking DEF Fixed
  <2>. QED
    BY <2>1, <2>2, <2>3
<1>8. Compiles'
  BY <1>2, <1>6, <1>7 DEF Compiles
<1>9. Runs' /\ Results'
  BY DEF IInv, Runs, Results, Finished, runVars
<1>. QED
  BY <1>5, <1>8, <1>9 DEF IInv

LEMMA OperandKeepsIInv == IInv /\ CompileOperand => IInv'
<1>1. SUFFICES ASSUME IInv, CompileOperand
               PROVE  IInv'
  OBVIOUS
<1>2. phase = "compile" /\ frames # <<>> /\ Top.at = "enter" /\ Types /\ Fixed
  BY <1>1 DEF CompileOperand, Compiling, IInv, Fixed
<1>3. Top.node \in Nodes /\ Top.depth \in Nat /\ Fatal(Top.node)
  BY <1>1, <1>2, Compilation DEF CallOK
<1>4. PICK g : g = Frame(IF IsInv(Top.node) THEN "operator" ELSE "right", Top.node, Top.depth)
  OBVIOUS
<1>5. PICK h : h = Frame("enter", ast[Top.node].left, Top.depth)
  OBVIOUS
<1>6. frames' = Callers \o <<g, h>> /\ UNCHANGED <<phase, code, stackSize, runVars>>
  BY <1>1, <1>4, <1>5 DEF CompileOperand, IsInv
<1>7. IsBinary(Top.node) \/ IsInv(Top.node)
  BY <1>1 DEF CompileOperand, IsBinary, IsInv
<1>8. ast[Top.node].left \in Nodes /\ Fatal(ast[Top.node].left)
  BY <1>2, <1>3, <1>7, NodeKinds, ChildIsFatal
<1>9. /\ g.at = IF IsInv(Top.node) THEN "operator" ELSE "right"
      /\ g.node = Top.node /\ g.depth = Top.depth
      /\ h.at = "enter" /\ h.node = ast[Top.node].left /\ h.depth = Top.depth
  BY <1>4, <1>5 DEF Frame
<1>10. g \in FrameRecord /\ h \in FrameRecord
  BY <1>3, <1>4, <1>5, <1>8 DEF Frame, FrameRecord
<1>11. CallOK(g) /\ CallOK(h)
  BY <1>3, <1>7, <1>8, <1>9 DEF CallOK
<1>12. \A s : Proceeds(Top, s) => Waits(g, h.node, h.depth, s) /\ Proceeds(h, s)
  BY <1>2, <1>9 DEF Proceeds, Waits
<1>13. g.depth <= h.depth
  BY <1>3, <1>9
<1>. QED
  BY <1>1, <1>2, <1>6, <1>9, <1>10, <1>11, <1>12, <1>13, CallKeepsIInv

LEMMA RightKeepsIInv == IInv /\ CompileRight => IInv'
<1>1. SUFFICES ASSUME IInv, CompileRight
               PROVE  IInv'
  OBVIOUS
<1>2. phase = "compile" /\ frames # <<>> /\ Top.at = "right" /\ Types /\ Fixed
  BY <1>1 DEF CompileRight, Compiling, IInv, Fixed
<1>3. Top.node \in Nodes /\ Top.depth \in Nat /\ Fatal(Top.node) /\ IsBinary(Top.node)
  BY <1>1, <1>2, Compilation DEF CallOK
<1>4. PICK g : g = Frame("operator", Top.node, Top.depth)
  OBVIOUS
<1>5. PICK h : h = Frame("enter", ast[Top.node].right, Top.depth + 1)
  OBVIOUS
<1>6. frames' = Callers \o <<g, h>> /\ UNCHANGED <<phase, code, stackSize, runVars>>
  BY <1>1, <1>4, <1>5 DEF CompileRight
<1>8. ast[Top.node].right \in Nodes /\ Fatal(ast[Top.node].right) /\ ~IsInv(Top.node)
  BY <1>2, <1>3, NodeKinds, ChildIsFatal
<1>9. /\ g.at = "operator" /\ g.node = Top.node /\ g.depth = Top.depth
      /\ h.at = "enter" /\ h.node = ast[Top.node].right /\ h.depth = Top.depth + 1
  BY <1>4, <1>5 DEF Frame
<1>10. g \in FrameRecord /\ h \in FrameRecord
  BY <1>3, <1>4, <1>5, <1>8 DEF Frame, FrameRecord
<1>11. CallOK(g) /\ CallOK(h)
  BY <1>3, <1>8, <1>9 DEF CallOK
<1>12. \A s : Proceeds(Top, s) => Waits(g, h.node, h.depth, s) /\ Proceeds(h, s)
  BY <1>2, <1>3, <1>8, <1>9 DEF Proceeds, Waits
<1>13. g.depth <= h.depth
  BY <1>3, <1>9
<1>. QED
  BY <1>1, <1>2, <1>6, <1>9, <1>10, <1>11, <1>12, <1>13, CallKeepsIInv

LEMMA InstructionIs ==
  ASSUME Types, NEW n \in Nodes
  PROVE  Instruction(n) \in Seq(Int) /\ Len(Instruction(n)) = Width(n)
<1>1. Opcode(ast[n].type) \in Int
  BY Opcodes
<1>2. CASE IsLeaf(n)
  <2>1. ast[n].num \in Int
    BY <1>2, NodeKinds, LongIs, InputsAssumption DEF IsLeaf
  <2>. QED
    BY <1>1, <1>2, <2>1 DEF Instruction, IsLeaf, Width
<1>3. CASE ~IsLeaf(n)
  BY <1>1, <1>3 DEF Instruction, IsLeaf, Width
<1>. QED
  BY <1>2, <1>3

LEMMA InstructionKeepsIInv == IInv /\ WriteInstruction => IInv'
<1>1. SUFFICES ASSUME IInv, WriteInstruction
               PROVE  IInv'
  OBVIOUS
<1>2. phase = "compile" /\ phase' = "compile" /\ frames # <<>> /\ Types /\ Fixed
  BY <1>1 DEF WriteInstruction, Writing, Compiling, IInv, Fixed
<1>3. Top.at = "operator" \/ (Top.at = "enter" /\ IsLeaf(Top.node))
  BY <1>1 DEF WriteInstruction, Writing, Compiling, IsLeaf
<1>4. /\ Top \in FrameRecord /\ Top.node \in Nodes /\ Top.depth \in Nat /\ CallOK(Top)
      /\ Len(code) \in Nat /\ Len(code) >= 1
  BY <1>1, <1>2, Compilation
<1>5. PICK marks : /\ IsMarking(marks, Len(code) + 1, stackSize)
                   /\ marks[Len(code) + 1] \in Seq(Nodes)
                   /\ CallsOK(frames, marks[Len(code) + 1])
                   /\ Proceeds(Top, marks[Len(code) + 1])
  BY <1>1, <1>2, Compilation
<1>6. PICK n : n = Top.node
  OBVIOUS
<1>7. PICK s : s = marks[Len(code) + 1]
  OBVIOUS
<1>8. PICK t : t = After(n, s)
  OBVIOUS
<1>9. /\ Ready(n, s) /\ t \in Seq(Nodes)
      /\ Top.depth <= Len(s) /\ Len(t) = Top.depth + 1 /\ t[Top.depth + 1] = n
      /\ \A k \in 1..Top.depth : t[k] = s[k]
  BY <1>2, <1>3, <1>4, <1>5, <1>6, <1>7, <1>8, CallWrites
<1>10. code' = code \o Instruction(n) /\ stackSize' = Larger(stackSize, Top.depth + 1) /\ frames' = Callers
  BY <1>1, <1>6 DEF WriteInstruction
<1>11. PICK fs : fs = Callers
  OBVIOUS
<1>12. fs \in Seq(FrameRecord) /\ CallsOK(fs, t)
  <2>1. frames \in Seq(FrameRecord) /\ s \in Seq(Nodes) /\ CallsOK(frames, s)
    BY <1>2, <1>5, <1>7 DEF Types
  <2>. QED
    BY <1>2, <1>6, <1>9, <1>11, <2>1, CallsReturned DEF Top, Callers
<1>13. PICK size \in Nat : size = stackSize
  BY <1>2 DEF Types
<1>14. PICK more \in Nat : more = stackSize' /\ size <= more /\ Len(t) <= more
  BY <1>4, <1>9, <1>10, <1>13 DEF Larger
<1>15. PICK longer : IsMarking(longer, Len(code) + 1, more)' /\ longer[Len(code') + 1] = t
  <2>1. n \in Nodes /\ Fatal(n) /\ ast' = ast /\ args' = args
    BY <1>2, <1>4, <1>6 DEF CallOK, Fixed
  <2>2. IsMarking(marks, Len(code) + 1, size) /\ Ready(n, marks[Len(code) + 1])
    BY <1>5, <1>7, <1>9, <1>13
  <2>3. size <= more /\ Len(After(n, marks[Len(code) + 1])) <= more
    BY <1>7, <1>8, <1>14
  <2>4. Types /\ code' = code \o Instruction(n)
    BY <1>2, <1>10
  <2>5. \E longer : /\ IsMarking(longer, Len(code) + 1, more)'
                    /\ longer[Len(code') + 1] = After(n, marks[Len(code) + 1])
    BY <2>1, <2>2, <2>3, <2>4, LongerMarking, ZenonT(30)
  <2>. QED
    BY <1>7, <1>8, <2>5
<1>16. IsMarking(longer, Len(code) + 1, stackSize)'
  BY <1>14, <1>15
<1>17. CallsOK(frames, longer[Len(code) + 1])'
  <2>1. CallsOK(fs, t)'
    BY <1>2, <1>12, SameCalls
  <2>. QED
    BY <1>10, <1>11, <1>15, <2>1
<1>18. code' \in Seq(Int) /\ Len(code') >= 1
  <2>1. code \in Seq(Int) /\ Instruction(n) \in Seq(Int)
    BY <1>2, <1>4, <1>6, InstructionIs DEF Types
  <2>. QED
    BY <1>4, <1>10, <2>1
<1>19. Types'
  <2>1. frames' \in Seq(FrameRecord')
    BY <1>2, <1>10, <1>11, <1>12, SameFrames
  <2>. QED
    BY <1>1, <1>2, <1>14, <1>18, <2>1 DEF Types, Fixed, WriteInstruction, runVars
<1>20. Compiles'
  BY <1>16, <1>17, <1>18 DEF Compiles
<1>21. Runs' /\ Results'
  BY <1>1, <1>2 DEF IInv, Runs, Results, Finished, WriteInstruction, runVars
<1>. QED
  BY <1>19, <1>20, <1>21 DEF IInv

LEMMA RetKeepsIInv == IInv /\ WriteRet => IInv'
<1>1. SUFFICES ASSUME IInv, WriteRet
               PROVE  IInv'
  OBVIOUS
<1>2. Types /\ Fixed /\ phase = "compile" /\ phase' = "print" /\ frames = <<>> /\ pc' = 2
  BY <1>1 DEF IInv, WriteRet, Fixed
<1>3. code \in Seq(Int) /\ Len(code) \in Nat /\ Len(code) >= 1 /\ stackSize \in Nat
  BY <1>1, <1>2 DEF IInv, Types, Compiles
<1>4. PICK marks : IsMarking(marks, Len(code) + 1, stackSize) /\ marks[Len(code) + 1] = <<Root(ast)>>
  BY <1>1, <1>2 DEF IInv, Compiles, CallsOK
<1>5. code' = [code EXCEPT ![1] = stackSize] \o <<CODE_RET>> /\ stackSize' = stackSize
  BY <1>1 DEF WriteRet
<1>6. /\ code' \in Seq(Int) /\ Len(code') = Len(code) + 1 /\ code'[1] = stackSize
      /\ code'[Len(code) + 1] = CODE_RET
      /\ \A q \in 2..Len(code) : code'[q] = code[q]
  <2> DEFINE body == [code EXCEPT ![1] = stackSize]
  <2>1. /\ body \in Seq(Int) /\ Len(body) = Len(code) /\ body[1] = stackSize
        /\ \A q \in 2..Len(code) : body[q] = code[q]
    BY <1>3
  <2>2. CODE_RET \in Int
    BY OpcodeIs
  <2>3. code' = Append(body, CODE_RET)
    BY <1>5, <2>1
  <2> HIDE DEF body
  <2>4. /\ Append(body, CODE_RET) \in Seq(Int)
        /\ Len(Append(body, CODE_RET)) = Len(code) + 1
        /\ Append(body, CODE_RET)[Len(code) + 1] = CODE_RET
        /\ \A q \in 1..Len(code) : Append(body, CODE_RET)[q] = body[q]
    BY <2>1, <2>2, LastIs
  <2>. QED
    BY <1>3, <2>1, <2>3, <2>4
<1>7. IsMarking(marks, Len(code), stackSize)'
  <2>1. PICK end \in Nat : end = Len(code) + 1 /\ end <= Len(code) + 1
    BY <1>3
  <2>2. PICK size \in Nat : size = stackSize /\ size <= size
    BY <1>3
  <2>3. IsMarking(marks, end, size)'
    BY <1>2, <1>4, <1>6, <2>1, <2>2, KeptMarking DEF Fixed
  <2>. QED
    BY <1>5, <1>6, <2>1, <2>2, <2>3
<1>8. IsWhole(marks)'
  BY <1>2, <1>4, <1>6, <1>7 DEF IsWhole, Fixed
<1>9. Types'
  BY <1>1, <1>2, <1>6, SameFrames DEF Types, Phases, WriteRet, Fixed
<1>10. 2 \in DOMAIN marks
  BY <1>4 DEF IsMarking
<1>11. Runs'
  BY <1>2, <1>3, <1>5, <1>6, <1>8, <1>10 DEF Runs
<1>12. Compiles' /\ Results'
  BY <1>1, <1>2 DEF IInv, Compiles, Results, WriteRet
<1>. QED
  BY <1>9, <1>11, <1>12 DEF IInv

LEMMA FailureKeepsIInv == IInv /\ WriteFails => IInv'
<1>1. SUFFICES ASSUME IInv, WriteFails
               PROVE  IInv'
  OBVIOUS
<1>2. Types /\ Fixed /\ phase' = "failed" /\ stackSize' = 0 /\ frames' = <<>> /\ UNCHANGED runVars
  BY <1>1 DEF IInv, WriteFails, GiveUp, Fixed
<1>3. code' \in Seq(Int)
  <2>1. code \in Seq(Int)
    BY <1>2 DEF Types
  <2>2. CASE UNCHANGED code
    BY <2>1, <2>2
  <2>3. CASE /\ Writing
             /\ \E k \in 0..(Len(Instruction(Top.node)) - 1) :
                  code' = code \o SubSeq(Instruction(Top.node), 1, k)
    <3>1. Top.node \in Nodes
      BY <1>1, <2>3, Compilation DEF Writing, Compiling
    <3>2. PICK word : word = Instruction(Top.node)
      OBVIOUS
    <3>3. word \in Seq(Int)
      BY <1>2, <3>1, <3>2, InstructionIs
    <3>4. PICK k \in 0..(Len(word) - 1) : code' = code \o SubSeq(word, 1, k)
      BY <2>3, <3>2
    <3>5. SubSeq(word, 1, k) \in Seq(Int)
      <4>1. k \in 0..Len(word)
        BY <3>3, <3>4, SeqIs
      <4>. QED
        BY <3>3, <4>1, FrontIs
    <3>. QED
      BY <2>1, <3>4, <3>5
  <2>. QED
    BY <1>1, <2>2, <2>3 DEF WriteFails
<1>4. Types'
  <2>1. frames' \in Seq(FrameRecord')
    BY <1>2
  <2>2. phase' \in Phases
    BY <1>2 DEF Phases
  <2>. QED
    BY <1>2, <1>3, <2>1, <2>2 DEF Types, Fixed, runVars
<1>5. Compiles' /\ Runs' /\ Results'
  BY <1>2 DEF Compiles, Runs, Finished, Results
<1>. QED
  BY <1>4, <1>5 DEF IInv

-----------------------------------------------------------------------------
(***************************************************************************)
(* The walks over the code                                                 *)
(***************************************************************************)
LEMMA SameWhole ==
  ASSUME Fixed, UNCHANGED <<code, stackSize>>, NEW marks
  PROVE  IsWhole(marks)' <=> IsWhole(marks)
BY DEF Fixed, IsWhole, IsMarking, InstructionOf, Ready, After, Width, Fatal, Val, Nodes,
       IsBinary, IsInv, IsLeaf

\* A walk that has come to a marked place stands on the instruction of a node,
\* or on the RET.
LEMMA OnMark ==
  ASSUME Types, NEW marks, IsWhole(marks), pc \in DOMAIN marks
  PROVE  /\ marks[pc] \in Seq(Nodes) /\ Len(marks[pc]) <= stackSize
         /\ pc \in 2..Len(code)
         /\ \/ pc = Len(code) /\ code[pc] = 7 /\ marks[pc] = <<Root(ast)>>
            \/ /\ code[pc] \in 0..6
               /\ \E n \in Nodes : InstructionOf(n, pc, marks)
<1>1. IsMarking(marks, Len(code), stackSize) /\ code[Len(code)] = 7 /\ marks[Len(code)] = <<Root(ast)>>
  BY OpcodeIs DEF IsWhole
<1>2. /\ marks[pc] \in Seq(Nodes) /\ Len(marks[pc]) <= stackSize
      /\ pc \in 2..Len(code)
  BY <1>1 DEF IsMarking
<1>3. CASE pc = Len(code)
  BY <1>1, <1>2, <1>3
<1>4. CASE pc # Len(code)
  <2>1. PICK n \in Nodes : InstructionOf(n, pc, marks)
    BY <1>1, <1>4 DEF IsMarking
  <2>2. code[pc] \in 0..6
    BY <2>1, Opcodes DEF InstructionOf
  <2>. QED
    BY <1>2, <2>1, <2>2
<1>. QED
  BY <1>3, <1>4

LEMMA PrintKeepsIInv == IInv /\ PrintInstruction => IInv'
<1>1. SUFFICES ASSUME IInv, PrintInstruction
               PROVE  IInv'
  OBVIOUS
<1>2. /\ Types /\ Fixed /\ phase = "print" /\ phase' = "print" /\ stack = <<>>
      /\ UNCHANGED <<frames, code, stackSize, stack, result>>
  BY <1>1 DEF IInv, Results, PrintInstruction, compileVars, Fixed
<1>3. PICK marks : IsWhole(marks) /\ pc \in DOMAIN marks
  BY <1>1, <1>2 DEF IInv, Runs, Finished
<1>4. code[pc] # 7 /\ pc' = (IF code[pc] \in {5, 6} THEN pc + 2 ELSE pc + 1)
  BY <1>1, OpcodeIs DEF PrintInstruction, HasOperand
<1>5. PICK n \in Nodes : InstructionOf(n, pc, marks)
  BY <1>2, <1>3, <1>4, OnMark
<1>6. pc' = pc + Width(n)
  BY <1>2, <1>4, <1>5, Opcodes DEF InstructionOf, Width
<1>7. pc' \in DOMAIN marks
  BY <1>5, <1>6 DEF InstructionOf
<1>8. IsWhole(marks)'
  BY <1>2, <1>3, SameWhole
<1>9. Types'
  <2>1. pc' \in Nat
    BY <1>2, <1>4 DEF Types
  <2>. QED
    BY <1>2, <2>1, SameFrames DEF Types, Fixed
<1>10. Runs'
  BY <1>1, <1>2, <1>7, <1>8 DEF IInv, Runs, Finished
<1>11. Compiles' /\ Results'
  BY <1>1, <1>2 DEF IInv, Compiles, Results
<1>. QED
  BY <1>9, <1>10, <1>11 DEF IInv

\* A step that leaves the code alone and lets no walk go on.
LEMMA StopKeepsIInv ==
  ASSUME IInv, Types', Results', Fixed, UNCHANGED <<code, stackSize>>,
         Finished, phase' \in {"call", "no stack", "trapped", "done"}
  PROVE  IInv'
<1>1. Finished' /\ phase' \notin {"print", "eval", "compile"}
  BY DEF Finished
<1>2. PICK marks : IsWhole(marks)
  BY DEF IInv, Runs
<1>3. IsWhole(marks)'
  BY <1>2, SameWhole
<1>4. Runs'
  BY <1>1, <1>3 DEF IInv, Runs
<1>5. Compiles'
  BY <1>1 DEF Compiles
<1>. QED
  BY <1>4, <1>5 DEF IInv

LEMMA PrintRetKeepsIInv == IInv /\ PrintRet => IInv'
<1>1. SUFFICES ASSUME IInv, PrintRet
               PROVE  IInv'
  OBVIOUS
<1>2. /\ Types /\ Fixed /\ phase = "print" /\ phase' = "call" /\ stack = <<>>
      /\ UNCHANGED <<frames, code, stackSize, pc, stack, result>>
  BY <1>1 DEF IInv, Results, PrintRet, Fixed
<1>3. Types'
  BY <1>2, SameFrames DEF Types, Phases, Fixed
<1>4. Finished /\ Results'
  BY <1>2 DEF Finished, Results
<1>. QED
  BY <1>1, <1>2, <1>3, <1>4, StopKeepsIInv

LEMMA NoStackKeepsIInv == IInv /\ NoStack => IInv'
<1>1. SUFFICES ASSUME IInv, NoStack
               PROVE  IInv'
  OBVIOUS
<1>2. /\ Types /\ Fixed /\ phase = "call" /\ phase' = "no stack" /\ result' = LONG_MAX
      /\ UNCHANGED <<frames, code, stackSize, pc, stack>>
  BY <1>1 DEF IInv, Results, NoStack, Fixed
<1>3. Types'
  <2>0. LONG_MAX \in Long
    BY LongIs
  <2>1. result' \in Long
    BY <1>2, <2>0
  <2>. QED
    BY <1>2, <2>1, SameFrames DEF Types, Phases, Fixed
<1>4. Finished /\ Results'
  BY <1>2 DEF Finished, Results
<1>. QED
  BY <1>1, <1>2, <1>3, <1>4, StopKeepsIInv

LEMMA StartKeepsIInv == IInv /\ StartEval => IInv'
<1>1. SUFFICES ASSUME IInv, StartEval
               PROVE  IInv'
  OBVIOUS
<1>2. /\ Types /\ Fixed /\ phase = "call" /\ phase' = "eval" /\ pc' = 2 /\ stack = <<>>
      /\ UNCHANGED <<frames, code, stackSize, stack, result>>
  BY <1>1 DEF IInv, Results, StartEval, Fixed
<1>3. Types'
  BY <1>2, SameFrames DEF Types, Phases, Fixed
<1>4. PICK marks : IsWhole(marks)
  BY <1>1, <1>2 DEF IInv, Runs, Finished
<1>5. 2 \in DOMAIN marks /\ marks[2] = <<>>
  BY <1>4 DEF IsWhole, IsMarking
<1>6. IsWhole(marks)'
  BY <1>2, <1>4, SameWhole
<1>7. Holds(stack, marks[pc])'
  BY <1>2, <1>5 DEF Holds
<1>8. Runs'
  BY <1>1, <1>2, <1>5, <1>6, <1>7 DEF IInv, Runs, Finished
<1>9. Compiles' /\ Results'
  BY <1>2 DEF Compiles, Results
<1>. QED
  BY <1>3, <1>8, <1>9 DEF IInv

\* What the machine sees when it is at an instruction.
LEMMA Machine ==
  ASSUME IInv, phase = "eval"
  PROVE  /\ Types /\ Len(stack) \in Nat /\ Finished
         /\ \E marks :
              /\ IsWhole(marks) /\ pc \in DOMAIN marks /\ Holds(stack, marks[pc])
              /\ marks[pc] \in Seq(Nodes)
              /\ code[pc] \in 0..6 => \E n \in Nodes : InstructionOf(n, pc, marks)
              /\ code[pc] = 7 => marks[pc] = <<Root(ast)>>
              /\ code[pc] \in 0..7
<1>1. Types /\ Finished /\ stack \in Seq(Long)
  BY DEF IInv, Types, Finished
<1>2. PICK marks : IsWhole(marks) /\ pc \in DOMAIN marks /\ Holds(stack, marks[pc])
  BY <1>1 DEF IInv, Runs
<1>3. /\ marks[pc] \in Seq(Nodes)
      /\ code[pc] \in 0..6 => \E n \in Nodes : InstructionOf(n, pc, marks)
      /\ code[pc] = 7 => marks[pc] = <<Root(ast)>>
      /\ code[pc] \in 0..7
  BY <1>1, <1>2, OnMark
<1>4. Len(stack) \in Nat
  BY <1>1
<1>. QED
  BY <1>1, <1>2, <1>3, <1>4

\* A step of the machine from one instruction to the next.
LEMMA StepKeepsIInv ==
  ASSUME IInv, phase = "eval", Fixed, UNCHANGED <<phase, frames, code, stackSize, result>>,
         NEW marks, IsWhole(marks), NEW n \in Nodes, InstructionOf(n, pc, marks),
         pc' = pc + Width(n), stack' \in Seq(Long), Holds(stack', After(n, marks[pc]))
  PROVE  IInv'
<1>1. Types /\ Finished /\ pc \in Nat
  BY DEF IInv, Types, Finished
<1>2. Types'
  BY <1>1, SameFrames DEF Types, Fixed, Width
<1>3. IsWhole(marks)'
  BY SameWhole
<1>4. pc' \in DOMAIN marks /\ marks[pc'] = After(n, marks[pc])
  BY DEF InstructionOf
<1>5. Holds(stack, marks[pc])'
  BY <1>4 DEF Holds, Val, Fixed
<1>6. Runs'
  BY <1>1, <1>3, <1>4, <1>5 DEF IInv, Runs, Finished
<1>7. Compiles' /\ Results'
  BY DEF Compiles, Results
<1>. QED
  BY <1>2, <1>6, <1>7 DEF IInv

LEMMA PushKeepsIInv ==
  ASSUME IInv, EvalVal \/ EvalVar
  PROVE  IInv'
<1>1. /\ phase = "eval" /\ Fixed /\ UNCHANGED <<phase, frames, code, stackSize, result>>
      /\ code[pc] \in {5, 6} /\ pc' = pc + 2
      /\ stack' = Append(stack, IF code[pc] = 5 THEN code[pc + 1] ELSE args[code[pc + 1]])
  BY OpcodeIs DEF EvalVal, EvalVar, At, compileVars, Fixed
<1>2. PICK marks : /\ IsWhole(marks) /\ pc \in DOMAIN marks /\ Holds(stack, marks[pc])
                   /\ marks[pc] \in Seq(Nodes)
                   /\ \E n \in Nodes : InstructionOf(n, pc, marks)
  BY <1>1, Machine
<1>3. PICK n \in Nodes : InstructionOf(n, pc, marks)
  BY <1>2
<1>4. Types /\ stack \in Seq(Long) /\ args \in [1..ArgCount -> Long]
  BY AstIs DEF IInv, Types
<1>5. IsLeaf(n) /\ Width(n) = 2 /\ code[pc + 1] = ast[n].num
      /\ (code[pc] = 5 <=> ast[n].type = "INT") /\ (code[pc] = 6 <=> ast[n].type = "VAR")
  BY <1>1, <1>3, <1>4, Opcodes DEF InstructionOf, Width
<1>6. Val[n] \in Long /\ stack' = Append(stack, Val[n])
  BY <1>1, <1>4, <1>5, NodeKinds DEF IsLeaf
<1>7. PICK s \in Seq(Nodes) : s = marks[pc]
  BY <1>2
<1>8. After(n, marks[pc]) = Append(s, n)
  BY <1>4, <1>5, <1>7, NodeKinds DEF After
<1>9. /\ Len(stack) \in Nat /\ Len(stack) = Len(s)
      /\ \A k \in 1..Len(s) : stack[k] = Val[s[k]]
  BY <1>2, <1>4, <1>7 DEF Holds
<1>10. Holds(stack', After(n, marks[pc]))
  <2>1. /\ Len(stack') = Len(s) + 1 /\ stack'[Len(s) + 1] = Val[n]
        /\ \A k \in 1..Len(s) : stack'[k] = stack[k]
    BY <1>4, <1>6, <1>9, LastIs
  <2>2. /\ Len(Append(s, n)) = Len(s) + 1 /\ Append(s, n)[Len(s) + 1] = n
        /\ \A k \in 1..Len(s) : Append(s, n)[k] = s[k]
    BY LastIs
  <2>3. \A k \in 1..(Len(s) + 1) : k \in 1..Len(s) \/ k = Len(s) + 1
    BY <1>9
  <2>. QED
    BY <1>8, <1>9, <2>1, <2>2, <2>3 DEF Holds
<1>11. stack' \in Seq(Long)
  BY <1>4, <1>6
<1>. QED
  BY <1>1, <1>2, <1>3, <1>5, <1>10, <1>11, StepKeepsIInv

LEMMA InvKeepsIInv == IInv /\ EvalInv => IInv'
<1>0. SUFFICES ASSUME IInv, EvalInv
               PROVE  IInv'
  OBVIOUS
<1>1. /\ phase = "eval" /\ Fixed /\ UNCHANGED <<phase, frames, code, stackSize, result>>
      /\ code[pc] = 4 /\ pc' = pc + 1
      /\ stack' = [stack EXCEPT ![Len(stack)] = Negate(stack[Len(stack)])]
  BY <1>0, OpcodeIs DEF EvalInv, At, compileVars, Fixed
<1>2. PICK marks : /\ IsWhole(marks) /\ pc \in DOMAIN marks /\ Holds(stack, marks[pc])
                   /\ marks[pc] \in Seq(Nodes)
                   /\ \E n \in Nodes : InstructionOf(n, pc, marks)
  BY <1>0, <1>1, Machine
<1>3. PICK n \in Nodes : InstructionOf(n, pc, marks)
  BY <1>2
<1>4. Types /\ stack \in Seq(Long)
  BY <1>0 DEF IInv, Types
<1>5. IsInv(n) /\ ~IsBinary(n) /\ Width(n) = 1
  BY <1>1, <1>3, <1>4, Opcodes DEF InstructionOf, Width
<1>6. PICK s \in Seq(Nodes) : s = marks[pc]
  BY <1>2
<1>7. /\ After(n, marks[pc]) = [s EXCEPT ![Len(s)] = n]
      /\ Len(s) >= 1 /\ s[Len(s)] = ast[n].left
  BY <1>3, <1>5, <1>6 DEF After, Ready, InstructionOf
<1>8. /\ Len(stack) \in Nat /\ Len(stack) = Len(s)
      /\ \A k \in 1..Len(s) : stack[k] = Val[s[k]]
  BY <1>2, <1>4, <1>6 DEF Holds
<1>9. stack[Len(s)] = Val[ast[n].left] /\ stack[Len(s)] \in Long
  BY <1>4, <1>7, <1>8
<1>10. Val[n] = Negate(stack[Len(s)]) /\ Val[n] \in Long
  BY <1>4, <1>5, <1>9, NodeKinds, NegateIsLong, LongIs DEF StrictNegate
<1>11. Holds(stack', After(n, marks[pc])) /\ stack' \in Seq(Long)
  BY <1>1, <1>4, <1>7, <1>8, <1>10 DEF Holds
<1>. QED
  BY <1>0, <1>1, <1>2, <1>3, <1>5, <1>11, StepKeepsIInv

LEMMA BinaryKeepsIInv == IInv /\ EvalBinary => IInv'
<1>0. SUFFICES ASSUME IInv, EvalBinary
               PROVE  IInv'
  OBVIOUS
<1>1. /\ phase = "eval" /\ Fixed /\ UNCHANGED <<frames, code, stackSize, result>>
      /\ code[pc] \in 0..3
  BY <1>0, OpcodeIs DEF EvalBinary, At, Fixed
<1>2. PICK marks : /\ IsWhole(marks) /\ pc \in DOMAIN marks /\ Holds(stack, marks[pc])
                   /\ marks[pc] \in Seq(Nodes)
                   /\ \E n \in Nodes : InstructionOf(n, pc, marks)
  BY <1>0, <1>1, Machine
<1>3. PICK n \in Nodes : InstructionOf(n, pc, marks)
  BY <1>2
<1>4. Types /\ Finished /\ stack \in Seq(Long)
  BY <1>0, <1>1, Machine DEF Types
<1>5. IsBinary(n) /\ Width(n) = 1 /\ TypeOf(code[pc]) = ast[n].type
  BY <1>1, <1>3, <1>4, Opcodes, NodeKinds DEF InstructionOf, Width
<1>6. PICK s \in Seq(Nodes) : s = marks[pc]
  BY <1>2
<1>7. /\ After(n, marks[pc]) = Append(SubSeq(s, 1, Len(s) - 2), n)
      /\ Len(s) >= 2 /\ s[Len(s) - 1] = ast[n].left /\ s[Len(s)] = ast[n].right
      /\ Fatal(n)
  BY <1>3, <1>5, <1>6 DEF After, Ready, InstructionOf
<1>8. /\ Len(stack) \in Nat /\ Len(stack) = Len(s)
      /\ \A k \in 1..Len(s) : stack[k] = Val[s[k]]
  BY <1>2, <1>4, <1>6 DEF Holds
<1>9. /\ stack[Len(s) - 1] = Val[ast[n].left] /\ stack[Len(s) - 1] \in Long
      /\ stack[Len(s)] = Val[ast[n].right] /\ stack[Len(s)] \in Long
  BY <1>4, <1>7, <1>8
<1>10. Combined = Val[n]
  <2>1. Combined = Binary(ast[n].type, Val[ast[n].left], Val[ast[n].right])
    BY <1>5, <1>8, <1>9 DEF Combined
  <2>2. Val[n] = StrictBinary(ast[n].type, Val[ast[n].left], Val[ast[n].right])
    BY <1>4, <1>5, NodeKinds
  <2>. QED
    BY <1>9, <2>1, <2>2, LongIs DEF StrictBinary
<1>11. Combined \in Value
  BY <1>5, <1>8, <1>9, BinaryIsValue DEF Combined, IsBinary
<1>12. CASE Combined = TRAP
  <2>1. phase' = "trapped" /\ UNCHANGED <<stack, pc>>
    BY <1>0, <1>12 DEF EvalBinary
  <2>2. Val[Root(ast)] = TRAP
    BY <1>7, <1>10, <1>12 DEF Fatal
  <2>3. Results'
    BY <1>1, <2>1, <2>2 DEF Results, Fixed, Val
  <2>4. Types'
    BY <1>1, <1>4, <2>1, SameFrames DEF Types, Phases, Fixed
  <2>. QED
    BY <1>0, <1>1, <1>4, <2>1, <2>3, <2>4, StopKeepsIInv
<1>13. CASE Combined # TRAP
  <2>1. /\ UNCHANGED phase /\ pc' = pc + 1
        /\ stack' = Append(SubSeq(stack, 1, Len(stack) - 2), Val[n])
    BY <1>0, <1>10, <1>13 DEF EvalBinary
  <2>2. Val[n] \in Long
    BY <1>10, <1>11, <1>13 DEF Value
  <2>3. PICK m \in 0..Len(s) : m = Len(s) - 2
    BY <1>7, <1>8
  <2>4. PICK u : u = SubSeq(s, 1, m)
    OBVIOUS
  <2>5. PICK c : c = SubSeq(stack, 1, m)
    OBVIOUS
  <2>6. u \in Seq(Nodes) /\ Len(u) = m /\ \A k \in 1..m : u[k] = s[k]
    BY <2>3, <2>4, FrontIs
  <2>7. c \in Seq(Long) /\ Len(c) = m /\ \A k \in 1..m : c[k] = stack[k]
    BY <1>4, <1>8, <2>3, <2>5, FrontIs
  <2>8. /\ Len(Append(u, n)) = m + 1 /\ Append(u, n)[m + 1] = n
        /\ \A k \in 1..m : Append(u, n)[k] = u[k]
    BY <2>6, LastIs
  <2>9. /\ Len(Append(c, Val[n])) = m + 1 /\ Append(c, Val[n])[m + 1] = Val[n]
        /\ \A k \in 1..m : Append(c, Val[n])[k] = c[k]
    BY <2>7, LastIs
  <2>10. \A k \in 1..(m + 1) : k = m + 1 \/ (k \in 1..m /\ k \in 1..Len(s))
    BY <1>8, <2>3
  <2>11. Holds(Append(c, Val[n]), Append(u, n))
    BY <1>8, <2>6, <2>7, <2>8, <2>9, <2>10 DEF Holds
  <2>12. stack' = Append(c, Val[n]) /\ After(n, marks[pc]) = Append(u, n)
    BY <1>7, <1>8, <2>1, <2>3, <2>4, <2>5
  <2>13. stack' \in Seq(Long)
    BY <2>2, <2>7, <2>12
  <2>. QED
    BY <1>0, <1>1, <1>2, <1>3, <1>5, <2>1, <2>11, <2>12, <2>13, StepKeepsIInv
<1>. QED
  BY <1>12, <1>13

LEMMA EvalRetKeepsIInv == IInv /\ EvalRet => IInv'
<1>0. SUFFICES ASSUME IInv, EvalRet
               PROVE  IInv'
  OBVIOUS
<1>1. /\ phase = "eval" /\ phase' = "done" /\ Fixed
      /\ UNCHANGED <<frames, code, stackSize, pc>>
      /\ code[pc] = 7
      /\ result' = stack[Len(stack)] /\ stack' = SubSeq(stack, 1, Len(stack) - 1)
  BY <1>0, OpcodeIs DEF EvalRet, At, Fixed
<1>2. PICK marks : Holds(stack, marks[pc]) /\ marks[pc] = <<Root(ast)>>
  BY <1>0, <1>1, Machine
<1>3. Types /\ Finished /\ stack \in Seq(Long) /\ Len(stack) \in Nat
  BY <1>0, <1>1, Machine DEF Types
<1>4. Len(stack) = 1 /\ stack[1] = Val[Root(ast)]
  BY <1>2 DEF Holds
<1>5. result' = Val[Root(ast)] /\ result' \in Long /\ stack' = <<>>
  BY <1>1, <1>3, <1>4
<1>6. Types'
  BY <1>1, <1>3, <1>5, SameFrames DEF Types, Phases, Fixed
<1>7. Results'
  BY <1>1, <1>5 DEF Results, Val, Fixed
<1>. QED
  BY <1>0, <1>1, <1>3, <1>6, <1>7, StopKeepsIInv

-----------------------------------------------------------------------------
(***************************************************************************)
(* The theorems                                                            *)
(***************************************************************************)
LEMMA StutterKeepsIInv == IInv /\ UNCHANGED vars => IInv'
<1>1. SUFFICES ASSUME IInv, UNCHANGED vars
               PROVE  IInv'
  OBVIOUS
<1>2. /\ Fixed /\ UNCHANGED <<phase, frames, code, stackSize, pc, stack, result>>
      /\ Types
  BY <1>1 DEF vars, Fixed, IInv
<1>3. Types'
  BY <1>2, SameFrames DEF Types, Fixed
<1>4. Compiles'
  <2>1. ASSUME phase = "compile"
        PROVE  Compiles'
    <3>1. PICK marks : /\ IsMarking(marks, Len(code) + 1, stackSize)
                       /\ CallsOK(frames, marks[Len(code) + 1])
      BY <1>1, <2>1 DEF IInv, Compiles
    <3>2. /\ code \in Seq(Int) /\ Len(code) \in Nat /\ Len(code) >= 1 /\ stackSize \in Nat
      BY <1>1, <2>1 DEF IInv, Compiles, Types
    <3>3. PICK end \in Nat : end = Len(code) + 1 /\ end <= Len(code) + 1
      BY <3>2
    <3>4. PICK size \in Nat : size = stackSize /\ size <= size
      BY <3>2
    <3>5. IsMarking(marks, end, size)'
      BY <1>2, <3>1, <3>3, <3>4, KeptMarking DEF Fixed
    <3>6. PICK fs, s : fs = frames /\ s = marks[end] /\ CallsOK(fs, s)
      BY <3>1, <3>3
    <3>7. CallsOK(fs, s)'
      BY <1>2, <3>6, SameCalls
    <3>. QED
      BY <1>2, <3>2, <3>3, <3>4, <3>5, <3>6, <3>7 DEF Compiles
  <2>. QED
    BY <1>2, <2>1 DEF Compiles
<1>5. Runs'
  <2>1. ASSUME Finished
        PROVE  Runs'
    <3>1. PICK marks : /\ IsWhole(marks)
                       /\ phase \in {"print", "eval"} => pc \in DOMAIN marks
                       /\ phase = "eval" => Holds(stack, marks[pc])
      BY <1>1, <2>1 DEF IInv, Runs
    <3>2. IsWhole(marks)'
      BY <1>2, <3>1, SameWhole
    <3>3. (phase = "eval" => Holds(stack, marks[pc]))'
      BY <1>2, <3>1 DEF Holds, Val, Fixed
    <3>. QED
      BY <1>1, <1>2, <2>1, <3>1, <3>2, <3>3 DEF IInv, Runs
  <2>. QED
    BY <1>2, <2>1 DEF Runs, Finished
<1>6. Results'
  BY <1>1, <1>2 DEF IInv, Results, Val, Fixed
<1>. QED
  BY <1>3, <1>4, <1>5, <1>6 DEF IInv

LEMMA NextKeepsIInv == IInv /\ [Next]_vars => IInv'
BY PlaceholderKeepsIInv, OperandKeepsIInv, RightKeepsIInv, InstructionKeepsIInv, RetKeepsIInv,
   FailureKeepsIInv, PrintKeepsIInv, PrintRetKeepsIInv, StartKeepsIInv, NoStackKeepsIInv,
   PushKeepsIInv, InvKeepsIInv, BinaryKeepsIInv, EvalRetKeepsIInv, StutterKeepsIInv
DEF Next, Terminated

\* The annotation of the code holds in every state.
THEOREM IInvHolds == Spec => []IInv
<1>1. Init => IInv
  BY InitIsIInv
<1>2. IInv /\ [Next]_vars => IInv'
  BY NextKeepsIInv
<1>. QED
  BY <1>1, <1>2, PTL DEF Spec

\* The compiler and the machine keep their state well typed.
THEOREM TypesHold == Spec => []TypeOK
<1>1. IInv => TypeOK
  <2>1. SUFFICES ASSUME IInv
                 PROVE  TypeOK
    OBVIOUS
  <2>2. Types
    BY <2>1 DEF IInv
  <2>3. ast # <<>> /\ IsAst(ast, ArgCount) /\ args \in [1..ArgCount -> Long]
    BY <2>2, AstIs, InputsAssumption DEF Types
  <2>. QED
    BY <2>2, <2>3 DEF Types, TypeOK, FrameRecord, Nodes
<1>. QED
  BY <1>1, IInvHolds, PTL

\* bytecode_eval() stays within the stack whose size node_compile() worked
\* out, for every AST and every argument.
THEOREM StackIsSafe == Spec => []StackSafe
<1>1. IInv => StackSafe
  <2>1. SUFFICES ASSUME IInv, phase = "eval"
                 PROVE  /\ Operands <= Len(stack)
                        /\ Len(stack) <= Cells
                        /\ code[pc] \in {CODE_VAL, CODE_VAR} => Len(stack) < Cells
    BY DEF StackSafe
  <2>2. PICK marks : /\ IsWhole(marks) /\ pc \in DOMAIN marks /\ Holds(stack, marks[pc])
                     /\ marks[pc] \in Seq(Nodes)
                     /\ code[pc] \in 0..6 => \E n \in Nodes : InstructionOf(n, pc, marks)
                     /\ code[pc] = 7 => marks[pc] = <<Root(ast)>>
                     /\ code[pc] \in 0..7
    BY <2>1, Machine
  <2>3. Types /\ Len(stack) \in Nat /\ Cells = stackSize /\ stackSize \in Nat
    BY <2>1, Machine DEF IInv, Runs, Types, Cells
  <2>4. Len(stack) = Len(marks[pc]) /\ Len(marks[pc]) <= stackSize
    BY <2>2, <2>3, OnMark DEF Holds
  <2>5. Operands = IF code[pc] \in 0..3 THEN 2 ELSE IF code[pc] \in {4, 7} THEN 1 ELSE 0
    BY OpcodeIs DEF Operands
  <2>6. CASE code[pc] = 7
    BY <2>2, <2>3, <2>4, <2>5, <2>6, OpcodeIs
  <2>7. CASE code[pc] \in 0..6
    <3>1. PICK n \in Nodes : InstructionOf(n, pc, marks)
      BY <2>2, <2>7
    <3>2. Ready(n, marks[pc]) /\ Len(After(n, marks[pc])) <= stackSize
      BY <2>2, <3>1 DEF InstructionOf, IsWhole, IsMarking
    <3>3. Len(After(n, marks[pc])) = Len(marks[pc]) + (IF IsBinary(n) THEN -1 ELSE IF IsInv(n) THEN 0 ELSE 1)
      BY <2>2, <2>3, <3>2, AfterIs
    <3>4. /\ (IsBinary(n) <=> code[pc] \in 0..3) /\ (IsInv(n) <=> code[pc] = 4)
          /\ (IsLeaf(n) <=> code[pc] \in {5, 6})
      BY <2>3, <3>1, Opcodes DEF InstructionOf
    <3>5. Operands <= Len(stack)
      BY <2>3, <2>4, <2>5, <2>7, <3>2, <3>4 DEF Ready
    <3>6. code[pc] \in {CODE_VAL, CODE_VAR} => Len(stack) < Cells
      <4>1. SUFFICES ASSUME IsLeaf(n)
                     PROVE  Len(stack) < stackSize
        BY <2>3, <3>4, OpcodeIs
      <4>2. ~IsBinary(n) /\ ~IsInv(n)
        BY <2>3, <4>1, NodeKinds
      <4>. QED
        BY <2>3, <2>4, <3>2, <3>3, <4>2
    <3>. QED
      BY <2>3, <2>4, <3>5, <3>6
  <2>. QED
    BY <2>2, <2>6, <2>7
<1>. QED
  BY <1>1, IInvHolds, PTL

\* bytecode_print() and bytecode_eval() stay on the instructions of the code
\* until its RET.
THEOREM WalksStayOnInstructions == Spec => []OnInstruction
<1>1. IInv => OnInstruction
  <2>1. SUFFICES ASSUME IInv, phase \in {"print", "eval"}
                 PROVE  /\ pc \in 2..Len(code)
                        /\ code[pc] \in CODE_ADD..CODE_RET
                        /\ code[pc] \in {CODE_VAL, CODE_VAR} => pc + 2 <= Len(code)
                        /\ code[pc] = CODE_VAR => code[pc + 1] \in 1..ArgCount
    BY DEF OnInstruction
  <2>2. Types /\ Finished
    BY <2>1 DEF IInv, Finished
  <2>3. PICK marks : IsWhole(marks) /\ pc \in DOMAIN marks
    BY <2>1, <2>2 DEF IInv, Runs
  <2>4. pc \in 2..Len(code)
    BY <2>2, <2>3, OnMark
  <2>5. CASE code[pc] = 7
    BY <2>4, <2>5, OpcodeIs
  <2>6. CASE code[pc] # 7
    <3>1. code[pc] \in 0..6 /\ \E n \in Nodes : InstructionOf(n, pc, marks)
      BY <2>2, <2>3, <2>6, OnMark
    <3>2. PICK n \in Nodes : InstructionOf(n, pc, marks)
      BY <3>1
    <3>3. pc + Width(n) \in 2..Len(code)
      BY <2>3, <3>2 DEF IsWhole, IsMarking, InstructionOf
    <3>4. /\ IsLeaf(n) <=> code[pc] \in {5, 6}
          /\ (ast[n].type = "VAR") <=> (code[pc] = 6)
      BY <2>2, <3>2, Opcodes DEF InstructionOf
    <3>5. code[pc] \in {5, 6} => pc + 2 <= Len(code)
      BY <3>3, <3>4 DEF Width
    <3>6. code[pc] = 6 => code[pc + 1] \in 1..ArgCount
      BY <2>2, <3>2, <3>4, NodeKinds DEF InstructionOf, IsLeaf
    <3>. QED
      BY <2>4, <3>1, <3>5, <3>6, OpcodeIs
  <2>. QED
    BY <2>5, <2>6
<1>. QED
  BY <1>1, IInvHolds, PTL

\* The machine returns what ast_eval() returns, for every AST and every
\* argument, and dies of a division by zero only where ast_eval() dies.
THEOREM RunsMatchTheAst == Spec => []RunsTheAst
<1>1. IInv => RunsTheAst
  BY DEF IInv, Results, RunsTheAst, AstEval, Val
<1>. QED
  BY <1>1, IInvHolds, PTL

\* A stack size of 0 tells a compilation that failed from one that did not.
THEOREM FailuresAreMarked == Spec => []FailureIsMarked
<1>1. IInv => FailureIsMarked
  <2>1. SUFFICES ASSUME IInv
                 PROVE  FailureIsMarked
    OBVIOUS
  <2>2. ASSUME Finished
        PROVE  stackSize >= 1 /\ Cells = stackSize
    <3>1. PICK marks : IsWhole(marks)
      BY <2>1, <2>2 DEF IInv, Runs
    <3>2. Len(marks[Len(code)]) <= stackSize /\ marks[Len(code)] = <<Root(ast)>>
      BY <3>1 DEF IsWhole, IsMarking
    <3>3. stackSize \in Nat /\ Cells = stackSize
      BY <2>1, <2>2 DEF IInv, Types, Runs, Cells
    <3>. QED
      BY <3>2, <3>3
  <2>. QED
    BY <2>1, <2>2 DEF IInv, Results, FailureIsMarked, Finished
<1>. QED
  BY <1>1, IInvHolds, PTL

-----------------------------------------------------------------------------
(***************************************************************************)
(* The listing.  When the printer comes to a marked place, it has listed   *)
(* the subtrees of the nodes in the mark, one after the other.             *)
(***************************************************************************)
Lines == Seq(Seq(Int))

Listed == Postfix(ast)

\* What is listed for node n, when g is what is listed for the others.
Entry(n, g) ==
  IF IsBinary(n) THEN g[ast[n].left] \o g[ast[n].right] \o <<Instruction(n)>>
  ELSE IF IsInv(n) THEN g[ast[n].left] \o <<Instruction(n)>>
  ELSE <<Instruction(n)>>

LEMMA EntryIs ==
  ASSUME Types, NEW n \in Nodes
  PROVE  \A g : PostfixOf(ast[n], g) = Entry(n, g)
<1>1. IsBinary(n) => ~IsInv(n) /\ ~IsLeaf(n)
  BY NodeKinds
<1>2. ~IsBinary(n) /\ ~IsInv(n) => IsLeaf(n)
  BY NodeKinds
<1>3. IsInv(n) => ~IsLeaf(n) /\ Opcode(ast[n].type) = CODE_INV
  BY NodeKinds, OpcodeIs DEF IsInv
<1>. QED
  BY <1>1, <1>2, <1>3 DEF PostfixOf, Entry, Instruction, IsBinary, IsInv, IsLeaf

LEMMA ChildrenAre ==
  ASSUME NEW n \in Nodes
  PROVE  /\ IsBinary(n) => Children(ast[n]) = {ast[n].left, ast[n].right}
         /\ IsInv(n) => ~IsBinary(n) /\ Children(ast[n]) = {ast[n].left}
<1>1. "INV" \notin BinaryTypes
  BY DEF BinaryTypes, AddSub, MulDiv
<1>2. IsBinary(n) => Children(ast[n]) = {ast[n].left, ast[n].right}
  BY <1>1 DEF Children, IsBinary
<1>3. IsInv(n) => ~IsBinary(n) /\ Children(ast[n]) = {ast[n].left}
  BY <1>1 DEF Children, IsBinary, IsInv
<1>. QED
  BY <1>2, <1>3

LEMMA EntryIsLines ==
  ASSUME Types, NEW n \in Nodes, NEW g, \A i \in Children(ast[n]) : g[i] \in Lines
  PROVE  Entry(n, g) \in Lines
<1>1. Instruction(n) \in Seq(Int) /\ <<Instruction(n)>> \in Lines
  BY InstructionIs DEF Lines
<1>2. CASE IsBinary(n)
  <2>1. g[ast[n].left] \in Lines /\ g[ast[n].right] \in Lines
    BY <1>2, ChildrenAre
  <2>. QED
    BY <1>1, <1>2, <2>1 DEF Entry, Lines
<1>3. CASE ~IsBinary(n) /\ IsInv(n)
  <2>1. g[ast[n].left] \in Lines
    BY <1>3, ChildrenAre
  <2>. QED
    BY <1>1, <1>3, <2>1 DEF Entry, Lines
<1>4. CASE ~IsBinary(n) /\ ~IsInv(n)
  BY <1>1, <1>4 DEF Entry
<1>. QED
  BY <1>2, <1>3, <1>4

LEMMA SameEntry ==
  ASSUME Types, NEW n \in Nodes, NEW f, NEW g, \A i \in Children(ast[n]) : f[i] = g[i]
  PROVE  Entry(n, f) = Entry(n, g)
<1>1. IsBinary(n) => f[ast[n].left] = g[ast[n].left] /\ f[ast[n].right] = g[ast[n].right]
  BY ChildrenAre
<1>2. IsInv(n) => f[ast[n].left] = g[ast[n].left]
  BY ChildrenAre
<1>. QED
  BY <1>1, <1>2 DEF Entry

LEMMA ListedIs ==
  ASSUME Types
  PROVE  /\ Listed \in [Nodes -> Lines]
         /\ \A n \in Nodes : Listed[n] = Entry(n, Listed)
<1> DEFINE D == Nodes
           below == [i \in D |-> Children(ast[i])]
           step == [x \in Arguments(D, below, Lines) |-> Entry(x[1], x[2])]
<1>1. /\ ast \in Seq(NodeRecord) /\ Acyclic(ast)
      /\ \A i \in D : Children(ast[i]) \subseteq D
  BY AstIs, ChildrenAreNodes DEF Nodes
<1>2. below \in [D -> SUBSET D]
  BY <1>1
<1>3. WellFounded(D, below)
  BY <1>1 DEF WellFounded, Acyclic, Nodes
<1>4. ASSUME NEW i \in D, NEW f \in [Children(ast[i]) -> Lines]
      PROVE  <<i, f>> \in Arguments(D, below, Lines) /\ step[<<i, f>>] = Entry(i, f)
  <2>1. <<i, f>> \in {i} \X [below[i] -> Lines]
    OBVIOUS
  <2>2. <<i, f>> \in Arguments(D, below, Lines)
    BY <2>1, Zenon DEF Arguments
  <2>. QED
    BY <2>2
<1>5. step \in [Arguments(D, below, Lines) -> Lines]
  <2>1. SUFFICES ASSUME NEW x \in Arguments(D, below, Lines)
                 PROVE  Entry(x[1], x[2]) \in Lines
    OBVIOUS
  <2>2. PICK i \in D : x \in {i} \X [below[i] -> Lines]
    BY Zenon DEF Arguments
  <2>3. x[1] = i /\ x[2] \in [Children(ast[i]) -> Lines]
    BY <2>2
  <2>. QED
    BY <2>3, EntryIsLines
<1>6. PICK f \in [D -> Lines] : Obeys(f, D, below, step)
  BY <1>2, <1>3, <1>5, RecursiveFunction
<1>7. ASSUME NEW i \in D
      PROVE  f[i] = Entry(i, f)
  <2> DEFINE g == [j \in below[i] |-> f[j]]
  <2>1. g \in [Children(ast[i]) -> Lines] /\ \A j \in Children(ast[i]) : g[j] = f[j]
    BY <1>1
  <2>2. f[i] = step[<<i, g>>]
    BY <1>6 DEF Obeys
  <2>3. f[i] = Entry(i, g)
    BY <1>4, <2>1, <2>2
  <2> HIDE DEF g
  <2>. QED
    BY <2>1, <2>3, SameEntry
<1>8. f = [i \in DOMAIN ast |-> PostfixOf(ast[i], f)]
  BY <1>7, EntryIs DEF Nodes
<1> HIDE DEF below, step
<1>9. Postfix(ast) = [i \in DOMAIN ast |-> PostfixOf(ast[i], Postfix(ast))]
  BY <1>8 DEF Postfix, PostfixOf
<1>10. Listed = [i \in D |-> Entry(i, Listed)]
  BY <1>9, EntryIs DEF Listed, Nodes
<1>11. \A i \in D : Listed[i] = f[i]
  <2> DEFINE S == {i \in D : Listed[i] # f[i]}
  <2>1. SUFFICES ASSUME S # {}
                 PROVE  FALSE
    OBVIOUS
  <2>2. PICK i \in S : Children(ast[i]) \cap S = {}
    BY <1>1, <2>1 DEF Acyclic, Nodes
  <2>3. \A j \in Children(ast[i]) : Listed[j] = f[j]
    BY <1>1, <2>2
  <2>4. Entry(i, Listed) = Entry(i, f)
    BY <2>3, SameEntry
  <2>. QED
    BY <1>7, <1>10, <2>4
<1>12. Listed \in [D -> Lines]
  BY <1>6, <1>10, <1>11
<1>. QED
  BY <1>10, <1>12

\* The lines are what is listed for the nodes in s, one after the other.
IsListing(lines, s) ==
  \E f \in [0..Len(s) -> Lines] :
     /\ f[0] = <<>>
     /\ \A k \in 1..Len(s) : f[k] = f[k - 1] \o Listed[s[k]]
     /\ lines = f[Len(s)]

LEMMA JoinIs ==
  ASSUME NEW a \in Lines, NEW b \in Lines
  PROVE  a \o b \in Lines
BY DEF Lines

LEMMA JoinIsAssociative ==
  ASSUME NEW a \in Lines, NEW b \in Lines, NEW c \in Lines
  PROVE  (a \o b) \o c = a \o (b \o c)
BY DEF Lines

LEMMA AppendIsJoin ==
  ASSUME NEW a \in Lines, NEW line \in Seq(Int)
  PROVE  Append(a, line) = a \o <<line>> /\ <<line>> \in Lines
BY DEF Lines

\* With the instruction of node n, the lists of its operands become its own.
LEMMA EntryCloses ==
  ASSUME Types, NEW n \in Nodes, NEW s \in Seq(Nodes), Ready(n, s),
         NEW f \in [0..Len(s) -> Lines],
         \A k \in 1..Len(s) : f[k] = f[k - 1] \o Listed[s[k]]
  PROVE  /\ Len(After(n, s)) - 1 \in 0..Len(s)
         /\ Append(f[Len(s)], Instruction(n)) = f[Len(After(n, s)) - 1] \o Listed[n]
<1> DEFINE m == Len(After(n, s)) - 1
<1>1. /\ m = Len(s) + (IF IsBinary(n) THEN -2 ELSE IF IsInv(n) THEN -1 ELSE 0)
      /\ m >= 0 /\ Len(s) \in Nat
  BY AfterIs
<1>2. m \in 0..Len(s)
  BY <1>1
<1> HIDE DEF m
<1>3. Listed[n] = Entry(n, Listed) /\ \A k \in 1..Len(s) : Listed[s[k]] \in Lines
  BY ListedIs
<1>4. PICK line \in Seq(Int) : line = Instruction(n)
  BY InstructionIs
<1>5. \A k \in 0..Len(s) : f[k] \in Lines
  OBVIOUS
<1>6. Append(f[Len(s)], line) = f[Len(s)] \o <<line>> /\ <<line>> \in Lines
  <2>1. f[Len(s)] \in Lines
    BY <1>1, <1>5
  <2>. QED
    BY <2>1, AppendIsJoin
<1>7. CASE IsBinary(n)
  <2>1. /\ Len(s) >= 2 /\ m = Len(s) - 2
        /\ s[m + 1] = ast[n].left /\ s[m + 2] = ast[n].right
    BY <1>1, <1>7 DEF Ready
  <2>2. PICK a, l, r : a = f[m] /\ l = Listed[ast[n].left] /\ r = Listed[ast[n].right]
    OBVIOUS
  <2>3. /\ m + 1 \in 1..Len(s) /\ m + 2 \in 1..Len(s) /\ m + 2 = Len(s)
        /\ (m + 1) - 1 = m /\ (m + 2) - 1 = m + 1
    BY <1>1, <1>2, <2>1
  <2>4. a \in Lines /\ l \in Lines /\ r \in Lines
    BY <1>2, <1>3, <1>5, <2>1, <2>2, <2>3
  <2>5. f[m + 1] = a \o l /\ f[Len(s)] = f[m + 1] \o r
    <3>1. f[m + 1] = f[(m + 1) - 1] \o Listed[s[m + 1]]
      BY <2>3
    <3>2. f[m + 2] = f[(m + 2) - 1] \o Listed[s[m + 2]]
      BY <2>3
    <3>. QED
      BY <2>1, <2>2, <2>3, <3>1, <3>2
  <2>6. Listed[n] = (l \o r) \o <<line>>
    BY <1>3, <1>4, <1>7, <2>2 DEF Entry
  <2>7. ((a \o l) \o r) \o <<line>> = a \o ((l \o r) \o <<line>>)
    <3>1. l \o r \in Lines
      BY <2>4, JoinIs
    <3>2. (a \o l) \o r = a \o (l \o r)
      BY <2>4, JoinIsAssociative
    <3>3. (a \o (l \o r)) \o <<line>> = a \o ((l \o r) \o <<line>>)
      BY <1>6, <2>4, <3>1, JoinIsAssociative
    <3>. QED
      BY <3>2, <3>3
  <2>. QED
    BY <1>2, <1>4, <1>6, <2>2, <2>5, <2>6, <2>7 DEF m
<1>8. CASE ~IsBinary(n) /\ IsInv(n)
  <2>1. Len(s) >= 1 /\ m = Len(s) - 1 /\ s[m + 1] = ast[n].left
    BY <1>1, <1>8 DEF Ready
  <2>2. PICK a, l : a = f[m] /\ l = Listed[ast[n].left]
    OBVIOUS
  <2>3. m + 1 \in 1..Len(s) /\ m + 1 = Len(s) /\ (m + 1) - 1 = m
    BY <1>1, <1>2, <2>1
  <2>4. a \in Lines /\ l \in Lines /\ f[Len(s)] = a \o l
    <3>1. f[m + 1] = f[(m + 1) - 1] \o Listed[s[m + 1]]
      BY <2>3
    <3>. QED
      BY <1>2, <1>3, <1>5, <2>1, <2>2, <2>3, <3>1
  <2>5. Listed[n] = l \o <<line>>
    BY <1>3, <1>4, <1>8, <2>2 DEF Entry
  <2>6. (a \o l) \o <<line>> = a \o (l \o <<line>>)
    BY <1>6, <2>4, JoinIsAssociative
  <2>. QED
    BY <1>2, <1>4, <1>6, <2>2, <2>4, <2>5, <2>6 DEF m
<1>9. CASE ~IsBinary(n) /\ ~IsInv(n)
  <2>1. m = Len(s) /\ Listed[n] = <<line>>
    BY <1>1, <1>3, <1>4, <1>9 DEF Entry
  <2>. QED
    BY <1>2, <1>4, <1>6, <2>1 DEF m
<1>. QED
  BY <1>7, <1>8, <1>9

LEMMA ListingGoesOn ==
  ASSUME Types, NEW n \in Nodes, NEW s \in Seq(Nodes), Ready(n, s),
         NEW lines, IsListing(lines, s)
  PROVE  IsListing(Append(lines, Instruction(n)), After(n, s))
<1>1. PICK f \in [0..Len(s) -> Lines] :
         /\ f[0] = <<>>
         /\ \A k \in 1..Len(s) : f[k] = f[k - 1] \o Listed[s[k]]
         /\ lines = f[Len(s)]
  BY DEF IsListing
<1>2. PICK t \in Seq(Nodes) : t = After(n, s)
  BY AfterIs
<1>3. PICK m \in Nat : m = Len(t)
  OBVIOUS
<1>4. m >= 1 /\ t[m] = n /\ \A k \in 1..(m - 1) : t[k] = s[k]
  <2>1. /\ Len(After(n, s)) >= 1 /\ After(n, s)[Len(After(n, s))] = n
        /\ \A k \in 1..(Len(After(n, s)) - 1) : After(n, s)[k] = s[k]
    BY AfterIs
  <2>. QED
    BY <1>2, <1>3, <2>1
<1>5. PICK more : more = Append(lines, Instruction(n))
  OBVIOUS
<1>6. m - 1 \in 0..Len(s) /\ more = f[m - 1] \o Listed[n]
  <2>1. /\ Len(After(n, s)) - 1 \in 0..Len(s)
        /\ Append(f[Len(s)], Instruction(n)) = f[Len(After(n, s)) - 1] \o Listed[n]
    BY <1>1, EntryCloses
  <2>. QED
    BY <1>1, <1>2, <1>3, <1>5, <2>1
<1>7. more \in Lines
  <2>1. Listed[n] \in Lines /\ f[m - 1] \in Lines
    BY <1>6, ListedIs
  <2>. QED
    BY <1>6, <2>1, JoinIs
<1> DEFINE g == [k \in 0..m |-> IF k = m THEN more ELSE f[k]]
<1>8. \A k \in 0..(m - 1) : k \in 0..Len(s) /\ k # m
  BY <1>6
<1>9. g \in [0..m -> Lines]
  BY <1>4, <1>7, <1>8
<1>10. g[0] = <<>> /\ g[m] = more
  BY <1>1, <1>4
<1>11. ASSUME NEW k \in 1..m
       PROVE  g[k] = g[k - 1] \o Listed[t[k]]
  <2>1. g[k - 1] = f[k - 1]
    BY <1>3
  <2>2. CASE k = m
    BY <1>4, <1>6, <1>10, <2>1, <2>2
  <2>3. CASE k # m
    <3>1. k \in 1..(m - 1) /\ k \in 1..Len(s)
      BY <1>6, <2>3
    <3>2. g[k] = f[k] /\ t[k] = s[k]
      BY <1>4, <2>3, <3>1
    <3>3. f[k] = f[k - 1] \o Listed[s[k]]
      BY <1>1, <3>1
    <3>. QED
      BY <2>1, <3>2, <3>3
  <2>. QED
    BY <2>2, <2>3
<1> HIDE DEF g
<1>12. IsListing(more, t)
  BY <1>3, <1>9, <1>10, <1>11 DEF IsListing
<1>. QED
  BY <1>2, <1>5, <1>12

LEMMA NothingIsListed == IsListing(<<>>, <<>>)
<1> DEFINE f == [k \in 0..0 |-> <<>>]
<1>1. f \in [0..0 -> Lines] /\ f[0] = <<>>
  BY DEF Lines
<1>2. Len(<<>>) = 0 /\ 1..0 = {}
  OBVIOUS
<1> HIDE DEF f
<1>. QED
  BY <1>1, <1>2 DEF IsListing

LEMMA OneIsListed ==
  ASSUME Types, NEW n \in Nodes, NEW lines, IsListing(lines, <<n>>)
  PROVE  lines = Listed[n]
<1>1. PICK s : s = <<n>> /\ Len(s) = 1 /\ s[1] = n
  OBVIOUS
<1>2. PICK f \in [0..Len(s) -> Lines] :
         /\ f[0] = <<>>
         /\ \A k \in 1..Len(s) : f[k] = f[k - 1] \o Listed[s[k]]
         /\ lines = f[Len(s)]
  BY <1>1 DEF IsListing
<1>3. 1 \in 1..Len(s) /\ 1 - 1 = 0
  BY <1>1
<1>4. lines = <<>> \o Listed[n]
  BY <1>1, <1>2, <1>3
<1>5. Listed[n] \in Lines
  BY ListedIs
<1>. QED
  BY <1>4, <1>5 DEF Lines

LEMMA SameListing ==
  ASSUME Fixed, NEW lines, NEW s
  PROVE  IsListing(lines, s) => IsListing(lines, s)'
BY DEF Fixed, IsListing, Listed

Lists ==
  /\ phase \in {"start", "compile"} => listing = <<>>
  /\ phase = "print" =>
       \E marks : IsWhole(marks) /\ pc \in DOMAIN marks /\ IsListing(listing, marks[pc])
  /\ ListsTheAst

\* A step that comes neither to the printer nor past it.
LEMMA SilentKeepsLists ==
  ASSUME Lists, UNCHANGED listing,
         phase' \in {"start", "compile"} => phase \in {"start", "compile"},
         phase' # "print", phase' # "call"
  PROVE  Lists'
BY DEF Lists, ListsTheAst

LEMMA RetKeepsLists == IInv /\ Lists /\ WriteRet => Lists'
<1>1. SUFFICES ASSUME IInv, Lists, WriteRet
               PROVE  Lists'
  OBVIOUS
<1>2. phase = "compile" /\ phase' = "print" /\ pc' = 2 /\ listing' = <<>>
  BY <1>1 DEF WriteRet, Lists
<1>3. Runs'
  BY <1>1, RetKeepsIInv DEF IInv
<1>4. PICK marks : IsWhole(marks)' /\ pc' \in DOMAIN marks
  BY <1>2, <1>3 DEF Runs, Finished
<1>5. marks[2] = <<>>
  BY <1>4 DEF IsWhole, IsMarking
<1>6. IsListing(<<>>, <<>>)'
  BY NothingIsListed, PTL
<1>7. IsListing(listing, marks[pc])'
  BY <1>2, <1>5, <1>6
<1>. QED
  BY <1>2, <1>4, <1>7 DEF Lists, ListsTheAst

LEMMA PrintKeepsLists == IInv /\ Lists /\ PrintInstruction => Lists'
<1>1. SUFFICES ASSUME IInv, Lists, PrintInstruction
               PROVE  Lists'
  OBVIOUS
<1>2. Types /\ Fixed /\ phase = "print" /\ phase' = "print" /\ UNCHANGED <<code, stackSize>>
  BY <1>1 DEF IInv, PrintInstruction, compileVars, Fixed
<1>3. PICK marks : IsWhole(marks) /\ pc \in DOMAIN marks /\ IsListing(listing, marks[pc])
  BY <1>1, <1>2 DEF Lists
<1>4. code[pc] # 7
  BY <1>1, OpcodeIs DEF PrintInstruction
<1>5. PICK n \in Nodes : InstructionOf(n, pc, marks)
  BY <1>2, <1>3, <1>4, OnMark
<1>6. (IsLeaf(n) <=> code[pc] \in {5, 6}) /\ code[pc] \in 0..6
  BY <1>2, <1>5, Opcodes DEF InstructionOf
<1>7. pc' = pc + Width(n) /\ listing' = Append(listing, Instruction(n))
  <2>1. CASE IsLeaf(n)
    <3>1. Instruction(n) = <<code[pc], code[pc + 1]>>
      BY <1>5, <2>1 DEF Instruction, InstructionOf, IsLeaf
    <3>2. HasOperand(code[pc])
      BY <1>6, <2>1, OpcodeIs DEF HasOperand
    <3>. QED
      BY <1>1, <2>1, <3>1, <3>2 DEF PrintInstruction, Width
  <2>2. CASE ~IsLeaf(n)
    <3>1. Instruction(n) = <<code[pc]>>
      BY <1>5, <2>2 DEF Instruction, InstructionOf, IsLeaf
    <3>2. ~HasOperand(code[pc]) /\ code[pc] \in CODE_ADD..CODE_INV
      BY <1>6, <2>2, OpcodeIs DEF HasOperand
    <3>. QED
      BY <1>1, <2>2, <3>1, <3>2 DEF PrintInstruction, Width
  <2>. QED
    BY <2>1, <2>2
<1>8. PICK s : s = marks[pc]
  OBVIOUS
<1>9. /\ s \in Seq(Nodes) /\ Ready(n, s)
      /\ pc' \in DOMAIN marks /\ marks[pc'] = After(n, s)
  BY <1>2, <1>3, <1>5, <1>7, <1>8, OnMark DEF InstructionOf
<1>10. PICK lines, t : lines = listing' /\ t = marks[pc']
  OBVIOUS
<1>11. IsListing(lines, t)
  <2>1. IsListing(listing, s)
    BY <1>3, <1>8
  <2>2. IsListing(Append(listing, Instruction(n)), After(n, s))
    BY <1>2, <1>9, <2>1, ListingGoesOn
  <2>. QED
    BY <1>7, <1>9, <1>10, <2>2
<1>12. IsListing(lines, t)'
  BY <1>2, <1>11, SameListing
<1>13. IsWhole(marks)'
  BY <1>2, <1>3, SameWhole
<1>. QED
  BY <1>2, <1>9, <1>10, <1>12, <1>13 DEF Lists, ListsTheAst

LEMMA PrintRetKeepsLists == IInv /\ Lists /\ PrintRet => Lists'
<1>1. SUFFICES ASSUME IInv, Lists, PrintRet
               PROVE  Lists'
  OBVIOUS
<1>2. Types /\ phase = "print" /\ phase' = "call" /\ ast' = ast
  BY <1>1 DEF IInv, PrintRet
<1>3. PICK marks : IsWhole(marks) /\ pc \in DOMAIN marks /\ IsListing(listing, marks[pc])
  BY <1>1, <1>2 DEF Lists
<1>4. code[pc] = 7
  BY <1>1, OpcodeIs DEF PrintRet
<1>5. marks[pc] = <<Root(ast)>>
  BY <1>2, <1>3, <1>4, OnMark
<1>6. Root(ast) \in Nodes
  BY <1>2, AstIs DEF Nodes
<1>7. listing = Listed[Root(ast)]
  <2>1. IsListing(listing, <<Root(ast)>>)
    BY <1>3, <1>5
  <2>. QED
    BY <1>2, <1>6, <2>1, OneIsListed
<1>8. listing' = Append(Postfix(ast)[Root(ast)], <<CODE_RET>>)
  BY <1>1, <1>7 DEF PrintRet, Listed
<1>. QED
  BY <1>2, <1>8 DEF Lists, ListsTheAst

LEMMA StutterKeepsLists == IInv /\ Lists /\ UNCHANGED vars => Lists'
<1>1. SUFFICES ASSUME IInv, Lists, UNCHANGED vars
               PROVE  Lists'
  OBVIOUS
<1>2. Fixed /\ UNCHANGED <<phase, pc, code, stackSize, listing>>
  BY <1>1 DEF vars, Fixed
<1>3. CASE phase = "print"
  <2>1. PICK marks : IsWhole(marks) /\ pc \in DOMAIN marks /\ IsListing(listing, marks[pc])
    BY <1>1, <1>3 DEF Lists
  <2>2. PICK lines, s : lines = listing /\ s = marks[pc]
    OBVIOUS
  <2>3. IsWhole(marks)' /\ IsListing(lines, s)'
    BY <1>2, <2>1, <2>2, SameWhole, SameListing
  <2>. QED
    BY <1>2, <1>3, <2>1, <2>2, <2>3 DEF Lists, ListsTheAst
<1>4. CASE phase # "print"
  BY <1>1, <1>2, <1>4 DEF Lists, ListsTheAst, Fixed
<1>. QED
  BY <1>3, <1>4

LEMMA NextKeepsLists == IInv /\ Lists /\ [Next]_vars => Lists'
<1>1. SUFFICES ASSUME IInv, Lists, [Next]_vars
               PROVE  Lists'
  OBVIOUS
<1>2. CASE \/ WritePlaceholder \/ CompileOperand \/ CompileRight \/ WriteInstruction \/ WriteFails
           \/ StartEval \/ NoStack
           \/ EvalVal \/ EvalVar \/ EvalInv \/ EvalBinary \/ EvalRet
  <2>1. /\ UNCHANGED listing /\ phase' # "print" /\ phase' # "call"
        /\ phase' \in {"start", "compile"} => phase \in {"start", "compile"}
    BY <1>2
    DEF WritePlaceholder, CompileOperand, CompileRight, WriteInstruction, Writing, WriteFails,
        GiveUp, Compiling, StartEval, NoStack, EvalVal, EvalVar, EvalInv, EvalBinary, EvalRet,
        At, runVars, compileVars
  <2>. QED
    BY <1>1, <2>1, SilentKeepsLists
<1>. QED
  BY <1>1, <1>2, RetKeepsLists, PrintKeepsLists, PrintRetKeepsLists, StutterKeepsLists
  DEF Next, Terminated

\* bytecode_print() lists the whole tree in postfix order, and then the RET,
\* for every AST: what is printed is the program that is run.
THEOREM ListingIsTheAst == Spec => []ListsTheAst
<1>1. Init => Lists
  BY DEF Init, Lists, ListsTheAst
<1>2. IInv /\ Lists /\ [Next]_vars => Lists'
  BY NextKeepsLists
<1>3. Lists => ListsTheAst
  BY DEF Lists
<1>. QED
  BY <1>1, <1>2, <1>3, IInvHolds, PTL DEF Spec
=============================================================================
