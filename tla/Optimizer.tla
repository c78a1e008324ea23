------------------------------ MODULE Optimizer -----------------------------
(***************************************************************************)
(* optimizer.c: rewriting an AST in place.                                 *)
(*                                                                         *)
(* optimize() walks the tree with node_optimize_recursive(), children      *)
(* first, and runs node_optimize() on every node.  node_optimize() loops:  *)
(* it looks at the node, its children and the children of those, rewrites  *)
(* the node and sometimes one of its children, and either goes round again *)
(* (`continue'), calls itself for a child it has rebuilt and then goes     *)
(* round again, or returns.  No node is added to the array or removed from *)
(* it: nodes that drop out of the tree stay where they are, unused.        *)
(*                                                                         *)
(* One step of this specification is one pass through the loop, or one     *)
(* descent of the recursive walk; `stack' is the C call stack.             *)
(***************************************************************************)
EXTENDS Ast

CONSTANTS
  ArgCount,   \* how many arguments the program has
  Inputs,     \* the ASTs that are handed to optimize()
  ArgValues   \* the argument values for which results are compared

ASSUME InputsAssumption ==
  /\ ArgCount \in Nat
  /\ ArgValues \subseteq [1..ArgCount -> Long]
  /\ \A ast \in Inputs :
       /\ ast \in Seq(NodeRecord)
       /\ IsAst(ast, ArgCount)
       /\ ParsedShape(ast)

VARIABLES
  nodes,      \* ast->nodes
  stack,      \* the calls in progress, innermost last
  trapped     \* whether a constant division has killed the process

vars == <<nodes, stack, trapped>>

Frame(pc, n) == [pc |-> pc, node |-> n]

Init ==
  /\ nodes \in Inputs
  /\ stack = <<Frame("walk", Root(nodes))>>
  /\ trapped = FALSE

-----------------------------------------------------------------------------
Top == stack[Len(stack)]

Running(pc, n) == ~trapped /\ stack # <<>> /\ Top = Frame(pc, n)

Callers == SubSeq(stack, 1, Len(stack) - 1)

\* How a step ends: `return', `continue', or node_optimize(child); continue.
Return == stack' = Callers
Continue == UNCHANGED stack
RedoForgotten(child) == UNCHANGED stack   \* (mutation)
Redo(child) == stack' = Append(stack, Frame("optimize", child))

\* *node = new
Replace(n, new) == nodes' = [nodes EXCEPT ![n] = new]

\* *node = new; *child = newChild
ReplaceBoth(n, new, child, newChild) ==
  nodes' = [nodes EXCEPT ![n] = new, ![child] = newChild]

-----------------------------------------------------------------------------
(***************************************************************************)
(* node_optimize_recursive                                                 *)
(***************************************************************************)

\* (mutation) A negation is taken for an operator with two children.
WalkInvAsBinary(n) ==
  /\ Running("walk", n)
  /\ stack' = IF nodes[n].type \in BinaryTypes \cup {"INV"}
              THEN Callers \o <<Frame("walk_right", n), Frame("walk", nodes[n].left)>>
              ELSE Append(Callers, Frame("optimize", n))
  /\ UNCHANGED <<nodes, trapped>>

\* Descends into the first child, or goes on to the node itself.
Walk(n) ==
  /\ Running("walk", n)
  /\ stack' =
       CASE nodes[n].type \in BinaryTypes ->
              Callers \o <<Frame("walk_right", n), Frame("walk", nodes[n].left)>>
         [] nodes[n].type = "INV" ->
              Callers \o <<Frame("optimize", n), Frame("walk", nodes[n].left)>>
         [] OTHER -> Append(Callers, Frame("optimize", n))
  /\ UNCHANGED <<nodes, trapped>>

\* The left child is done: descends into the right one.
WalkRight(n) ==
  /\ Running("walk_right", n)
  /\ stack' = Callers \o <<Frame("optimize", n), Frame("walk", nodes[n].right)>>
  /\ UNCHANGED <<nodes, trapped>>

-----------------------------------------------------------------------------
(***************************************************************************)
(* node_optimize: which branch of its if-else chain a node takes           *)
(***************************************************************************)
Left(n)  == nodes[nodes[n].left]
Right(n) == nodes[nodes[n].right]

IsInt(i)        == nodes[i].type = "INT"
IsIntOf(i, num) == IsInt(i) /\ nodes[i].num = num

\* One of the two children of the binary node b is a constant.
HasInt(b) == IsInt(b.left) \/ IsInt(b.right)

\* Both children of n are the same variable.
SameVars(n) ==
  Left(n).type = "VAR" /\ Right(n).type = "VAR" /\ Left(n).num = Right(n).num

SumRule(n) ==
  LET l == nodes[n].left
      r == nodes[n].right
  IN  IF IsInt(l) /\ IsInt(r) THEN "fold"
      ELSE IF IsIntOf(l, 0) THEN "zero_left"
      ELSE IF IsIntOf(r, 0) THEN "take_left"
      ELSE IF IsInt(l) /\ Right(n).type \in AddSub /\ HasInt(Right(n)) THEN "merge_left"
      ELSE IF IsInt(r) /\ Left(n).type \in AddSub /\ HasInt(Left(n)) THEN "merge_right"
      ELSE IF Right(n).type \in AddSub THEN "rotate"
      ELSE IF /\ ~IsInt(r)
              /\ Left(n).type \in AddSub
              /\ \/ IsInt(Left(n).left) /\ Left(n).type = "ADD"
                 \/ IsInt(Left(n).right) THEN "lift"
      ELSE IF nodes[n].type = "SUB" /\ SameVars(n) THEN "x_minus_x"
      ELSE "done"

\* The product or the quotient of two constants can be computed: the guards
\* of the first two branches.
FoldsAnyQuotient(n) == IsInt(nodes[n].left) /\ IsInt(nodes[n].right)   \* (mutation)
FoldsProduct(n) ==
  /\ IsInt(nodes[n].left) /\ IsInt(nodes[n].right)
  /\ nodes[n].type = "MUL" \/ Right(n).num # 0

ProductRule(n) ==
  LET l   == nodes[n].left
      r   == nodes[n].right
      mul == nodes[n].type = "MUL"
  IN  IF FoldsProduct(n) THEN "fold"
      ELSE IF IsIntOf(l, 0) THEN "zero"
      ELSE IF mul /\ IsIntOf(r, 0) THEN "zero"
      ELSE IF mul /\ IsIntOf(r, 1) THEN "take_left"
      ELSE IF mul /\ IsIntOf(l, 1) THEN "take_right"
      ELSE IF ~mul /\ SameVars(n) THEN "x_by_x"
      ELSE IF mul /\ IsInt(l) /\ Right(n).type = "MUL" /\ HasInt(Right(n)) THEN "merge_left"
      ELSE IF mul /\ IsInt(r) /\ Left(n).type = "MUL" /\ HasInt(Left(n)) THEN "merge_right"
      ELSE IF mul /\ Right(n).type = "MUL" THEN "rotate"
      ELSE IF mul /\ ~IsInt(r) /\ Left(n).type = "MUL" /\ HasInt(Left(n)) THEN "lift"
      ELSE "done"

InvRule(n) ==
  CASE Left(n).type = "INT" -> "fold"
    [] Left(n).type = "INV" -> "double_negation"
    [] OTHER                -> "done"

Rule(n) ==
  CASE nodes[n].type \in AddSub -> SumRule(n)
    [] nodes[n].type \in MulDiv -> ProductRule(n)
    [] nodes[n].type = "INV"    -> InvRule(n)
    [] OTHER                    -> "done"

\* node_optimize(n) is about to take the branch `rule' of the case `types'.
Takes(n, types, rule) ==
  Running("optimize", n) /\ nodes[n].type \in types /\ Rule(n) = rule

-----------------------------------------------------------------------------
(***************************************************************************)
(* The branches that several node types share                              *)
(***************************************************************************)

\* Nothing to do, or nothing more to do.
Finish(n) ==
  /\ Takes(n, NodeTypes, "done")
  /\ Return
  /\ UNCHANGED <<nodes, trapped>>

\* Two constants: computes the operation at compile time.  The quotient
\* LONG_MIN / -1 kills the process.
FoldBinary(n) ==
  /\ Takes(n, BinaryTypes, "fold")
  /\ LET value == Binary(nodes[n].type, Left(n).num, Right(n).num)
     IN  IF value = TRAP
         THEN trapped' = TRUE /\ UNCHANGED <<nodes, stack>>
         ELSE Replace(n, IntNode(value)) /\ Return /\ UNCHANGED trapped

FoldInv(n) ==
  /\ Takes(n, {"INV"}, "fold")
  /\ Replace(n, IntNode(Negate(Left(n).num)))
  /\ Return
  /\ UNCHANGED trapped

\* -(-X): the node becomes a copy of its child, which is the inner -X.
CollapseDoubleInv(n) ==
  /\ Takes(n, {"INV"}, "double_negation")
  /\ Replace(n, Left(n))
  /\ Return
  /\ UNCHANGED trapped

\* X + 0, X - 0, X * 1: the node becomes a copy of its left child.
TakeLeft(n) ==
  /\ Takes(n, BinaryTypes, "take_left")
  /\ Replace(n, Left(n))
  /\ Return
  /\ UNCHANGED trapped

\* 0 + X
ZeroPlus(n) ==
  /\ Takes(n, {"ADD"}, "zero_left")
  /\ Replace(n, Right(n))
  /\ Return
  /\ UNCHANGED trapped

\* 1 * X
OneTimes(n) ==
  /\ Takes(n, {"MUL"}, "take_right")
  /\ Replace(n, Right(n))
  /\ Return
  /\ UNCHANGED trapped

\* (mutation) Returns although the new negation may fold.
ZeroMinusReturns(n) ==
  /\ Takes(n, {"SUB"}, "zero_left")
  /\ Replace(n, InvNode(nodes[n].right))
  /\ Return
  /\ UNCHANGED trapped

\* 0 - X -> -X
ZeroMinus(n) ==
  /\ Takes(n, {"SUB"}, "zero_left")
  /\ Replace(n, InvNode(nodes[n].right))
  /\ Continue
  /\ UNCHANGED trapped

\* X - X -> 0, 0 * X -> 0, 0 / X -> 0, X * 0 -> 0, X / X -> 1
TakeConstant(n) ==
  /\ \E rule \in {"x_minus_x", "zero", "x_by_x"} :
       /\ Takes(n, BinaryTypes, rule)
       /\ Replace(n, IntNode(IF rule = "x_by_x" THEN 1 ELSE 0))
  /\ Return
  /\ UNCHANGED trapped

-----------------------------------------------------------------------------
(***************************************************************************)
(* The branches that move constants together                               *)
(*                                                                         *)
(* In each of them l and r are the children of n, and `other' tells which  *)
(* of the grandchildren is not the constant.                               *)
(***************************************************************************)

\* ADD if the two signs agree: the sign of what stands behind both.
SignProduct(t, u) == IF t = u THEN "ADD" ELSE "SUB"

SameSign(t) == t   \* (mutation)
Opposite(t) == IF t = "ADD" THEN "SUB" ELSE "ADD"

\* 1 +/- (2 +/- X) and 1 +/- (X +/- 2)
MergeLeftSum(n) ==
  LET type == nodes[n].type
      l    == nodes[n].left
      r    == Right(n)
      sign == SignProduct(type, r.type)
  IN  /\ Takes(n, AddSub, "merge_left")
      /\ IF IsInt(r.left)
         THEN ReplaceBoth(n, BinaryNode(sign, l, r.right),
                          l, IntNode(Binary(type, Left(n).num, nodes[r.left].num)))
         ELSE ReplaceBoth(n, BinaryNode(type, l, r.left),
                          l, IntNode(Binary(sign, Left(n).num, nodes[r.right].num)))
      /\ Continue
      /\ UNCHANGED trapped

\* (X +/- 1) +/- 2 -> X + (+/- 1 +/- 2) and (1 +/- X) +/- 2 -> (1 +/- 2) +/- X
MergeRightSum(n) ==
  LET type   == nodes[n].type
      r      == nodes[n].right
      l      == Left(n)
      signed == IF l.type = "SUB" THEN Negate(nodes[l.right].num) ELSE nodes[l.right].num
  IN  /\ Takes(n, AddSub, "merge_right")
      /\ IF IsInt(l.right)
         THEN ReplaceBoth(n, BinaryNode("ADD", l.left, r),
                          r, IntNode(Binary(type, signed, Right(n).num)))
         ELSE ReplaceBoth(n, BinaryNode(l.type, r, l.right),
                          r, IntNode(Binary(type, nodes[l.left].num, Right(n).num)))
      /\ Continue
      /\ UNCHANGED trapped

\* X + (C +/- D) -> (X + C) +/- D and X - (C +/- D) -> (X - C) -/+ D
RotateSum(n) ==
  LET type == nodes[n].type
      l    == nodes[n].left
      r    == nodes[n].right
      c    == Right(n)
  IN  /\ Takes(n, AddSub, "rotate")
      /\ ReplaceBoth(n, BinaryNode(IF type = "ADD" THEN c.type ELSE Opposite(c.type),
                                   r, c.right),
                     r, BinaryNode(type, l, c.left))
      /\ Redo(r)
      /\ UNCHANGED trapped

\* (1 + X) +/- Y -> (X +/- Y) + 1 and (X +/- 1) +/- Y -> (X +/- Y) +/- 1
LiftSum(n) ==
  LET type == nodes[n].type
      l    == nodes[n].left
      r    == nodes[n].right
      c    == Left(n)
  IN  /\ Takes(n, AddSub, "lift")
      /\ IF IsInt(c.left)
         THEN ReplaceBoth(n, BinaryNode("ADD", l, c.left),
                          l, BinaryNode(type, c.right, r))
         ELSE ReplaceBoth(n, BinaryNode(c.type, l, c.right),
                          l, BinaryNode(type, c.left, r))
      /\ Redo(l)
      /\ UNCHANGED trapped

\* 2 * (3 * X) -> (2 * 3) * X and 2 * (X * 3) -> (2 * 3) * X
MergeLeftProduct(n) ==
  LET l      == nodes[n].left
      r      == Right(n)
      number == IF IsInt(r.left) THEN r.left ELSE r.right
      other  == IF IsInt(r.left) THEN r.right ELSE r.left
  IN  /\ Takes(n, {"MUL"}, "merge_left")
      /\ ReplaceBoth(n, BinaryNode("MUL", l, other),
                     l, IntNode(Binary("MUL", Left(n).num, nodes[number].num)))
      /\ Continue
      /\ UNCHANGED trapped

\* (X * 2) * 3 -> X * (2 * 3) and (2 * X) * 3 -> X * (2 * 3)
MergeRightProduct(n) ==
  LET r      == nodes[n].right
      l      == Left(n)
      number == IF IsInt(l.right) THEN l.right ELSE l.left
      other  == IF IsInt(l.right) THEN l.left ELSE l.right
  IN  /\ Takes(n, {"MUL"}, "merge_right")
      /\ ReplaceBoth(n, BinaryNode("MUL", other, r),
                     r, IntNode(Binary("MUL", nodes[number].num, Right(n).num)))
      /\ Continue
      /\ UNCHANGED trapped

\* (mutation) The rebuilt child takes the wrong operand.
RotateProductSharing(n) ==
  LET r == nodes[n].right
      c == Right(n)
  IN  /\ Takes(n, {"MUL"}, "rotate")
      /\ ReplaceBoth(n, BinaryNode("MUL", r, c.right),
                     r, BinaryNode("MUL", nodes[n].left, c.right))
      /\ Redo(r)
      /\ UNCHANGED trapped

\* X * (C * D) -> (X * C) * D
RotateProduct(n) ==
  LET l == nodes[n].left
      r == nodes[n].right
      c == Right(n)
  IN  /\ Takes(n, {"MUL"}, "rotate")
      /\ ReplaceBoth(n, BinaryNode("MUL", r, c.right), r, BinaryNode("MUL", l, c.left))
      /\ Redo(r)
      /\ UNCHANGED trapped

\* (mutation) (2 * X) * Y -> 2 * (X * Y), the form that RotateProduct undoes.
LiftProductLeft(n) ==
  LET l      == nodes[n].left
      c      == Left(n)
      number == IF IsInt(c.left) THEN c.left ELSE c.right
      other  == IF IsInt(c.left) THEN c.right ELSE c.left
  IN  /\ Takes(n, {"MUL"}, "lift")
      /\ ReplaceBoth(n, BinaryNode("MUL", number, l),
                     l, BinaryNode("MUL", other, nodes[n].right))
      /\ Redo(l)
      /\ UNCHANGED trapped

\* (2 * X) * Y -> (X * Y) * 2 and (X * 2) * Y -> (X * Y) * 2
LiftProduct(n) ==
  LET l      == nodes[n].left
      r      == nodes[n].right
      c      == Left(n)
      number == IF IsInt(c.left) THEN c.left ELSE c.right
      other  == IF IsInt(c.left) THEN c.right ELSE c.left
  IN  /\ Takes(n, {"MUL"}, "lift")
      /\ ReplaceBoth(n, BinaryNode("MUL", l, number), l, BinaryNode("MUL", other, r))
      /\ Redo(l)
      /\ UNCHANGED trapped

-----------------------------------------------------------------------------
\* optimize() has returned, or the process is dead.
Terminated == (stack = <<>> \/ trapped) /\ UNCHANGED vars

Optimize(n) ==
  \/ Finish(n) \/ FoldBinary(n) \/ FoldInv(n) \/ CollapseDoubleInv(n)
  \/ TakeLeft(n) \/ ZeroPlus(n) \/ OneTimes(n) \/ ZeroMinus(n) \/ TakeConstant(n)
  \/ MergeLeftSum(n) \/ MergeRightSum(n) \/ RotateSum(n) \/ LiftSum(n)
  \/ MergeLeftProduct(n) \/ MergeRightProduct(n) \/ RotateProduct(n) \/ LiftProduct(n)

Next ==
  \/ \E n \in DOMAIN nodes : Walk(n) \/ WalkRight(n) \/ Optimize(n)
  \/ Terminated

Spec == Init /\ [][Next]_vars

\* The program is a single thread that runs until it is finished.
FairSpec == Spec /\ WF_vars(Next)

-----------------------------------------------------------------------------
(***************************************************************************)
(* Properties                                                              *)
(***************************************************************************)
Done == stack = <<>>

TypeOK ==
  /\ IsAst(nodes, ArgCount)
  /\ \A k \in DOMAIN stack :
       stack[k] \in [pc : {"walk", "walk_right", "optimize"}, node : DOMAIN nodes]
  /\ trapped \in BOOLEAN

Live == Subtree(nodes, Root(nodes))

\* The nodes that hang from the root form a tree: the root hangs from no
\* node, and each other one from one node, once.  Every branch rewrites a
\* node and its child through pointers it took before; if two nodes shared a
\* child, rewriting it under the one would change the value of the other.
TreeShaped ==
  /\ \A i \in Live :
       nodes[i].type \in BinaryTypes => nodes[i].left # nodes[i].right
  /\ \A i, j \in Live :
       i # j => Children(nodes[i]) \cap Children(nodes[j]) = {}
  /\ \A i \in Live : Root(nodes) \notin Children(nodes[i])

\* "We ensure that the sub-trees stay optimized so we don't have to do that
\* recursive part again" (optimizer.c:54-57): whenever the loop looks at a
\* node, no branch applies to any node below it.
SubtreesStayOptimized ==
  (stack # <<>> /\ Top.pc = "optimize") =>
    \A i \in Subtree(nodes, Top.node) \ {Top.node} : Rule(i) = "done"

\* When optimize() returns, no branch applies anywhere in the tree: another
\* call would change nothing.
ResultIsOptimized == Done => \A i \in Live : Rule(i) = "done"

\* "No division by zero happens in the optimizer" (optimizer.c:360-361): the
\* one constant division it cannot compute is LONG_MIN / -1.
NoDivisionByZero ==
  trapped => Left(Top.node).num = LONG_MIN /\ Right(Top.node).num = -1

\* The step changes no result; where the program would not have returned it
\* may do anything.
SameValues ==
  \A args \in ArgValues :
    AstEval(nodes, args) \in {AstEval(nodes', args), TRAP}

\* No branch changes what the program computes, for any arguments with which
\* the program computes something (`0 / X' and `X / X' are rewritten although
\* X may be 0).  The branch that collapses a double negation is not covered.
ValuePreserved ==
  [][(\E n \in DOMAIN nodes : CollapseDoubleInv(n)) \/ SameValues]_nodes

\* The comparison that test.h:127-128 and main.c:82 make: the optimized
\* program computes what the original one computed.
OptimizedAgrees == [][SameValues]_nodes

\* "Integer overflows/underflows are in principle undefined behavior in C, but
\* it is well enough defined on common architectures like x86_32/x86_64"
\* (optimizer.c:45-47): no overflow of a constant stops the optimizer.
OverflowIsDefined == ~trapped

\* The walk ends on every AST: no two branches undo each other.
Terminates == <>(Done \/ trapped)
=============================================================================
