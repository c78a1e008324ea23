--------------------------------- MODULE Ast --------------------------------
(***************************************************************************)
(* struct Ast (ast.h): an array of nodes that refer to each other by       *)
(* index, its root the node appended last.  An AST is a sequence of nodes; *)
(* element i of the sequence is nodes[i-1] of the array, and the index     *)
(* fields hold positions in the sequence.                                  *)
(*                                                                         *)
(* struct AstNode holds a union.  Here `left' is binary.left_index or      *)
(* child_index, `right' is binary.right_index, and `num' is value or       *)
(* arg_index (1 is the first argument); a field that the node's type does  *)
(* not use is 0.  The source range of a node is left out: nothing reads it *)
(* once the node is in the array.                                          *)
(***************************************************************************)
EXTENDS LongArith, Sequences

AddSub == {"ADD", "SUB"}
MulDiv == {"MUL", "DIV"}
BinaryTypes == AddSub \cup MulDiv
NodeTypes == BinaryTypes \cup {"INV", "INT", "VAR"}

NodeRecord == [type : NodeTypes, left : Nat, right : Nat, num : Int]

\* The designated initializers of struct AstNode.
BinaryNode(type, left, right) ==
  [type |-> type, left |-> left, right |-> right, num |-> 0]
InvNode(child) == [type |-> "INV", left |-> child, right |-> 0, num |-> 0]
IntNode(value) == [type |-> "INT", left |-> 0, right |-> 0, num |-> value]
VarNode(arg)   == [type |-> "VAR", left |-> 0, right |-> 0, num |-> arg]

\* A node that can stand in an array of n nodes of a program of argc
\* arguments.
IsNode(node, n, argc) ==
  \/ /\ node.type \in BinaryTypes
     /\ node.left \in 1..n /\ node.right \in 1..n
     /\ node = BinaryNode(node.type, node.left, node.right)
  \/ node.left \in 1..n /\ node = InvNode(node.left)
  \/ node.num \in Long /\ node = IntNode(node.num)
  \/ node.num \in 1..argc /\ node = VarNode(node.num)

IsAst(ast, argc) == \A i \in DOMAIN ast : IsNode(ast[i], Len(ast), argc)

\* AST_ROOT_NODE_INDEX
Root(ast) == Len(ast)

\* The indices node holds.
Children(node) ==
  CASE node.type \in BinaryTypes -> {node.left, node.right}
    [] node.type = "INV"         -> {node.left}
    [] OTHER                     -> {}

\* No node is below itself, over any number of steps: among any nodes there is
\* one that has none of them for a child.
Acyclic(ast) ==
  \A S \in SUBSET DOMAIN ast : S # {} => \E i \in S : Children(ast[i]) \cap S = {}

(***************************************************************************)
(* node_eval: the value of the subtree under each node, for the argument   *)
(* values args.  An evaluation that divides by zero anywhere does not      *)
(* return.                                                                 *)
(***************************************************************************)
NodeEval(ast, args) ==
  LET value[i \in DOMAIN ast] ==
        LET node == ast[i] IN
        CASE node.type = "INT" -> node.num
          [] node.type = "VAR" -> args[node.num]
          [] node.type = "INV" -> StrictNegate(value[node.left])
          [] node.type \in BinaryTypes ->
               StrictBinary(node.type, value[node.left], value[node.right])
  IN  value

\* ast_eval of a non-empty AST.
AstEval(ast, args) == NodeEval(ast, args)[Root(ast)]

\* (mutation) The operators are left to bind as they do.
BareBinary(left, type, right) ==
  left \o <<[type |-> type, value |-> 0]>> \o right

InParentheses(left, type, right) ==
  <<[type |-> "(", value |-> 0]>> \o left \o <<[type |-> type, value |-> 0]>> \o right
    \o <<[type |-> ")", value |-> 0]>>

Minus == <<[type |-> "SUB", value |-> 0]>>

\* ast_print: the tokens of the text, for the argument names argNames.
Printed(ast, argNames) ==
  LET text[i \in DOMAIN ast] ==
        LET node == ast[i]
            digits == <<[type |-> "INT", value |-> Abs(node.num)]>>
        IN
        CASE node.type \in BinaryTypes ->
               InParentheses(text[node.left], node.type, text[node.right])
          [] node.type = "INV" -> Minus \o text[node.left]
          [] node.type = "INT" -> IF node.num < 0 THEN Minus \o digits ELSE digits
          [] node.type = "VAR" -> <<[type |-> "IDENT", value |-> argNames[node.num]]>>
  IN  text[Root(ast)]

(***************************************************************************)
(* The shape of the ASTs that parse_slice returns: children stand before   *)
(* their parent, every node but the root has exactly one parent, and the   *)
(* root has none.                                                          *)
(***************************************************************************)
ChildBeforeParent(ast) ==
  \A i \in DOMAIN ast : \A c \in Children(ast[i]) : c \in 1..(i - 1)

OneParent(ast) ==
  /\ \A i \in DOMAIN ast :
       ast[i].type \in BinaryTypes => ast[i].left # ast[i].right
  /\ \A i, j \in DOMAIN ast :
       i # j => Children(ast[i]) \cap Children(ast[j]) = {}
  /\ UNION {Children(ast[i]) : i \in DOMAIN ast} = 1..(Len(ast) - 1)

\* The nodes of the subtree under node i, i included.
Subtree(ast, i) ==
  LET within[k \in 0..Len(ast)] ==
        IF k = 0 THEN {i}
        ELSE LET near == within[k - 1]
             IN  near \cup UNION {Children(ast[j]) : j \in near}
  IN  within[Len(ast)]

ParsedShape(ast) == ast # <<>> /\ ChildBeforeParent(ast) /\ OneParent(ast)
=============================================================================
