-------------------------------- MODULE Forest -------------------------------
(***************************************************************************)
(* What building an AST by appending nodes comes to, whoever does it:      *)
(* every node is appended after its children, and its children are nodes   *)
(* that no node has claimed before.  When one unclaimed node is left, and  *)
(* it is the last of the array, the array is a tree with its root at       *)
(* AST_ROOT_NODE_INDEX.                                                    *)
(*                                                                         *)
(* Parser implements this specification.                                   *)
(***************************************************************************)
EXTENDS Ast

VARIABLES
  argCount,  \* how many arguments the program has
  nodes,     \* ast->nodes
  roots      \* the nodes that are nobody's child yet

vars == <<argCount, nodes, roots>>

Init == argCount \in Nat /\ nodes = <<>> /\ roots = {}

\* ast_append_node(node)
AppendNode(node) ==
  /\ nodes' = Append(nodes, node)
  /\ roots' = (roots \ Children(node)) \cup {Len(nodes) + 1}
  /\ UNCHANGED argCount

Next ==
  \/ \E value \in Long : AppendNode(IntNode(value))
  \/ \E arg \in 1..argCount : AppendNode(VarNode(arg))
  \/ \E child \in roots : AppendNode(InvNode(child))
  \/ \E type \in BinaryTypes, left, right \in roots :
       left # right /\ AppendNode(BinaryNode(type, left, right))

Spec == Init /\ [][Next]_vars

-----------------------------------------------------------------------------
TypeOK ==
  /\ argCount \in Nat
  /\ nodes \in Seq(NodeRecord)
  /\ IsAst(nodes, argCount)
  /\ roots \subseteq DOMAIN nodes

\* A node stands after its children, no node is a child twice, and the roots
\* are the nodes that are no child.
ForestShaped ==
  /\ ChildBeforeParent(nodes)
  /\ \A i \in DOMAIN nodes :
       nodes[i].type \in BinaryTypes => nodes[i].left # nodes[i].right
  /\ \A i, j \in DOMAIN nodes :
       i # j => Children(nodes[i]) \cap Children(nodes[j]) = {}
  /\ UNION {Children(nodes[i]) : i \in DOMAIN nodes} = DOMAIN nodes \ roots
=============================================================================
