----------------------------- MODULE SmallAsts ------------------------------
(***************************************************************************)
(* The small ASTs that parse_slice can return, for the model-checked       *)
(* instances: the nodes in the order in which the parser appends them, no  *)
(* negation of a constant (parse_signed folds it) and no division by the   *)
(* constant 0 (parse_mul_div refuses it).                                  *)
(***************************************************************************)
EXTENDS Ast

ShiftNode(node, k) ==
  CASE node.type \in BinaryTypes -> BinaryNode(node.type, node.left + k, node.right + k)
    [] node.type = "INV"         -> InvNode(node.left + k)
    [] OTHER                     -> node

\* The nodes of ast, appended to an array that holds k nodes.
Shifted(ast, k) == [i \in DOMAIN ast |-> ShiftNode(ast[i], k)]

Joined(type, a, b) ==
  a \o Shifted(b, Len(a)) \o <<BinaryNode(type, Len(a), Len(a) + Len(b))>>

Negated(a) == Append(a, InvNode(Len(a)))

RootNode(a) == a[Root(a)]

IsZero(a) == RootNode(a).type = "INT" /\ RootNode(a).num = 0

Joins(types, as, bs) ==
  {Joined(t, a, b) : t \in types \ {"DIV"}, a \in as, b \in bs} \cup
  {Joined(t, a, b) : t \in types \cap {"DIV"}, a \in as, b \in {c \in bs : ~IsZero(c)}}

Negations(as) == {Negated(a) : a \in {b \in as : RootNode(b).type # "INT"}}

Ints(values) == {<<IntNode(v)>> : v \in values}

Vars(args) == {<<VarNode(a)>> : a \in args}
=============================================================================
