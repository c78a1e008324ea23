----------------------------- MODULE MCBytecode -----------------------------
(***************************************************************************)
(* ASTs of up to three leaves, as parsed and with their nodes in another   *)
(* order (the optimizer moves nodes below ones that stand before them),    *)
(* and a few deep ones.  Of the operands -1 is no opcode and 1 to 3 are.   *)
(***************************************************************************)
EXTENDS Bytecode, SmallAsts

Leaves == Ints({-1, 3}) \cup Vars(1..2)
Pairs == LET pairs == Joins(BinaryTypes, Leaves, Leaves)
         IN  pairs \cup Negations(Leaves) \cup Negations(pairs)
Triples == Joins({"SUB", "DIV"}, Pairs, Vars(1..2)) \cup Joins({"SUB", "DIV"}, Vars(1..2), Pairs)
Deep == Joins({"SUB"}, Vars({1}), Joins({"SUB"}, Vars({2}), Pairs))

\* The same tree with all nodes but the root in reverse order.
Moved(tree) ==
  LET to(i) == IF i = Len(tree) THEN i ELSE Len(tree) - i
      node(n) == CASE n.type \in BinaryTypes -> BinaryNode(n.type, to(n.left), to(n.right))
                   [] n.type = "INV"         -> InvNode(to(n.left))
                   [] OTHER                  -> n
  IN  [i \in DOMAIN tree |-> node(tree[to(i)])]

MCInputs ==
  LET trees == Leaves \cup Pairs \cup Triples \cup Deep
  IN  trees \cup {Moved(t) : t \in trees}

MCArgValues == {<<-4, -1>>, <<3, 0>>}
=============================================================================
