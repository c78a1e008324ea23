---------------------------- MODULE MCOptimizer -----------------------------
(***************************************************************************)
(* ASTs of up to three leaves over all four operators, constants around    *)
(* the ones the branches test for, two variables and negations, and ASTs   *)
(* of four leaves within the sums and within the products, which are the   *)
(* smallest in which two branches meet with a constant on both sides.      *)
(***************************************************************************)
EXTENDS Optimizer, SmallAsts

Leaves == Ints({0, 1, 2}) \cup Vars(1..2)
Pairs(leaves) == Joins(BinaryTypes, leaves, leaves)
Triples(leaves, pairs) ==
  Joins(BinaryTypes, pairs, leaves) \cup Joins(BinaryTypes, leaves, pairs)

\* Two variables and a constant, and what is left of them under negations.
FewLeaves == Ints({2}) \cup Vars(1..2)
Negative  == Negations(Vars({1})) \cup Negations(Pairs(FewLeaves))

\* LONG_MIN / -1, written (2 + 2) / -1.
Extreme == Triples(Ints({2, -1}), Pairs(Ints({2, -1})))

Quadruples(types) ==
  LET two   == Joins(types, FewLeaves, FewLeaves)
      three == Joins(types, two, FewLeaves) \cup Joins(types, FewLeaves, two)
  IN  Joins(types, two, two) \cup Joins(types, three, FewLeaves)
        \cup Joins(types, FewLeaves, three)

MCInputs ==
  Leaves \cup Pairs(Leaves) \cup Triples(Leaves, Pairs(Leaves))
    \cup Negative \cup Negations(Negative) \cup Joins(BinaryTypes, Leaves, Negative)
    \cup Joins(BinaryTypes, Negative, Leaves) \cup Extreme
    \cup Quadruples(AddSub) \cup Quadruples(MulDiv)

MCArgValues == {<<3, -4>>, <<1, 2>>, <<0, -1>>}
=============================================================================
