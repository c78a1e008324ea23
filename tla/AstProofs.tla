------------------------------ MODULE AstProofs ------------------------------
(***************************************************************************)
(* What the operators of LongArith, Ast and Language compute: the results  *)
(* of the arithmetic are longs, the value of a node is what its type makes *)
(* of the values of its children, what tokens mean they mean in one way    *)
(* and wherever they stand, which tokens can stand next to each other, and *)
(* the text of an AST means what the AST computes.  The first part, on     *)
(* recursion, is about functions of any kind; LexerProofs uses it too.     *)
(***************************************************************************)
EXTENDS Language, WellFoundedInduction, SequenceTheorems, FiniteSetTheorems, TLAPS

-----------------------------------------------------------------------------
(***************************************************************************)
(* Definition and proof by recursion on a finite structure, in a form in   *)
(* which the provers can use it: nothing here takes an operator.           *)
(*                                                                         *)
(* `below' tells for each element of D on which others what is defined of  *)
(* it rests.  Nothing rests on itself, over however many steps, if every   *)
(* set of elements that is not empty has one that rests on none of them.   *)
(***************************************************************************)
WellFounded(D, below) ==
  \A S \in SUBSET D : S # {} => \E i \in S : below[i] \cap S = {}

\* The arguments of a step: an element, and what is defined of the elements
\* that it rests on.
Arguments(D, below, V) == UNION {{i} \X [below[i] -> V] : i \in D}

\* The equations by which `step' defines f on all of T.
Obeys(f, T, below, step) ==
  \A i \in T : f[i] = step[<<i, [j \in below[i] |-> f[j]]>>]

\* A set of natural numbers that is not empty has a least one.
LEMMA LeastNumber ==
  ASSUME NEW S, S \subseteq Nat, S # {}
  PROVE  \E n \in S : \A m \in S : n <= m
<1>1. PICK n \in S : \A m \in S : <<m, n>> \notin OpToRel(<, Nat)
  BY NatLessThanWellFounded, WFMin
<1>2. \A m \in S : ~(m < n)
  BY <1>1 DEF OpToRel
<1>. QED
  BY <1>2

\* Two solutions of the equations, on sets that hold what they rest on, agree.
LEMMA SameSolution ==
  ASSUME NEW D, NEW below, WellFounded(D, below), NEW step,
         NEW T \in SUBSET D, \A i \in T : below[i] \subseteq T,
         NEW U \in SUBSET D, \A i \in U : below[i] \subseteq U,
         NEW f, Obeys(f, T, below, step),
         NEW g, Obeys(g, U, below, step)
  PROVE  \A i \in T \cap U : f[i] = g[i]
<1> DEFINE S == {i \in T \cap U : f[i] # g[i]}
<1>1. SUFFICES ASSUME S # {}
               PROVE  FALSE
  OBVIOUS
<1>2. PICK i \in S : below[i] \cap S = {}
  BY <1>1 DEF WellFounded
<1>3. \A j \in below[i] : f[j] = g[j]
  BY <1>2
<1>4. [j \in below[i] |-> f[j]] = [j \in below[i] |-> g[j]]
  BY <1>3
<1>. QED
  BY <1>4 DEF Obeys

\* A solution on a set that holds what it rests on.
IsSolution(f, T, D, below, V, step) ==
  /\ T \in SUBSET D
  /\ \A i \in T : below[i] \subseteq T
  /\ f \in [T -> V]
  /\ Obeys(f, T, below, step)

\* Any set of solutions can be put together.
LEMMA JoinedSolution ==
  ASSUME NEW D, NEW below, WellFounded(D, below), NEW V, NEW step,
         NEW C, C = {i \in D : \E T, f : i \in T /\ IsSolution(f, T, D, below, V, step)}
  PROVE  \E g : IsSolution(g, C, D, below, V, step)
<1> DEFINE Of(i, v) == \E T, f : i \in T /\ IsSolution(f, T, D, below, V, step) /\ v = f[i]
           g == [i \in C |-> CHOOSE v : Of(i, v)]
<1>1. ASSUME NEW T, NEW f, IsSolution(f, T, D, below, V, step), NEW i \in T
      PROVE  i \in C /\ g[i] = f[i]
  <2>1. i \in C
    BY <1>1 DEF IsSolution
  <2>2. Of(i, f[i])
    BY <1>1
  <2>3. Of(i, g[i])
    BY <2>1, <2>2
  <2>4. PICK U, h : i \in U /\ IsSolution(h, U, D, below, V, step) /\ g[i] = h[i]
    BY <2>3
  <2>. QED
    BY <1>1, <2>1, <2>4, SameSolution DEF IsSolution
<1>2. ASSUME NEW i \in C
      PROVE  /\ below[i] \subseteq C
             /\ g[i] \in V
             /\ g[i] = step[<<i, [j \in below[i] |-> g[j]]>>]
  <2> HIDE DEF g
  <2>1. PICK T, f : i \in T /\ IsSolution(f, T, D, below, V, step)
    BY <1>2
  <2>2. below[i] \subseteq T
    BY <2>1 DEF IsSolution
  <2>3. ASSUME NEW j \in below[i]
        PROVE  j \in C /\ g[j] = f[j]
    <3>1. j \in T
      BY <2>2
    <3>. QED
      BY <1>1, <2>1, <3>1
  <2>4. [j \in below[i] |-> g[j]] = [j \in below[i] |-> f[j]]
    BY <2>3
  <2>5. f[i] = step[<<i, [j \in below[i] |-> f[j]]>>] /\ f[i] \in V
    BY <2>1 DEF IsSolution, Obeys
  <2>6. i \in C /\ g[i] = f[i]
    BY <1>1, <2>1
  <2>. QED
    BY <2>3, <2>4, <2>5, <2>6
<1>3. C \in SUBSET D
  OBVIOUS
<1>4. g \in [C -> V]
  BY <1>2
<1>5. Obeys(g, C, below, step)
  BY <1>2 DEF Obeys
<1>6. IsSolution(g, C, D, below, V, step)
  BY <1>2, <1>3, <1>4, <1>5 DEF IsSolution
<1>. QED
  BY <1>6

\* The equations have a solution.
LEMMA RecursiveFunction ==
  ASSUME NEW D, NEW below \in [D -> SUBSET D], WellFounded(D, below),
         NEW V, NEW step \in [Arguments(D, below, V) -> V]
  PROVE  \E f \in [D -> V] : Obeys(f, D, below, step)
<1> DEFINE C == {i \in D : \E T, f : i \in T /\ IsSolution(f, T, D, below, V, step)}
<1>1. PICK g : IsSolution(g, C, D, below, V, step)
  BY JoinedSolution
<1>2. D \ C = {}
  <2>1. SUFFICES ASSUME D \ C # {}
                 PROVE  FALSE
    OBVIOUS
  <2>2. PICK i \in D \ C : below[i] \cap (D \ C) = {}
    BY <2>1 DEF WellFounded
  <2>3. below[i] \subseteq C
    BY <2>2
  <2> DEFINE T == C \cup {i}
             f == [j \in T |-> IF j = i THEN step[<<i, [k \in below[i] |-> g[k]]>>] ELSE g[j]]
  <2>4. \A j \in T : below[j] \subseteq C
    BY <1>1, <2>3 DEF IsSolution
  <2>5. \A j \in T : [k \in below[j] |-> f[k]] = [k \in below[j] |-> g[k]]
    BY <2>2, <2>4
  <2>6. step[<<i, [k \in below[i] |-> g[k]]>>] \in V
    <3>1. [k \in below[i] |-> g[k]] \in [below[i] -> V]
      BY <1>1, <2>3 DEF IsSolution
    <3>2. <<i, [k \in below[i] |-> g[k]]>> \in Arguments(D, below, V)
      <4>1. <<i, [k \in below[i] |-> g[k]]>> \in {i} \X [below[i] -> V]
        BY <3>1
      <4>2. i \in D
        OBVIOUS
      <4>. QED
        BY <4>1, <4>2, Zenon DEF Arguments
    <3>. QED
      BY <3>2
  <2>7. f \in [T -> V]
    BY <1>1, <2>6 DEF IsSolution
  <2>8. Obeys(f, T, below, step)
    <3>1. SUFFICES ASSUME NEW j \in T
                   PROVE  f[j] = step[<<j, [k \in below[j] |-> f[k]]>>]
      BY DEF Obeys
    <3>2. [k \in below[j] |-> f[k]] = [k \in below[j] |-> g[k]]
      BY <2>5
    <3>3. CASE j = i
      BY <3>2, <3>3
    <3>4. CASE j # i
      BY <1>1, <3>2, <3>4 DEF IsSolution, Obeys
    <3>. QED
      BY <3>3, <3>4
  <2>9. IsSolution(f, T, D, below, V, step)
    BY <2>2, <2>4, <2>7, <2>8 DEF IsSolution
  <2>. QED
    BY <2>2, <2>9
<1>. QED
  BY <1>1, <1>2 DEF IsSolution

-----------------------------------------------------------------------------
(***************************************************************************)
(* Recursion along an interval                                             *)
(***************************************************************************)

\* Each element but the first rests on the one before it.
LEMMA IntervalIsWellFounded ==
  ASSUME NEW from \in Nat, NEW to \in Nat
  PROVE  WellFounded(from..to, [i \in from..to |-> IF i = from THEN {} ELSE {i - 1}])
<1> DEFINE below == [i \in from..to |-> IF i = from THEN {} ELSE {i - 1}]
<1>1. SUFFICES ASSUME NEW S \in SUBSET (from..to), S # {}
               PROVE  \E i \in S : below[i] \cap S = {}
  BY DEF WellFounded
<1>2. S \subseteq Nat
  OBVIOUS
<1>3. PICK i \in S : \A m \in S : i <= m
  BY <1>1, <1>2, LeastNumber
<1>4. below[i] \cap S = {}
  BY <1>2, <1>3
<1>. QED
  BY <1>4

\* f begins with a first value and goes from one value to the next.
Recurs(f, from, to, first, next) ==
  \A i \in from..to : f[i] = IF i = from THEN first ELSE next[<<i, f[i - 1]>>]

\* A first value and a way from one value to the next make a function.
LEMMA Recurrence ==
  ASSUME NEW from \in Nat, NEW to \in Nat, NEW V, NEW first \in V,
         NEW next \in [(from..to) \X V -> V]
  PROVE  \E f \in [from..to -> V] : Recurs(f, from, to, first, next)
<1> DEFINE D == from..to
           below == [i \in D |-> IF i = from THEN {} ELSE {i - 1}]
           step == [x \in Arguments(D, below, V) |->
                      IF x[1] = from THEN first ELSE next[<<x[1], x[2][x[1] - 1]>>]]
<1>1. below \in [D -> SUBSET D]
  OBVIOUS
<1>2. WellFounded(D, below)
  BY IntervalIsWellFounded
<1>3. ASSUME NEW i \in D, NEW g \in [below[i] -> V]
      PROVE  /\ <<i, g>> \in Arguments(D, below, V)
             /\ step[<<i, g>>] = IF i = from THEN first ELSE next[<<i, g[i - 1]>>]
  <2>1. <<i, g>> \in {i} \X [below[i] -> V]
    OBVIOUS
  <2>2. <<i, g>> \in Arguments(D, below, V)
    BY <2>1, Zenon DEF Arguments
  <2>. QED
    BY <2>2
<1>4. step \in [Arguments(D, below, V) -> V]
  <2>1. SUFFICES ASSUME NEW x \in Arguments(D, below, V)
                 PROVE  (IF x[1] = from THEN first ELSE next[<<x[1], x[2][x[1] - 1]>>]) \in V
    OBVIOUS
  <2>2. PICK i \in D : x \in {i} \X [below[i] -> V]
    BY Zenon DEF Arguments
  <2>3. x[1] = i /\ x[2] \in [below[i] -> V]
    BY <2>2
  <2>4. i # from => x[2][i - 1] \in V
    BY <2>3
  <2>. QED
    BY <2>3, <2>4
<1>5. PICK f \in [D -> V] : Obeys(f, D, below, step)
  BY <1>1, <1>2, <1>4, RecursiveFunction
<1>6. ASSUME NEW i \in D
      PROVE  f[i] = IF i = from THEN first ELSE next[<<i, f[i - 1]>>]
  <2> DEFINE g == [j \in below[i] |-> f[j]]
  <2>1. g \in [below[i] -> V] /\ (i # from => g[i - 1] = f[i - 1])
    BY <1>1
  <2>2. f[i] = step[<<i, g>>]
    BY <1>5 DEF Obeys
  <2>. QED
    BY <1>3, <2>1, <2>2
<1>7. Recurs(f, from, to, first, next)
  BY <1>6 DEF Recurs
<1>. QED
  BY <1>7

-----------------------------------------------------------------------------
(***************************************************************************)
(* The AST                                                                 *)
(***************************************************************************)
Value == Long \cup {TRAP}

-----------------------------------------------------------------------------
(***************************************************************************)
(* Arithmetic                                                              *)
(***************************************************************************)
LEMMA LongIs ==
  /\ LONG_MAX \in Nat /\ LONG_MAX >= 1
  /\ LONG_MIN \in Int /\ LONG_MIN = -LONG_MAX - 1
  /\ Long = LONG_MIN..LONG_MAX
  /\ TRAP \notin Int /\ TRAP \notin Long
BY LongAssumption DEF LONG_MIN, Long

LEMMA WrapIsLong == \A n \in Int : Wrap(n) \in Long
<1>1. SUFFICES ASSUME NEW n \in Int
               PROVE  Wrap(n) \in Long
  OBVIOUS
<1> DEFINE M == 2 * (LONG_MAX + 1)
<1>2. M \in Nat /\ M > 0 /\ LONG_MIN + M = LONG_MAX + 1
  BY LongIs
<1>3. n - LONG_MIN \in Int
  BY LongIs
<1> HIDE DEF M
<1>4. (n - LONG_MIN) % M \in 0..(M - 1)
  BY <1>2, <1>3
<1>. QED
  BY <1>2, <1>4, LongIs DEF Wrap, M

LEMMA QuotientBound ==
  ASSUME NEW a \in Nat, NEW b \in Nat, b > 0
  PROVE  a \div b \in 0..a /\ (b > 1 /\ a > 0 => a \div b < a)
<1>1. a \div b \in Int /\ b * (a \div b) <= a /\ a < b * (a \div b) + b
  OBVIOUS
<1> DEFINE q == a \div b
<1>2. q \in Int /\ b * q <= a /\ a < b * q + b
  BY <1>1
<1> HIDE DEF q
<1>3. q >= 0
  <2>1. SUFFICES ASSUME q <= -1
                 PROVE  FALSE
    BY <1>2
  <2>2. b * q <= -b
    BY <1>2, <2>1
  <2>. QED
    BY <1>2, <2>2
<1>4. q <= b * q
  BY <1>2, <1>3
<1>5. b > 1 /\ q > 0 => q < b * q
  BY <1>2
<1>6. q <= a /\ (b > 1 /\ a > 0 => q < a)
  BY <1>2, <1>3, <1>4, <1>5
<1>. QED
  BY <1>2, <1>3, <1>6 DEF q

LEMMA QuotientIsLong ==
  ASSUME NEW a \in Long, NEW b \in Long, b # 0, ~(a = LONG_MIN /\ b = -1)
  PROVE  Quotient(a, b) \in Long
<1>1. /\ a \in Int /\ b \in Int
      /\ Abs(a) \in Nat /\ Abs(b) \in Nat /\ Abs(b) > 0
  BY LongIs DEF Abs
<1> DEFINE q == Abs(a) \div Abs(b)
<1>2. q \in 0..Abs(a) /\ (Abs(b) > 1 /\ Abs(a) > 0 => q < Abs(a))
  BY <1>1, QuotientBound
<1> HIDE DEF q
<1>3. Quotient(a, b) = IF (a < 0) = (b < 0) THEN q ELSE -q
  BY DEF Quotient, q
<1>4. Abs(a) <= LONG_MAX + 1 /\ (Abs(a) = LONG_MAX + 1 => a = LONG_MIN)
  BY LongIs DEF Abs
<1>5. CASE Abs(a) <= LONG_MAX
  BY <1>1, <1>2, <1>3, <1>5, LongIs
<1>6. CASE a = LONG_MIN
  <2>1. a < 0 /\ Abs(a) = LONG_MAX + 1
    BY <1>6, LongIs DEF Abs
  <2>2. CASE b < 0
    <3>1. Abs(b) > 1
      BY <1>1, <1>6, <2>2 DEF Abs
    <3>. QED
      BY <1>2, <1>3, <2>1, <3>1, LongIs
  <2>3. CASE ~(b < 0)
    BY <1>2, <1>3, <2>1, <2>3, LongIs
  <2>. QED
    BY <2>2, <2>3
<1>. QED
  BY <1>1, <1>4, <1>5, <1>6, LongIs DEF Abs

\* Only a division can fail to return.
LEMMA BinaryIsValue ==
  ASSUME NEW type \in BinaryTypes, NEW a \in Long, NEW b \in Long
  PROVE  /\ Binary(type, a, b) \in Value
         /\ type # "DIV" => Binary(type, a, b) \in Long
<1>1. a \in Int /\ b \in Int
  BY LongIs
<1>2. a + b \in Int /\ a - b \in Int /\ a * b \in Int
  BY <1>1
<1>3. CASE type = "DIV"
  BY <1>3, QuotientIsLong DEF Binary, Divide, Value
<1>4. CASE type # "DIV"
  BY <1>2, <1>4, WrapIsLong DEF Binary, Value, BinaryTypes, AddSub, MulDiv
<1>. QED
  BY <1>3, <1>4

LEMMA NegateIsLong == \A a \in Long : Negate(a) \in Long
<1>1. \A a \in Long : -a \in Int
  BY LongIs
<1>. QED
  BY <1>1, WrapIsLong DEF Negate

LEMMA StrictIsValue ==
  /\ \A a \in Value : StrictNegate(a) \in Value
  /\ \A type \in BinaryTypes, a, b \in Value : StrictBinary(type, a, b) \in Value
BY NegateIsLong, BinaryIsValue DEF StrictNegate, StrictBinary, Value

-----------------------------------------------------------------------------
(***************************************************************************)
(* Sequences                                                               *)
(***************************************************************************)
LEMMA LastIs ==
  ASSUME NEW S, NEW s \in Seq(S), NEW x
  PROVE  /\ Len(s) \in Nat
         /\ Len(Append(s, x)) = Len(s) + 1
         /\ Append(s, x)[Len(s) + 1] = x
         /\ \A k \in 1..Len(s) : Append(s, x)[k] = s[k]
OBVIOUS

LEMMA SeqIs ==
  ASSUME NEW S, NEW s \in Seq(S)
  PROVE  /\ Len(s) \in Nat
         /\ s = <<>> <=> Len(s) = 0
         /\ \A k \in 1..Len(s) : s[k] \in S
OBVIOUS

LEMMA FrontIs ==
  ASSUME NEW S, NEW s \in Seq(S), NEW m \in 0..Len(s)
  PROVE  /\ SubSeq(s, 1, m) \in Seq(S)
         /\ Len(SubSeq(s, 1, m)) = m
         /\ \A k \in 1..m : SubSeq(s, 1, m)[k] = s[k]
<1>1. CASE m = 0
  <2>1. SubSeq(s, 1, m) = <<>>
    BY <1>1
  <2>. QED
    BY <1>1, <2>1
<1>2. CASE m # 0
  <2>1. m \in Nat /\ 1 \in 1..Len(s) /\ m \in 1..Len(s) /\ Len(s) \in Nat
    BY <1>2
  <2>2. \A k \in 1..m : s[k] \in S
    BY <2>1
  <2>. QED
    BY <2>1, <2>2, SubSeqProperties
<1>. QED
  BY <1>1, <1>2

LEMMA PushIs ==
  ASSUME NEW S, NEW fs \in Seq(S), fs # <<>>, NEW two \in Seq(S), Len(two) = 2
  PROVE  /\ SubSeq(fs, 1, Len(fs) - 1) \o two \in Seq(S)
         /\ Len(SubSeq(fs, 1, Len(fs) - 1) \o two) = Len(fs) + 1
         /\ (SubSeq(fs, 1, Len(fs) - 1) \o two)[Len(fs)] = two[1]
         /\ (SubSeq(fs, 1, Len(fs) - 1) \o two)[Len(fs) + 1] = two[2]
         /\ \A k \in 1..(Len(fs) - 1) : (SubSeq(fs, 1, Len(fs) - 1) \o two)[k] = fs[k]
<1> DEFINE front == SubSeq(fs, 1, Len(fs) - 1)
<1>1. Len(fs) \in Nat /\ Len(fs) >= 1 /\ Len(fs) - 1 \in 0..Len(fs)
  OBVIOUS
<1>2. front \in Seq(S) /\ Len(front) = Len(fs) - 1 /\ \A k \in 1..(Len(fs) - 1) : front[k] = fs[k]
  BY <1>1, FrontIs
<1> HIDE DEF front
<1>3. /\ front \o two \in Seq(S) /\ Len(front \o two) = Len(front) + 2
      /\ \A k \in 1..Len(front) : (front \o two)[k] = front[k]
      /\ (front \o two)[Len(front) + 1] = two[1]
      /\ (front \o two)[Len(front) + 2] = two[2]
  <2>1. /\ front \o two \in Seq(S) /\ Len(front \o two) = Len(front) + Len(two)
        /\ \A k \in 1..(Len(front) + Len(two)) :
             (front \o two)[k] = IF k <= Len(front) THEN front[k] ELSE two[k - Len(front)]
    BY <1>2, ConcatProperties
  <2>2. /\ Len(front) \in Nat
        /\ Len(front) + 1 \in 1..(Len(front) + Len(two))
        /\ Len(front) + 2 \in 1..(Len(front) + Len(two))
    BY <1>1, <1>2
  <2>. QED
    BY <2>1, <2>2
<1>4. Len(front) + 1 = Len(fs) /\ Len(front) + 2 = Len(fs) + 1
  BY <1>1, <1>2
<1>. QED
  BY <1>2, <1>3, <1>4 DEF front

-----------------------------------------------------------------------------
(***************************************************************************)
(* Nodes                                                                   *)
(***************************************************************************)

\* What the alternatives of IsNode say of a node of each type.
LEMMA NodeIs ==
  ASSUME NEW n, NEW argc, NEW node, IsNode(node, n, argc)
  PROVE  /\ node.type \in NodeTypes
         /\ node.type \in BinaryTypes =>
              /\ node.left \in 1..n /\ node.right \in 1..n
              /\ node = BinaryNode(node.type, node.left, node.right)
              /\ Children(node) = {node.left, node.right}
         /\ node.type = "INV" =>
              node.left \in 1..n /\ node = InvNode(node.left) /\ Children(node) = {node.left}
         /\ node.type = "INT" =>
              node.num \in Long /\ node = IntNode(node.num) /\ Children(node) = {}
         /\ node.type = "VAR" =>
              node.num \in 1..argc /\ node = VarNode(node.num) /\ Children(node) = {}
BY DEF IsNode, NodeTypes, BinaryTypes, AddSub, MulDiv, BinaryNode, InvNode, IntNode, VarNode,
       Children

LEMMA ChildrenAreNodes ==
  ASSUME NEW argc, NEW ast \in Seq(NodeRecord), IsAst(ast, argc), NEW i \in DOMAIN ast
  PROVE  /\ Children(ast[i]) \subseteq DOMAIN ast
         /\ ast[i].type \in NodeTypes
<1>1. IsNode(ast[i], Len(ast), argc)
  BY DEF IsAst
<1>2. DOMAIN ast = 1..Len(ast)
  OBVIOUS
<1>. QED
  BY <1>1, <1>2, NodeIs DEF NodeTypes

\* The value of a node, if f has those of its children.
NodeValue(node, args, f) ==
  CASE node.type = "INT" -> node.num
    [] node.type = "VAR" -> args[node.num]
    [] node.type = "INV" -> StrictNegate(f[node.left])
    [] node.type \in BinaryTypes -> StrictBinary(node.type, f[node.left], f[node.right])

LEMMA SameNodeValue ==
  ASSUME NEW n, NEW argc, NEW node, IsNode(node, n, argc), NEW args,
         NEW f, NEW g, \A j \in Children(node) : f[j] = g[j]
  PROVE  NodeValue(node, args, f) = NodeValue(node, args, g)
<1>1. CASE node.type \in BinaryTypes
  BY <1>1, NodeIs DEF NodeValue, BinaryTypes, AddSub, MulDiv
<1>2. CASE node.type = "INV"
  BY <1>2, NodeIs DEF NodeValue, BinaryTypes, AddSub, MulDiv
<1>3. CASE node.type \in {"INT", "VAR"}
  BY <1>3, NodeIs DEF NodeValue, BinaryTypes, AddSub, MulDiv
<1>. QED
  BY <1>1, <1>2, <1>3, NodeIs DEF NodeTypes

LEMMA NodeValueIsValue ==
  ASSUME NEW n, NEW argc, NEW node, IsNode(node, n, argc), NEW args \in [1..argc -> Long],
         NEW f, \A j \in Children(node) : f[j] \in Value
  PROVE  NodeValue(node, args, f) \in Value
<1>1. CASE node.type \in BinaryTypes
  BY <1>1, NodeIs, StrictIsValue DEF NodeValue, BinaryTypes, AddSub, MulDiv
<1>2. CASE node.type = "INV"
  BY <1>2, NodeIs, StrictIsValue DEF NodeValue, BinaryTypes, AddSub, MulDiv
<1>3. CASE node.type \in {"INT", "VAR"}
  BY <1>3, NodeIs DEF NodeValue, Value, BinaryTypes, AddSub, MulDiv
<1>. QED
  BY <1>1, <1>2, <1>3, NodeIs DEF NodeTypes

\* NodeEval of an AST without cycles has a value for each node, which is the
\* one that the node's type makes of those of its children.
THEOREM NodeEvalIs ==
  ASSUME NEW argc, NEW ast \in Seq(NodeRecord), IsAst(ast, argc), Acyclic(ast),
         NEW args \in [1..argc -> Long]
  PROVE  /\ NodeEval(ast, args) \in [DOMAIN ast -> Value]
         /\ \A i \in DOMAIN ast :
              NodeEval(ast, args)[i] = NodeValue(ast[i], args, NodeEval(ast, args))
<1> DEFINE D == DOMAIN ast
           below == [i \in D |-> Children(ast[i])]
           step == [x \in Arguments(D, below, Value) |-> NodeValue(ast[x[1]], args, x[2])]
<1>1. ASSUME NEW i \in D
      PROVE  IsNode(ast[i], Len(ast), argc) /\ Children(ast[i]) \subseteq D
  BY ChildrenAreNodes DEF IsAst
<1>2. below \in [D -> SUBSET D]
  BY <1>1
<1>3. WellFounded(D, below)
  BY DEF WellFounded, Acyclic
<1>4. ASSUME NEW i \in D, NEW f \in [Children(ast[i]) -> Value]
      PROVE  /\ <<i, f>> \in Arguments(D, below, Value)
             /\ step[<<i, f>>] = NodeValue(ast[i], args, f)
  <2>1. <<i, f>> \in {i} \X [below[i] -> Value]
    OBVIOUS
  <2>2. <<i, f>> \in Arguments(D, below, Value)
    BY <2>1, Zenon DEF Arguments
  <2>. QED
    BY <2>2
<1>5. step \in [Arguments(D, below, Value) -> Value]
  <2>1. SUFFICES ASSUME NEW x \in Arguments(D, below, Value)
                 PROVE  NodeValue(ast[x[1]], args, x[2]) \in Value
    OBVIOUS
  <2>2. PICK i \in D : x \in {i} \X [below[i] -> Value]
    BY Zenon DEF Arguments
  <2>3. x[1] = i /\ x[2] \in [Children(ast[i]) -> Value]
    BY <2>2
  <2>. QED
    BY <1>1, <2>3, NodeValueIsValue
<1>6. PICK f \in [D -> Value] : Obeys(f, D, below, step)
  BY <1>2, <1>3, <1>5, RecursiveFunction
<1>7. ASSUME NEW i \in D
      PROVE  f[i] = NodeValue(ast[i], args, f)
  <2> DEFINE g == [j \in below[i] |-> f[j]]
  <2>1. g \in [Children(ast[i]) -> Value] /\ \A j \in Children(ast[i]) : g[j] = f[j]
    BY <1>1
  <2>2. f[i] = step[<<i, g>>]
    BY <1>6 DEF Obeys
  <2>3. f[i] = NodeValue(ast[i], args, g)
    BY <1>4, <2>1, <2>2
  <2>. QED
    BY <1>1, <2>1, <2>3, SameNodeValue
<1>8. f = [i \in D |-> NodeValue(ast[i], args, f)]
  BY <1>7
<1> HIDE DEF below, step
<1>9. NodeEval(ast, args) = [i \in D |-> NodeValue(ast[i], args, NodeEval(ast, args))]
  BY <1>8 DEF NodeEval, NodeValue
<1> DEFINE value == NodeEval(ast, args)
<1>10. value = [i \in D |-> NodeValue(ast[i], args, value)]
  BY <1>9
<1> HIDE DEF value
<1>11. \A i \in D : value[i] = f[i]
  <2> DEFINE S == {i \in D : value[i] # f[i]}
  <2>1. SUFFICES ASSUME S # {}
                 PROVE  FALSE
    OBVIOUS
  <2>2. PICK i \in S : Children(ast[i]) \cap S = {}
    BY <2>1 DEF Acyclic
  <2>3. \A j \in Children(ast[i]) : value[j] = f[j]
    BY <1>1, <2>2
  <2>4. NodeValue(ast[i], args, value) = NodeValue(ast[i], args, f)
    BY <1>1, <2>3, SameNodeValue
  <2>. QED
    BY <1>7, <1>10, <2>4
<1>12. value \in [D -> Value]
  BY <1>6, <1>10, <1>11
<1>. QED
  BY <1>10, <1>12 DEF value

-----------------------------------------------------------------------------
(***************************************************************************)
(* Sets of nodes that hold what is below their nodes                       *)
(***************************************************************************)
Closed(ast, B) == B \subseteq DOMAIN ast /\ \A i \in B : Children(ast[i]) \subseteq B

\* Nothing of the subtree under a node lies outside a closed set that has the
\* node.
LEMMA SubtreeIsInside ==
  ASSUME NEW ast \in Seq(NodeRecord), NEW B, Closed(ast, B), NEW n \in B
  PROVE  Subtree(ast, n) \subseteq B
<1> DEFINE D == 0..Len(ast)
           below == [k \in D |-> IF k = 0 THEN {} ELSE {k - 1}]
           Wider(near) == near \cup UNION {Children(ast[j]) : j \in near}
           step == [x \in Arguments(D, below, SUBSET B) |->
                      IF x[1] = 0 THEN {n} ELSE Wider(x[2][x[1] - 1])]
<1>1. Len(ast) \in Nat
  OBVIOUS
<1>2. below \in [D -> SUBSET D]
  BY <1>1
<1>3. WellFounded(D, below)
  <2>1. SUFFICES ASSUME NEW S \in SUBSET D, S # {}
                 PROVE  \E k \in S : below[k] \cap S = {}
    BY DEF WellFounded
  <2>2. S \subseteq Nat
    BY <1>1
  <2>3. PICK k \in S : \A m \in S : k <= m
    BY <2>1, <2>2, LeastNumber
  <2>4. below[k] \cap S = {}
    BY <2>2, <2>3
  <2>. QED
    BY <2>4
<1>4. \A near \in SUBSET B : Wider(near) \in SUBSET B
  BY DEF Closed
<1>5. ASSUME NEW k \in D, NEW f \in [below[k] -> SUBSET B]
      PROVE  /\ <<k, f>> \in Arguments(D, below, SUBSET B)
             /\ step[<<k, f>>] = IF k = 0 THEN {n} ELSE Wider(f[k - 1])
  <2>1. <<k, f>> \in {k} \X [below[k] -> SUBSET B]
    OBVIOUS
  <2>2. <<k, f>> \in Arguments(D, below, SUBSET B)
    BY <2>1, Zenon DEF Arguments
  <2>. QED
    BY <2>2
<1>6. step \in [Arguments(D, below, SUBSET B) -> SUBSET B]
  <2>1. SUFFICES ASSUME NEW x \in Arguments(D, below, SUBSET B)
                 PROVE  (IF x[1] = 0 THEN {n} ELSE Wider(x[2][x[1] - 1])) \in SUBSET B
    OBVIOUS
  <2>2. PICK k \in D : x \in {k} \X [below[k] -> SUBSET B]
    BY Zenon DEF Arguments
  <2>3. x[1] = k /\ x[2] \in [below[k] -> SUBSET B]
    BY <2>2
  <2>4. k # 0 => x[2][k - 1] \in SUBSET B
    BY <2>3
  <2>. QED
    BY <1>4, <2>3, <2>4
<1>7. PICK f \in [D -> SUBSET B] : Obeys(f, D, below, step)
  BY <1>2, <1>3, <1>6, RecursiveFunction
<1>8. f = [k \in D |-> IF k = 0 THEN {n} ELSE Wider(f[k - 1])]
  <2>1. SUFFICES ASSUME NEW k \in D
                 PROVE  f[k] = IF k = 0 THEN {n} ELSE Wider(f[k - 1])
    BY <1>7
  <2> DEFINE g == [j \in below[k] |-> f[j]]
  <2>2. g \in [below[k] -> SUBSET B] /\ (k # 0 => g[k - 1] = f[k - 1])
    BY <1>1, <1>2
  <2>3. f[k] = step[<<k, g>>]
    BY <1>7 DEF Obeys
  <2>. QED
    BY <1>5, <2>2, <2>3
<1> HIDE DEF below, step
<1> DEFINE within == CHOOSE w : w = [k \in D |->
                       IF k = 0 THEN {n}
                       ELSE LET near == w[k - 1]
                            IN  near \cup UNION {Children(ast[j]) : j \in near}]
<1>9. within = [k \in D |-> IF k = 0 THEN {n} ELSE Wider(within[k - 1])]
  BY <1>8
<1>10. Subtree(ast, n) = within[Len(ast)]
  BY DEF Subtree
<1> HIDE DEF within
<1>11. \A k \in D : within[k] \subseteq B
  <2> DEFINE S == {k \in D : ~(within[k] \subseteq B)}
  <2>1. SUFFICES ASSUME S # {}
                 PROVE  FALSE
    OBVIOUS
  <2>0. S \subseteq Nat
    BY <1>1
  <2>2. PICK k \in S : \A m \in S : k <= m
    BY <2>0, <2>1, LeastNumber
  <2>3. k # 0 => within[k - 1] \subseteq B
    BY <1>1, <2>2
  <2>4. k \in D /\ ~(within[k] \subseteq B)
    BY <2>2
  <2>5. within[k] = IF k = 0 THEN {n} ELSE Wider(within[k - 1])
    BY <1>9, <2>4
  <2>6. CASE k = 0
    BY <2>4, <2>5, <2>6
  <2>7. CASE k # 0
    BY <1>4, <2>3, <2>4, <2>5, <2>7
  <2>. QED
    BY <2>6, <2>7
<1>. QED
  BY <1>1, <1>10, <1>11

\* What is below a node does not hold the node.
LEMMA BelowIs ==
  ASSUME NEW ast, Acyclic(ast), NEW T, Closed(ast, T), NEW n \in T
  PROVE  \E B \in SUBSET T : Closed(ast, B) /\ Children(ast[n]) \subseteq B /\ n \notin B
<1> DEFINE C == {B \in SUBSET T : Closed(ast, B) /\ n \notin B}
           U == UNION C
           S == T \ U
<1>1. U \in C
  BY DEF Closed
<1>2. n \in S /\ S \subseteq DOMAIN ast
  BY DEF Closed
<1>3. PICK i \in S : Children(ast[i]) \cap S = {}
  BY <1>2 DEF Acyclic
<1>4. Children(ast[i]) \subseteq U
  BY <1>3 DEF Closed
<1>5. i = n
  <2>1. SUFFICES ASSUME i # n
                 PROVE  FALSE
    OBVIOUS
  <2>2. U \cup {i} \in C
    BY <1>1, <1>4, <2>1 DEF Closed
  <2>. QED
    BY <2>2
<1>. QED
  BY <1>1, <1>4, <1>5

\* Two nodes get other children: the one, nodes of a set that it is not below;
\* the other, nodes of that set and the first.
LEMMA RewriteIsAcyclic ==
  ASSUME NEW ast, Acyclic(ast), NEW new, DOMAIN new = DOMAIN ast,
         NEW B, Closed(ast, B),
         NEW n, NEW c, n # c, n \notin B, c \notin B,
         \A i \in DOMAIN ast \ {n, c} : new[i] = ast[i],
         Children(new[c]) \subseteq B, Children(new[n]) \subseteq B \cup {c}
  PROVE  Acyclic(new)
<1>1. SUFFICES ASSUME NEW S \in SUBSET DOMAIN ast, S # {}
               PROVE  \E i \in S : Children(new[i]) \cap S = {}
  BY DEF Acyclic
<1>2. CASE S \cap B # {}
  <2>1. PICK i \in S \cap B : Children(ast[i]) \cap (S \cap B) = {}
    BY <1>2 DEF Acyclic, Closed
  <2>2. Children(ast[i]) \cap S = {} /\ new[i] = ast[i]
    BY <2>1 DEF Closed
  <2>. QED
    BY <2>2
<1>3. CASE S \cap B = {} /\ c \in S
  BY <1>3
<1>4. CASE S \cap B = {} /\ c \notin S /\ n \in S
  BY <1>4
<1>5. CASE c \notin S /\ n \notin S
  <2>1. PICK i \in S : Children(ast[i]) \cap S = {}
    BY <1>1 DEF Acyclic
  <2>2. new[i] = ast[i]
    BY <1>5
  <2>. QED
    BY <2>1, <2>2
<1>. QED
  BY <1>2, <1>3, <1>4, <1>5

\* The AST that the parser builds has no cycles: the first of any nodes has
\* none of them for a child.
LEMMA ParsedIsAcyclic ==
  ASSUME NEW ast \in Seq(NodeRecord), ChildBeforeParent(ast)
  PROVE  Acyclic(ast) /\ Closed(ast, DOMAIN ast)
<1>1. DOMAIN ast = 1..Len(ast) /\ Len(ast) \in Nat
  OBVIOUS
<1>2. \A i \in DOMAIN ast : Children(ast[i]) \subseteq 1..(i - 1)
  BY DEF ChildBeforeParent
<1>3. \A i \in 1..Len(ast) : 1..(i - 1) \subseteq 1..Len(ast)
  BY <1>1
<1>4. Closed(ast, DOMAIN ast)
  BY <1>1, <1>2, <1>3 DEF Closed
<1>5. ASSUME NEW S \in SUBSET DOMAIN ast, S # {}
      PROVE  \E i \in S : Children(ast[i]) \cap S = {}
  <2>1. S \subseteq Nat
    BY <1>1
  <2>2. PICK i \in S : \A j \in S : i <= j
    BY <1>5, <2>1, LeastNumber
  <2>3. \A j \in 1..(i - 1) : j \notin S
    BY <2>1, <2>2
  <2>. QED
    BY <1>2, <2>3
<1>. QED
  BY <1>4, <1>5 DEF Acyclic

-----------------------------------------------------------------------------
(***************************************************************************)
(* Two ASTs, of which one is the other with a few nodes rewritten          *)
(***************************************************************************)

\* f has the value of each node for these arguments.
Solves(ast, args, f) ==
  /\ f \in [DOMAIN ast -> Value]
  /\ \A i \in DOMAIN ast : f[i] = NodeValue(ast[i], args, f)

\* x is y, or the evaluation did not return.
FailsOrAgrees(x, y) == x = y \/ x = TRAP

\* A node fails if a child does.
LEMMA NodeFailsOrAgrees ==
  ASSUME NEW n, NEW argc, NEW node, IsNode(node, n, argc), NEW args,
         NEW f, NEW g, \A j \in Children(node) : FailsOrAgrees(f[j], g[j])
  PROVE  FailsOrAgrees(NodeValue(node, args, f), NodeValue(node, args, g))
<1>1. CASE node.type \in BinaryTypes
  <2>1. FailsOrAgrees(f[node.left], g[node.left]) /\ FailsOrAgrees(f[node.right], g[node.right])
    BY <1>1, NodeIs
  <2>2. \A h : NodeValue(node, args, h) = StrictBinary(node.type, h[node.left], h[node.right])
    BY <1>1 DEF NodeValue, BinaryTypes, AddSub, MulDiv
  <2>. QED
    BY <2>1, <2>2 DEF FailsOrAgrees, StrictBinary
<1>2. CASE node.type = "INV"
  <2>1. FailsOrAgrees(f[node.left], g[node.left])
    BY <1>2, NodeIs
  <2>2. \A h : NodeValue(node, args, h) = StrictNegate(h[node.left])
    BY <1>2 DEF NodeValue, BinaryTypes, AddSub, MulDiv
  <2>. QED
    BY <2>1, <2>2 DEF FailsOrAgrees, StrictNegate
<1>3. CASE node.type \in {"INT", "VAR"}
  BY <1>3 DEF NodeValue, FailsOrAgrees
<1>. QED
  BY <1>1, <1>2, <1>3, NodeIs DEF NodeTypes

\* Nodes that are not rewritten, with all that is below them, keep their values.
LEMMA UntouchedKeepValues ==
  ASSUME NEW argc, NEW ast, IsAst(ast, argc), Acyclic(ast), NEW new, NEW args,
         NEW F, Closed(ast, F), \A i \in F : i \in DOMAIN new /\ new[i] = ast[i],
         NEW f, Solves(ast, args, f), NEW g, Solves(new, args, g)
  PROVE  \A i \in F : f[i] = g[i]
<1> DEFINE S == {i \in F : f[i] # g[i]}
<1>1. SUFFICES ASSUME S # {}
               PROVE  FALSE
  OBVIOUS
<1>2. F \subseteq DOMAIN ast /\ \A i \in F : Children(ast[i]) \subseteq F
  BY DEF Closed
<1>3. PICK i \in S : Children(ast[i]) \cap S = {}
  BY <1>1, <1>2 DEF Acyclic
<1>4. \A j \in Children(ast[i]) : f[j] = g[j]
  BY <1>2, <1>3
<1>5. IsNode(ast[i], Len(ast), argc)
  BY <1>2 DEF IsAst
<1>6. NodeValue(ast[i], args, f) = NodeValue(ast[i], args, g)
  BY <1>4, <1>5, SameNodeValue
<1>7. f[i] = NodeValue(ast[i], args, f) /\ g[i] = NodeValue(ast[i], args, g)
  BY <1>2 DEF Solves
<1>. QED
  BY <1>3, <1>6, <1>7

\* If a rewritten node keeps its value, or had none, so does all that uses it
\* and no other rewritten node.
LEMMA OthersFailOrAgree ==
  ASSUME NEW argc, NEW ast, IsAst(ast, argc), Acyclic(ast), NEW new, NEW args,
         NEW T, Closed(ast, T), NEW n, NEW c,
         \A i \in T \ {n, c} : i \in DOMAIN new /\ new[i] = ast[i] /\ c \notin Children(ast[i]),
         NEW f, Solves(ast, args, f), NEW g, Solves(new, args, g),
         FailsOrAgrees(f[n], g[n])
  PROVE  \A i \in T \ {c} : FailsOrAgrees(f[i], g[i])
<1> DEFINE S == {i \in T \ {c} : ~FailsOrAgrees(f[i], g[i])}
<1>1. SUFFICES ASSUME S # {}
               PROVE  FALSE
  OBVIOUS
<1>2. T \subseteq DOMAIN ast /\ \A i \in T : Children(ast[i]) \subseteq T
  BY DEF Closed
<1>3. PICK i \in S : Children(ast[i]) \cap S = {}
  BY <1>1, <1>2 DEF Acyclic
<1>4. i \in T \ {n, c}
  BY <1>3
<1>5. \A j \in Children(ast[i]) : FailsOrAgrees(f[j], g[j])
  BY <1>2, <1>3, <1>4
<1>6. IsNode(ast[i], Len(ast), argc)
  BY <1>2, <1>4 DEF IsAst
<1>7. FailsOrAgrees(NodeValue(ast[i], args, f), NodeValue(ast[i], args, g))
  BY <1>5, <1>6, NodeFailsOrAgrees
<1>8. f[i] = NodeValue(ast[i], args, f) /\ g[i] = NodeValue(ast[i], args, g)
  BY <1>2, <1>4 DEF Solves
<1>. QED
  BY <1>3, <1>7, <1>8

-----------------------------------------------------------------------------
(***************************************************************************)
(* Arithmetic that wraps around                                            *)
(***************************************************************************)
Modulus == 2 * (LONG_MAX + 1)

LEMMA WrapIsNear ==
  ASSUME NEW n \in Int
  PROVE  \E k \in Int : Wrap(n) = n + k * Modulus
<1>1. Modulus \in Nat /\ Modulus > 0
  BY LongIs DEF Modulus
<1>2. PICK M : M = Modulus
  OBVIOUS
<1>3. PICK d : d = n - LONG_MIN
  OBVIOUS
<1>4. d \in Int /\ M \in Nat /\ M > 0
  BY <1>1, <1>2, <1>3, LongIs
<1>5. PICK q, r : q = d \div M /\ r = d % M
  OBVIOUS
<1>6. q \in Int /\ r \in Int
  BY <1>4, <1>5
<1>7. d % M = d - M * (d \div M)
  BY <1>4, Z3
<1>8. r = d - M * q
  BY <1>5, <1>7
<1>9. Wrap(n) = LONG_MIN + r
  <2>1. Wrap(n) = LONG_MIN + ((n - LONG_MIN) % Modulus)
    BY DEF Wrap, Modulus
  <2>. QED
    BY <1>2, <1>3, <1>5, <2>1
<1>10. Wrap(n) = n + (-q) * M /\ -q \in Int
  <2>1. n \in Int /\ LONG_MIN \in Int
    BY LongIs
  <2>. QED
    BY <1>3, <1>4, <1>6, <1>8, <1>9, <2>1
<1>. QED
  BY <1>2, <1>10

\* Two longs that differ by a multiple of the modulus are the same.
LEMMA NearLongs ==
  ASSUME NEW a \in Long, NEW b \in Long, NEW k \in Int, a = b + k * Modulus
  PROVE  a = b
<1>1. PICK M : M = Modulus
  OBVIOUS
<1>2. /\ M \in Nat /\ M > 0 /\ a \in Int /\ b \in Int
      /\ a - b < M /\ b - a < M /\ a = b + k * M
  BY <1>1, LongIs DEF Modulus
<1>3. CASE k >= 1
  <2>1. k * M >= M
    BY <1>2, <1>3
  <2>. QED
    BY <1>2, <2>1
<1>4. CASE k <= -1
  <2>1. k * M <= -M
    BY <1>2, <1>4
  <2>. QED
    BY <1>2, <2>1
<1>5. CASE k = 0
  BY <1>2, <1>5
<1>. QED
  BY <1>3, <1>4, <1>5

LEMMA SameWrap ==
  ASSUME NEW n \in Int, NEW m \in Int, NEW k \in Int, n = m + k * Modulus
  PROVE  Wrap(n) = Wrap(m)
<1>1. PICK M : M = Modulus
  OBVIOUS
<1>2. M \in Nat
  BY <1>1, LongIs DEF Modulus
<1>3. PICK i \in Int : Wrap(n) = n + i * M
  BY <1>1, WrapIsNear
<1>4. PICK j \in Int : Wrap(m) = m + j * M
  BY <1>1, WrapIsNear
<1>5. Wrap(n) = Wrap(m) + (k + i - j) * M
  BY <1>1, <1>2, <1>3, <1>4
<1>6. Wrap(n) \in Long /\ Wrap(m) \in Long /\ k + i - j \in Int
  BY WrapIsLong
<1>. QED
  BY <1>1, <1>5, <1>6, NearLongs

LEMMA WrapOfLong ==
  ASSUME NEW a \in Long
  PROVE  Wrap(a) = a
<1>1. a \in Int /\ Wrap(a) \in Long
  BY LongIs, WrapIsLong
<1>. QED
  BY <1>1, WrapIsNear, NearLongs

\* An operand may be wrapped before or after.
LEMMA WrapInside ==
  ASSUME NEW a \in Int, NEW b \in Int
  PROVE  /\ Wrap(a) \in Int /\ Wrap(b) \in Int
         /\ Wrap(Wrap(a) + b) = Wrap(a + b)
         /\ Wrap(a + Wrap(b)) = Wrap(a + b)
         /\ Wrap(Wrap(a) - b) = Wrap(a - b)
         /\ Wrap(a - Wrap(b)) = Wrap(a - b)
         /\ Wrap(Wrap(a) * b) = Wrap(a * b)
         /\ Wrap(a * Wrap(b)) = Wrap(a * b)
<1>1. PICK M : M = Modulus
  OBVIOUS
<1>2. M \in Nat
  BY <1>1, LongIs DEF Modulus
<1>3. PICK i \in Int : Wrap(a) = a + i * M
  BY <1>1, WrapIsNear
<1>4. PICK j \in Int : Wrap(b) = b + j * M
  BY <1>1, WrapIsNear
<1>5. PICK v, w : v = Wrap(a) /\ w = Wrap(b)
  OBVIOUS
<1>6. v \in Int /\ w \in Int /\ v = a + i * M /\ w = b + j * M
  BY <1>2, <1>3, <1>4, <1>5
<1>7. Wrap(v + b) = Wrap(a + b)
  <2>1. v + b = (a + b) + i * M /\ v + b \in Int /\ a + b \in Int
    BY <1>2, <1>6
  <2>. QED
    BY <1>1, <2>1, SameWrap
<1>8. Wrap(a + w) = Wrap(a + b)
  <2>1. a + w = (a + b) + j * M /\ a + w \in Int /\ a + b \in Int
    BY <1>2, <1>6
  <2>. QED
    BY <1>1, <2>1, SameWrap
<1>9. Wrap(v - b) = Wrap(a - b)
  <2>1. v - b = (a - b) + i * M /\ v - b \in Int /\ a - b \in Int
    BY <1>2, <1>6
  <2>. QED
    BY <1>1, <2>1, SameWrap
<1>10. Wrap(a - w) = Wrap(a - b)
  <2>1. a - w = (a - b) + (-j) * M /\ a - w \in Int /\ a - b \in Int /\ -j \in Int
    BY <1>2, <1>6
  <2>. QED
    BY <1>1, <2>1, SameWrap
<1>11. Wrap(v * b) = Wrap(a * b)
  <2>1. v * b = (a * b) + (i * b) * M /\ v * b \in Int /\ a * b \in Int /\ i * b \in Int
    BY <1>2, <1>6
  <2>. QED
    BY <1>1, <2>1, SameWrap
<1>12. Wrap(a * w) = Wrap(a * b)
  <2>1. a * w = (a * b) + (a * j) * M /\ a * w \in Int /\ a * b \in Int /\ a * j \in Int
    BY <1>2, <1>6
  <2>. QED
    BY <1>1, <2>1, SameWrap
<1>. QED
  BY <1>5, <1>6, <1>7, <1>8, <1>9, <1>10, <1>11, <1>12

-----------------------------------------------------------------------------
(***************************************************************************)
(* The language                                                            *)
(***************************************************************************)
Answer == Int \cup {TRAP}

LEMMA StrictIsAnswer ==
  /\ \A a \in Answer : StrictNegate(a) \in Answer
  /\ \A type \in BinaryTypes, a, b \in Answer : StrictBinary(type, a, b) \in Answer
<1>1. \A a \in Int : StrictNegate(a) \in Answer
  <2>1. \A a \in Int : -a \in Int /\ a # TRAP
    BY LongIs
  <2>. QED
    BY <2>1, LongIs, WrapIsLong DEF StrictNegate, Negate, Answer
<1>2. ASSUME NEW a \in Int, NEW b \in Int, b # 0
      PROVE  Quotient(a, b) \in Int
  <2>1. Abs(a) \in Int /\ Abs(b) \in Int /\ Abs(b) > 0
    BY <1>2 DEF Abs
  <2>2. Abs(a) \div Abs(b) \in Int
    BY <2>1
  <2>. QED
    BY <2>2 DEF Quotient
<1>3. ASSUME NEW type \in BinaryTypes, NEW a \in Int, NEW b \in Int
      PROVE  Binary(type, a, b) \in Answer
  <2>1. a + b \in Int /\ a - b \in Int /\ a * b \in Int
    OBVIOUS
  <2>2. CASE type = "DIV"
    BY <1>2, <2>2 DEF Binary, Divide, Answer
  <2>3. CASE type # "DIV"
    <3>1. \A n \in Int : Wrap(n) \in Answer
      BY WrapIsLong, LongIs DEF Answer
    <3>. QED
      BY <2>1, <2>3, <3>1 DEF Binary, BinaryTypes, AddSub, MulDiv
  <2>. QED
    BY <2>2, <2>3
<1>. QED
  BY <1>1, <1>3 DEF StrictNegate, StrictBinary, Answer

\* Tokens whose numbers are numbers, as are the values of the names.
Readable(code, env) ==
  /\ Len(code) \in Nat
  /\ \A k \in 1..Len(code) :
       /\ code[k].type = "INT" => code[k].value \in Int
       /\ code[k].type = "IDENT" => env[code[k].value] \in Int

LEMMA RulesAre ==
  /\ Operators["sum"] = AddSub /\ Operators["product"] = MulDiv
  /\ Operand["sum"] = "product" /\ Operand["product"] = "signed"
  /\ Parts = {"sum", "product", "signed", "atom"}
BY DEF Operators, Operand, AddSub, MulDiv, Parts

\* What a part means rests on what smaller ones mean.
Rank == [atom |-> 0, signed |-> 1, product |-> 2, sum |-> 3]
Extent(n, part, i, j) == 4 * (n + 1 + j - i) + Rank[part]

LEMMA ExtentIs ==
  ASSUME NEW n \in Nat, NEW i \in 1..(n + 1), NEW j \in 0..n
  PROVE  /\ \A part \in Parts : Extent(n, part, i, j) \in Nat
         /\ Extent(n, "atom", i, j) < Extent(n, "signed", i, j)
         /\ Extent(n, "signed", i, j) < Extent(n, "product", i, j)
         /\ Extent(n, "product", i, j) < Extent(n, "sum", i, j)
         /\ \A part, q \in Parts, a \in 1..(n + 1), b \in 0..n :
              b - a < j - i => Extent(n, q, a, b) < Extent(n, part, i, j)
<1>1. /\ Rank["atom"] = 0 /\ Rank["signed"] = 1 /\ Rank["product"] = 2 /\ Rank["sum"] = 3
      /\ \A part \in Parts : Rank[part] \in 0..3
  BY DEF Rank, Parts
<1>2. n + 1 + j - i \in Nat
  OBVIOUS
<1>3. ASSUME NEW q \in Parts, NEW part \in Parts, NEW a \in 1..(n + 1), NEW b \in 0..n, b - a < j - i
      PROVE  Extent(n, q, a, b) < Extent(n, part, i, j)
  BY <1>1, <1>3 DEF Extent
<1>. QED
  BY <1>1, <1>2, <1>3 DEF Extent

LEMMA OperandIsSmaller ==
  ASSUME NEW n \in Nat, NEW part \in {"sum", "product"}, NEW i \in 1..(n + 1), NEW j \in 0..n
  PROVE  Operand[part] \in Parts /\ Extent(n, Operand[part], i, j) < Extent(n, part, i, j)
<1>1. CASE part = "sum"
  BY <1>1, RulesAre, ExtentIs
<1>2. CASE part = "product"
  BY <1>2, RulesAre, ExtentIs
<1>. QED
  BY <1>1, <1>2

\* What is true of a part whenever it is true of all smaller ones is true of
\* all parts.
LEMMA SpanInduction ==
  ASSUME NEW n \in Nat, NEW T,
         \A part \in Parts, i \in 1..(n + 1), j \in 0..n :
           (\A q \in Parts, a \in 1..(n + 1), b \in 0..n :
              Extent(n, q, a, b) < Extent(n, part, i, j) => <<q, a, b>> \in T)
           => <<part, i, j>> \in T
  PROVE  \A part \in Parts, i \in 1..(n + 1), j \in 0..n : <<part, i, j>> \in T
<1> DEFINE Bad(part, i, j) == <<part, i, j>> \notin T
           S == {m \in Nat : \E part \in Parts, i \in 1..(n + 1), j \in 0..n :
                               Bad(part, i, j) /\ m = Extent(n, part, i, j)}
<1>1. SUFFICES ASSUME NEW part \in Parts, NEW i \in 1..(n + 1), NEW j \in 0..n, Bad(part, i, j)
               PROVE  FALSE
  OBVIOUS
<1>2. S # {} /\ S \subseteq Nat
  <2>1. Extent(n, part, i, j) \in Nat
    BY ExtentIs
  <2>2. Extent(n, part, i, j) \in S
    BY <1>1, <2>1
  <2>. QED
    BY <2>2
<1>3. PICK m \in S : \A l \in S : m <= l
  BY <1>2, LeastNumber
<1>4. PICK q \in Parts, a \in 1..(n + 1), b \in 0..n : Bad(q, a, b) /\ m = Extent(n, q, a, b)
  BY <1>3
<1>5. ASSUME NEW p \in Parts, NEW c \in 1..(n + 1), NEW d \in 0..n,
             Extent(n, p, c, d) < Extent(n, q, a, b)
      PROVE  ~Bad(p, c, d)
  <2>1. Extent(n, p, c, d) \in Nat /\ m \in Nat
    BY <1>2, ExtentIs
  <2>2. Extent(n, p, c, d) < m
    BY <1>4, <1>5
  <2>3. Extent(n, p, c, d) \notin S
    <3> HIDE DEF S
    <3>. QED
      BY <1>2, <1>3, <2>1, <2>2
  <2>. QED
    BY <2>1, <2>3
<1>. QED
  BY <1>4, <1>5

\* Two assignments of meanings that agree on the smaller parts agree on what
\* they make of a part.
LEMMA MeaningsRestOn ==
  ASSUME NEW code, NEW env, Len(code) \in Nat, NEW f, NEW g,
         NEW part \in Parts, NEW i \in 1..(Len(code) + 1), NEW j \in 0..Len(code),
         \A q \in Parts, a \in 1..(Len(code) + 1), b \in 0..Len(code) :
           Extent(Len(code), q, a, b) < Extent(Len(code), part, i, j)
             => f[<<q, a, b>>] = g[<<q, a, b>>]
  PROVE  MeaningsOf(part, i, j, code, env, f) = MeaningsOf(part, i, j, code, env, g)
<1> DEFINE n == Len(code)
<1>1. CASE i > j
  BY <1>1 DEF MeaningsOf
<1>2. CASE i <= j /\ part = "atom"
  <2>1. ASSUME i < j
        PROVE  f[<<"sum", i + 1, j - 1>>] = g[<<"sum", i + 1, j - 1>>]
    <3>1. i + 1 \in 1..(n + 1) /\ j - 1 \in 0..n /\ (j - 1) - (i + 1) < j - i /\ "sum" \in Parts
      BY <2>1 DEF Parts
    <3>2. Extent(n, "sum", i + 1, j - 1) < Extent(n, part, i, j)
      BY <3>1, ExtentIs
    <3>. QED
      BY <3>1, <3>2
  <2>. QED
    BY <1>2, <2>1 DEF MeaningsOf
<1>3. CASE i <= j /\ part = "signed"
  <2>1. /\ f[<<"signed", i + 1, j>>] = g[<<"signed", i + 1, j>>]
        /\ f[<<"atom", i, j>>] = g[<<"atom", i, j>>]
    <3>1. i + 1 \in 1..(n + 1) /\ j - (i + 1) < j - i /\ "signed" \in Parts /\ "atom" \in Parts
      BY <1>3 DEF Parts
    <3>2. /\ Extent(n, "signed", i + 1, j) < Extent(n, part, i, j)
          /\ Extent(n, "atom", i, j) < Extent(n, part, i, j)
      BY <1>3, <3>1, ExtentIs
    <3>. QED
      BY <3>1, <3>2
  <2>. QED
    BY <1>3, <2>1 DEF MeaningsOf
<1>4. ASSUME i <= j, part \in {"sum", "product"}
      PROVE  MeaningsOf(part, i, j, code, env, f) = MeaningsOf(part, i, j, code, env, g)
  <2> DEFINE S == {l \in i..j : code[l].type \in Operators[part]}
             O == Operand[part]
             C(h, k) == Combinations(code[k].type, h[<<part, i, k - 1>>], h[<<O, k + 1, j>>])
  <2>1. O \in Parts /\ Extent(n, O, i, j) < Extent(n, part, i, j)
    BY <1>4, OperandIsSmaller
  <2>2. ASSUME NEW k \in i..j
        PROVE  C(f, k) = C(g, k)
    <3>1. k - 1 \in 0..n /\ k + 1 \in 1..(n + 1) /\ (k - 1) - i < j - i /\ j - (k + 1) < j - i
      OBVIOUS
    <3>2. f[<<part, i, k - 1>>] = g[<<part, i, k - 1>>] /\ f[<<O, k + 1, j>>] = g[<<O, k + 1, j>>]
      BY <2>1, <3>1, ExtentIs
    <3>. QED
      BY <3>2
  <2>3. UNION {C(f, k) : k \in S} = UNION {C(g, k) : k \in S}
    <3> HIDE DEF C
    <3>. QED
      BY <2>2
  <2>4. Chained(part, i, j, code, f) = Chained(part, i, j, code, g)
    BY <2>3 DEF Chained
  <2>5. f[<<O, i, j>>] = g[<<O, i, j>>]
    BY <2>1
  <2>6. /\ MeaningsOf(part, i, j, code, env, f) = f[<<O, i, j>>] \cup Chained(part, i, j, code, f)
        /\ MeaningsOf(part, i, j, code, env, g) = g[<<O, i, j>>] \cup Chained(part, i, j, code, g)
    BY <1>4 DEF MeaningsOf
  <2>. QED
    BY <2>4, <2>5, <2>6
<1>. QED
  BY <1>1, <1>2, <1>3, <1>4 DEF Parts
\* Meanings are sets of outcomes.
LEMMA MeaningsAreOutcomes ==
  ASSUME NEW code, NEW env, Readable(code, env), NEW f,
         NEW part \in Parts, NEW i \in 1..(Len(code) + 1), NEW j \in 0..Len(code),
         \A q \in Parts, a \in 1..(Len(code) + 1), b \in 0..Len(code) :
           Extent(Len(code), q, a, b) < Extent(Len(code), part, i, j)
             => f[<<q, a, b>>] \in SUBSET Answer
  PROVE  MeaningsOf(part, i, j, code, env, f) \in SUBSET Answer
<1> DEFINE n == Len(code)
<1>0. n \in Nat
  BY DEF Readable
<1>1. CASE i > j
  BY <1>1 DEF MeaningsOf
<1>2. CASE i <= j /\ part = "atom"
  <2>1. ASSUME i < j
        PROVE  f[<<"sum", i + 1, j - 1>>] \in SUBSET Answer
    <3>1. i + 1 \in 1..(n + 1) /\ j - 1 \in 0..n /\ (j - 1) - (i + 1) < j - i /\ "sum" \in Parts
      BY <1>0, <2>1 DEF Parts
    <3>2. Extent(n, "sum", i + 1, j - 1) < Extent(n, part, i, j)
      BY <1>0, <3>1, ExtentIs
    <3>. QED
      BY <3>1, <3>2
  <2>2. /\ code[i].type = "INT" => code[i].value \in Int
        /\ code[i].type = "IDENT" => env[code[i].value] \in Int
    <3>1. i \in 1..n
      BY <1>0, <1>2
    <3>. QED
      BY <3>1 DEF Readable
  <2>. QED
    BY <1>0, <1>2, <2>1, <2>2 DEF MeaningsOf, Answer
<1>3. CASE i <= j /\ part = "signed"
  <2>1. /\ f[<<"signed", i + 1, j>>] \in SUBSET Answer
        /\ f[<<"atom", i, j>>] \in SUBSET Answer
    <3>1. i + 1 \in 1..(n + 1) /\ j - (i + 1) < j - i /\ "signed" \in Parts /\ "atom" \in Parts
      BY <1>0, <1>3 DEF Parts
    <3>2. /\ Extent(n, "signed", i + 1, j) < Extent(n, part, i, j)
          /\ Extent(n, "atom", i, j) < Extent(n, part, i, j)
      BY <1>0, <1>3, <3>1, ExtentIs
    <3>. QED
      BY <3>1, <3>2
  <2>2. Negated(f[<<"signed", i + 1, j>>]) \in SUBSET Answer
    BY <2>1, StrictIsAnswer DEF Negated
  <2>. QED
    BY <1>3, <2>1, <2>2 DEF MeaningsOf
<1>4. ASSUME i <= j, part \in {"sum", "product"}
      PROVE  MeaningsOf(part, i, j, code, env, f) \in SUBSET Answer
  <2> DEFINE O == Operand[part]
  <2>0. Operators[part] \subseteq BinaryTypes
    BY <1>4, RulesAre DEF BinaryTypes
  <2>1. O \in Parts /\ Extent(n, O, i, j) < Extent(n, part, i, j)
    BY <1>0, <1>4, OperandIsSmaller
  <2>2. ASSUME NEW k \in i..j, code[k].type \in Operators[part]
        PROVE  Combinations(code[k].type, f[<<part, i, k - 1>>], f[<<O, k + 1, j>>]) \in SUBSET Answer
    <3>1. k - 1 \in 0..n /\ k + 1 \in 1..(n + 1) /\ (k - 1) - i < j - i /\ j - (k + 1) < j - i
      BY <1>0
    <3>2. f[<<part, i, k - 1>>] \in SUBSET Answer /\ f[<<O, k + 1, j>>] \in SUBSET Answer
      BY <1>0, <2>1, <3>1, ExtentIs
    <3>3. code[k].type \in BinaryTypes
      BY <2>0, <2>2
    <3>. QED
      BY <3>2, <3>3, StrictIsAnswer DEF Combinations
  <2>3. Chained(part, i, j, code, f) \in SUBSET Answer
    BY <2>2 DEF Chained
  <2>4. f[<<O, i, j>>] \in SUBSET Answer
    BY <2>1
  <2>5. MeaningsOf(part, i, j, code, env, f) = f[<<O, i, j>>] \cup Chained(part, i, j, code, f)
    BY <1>4 DEF MeaningsOf
  <2>. QED
    BY <2>3, <2>4, <2>5
<1>. QED
  BY <1>0, <1>1, <1>2, <1>3, <1>4 DEF Parts

\* The recursion is sound: there are such meanings, and they are of the types
\* that one expects.
THEOREM DenotationsAre ==
  ASSUME NEW code, NEW env, Readable(code, env)
  PROVE  \A part \in Parts, i \in 1..(Len(code) + 1), j \in 0..Len(code) :
           /\ Denotations(code, env)[<<part, i, j>>] \in SUBSET Answer
           /\ Denotations(code, env)[<<part, i, j>>]
                = MeaningsOf(part, i, j, code, env, Denotations(code, env))
<1> DEFINE n == Len(code)
           D == Spans(code)
           size(s) == Extent(n, s[1], s[2], s[3])
           below == [s \in D |-> {t \in D : size(t) < size(s)}]
           V == SUBSET Answer
           Of(s, f) == MeaningsOf(s[1], s[2], s[3], code, env, f)
           step == [x \in Arguments(D, below, V) |-> Of(x[1], x[2])]
<1>0. n \in Nat
  BY DEF Readable
<1>1. ASSUME NEW s \in D
      PROVE  s[1] \in Parts /\ s[2] \in 1..(n + 1) /\ s[3] \in 0..n /\ size(s) \in Nat
  BY <1>0, ExtentIs DEF Spans
<1>2. below \in [D -> SUBSET D]
  OBVIOUS
<1>3. WellFounded(D, below)
  <2>1. SUFFICES ASSUME NEW S \in SUBSET D, S # {}
                 PROVE  \E s \in S : below[s] \cap S = {}
    BY DEF WellFounded
  <2> DEFINE sizes == {size(s) : s \in S}
  <2>2. sizes # {} /\ sizes \subseteq Nat
    BY <1>1, <2>1
  <2>3. PICK m \in sizes : \A l \in sizes : m <= l
    BY <2>2, LeastNumber
  <2>4. PICK s \in S : size(s) = m
    BY <2>3
  <2>5. \A t \in S : size(t) \in sizes /\ size(t) \in Nat
    BY <1>1
  <2>6. \A t \in S : ~(size(t) < size(s))
    <3> HIDE DEF sizes, size
    <3>. QED
      BY <2>2, <2>3, <2>4, <2>5
  <2>. QED
    BY <2>4, <2>6
<1>4. ASSUME NEW s \in D, NEW f, NEW g, \A t \in below[s] : f[t] = g[t]
      PROVE  Of(s, f) = Of(s, g)
  <2>1. ASSUME NEW q \in Parts, NEW a \in 1..(n + 1), NEW b \in 0..n,
               Extent(n, q, a, b) < Extent(n, s[1], s[2], s[3])
        PROVE  f[<<q, a, b>>] = g[<<q, a, b>>]
    <3>1. <<q, a, b>> \in D /\ size(<<q, a, b>>) < size(s)
      BY <2>1 DEF Spans
    <3>. QED
      BY <1>4, <3>1
  <2>. QED
    BY <1>0, <1>1, <2>1, MeaningsRestOn
<1>5. ASSUME NEW s \in D, NEW f, \A t \in below[s] : f[t] \in V
      PROVE  Of(s, f) \in V
  <2>1. ASSUME NEW q \in Parts, NEW a \in 1..(n + 1), NEW b \in 0..n,
               Extent(n, q, a, b) < Extent(n, s[1], s[2], s[3])
        PROVE  f[<<q, a, b>>] \in V
    <3>1. <<q, a, b>> \in D /\ size(<<q, a, b>>) < size(s)
      BY <2>1 DEF Spans
    <3>. QED
      BY <1>5, <3>1
  <2>. QED
    BY <1>0, <1>1, <2>1, MeaningsAreOutcomes
<1> HIDE DEF V, Of, size
<1>6. ASSUME NEW s \in D, NEW f \in [below[s] -> V]
      PROVE  <<s, f>> \in Arguments(D, below, V) /\ step[<<s, f>>] = Of(s, f)
  <2>1. <<s, f>> \in {s} \X [below[s] -> V]
    OBVIOUS
  <2>2. <<s, f>> \in Arguments(D, below, V)
    BY <2>1, Zenon DEF Arguments
  <2>. QED
    BY <2>2
<1>7. step \in [Arguments(D, below, V) -> V]
  <2>1. SUFFICES ASSUME NEW x \in Arguments(D, below, V)
                 PROVE  Of(x[1], x[2]) \in V
    OBVIOUS
  <2>2. PICK s \in D : x \in {s} \X [below[s] -> V]
    BY Zenon DEF Arguments
  <2>3. x[1] = s /\ x[2] \in [below[s] -> V]
    BY <2>2
  <2>. QED
    BY <1>5, <2>3
<1>8. PICK f \in [D -> V] : Obeys(f, D, below, step)
  BY <1>2, <1>3, <1>7, RecursiveFunction
<1>9. ASSUME NEW s \in D
      PROVE  f[s] = Of(s, f)
  <2> DEFINE g == [t \in below[s] |-> f[t]]
  <2>1. g \in [below[s] -> V] /\ \A t \in below[s] : g[t] = f[t]
    BY <1>2
  <2>2. f[s] = step[<<s, g>>]
    BY <1>8 DEF Obeys
  <2>3. f[s] = Of(s, g)
    BY <1>6, <2>1, <2>2
  <2>. QED
    BY <1>4, <2>1, <2>3
<1>10. f = [s \in D |-> Of(s, f)]
  BY <1>8, <1>9
<1> HIDE DEF below, step
<1>11. Denotations(code, env) = [s \in D |-> Of(s, Denotations(code, env))]
  BY <1>10 DEF Denotations, Of
<1> DEFINE value == Denotations(code, env)
<1>12. value = [s \in D |-> Of(s, value)]
  BY <1>11
<1> HIDE DEF value
<1>13. \A s \in D : value[s] = f[s]
  <2> DEFINE S == {s \in D : value[s] # f[s]}
  <2>1. SUFFICES ASSUME S # {}
                 PROVE  FALSE
    OBVIOUS
  <2>2. PICK s \in S : below[s] \cap S = {}
    BY <1>3, <2>1 DEF WellFounded
  <2>3. \A t \in below[s] : value[t] = f[t]
    BY <1>2, <2>2
  <2>4. Of(s, value) = Of(s, f)
    BY <1>4, <2>3
  <2>. QED
    BY <1>9, <1>12, <2>4
<1>14. SUFFICES ASSUME NEW part \in Parts, NEW i \in 1..(n + 1), NEW j \in 0..n
                PROVE  /\ value[<<part, i, j>>] \in V
                       /\ value[<<part, i, j>>] = MeaningsOf(part, i, j, code, env, value)
  BY DEF value, V
<1>15. <<part, i, j>> \in D
  BY DEF Spans
<1>16. value[<<part, i, j>>] = Of(<<part, i, j>>, value) /\ value[<<part, i, j>>] \in V
  BY <1>8, <1>12, <1>13, <1>15
<1>. QED
  BY <1>16 DEF Of

-----------------------------------------------------------------------------
(***************************************************************************)
(* What the parts of a code mean, and which parts there are                *)
(***************************************************************************)
Means(code, env, part, i, j) == Denotations(code, env)[<<part, i, j>>]
Is(code, env, part, i, j) == Means(code, env, part, i, j) # {}

LEMMA CombinedIs ==
  ASSUME NEW op, NEW as, NEW bs
  PROVE  /\ Combinations(op, as, bs) # {} <=> as # {} /\ bs # {}
         /\ \A a, b : as = {a} /\ bs = {b} => Combinations(op, as, bs) = {StrictBinary(op, a, b)}
<1>1. ASSUME NEW a \in as, NEW b \in bs
      PROVE  StrictBinary(op, a, b) \in Combinations(op, as, bs)
  <2>1. StrictBinary(op, a, b) \in {StrictBinary(op, a, d) : d \in bs}
    OBVIOUS
  <2>. QED
    BY <2>1, Zenon DEF Combinations
<1>2. ASSUME NEW c \in Combinations(op, as, bs)
      PROVE  \E a \in as, b \in bs : c = StrictBinary(op, a, b)
  BY Zenon DEF Combinations
<1>3. Combinations(op, as, bs) # {} <=> as # {} /\ bs # {}
  BY <1>1, <1>2
<1>4. ASSUME NEW a, NEW b, as = {a}, bs = {b}
      PROVE  Combinations(op, as, bs) = {StrictBinary(op, a, b)}
  BY <1>1, <1>2, <1>4
<1>. QED
  BY <1>3, <1>4

LEMMA NegatedIs ==
  ASSUME NEW as
  PROVE  /\ Negated(as) # {} <=> as # {}
         /\ \A a : as = {a} => Negated(as) = {StrictNegate(a)}
<1>1. Negated(as) # {} <=> as # {}
  <2>1. ASSUME NEW a \in as
        PROVE  Negated(as) # {}
    <3>1. StrictNegate(a) \in Negated(as)
      BY DEF Negated
    <3>. QED
      BY <3>1
  <2>2. as = {} => Negated(as) = {}
    BY DEF Negated
  <2>. QED
    BY <2>1, <2>2
<1>2. \A a : as = {a} => Negated(as) = {StrictNegate(a)}
  BY DEF Negated
<1>. QED
  BY <1>1, <1>2

LEMMA NothingMeansNothing ==
  ASSUME NEW code, NEW env, Readable(code, env),
         NEW part \in Parts, NEW i \in 1..(Len(code) + 1), NEW j \in 0..Len(code), i > j
  PROVE  Means(code, env, part, i, j) = {}
<1>1. Means(code, env, part, i, j) = MeaningsOf(part, i, j, code, env, Denotations(code, env))
  BY DenotationsAre DEF Means
<1>2. i \in Int /\ j \in Int /\ ~(i <= j)
  BY DEF Readable
<1>. QED
  BY <1>1, <1>2 DEF MeaningsOf

LEMMA AtomIs ==
  ASSUME NEW code, NEW env, Readable(code, env),
         NEW i \in 1..(Len(code) + 1), NEW j \in 0..Len(code), i <= j
  PROVE  /\ i = j => Means(code, env, "atom", i, j) =
                       CASE code[i].type = "INT"   -> {code[i].value}
                         [] code[i].type = "IDENT" -> {env[code[i].value]}
                         [] OTHER                  -> {}
         /\ i # j => Means(code, env, "atom", i, j) =
                       IF code[i].type = "(" /\ code[j].type = ")"
                       THEN Means(code, env, "sum", i + 1, j - 1) ELSE {}
<1>1. "atom" \in Parts
  BY RulesAre
<1>2. Means(code, env, "atom", i, j) = MeaningsOf("atom", i, j, code, env, Denotations(code, env))
  BY <1>1, DenotationsAre DEF Means
<1>. QED
  BY <1>2 DEF MeaningsOf, Means

LEMMA SignedIs ==
  ASSUME NEW code, NEW env, Readable(code, env),
         NEW i \in 1..Len(code), NEW j \in 0..Len(code)
  PROVE  /\ code[i].type = "ADD" =>
              Means(code, env, "signed", i, j) = Means(code, env, "signed", i + 1, j)
         /\ code[i].type = "SUB" =>
              Means(code, env, "signed", i, j) = Negated(Means(code, env, "signed", i + 1, j))
         /\ code[i].type \notin AddSub =>
              Means(code, env, "signed", i, j) = Means(code, env, "atom", i, j)
<1>1. "atom" \in Parts /\ "signed" \in Parts /\ Len(code) \in Nat
  BY RulesAre DEF Readable
<1>2. i \in 1..(Len(code) + 1) /\ i + 1 \in 1..(Len(code) + 1)
  BY <1>1
<1>3. /\ Means(code, env, "signed", i, j) = MeaningsOf("signed", i, j, code, env, Denotations(code, env))
      /\ Means(code, env, "atom", i, j) = MeaningsOf("atom", i, j, code, env, Denotations(code, env))
  BY <1>1, <1>2, DenotationsAre DEF Means
<1>4. CASE i <= j
  BY <1>3, <1>4 DEF MeaningsOf, Means, AddSub
<1>5. CASE i > j
  <2>1. Means(code, env, "signed", i, j) = {} /\ Means(code, env, "atom", i, j) = {}
    BY <1>1, <1>2, <1>5, NothingMeansNothing
  <2>2. Means(code, env, "signed", i + 1, j) = {}
    BY <1>1, <1>2, <1>5, NothingMeansNothing
  <2>. QED
    BY <2>1, <2>2, NegatedIs
<1>. QED
  BY <1>1, <1>4, <1>5
LEMMA ChainIs ==
  ASSUME NEW code, NEW env, Readable(code, env), NEW part \in {"sum", "product"},
         NEW i \in 1..(Len(code) + 1), NEW j \in 0..Len(code)
  PROVE  \A x : x \in Means(code, env, part, i, j) <=>
                  /\ i <= j
                  /\ \/ x \in Means(code, env, Operand[part], i, j)
                     \/ \E k \in i..j :
                          /\ code[k].type \in Operators[part]
                          /\ x \in Combinations(code[k].type, Means(code, env, part, i, k - 1),
                                                Means(code, env, Operand[part], k + 1, j))
<1>1. part \in Parts
  BY RulesAre
<1>2. CASE i <= j
  <2>1. Means(code, env, part, i, j) = MeaningsOf(part, i, j, code, env, Denotations(code, env))
    BY <1>1, DenotationsAre DEF Means
  <2>2. Means(code, env, part, i, j)
          = Means(code, env, Operand[part], i, j) \cup Chained(part, i, j, code, Denotations(code, env))
    BY <1>2, <2>1 DEF MeaningsOf, Means
  <2>3. ASSUME NEW x
        PROVE  x \in Chained(part, i, j, code, Denotations(code, env)) <=>
                 \E k \in i..j :
                   /\ code[k].type \in Operators[part]
                   /\ x \in Combinations(code[k].type, Means(code, env, part, i, k - 1),
                                         Means(code, env, Operand[part], k + 1, j))
    <3> DEFINE S == {l \in i..j : code[l].type \in Operators[part]}
               C(k) == Combinations(code[k].type, Means(code, env, part, i, k - 1),
                                    Means(code, env, Operand[part], k + 1, j))
    <3>1. Chained(part, i, j, code, Denotations(code, env)) = UNION {C(k) : k \in S}
      BY DEF Chained, Means
    <3>2. x \in UNION {C(k) : k \in S} <=> \E k \in S : x \in C(k)
      BY Zenon
    <3>. QED
      BY <3>1, <3>2
  <2>. QED
    BY <1>2, <2>2, <2>3
<1>3. CASE i > j
  <2>1. Means(code, env, part, i, j) = {}
    BY <1>1, <1>3, NothingMeansNothing
  <2>. QED
    BY <1>3, <2>1 DEF Readable
<1>. QED
  BY <1>2, <1>3 DEF Readable

\* An operator between two parts.
Splits(code, env, part, i, j, k) ==
  /\ k \in i..j
  /\ code[k].type \in Operators[part]
  /\ Is(code, env, part, i, k - 1)
  /\ Is(code, env, Operand[part], k + 1, j)

LEMMA IsNotEmpty ==
  ASSUME NEW code, NEW env, Readable(code, env),
         NEW part \in Parts, NEW i \in 1..(Len(code) + 1), NEW j \in 0..Len(code),
         Is(code, env, part, i, j)
  PROVE  i <= j
<1>1. i \in Int /\ j \in Int
  BY DEF Readable
<1>2. ~(i > j)
  BY NothingMeansNothing DEF Is
<1>. QED
  BY <1>1, <1>2

LEMMA IsChain ==
  ASSUME NEW code, NEW env, Readable(code, env), NEW part \in {"sum", "product"},
         NEW i \in 1..(Len(code) + 1), NEW j \in 0..Len(code)
  PROVE  Is(code, env, part, i, j) <=>
           Is(code, env, Operand[part], i, j) \/ \E k \in i..j : Splits(code, env, part, i, j, k)
<1>1. part \in Parts /\ Operand[part] \in Parts
  BY RulesAre
<1>2. ASSUME Is(code, env, part, i, j)
      PROVE  Is(code, env, Operand[part], i, j) \/ \E k \in i..j : Splits(code, env, part, i, j, k)
  <2>1. PICK x : x \in Means(code, env, part, i, j)
    BY <1>2 DEF Is
  <2>2. CASE x \in Means(code, env, Operand[part], i, j)
    BY <2>2 DEF Is
  <2>3. ASSUME NEW k \in i..j, code[k].type \in Operators[part],
               x \in Combinations(code[k].type, Means(code, env, part, i, k - 1),
                                  Means(code, env, Operand[part], k + 1, j))
        PROVE  Splits(code, env, part, i, j, k)
    BY <2>3, CombinedIs DEF Splits, Is
  <2>. QED
    BY <2>1, <2>2, <2>3, ChainIs
<1>3. ASSUME Is(code, env, Operand[part], i, j)
      PROVE  Is(code, env, part, i, j)
  <2>1. PICK x : x \in Means(code, env, Operand[part], i, j)
    BY <1>3 DEF Is
  <2>2. i <= j
    BY <1>1, <1>3, IsNotEmpty
  <2>. QED
    BY <2>1, <2>2, ChainIs DEF Is
<1>4. ASSUME NEW k \in i..j, Splits(code, env, part, i, j, k)
      PROVE  Is(code, env, part, i, j)
  <2> DEFINE C == Combinations(code[k].type, Means(code, env, part, i, k - 1),
                               Means(code, env, Operand[part], k + 1, j))
  <2>1. C # {} /\ code[k].type \in Operators[part]
    BY <1>4, CombinedIs DEF Splits, Is
  <2>2. PICK x : x \in C
    BY <2>1
  <2>3. i <= j
    BY DEF Readable
  <2>4. x \in Means(code, env, part, i, j)
    BY <2>1, <2>2, <2>3, ChainIs
  <2>. QED
    BY <2>4 DEF Is
<1>. QED
  BY <1>2, <1>3, <1>4

LEMMA IsSigned ==
  ASSUME NEW code, NEW env, Readable(code, env),
         NEW i \in 1..Len(code), NEW j \in 0..Len(code)
  PROVE  /\ code[i].type \in AddSub =>
              (Is(code, env, "signed", i, j) <=> Is(code, env, "signed", i + 1, j))
         /\ code[i].type \notin AddSub =>
              (Is(code, env, "signed", i, j) <=> Is(code, env, "atom", i, j))
BY SignedIs, NegatedIs DEF Is, AddSub

LEMMA IsAtom ==
  ASSUME NEW code, NEW env, Readable(code, env),
         NEW i \in 1..(Len(code) + 1), NEW j \in 0..Len(code), Is(code, env, "atom", i, j)
  PROVE  \/ i = j /\ code[i].type \in {"INT", "IDENT"}
         \/ i < j /\ code[i].type = "(" /\ code[j].type = ")" /\ Is(code, env, "sum", i + 1, j - 1)
<1>1. i <= j
  BY IsNotEmpty, RulesAre
<1>2. CASE i = j
  <2>1. Means(code, env, "atom", i, j) =
                       CASE code[i].type = "INT"   -> {code[i].value}
                         [] code[i].type = "IDENT" -> {env[code[i].value]}
                         [] OTHER                  -> {}
    BY <1>1, <1>2, AtomIs
  <2>. QED
    BY <1>2, <2>1 DEF Is
<1>3. CASE i # j
  <2>1. Means(code, env, "atom", i, j) =
                       IF code[i].type = "(" /\ code[j].type = ")"
                       THEN Means(code, env, "sum", i + 1, j - 1) ELSE {}
    BY <1>1, <1>3, AtomIs
  <2>. QED
    BY <1>1, <1>3, <2>1 DEF Is, Readable
<1>. QED
  BY <1>2, <1>3

\* An operand alone is a chain.
LEMMA Lifts ==
  ASSUME NEW code, NEW env, Readable(code, env),
         NEW i \in 1..(Len(code) + 1), NEW j \in 0..Len(code)
  PROVE  /\ Is(code, env, "signed", i, j) => Is(code, env, "product", i, j)
         /\ Is(code, env, "product", i, j) => Is(code, env, "sum", i, j)
BY IsChain, RulesAre

\* A sum goes on with any operator and an operand.
LEMMA Extends ==
  ASSUME NEW code, NEW env, Readable(code, env),
         NEW i \in 1..(Len(code) + 1), NEW j \in 0..Len(code), NEW k \in i..j,
         code[k].type \in BinaryTypes, Is(code, env, "sum", i, k - 1)
  PROVE  /\ Is(code, env, "signed", k + 1, j) => Is(code, env, "sum", i, j)
         /\ code[k].type \in AddSub /\ Is(code, env, "product", k + 1, j) => Is(code, env, "sum", i, j)
<1>0. Len(code) \in Nat /\ k + 1 \in 1..(Len(code) + 1) /\ k - 1 \in 0..Len(code)
  BY DEF Readable
<1>1. ASSUME code[k].type \in AddSub, Is(code, env, "product", k + 1, j)
      PROVE  Is(code, env, "sum", i, j)
  <2>1. Splits(code, env, "sum", i, j, k)
    BY <1>1, RulesAre DEF Splits
  <2>. QED
    BY <2>1, IsChain
<1>2. ASSUME code[k].type \in MulDiv, Is(code, env, "signed", k + 1, j),
             NEW l \in 1..(Len(code) + 1), Is(code, env, "product", l, k - 1)
      PROVE  Is(code, env, "product", l, j)
  <2>1. l <= k - 1
    BY <1>0, <1>2, IsNotEmpty, RulesAre
  <2>2. Splits(code, env, "product", l, j, k)
    BY <1>0, <1>2, <2>1, RulesAre DEF Splits
  <2>3. k \in l..j
    BY <1>0, <2>1
  <2>. QED
    BY <2>2, <2>3, IsChain
<1>3. ASSUME code[k].type \in MulDiv, Is(code, env, "signed", k + 1, j)
      PROVE  Is(code, env, "sum", i, j)
  <2>1. CASE Is(code, env, "product", i, k - 1)
    BY <1>2, <1>3, <2>1, Lifts
  <2>2. ASSUME NEW l \in i..(k - 1), Splits(code, env, "sum", i, k - 1, l)
        PROVE  Is(code, env, "sum", i, j)
    <3>1. Is(code, env, "product", l + 1, k - 1) /\ l + 1 \in 1..(Len(code) + 1) /\ l \in i..j
      BY <1>0, <2>2, RulesAre DEF Splits
    <3>2. Is(code, env, "product", l + 1, j)
      BY <1>2, <1>3, <3>1
    <3>3. Splits(code, env, "sum", i, j, l)
      BY <2>2, <3>1, <3>2, RulesAre DEF Splits
    <3>. QED
      BY <3>1, <3>3, IsChain
  <2>. QED
    BY <1>0, <2>1, <2>2, IsChain, RulesAre
<1>4. ASSUME Is(code, env, "signed", k + 1, j)
      PROVE  Is(code, env, "sum", i, j)
  BY <1>0, <1>1, <1>3, <1>4, Lifts DEF BinaryTypes
<1>. QED
  BY <1>1, <1>4

\* How a part begins.
BeginsWell(code, env, part, i, j) ==
  /\ code[i].type \in AddSub \cup {"INT", "IDENT", "("}
  /\ code[i].type \in AddSub => part # "atom" /\ Is(code, env, part, i + 1, j)
  /\ code[i].type = "(" =>
       \E m \in (i + 1)..j : code[m].type = ")" /\ Is(code, env, "sum", i + 1, m - 1)

LEMMA PartsBegin ==
  ASSUME NEW code, NEW env, Readable(code, env)
  PROVE  \A part \in Parts, i \in 1..(Len(code) + 1), j \in 0..Len(code) :
           Is(code, env, part, i, j) => BeginsWell(code, env, part, i, j)
<1> DEFINE n == Len(code)
           P(part, i, j) == Is(code, env, part, i, j) => BeginsWell(code, env, part, i, j)
           T == {s \in Spans(code) : P(s[1], s[2], s[3])}
<1>0. n \in Nat
  BY DEF Readable
<1>1. ASSUME NEW part \in Parts, NEW i \in 1..(n + 1), NEW j \in 0..n
      PROVE  <<part, i, j>> \in T <=> P(part, i, j)
  BY DEF Spans
<1> HIDE DEF T
<1>2. ASSUME NEW part \in Parts, NEW i \in 1..(n + 1), NEW j \in 0..n, Is(code, env, part, i, j),
             \A q \in Parts, a \in 1..(n + 1), b \in 0..n :
               Extent(n, q, a, b) < Extent(n, part, i, j) => P(q, a, b)
      PROVE  BeginsWell(code, env, part, i, j)
  <2>1. i <= j /\ i \in 1..n
    BY <1>0, <1>2, IsNotEmpty
  <2>2. CASE part = "atom"
    <3>1. CASE i = j /\ code[i].type \in {"INT", "IDENT"}
      BY <3>1 DEF BeginsWell, AddSub
    <3>2. CASE i < j /\ code[i].type = "(" /\ code[j].type = ")" /\ Is(code, env, "sum", i + 1, j - 1)
      <4>1. j \in (i + 1)..j
        BY <3>2
      <4>. QED
        BY <3>2, <4>1 DEF BeginsWell, AddSub
    <3>. QED
      BY <1>2, <2>1, <2>2, <3>1, <3>2, IsAtom
  <2>3. CASE part = "signed"
    <3>1. CASE code[i].type \in AddSub
      BY <1>2, <2>1, <2>3, <3>1, IsSigned DEF BeginsWell, AddSub
    <3>2. CASE code[i].type \notin AddSub
      <4>1. Is(code, env, "atom", i, j)
        BY <1>2, <2>1, <2>3, <3>2, IsSigned
      <4>2. BeginsWell(code, env, "atom", i, j)
        <5>1. Extent(n, "atom", i, j) < Extent(n, part, i, j) /\ "atom" \in Parts
          BY <1>0, <2>3, ExtentIs, RulesAre
        <5>. QED
          BY <1>2, <4>1, <5>1
      <4>. QED
        BY <3>2, <4>2 DEF BeginsWell
    <3>. QED
      BY <3>1, <3>2
  <2>4. CASE part \in {"sum", "product"}
    <3> DEFINE O == Operand[part]
    <3>1. O \in Parts \ {"atom"} /\ Extent(n, O, i, j) < Extent(n, part, i, j)
      BY <1>0, <2>4, OperandIsSmaller, RulesAre
    <3>2. CASE Is(code, env, O, i, j)
      <4>1. BeginsWell(code, env, O, i, j)
        BY <1>2, <3>1, <3>2
      <4>2. ASSUME code[i].type \in AddSub
            PROVE  Is(code, env, part, i + 1, j)
        <5>1. Is(code, env, O, i + 1, j) /\ i + 1 \in 1..(n + 1)
          BY <2>1, <4>1, <4>2 DEF BeginsWell
        <5>. QED
          BY <2>4, <5>1, IsChain
      <4>. QED
        BY <2>4, <4>1, <4>2 DEF BeginsWell
    <3>3. ASSUME NEW k \in i..j, Splits(code, env, part, i, j, k)
          PROVE  BeginsWell(code, env, part, i, j)
      <4>1. /\ k - 1 \in 0..n /\ (k - 1) - i < j - i /\ Is(code, env, part, i, k - 1)
            /\ Is(code, env, O, k + 1, j) /\ code[k].type \in Operators[part]
        BY <1>0, <3>3 DEF Splits
      <4>2. BeginsWell(code, env, part, i, k - 1)
        <5>1. Extent(n, part, i, k - 1) < Extent(n, part, i, j)
          BY <1>0, <4>1, ExtentIs
        <5>. QED
          BY <1>2, <4>1, <5>1
      <4>3. ASSUME code[i].type \in AddSub
            PROVE  Is(code, env, part, i + 1, j)
        <5>1. Is(code, env, part, i + 1, k - 1) /\ i + 1 \in 1..(n + 1)
          BY <2>1, <4>2, <4>3 DEF BeginsWell
        <5>2. i + 1 <= k - 1
          BY <1>0, <4>1, <5>1, IsNotEmpty
        <5>3. k \in (i + 1)..j
          BY <1>0, <3>3, <5>2
        <5>4. Splits(code, env, part, i + 1, j, k)
          BY <4>1, <5>1, <5>3 DEF Splits
        <5>. QED
          BY <2>4, <5>1, <5>3, <5>4, IsChain
      <4>4. ASSUME code[i].type = "("
            PROVE  \E m \in (i + 1)..j : code[m].type = ")" /\ Is(code, env, "sum", i + 1, m - 1)
        <5>1. PICK m \in (i + 1)..(k - 1) : code[m].type = ")" /\ Is(code, env, "sum", i + 1, m - 1)
          BY <4>2, <4>4 DEF BeginsWell
        <5>2. m \in (i + 1)..j
          BY <1>0, <3>3
        <5>. QED
          BY <5>1, <5>2
      <4>. QED
        BY <2>4, <4>2, <4>3, <4>4 DEF BeginsWell
    <3>. QED
      BY <1>2, <2>4, <3>2, <3>3, IsChain
  <2>. QED
    BY <2>2, <2>3, <2>4, RulesAre
<1>3. \A part \in Parts, i \in 1..(n + 1), j \in 0..n : <<part, i, j>> \in T
  <2> HIDE DEF P
  <2>1. ASSUME NEW part \in Parts, NEW i \in 1..(n + 1), NEW j \in 0..n,
               \A q \in Parts, a \in 1..(n + 1), b \in 0..n :
                 Extent(n, q, a, b) < Extent(n, part, i, j) => <<q, a, b>> \in T
        PROVE  <<part, i, j>> \in T
    <3>1. \A q \in Parts, a \in 1..(n + 1), b \in 0..n :
            Extent(n, q, a, b) < Extent(n, part, i, j) => P(q, a, b)
      BY <1>1, <2>1
    <3>. QED
      BY <1>1, <1>2, <3>1 DEF P
  <2>. QED
    BY <1>0, <2>1, SpanInduction
<1>. QED
  BY <1>1, <1>3

\* The operators that can follow a sum with which such a part begins.
Joints(part) == IF part \in {"sum", "product"}
                THEN IF part = "sum" THEN BinaryTypes ELSE MulDiv ELSE {}

GoesOn(code, env, part, j, k) ==
  code[k + 1].type \in Joints(part) /\ Is(code, env, "sum", k + 2, j)

\* Behind a sum with which a part begins comes one of its operators, and then
\* another sum: that the grammar is not ambiguous follows from it.
LEMMA PrefixGoesOn ==
  ASSUME NEW code, NEW env, Readable(code, env)
  PROVE  \A part \in Parts, i \in 1..(Len(code) + 1), j \in 0..Len(code) :
           Is(code, env, part, i, j) =>
             \A k \in i..(j - 1) : Is(code, env, "sum", i, k) => GoesOn(code, env, part, j, k)
<1> DEFINE n == Len(code)
           P(part, i, j) ==
             Is(code, env, part, i, j) =>
               \A k \in i..(j - 1) : Is(code, env, "sum", i, k) => GoesOn(code, env, part, j, k)
           T == {s \in Spans(code) : P(s[1], s[2], s[3])}
<1>0. n \in Nat
  BY DEF Readable
<1>1. ASSUME NEW part \in Parts, NEW i \in 1..(n + 1), NEW j \in 0..n
      PROVE  <<part, i, j>> \in T <=> P(part, i, j)
  BY DEF Spans
<1> HIDE DEF T
<1>2. ASSUME NEW part \in Parts, NEW i \in 1..(n + 1), NEW j \in 0..n, Is(code, env, part, i, j),
             NEW k \in i..(j - 1), Is(code, env, "sum", i, k),
             \A q \in Parts, a \in 1..(n + 1), b \in 0..n :
               Extent(n, q, a, b) < Extent(n, part, i, j) => P(q, a, b)
      PROVE  GoesOn(code, env, part, j, k)
  <2>1. /\ i <= j /\ i \in 1..n /\ k \in 1..n /\ i <= k /\ k < j /\ k + 1 \in 1..n
        /\ k + 2 \in 1..(n + 1) /\ k \in 0..n /\ k + 1 \in 1..(n + 1)
    BY <1>0
  <2>2. ASSUME NEW q \in Parts, NEW a \in 1..(n + 1), NEW b \in 0..n, NEW c \in a..(b - 1),
               Extent(n, q, a, b) < Extent(n, part, i, j),
               Is(code, env, q, a, b), Is(code, env, "sum", a, c)
        PROVE  GoesOn(code, env, q, b, c)
    BY <1>2, <2>2
  <2>3. CASE part = "atom"
    <3>1. /\ code[i].type = "(" /\ Is(code, env, "sum", i + 1, j - 1)
          /\ i + 1 \in 1..(n + 1) /\ j - 1 \in 0..n /\ (j - 1) - (i + 1) < j - i
      BY <1>0, <1>2, <2>1, <2>3, IsAtom
    <3>2. BeginsWell(code, env, "sum", i, k)
      BY <1>2, <2>1, PartsBegin, RulesAre
    <3>3. PICK m \in (i + 1)..k : code[m].type = ")" /\ Is(code, env, "sum", i + 1, m - 1)
      BY <3>1, <3>2 DEF BeginsWell
    <3>4. m - 1 \in 0..n /\ m - 1 \in (i + 1)..((j - 1) - 1)
      <4>1. i + 1 <= m - 1
        BY <1>0, <2>1, <3>1, <3>3, IsNotEmpty, RulesAre
      <4>. QED
        BY <1>0, <2>1, <4>1
    <3>5. GoesOn(code, env, "sum", j - 1, m - 1)
      <4>1. "sum" \in Parts /\ Extent(n, "sum", i + 1, j - 1) < Extent(n, part, i, j)
        BY <1>0, <3>1, ExtentIs, RulesAre
      <4>. QED
        BY <2>2, <3>1, <3>3, <3>4, <4>1
    <3>6. (m - 1) + 1 = m
      BY <3>3
    <3>. QED
      BY <3>3, <3>5, <3>6 DEF GoesOn, Joints, BinaryTypes, AddSub, MulDiv
  <2>4. CASE part = "signed" /\ code[i].type \in AddSub
    <3>1. Is(code, env, "signed", i + 1, j) /\ i + 1 \in 1..(n + 1) /\ j - (i + 1) < j - i
      BY <1>0, <1>2, <2>1, <2>4, IsSigned
    <3>2. BeginsWell(code, env, "sum", i, k)
      BY <1>2, <2>1, PartsBegin, RulesAre
    <3>3. Is(code, env, "sum", i + 1, k)
      BY <2>4, <3>2 DEF BeginsWell
    <3>4. k \in (i + 1)..(j - 1)
      <4>1. i + 1 <= k
        BY <1>0, <2>1, <3>1, <3>3, IsNotEmpty, RulesAre
      <4>. QED
        BY <1>0, <2>1, <4>1
    <3>5. Extent(n, "signed", i + 1, j) < Extent(n, part, i, j) /\ "signed" \in Parts
      BY <1>0, <2>4, <3>1, ExtentIs, RulesAre
    <3>6. GoesOn(code, env, "signed", j, k)
      BY <2>2, <3>1, <3>3, <3>4, <3>5
    <3>. QED
      BY <2>4, <3>6
  <2>5. CASE part = "signed" /\ code[i].type \notin AddSub
    <3>1. Is(code, env, "atom", i, j)
      BY <1>2, <2>1, <2>5, IsSigned
    <3>2. Extent(n, "atom", i, j) < Extent(n, part, i, j) /\ "atom" \in Parts
      BY <1>0, <2>5, ExtentIs, RulesAre
    <3>3. GoesOn(code, env, "atom", j, k)
      BY <1>2, <2>2, <3>1, <3>2
    <3>. QED
      BY <3>3 DEF GoesOn, Joints
  <2>6. CASE part \in {"sum", "product"}
    <3> DEFINE O == Operand[part]
    <3>1. /\ O \in Parts /\ Extent(n, O, i, j) < Extent(n, part, i, j) /\ "sum" \in Parts
          /\ Operators[part] \subseteq Joints(part) /\ Operators[part] \subseteq BinaryTypes
          /\ Joints(O) \subseteq Joints(part) /\ Joints(part) \subseteq BinaryTypes
      BY <1>0, <2>6, OperandIsSmaller, RulesAre DEF Joints, BinaryTypes
    <3>2. CASE Is(code, env, O, i, j)
      <4>1. GoesOn(code, env, O, j, k)
        BY <1>2, <2>2, <3>1, <3>2
      <4>. QED
        BY <3>1, <4>1 DEF GoesOn
    <3>3. ASSUME NEW p \in i..j, Splits(code, env, part, i, j, p)
          PROVE  GoesOn(code, env, part, j, k)
      <4>1. /\ p - 1 \in 0..n /\ p + 1 \in 1..(n + 1) /\ p \in 1..n
            /\ (p - 1) - i < j - i /\ j - (p + 1) < j - i /\ k - i < j - i
            /\ code[p].type \in Operators[part]
            /\ Is(code, env, part, i, p - 1) /\ Is(code, env, O, p + 1, j)
        BY <1>0, <2>1, <3>3 DEF Splits
      <4>2. i <= p - 1 /\ p + 1 <= j
        BY <1>0, <3>1, <4>1, IsNotEmpty
      <4>3. /\ Extent(n, part, i, p - 1) < Extent(n, part, i, j)
            /\ Extent(n, O, p + 1, j) < Extent(n, part, i, j)
            /\ Extent(n, "sum", i, k) < Extent(n, part, i, j)
        <5> HIDE DEF O
        <5>. QED
          BY <1>0, <2>1, <3>1, <4>1, ExtentIs
      <4>4. Is(code, env, "sum", i, p - 1) /\ Is(code, env, "sum", p + 1, j)
        BY <2>6, <4>1, Lifts, RulesAre
      <4>5. CASE k < p - 1
        <5>1. k \in i..((p - 1) - 1)
          BY <1>0, <2>1, <4>5
        <5>2. GoesOn(code, env, part, p - 1, k)
          BY <1>2, <2>2, <4>1, <4>3, <5>1
        <5>3. Is(code, env, "sum", k + 2, j)
          <6>1. Is(code, env, "sum", k + 2, p - 1) /\ p \in (k + 2)..j
            BY <1>0, <2>1, <3>3, <4>2, <4>5, <5>2 DEF GoesOn
          <6>2. code[p].type \in BinaryTypes
            BY <3>1, <4>1
          <6>3. CASE part = "sum"
            BY <2>1, <4>1, <6>1, <6>2, <6>3, Extends, RulesAre
          <6>4. CASE part = "product"
            BY <2>1, <4>1, <6>1, <6>2, <6>4, Extends, RulesAre
          <6>. QED
            BY <2>6, <6>3, <6>4
        <5>. QED
          BY <5>2, <5>3 DEF GoesOn
      <4>6. CASE k = p - 1
        <5>1. k + 1 = p /\ k + 2 = p + 1
          BY <1>0, <4>6
        <5>. QED
          BY <3>1, <4>1, <4>4, <5>1 DEF GoesOn
      <4>7. CASE k > p - 1
        <5>1. p - 1 \in i..(k - 1)
          BY <1>0, <2>1, <4>2, <4>7
        <5>2. GoesOn(code, env, "sum", k, p - 1)
          BY <1>2, <2>1, <2>2, <3>1, <4>3, <4>4, <5>1
        <5>3. (p - 1) + 2 = p + 1
          BY <4>1
        <5>4. Is(code, env, "sum", p + 1, k)
          BY <5>2, <5>3 DEF GoesOn
        <5>5. k \in (p + 1)..(j - 1)
          <6>1. p + 1 <= k
            BY <2>1, <3>1, <4>1, <5>4, IsNotEmpty
          <6>. QED
            BY <2>1, <4>1, <6>1
        <5>6. GoesOn(code, env, O, j, k)
          BY <2>2, <3>1, <4>1, <4>3, <5>4, <5>5
        <5>. QED
          BY <3>1, <5>6 DEF GoesOn
      <4>. QED
        BY <2>1, <4>1, <4>5, <4>6, <4>7
    <3>. QED
      BY <1>2, <2>6, <3>2, <3>3, IsChain
  <2>. QED
    BY <2>3, <2>4, <2>5, <2>6, RulesAre
<1>3. \A part \in Parts, i \in 1..(n + 1), j \in 0..n : <<part, i, j>> \in T
  <2> HIDE DEF P
  <2>1. ASSUME NEW part \in Parts, NEW i \in 1..(n + 1), NEW j \in 0..n,
               \A q \in Parts, a \in 1..(n + 1), b \in 0..n :
                 Extent(n, q, a, b) < Extent(n, part, i, j) => <<q, a, b>> \in T
        PROVE  <<part, i, j>> \in T
    <3>1. \A q \in Parts, a \in 1..(n + 1), b \in 0..n :
            Extent(n, q, a, b) < Extent(n, part, i, j) => P(q, a, b)
      BY <1>1, <2>1
    <3>. QED
      BY <1>1, <1>2, <3>1 DEF P
  <2>. QED
    BY <1>0, <2>1, SpanInduction
<1>. QED
  BY <1>1, <1>3

-----------------------------------------------------------------------------
\* An operator that has its operands divides a part in the only way there is.
LEMMA OneWay ==
  ASSUME NEW code, NEW env, Readable(code, env), NEW part \in {"sum", "product"},
         NEW i \in 1..(Len(code) + 1), NEW j \in 0..Len(code),
         NEW p \in i..j, Splits(code, env, part, i, j, p)
  PROVE  Means(code, env, part, i, j)
           = Combinations(code[p].type, Means(code, env, part, i, p - 1),
                          Means(code, env, Operand[part], p + 1, j))
<1> DEFINE n == Len(code)
           O == Operand[part]
           C(k) == Combinations(code[k].type, Means(code, env, part, i, k - 1), Means(code, env, O, k + 1, j))
<1>0. n \in Nat
  BY DEF Readable
<1>1. /\ O \in Parts /\ part \in Parts /\ "sum" \in Parts
      /\ Operators[part] \cap Joints(O) = {}
  BY RulesAre DEF Joints, AddSub, MulDiv
<1>2. ASSUME NEW k \in i..j, Splits(code, env, part, i, j, k)
      PROVE  /\ k - 1 \in 0..n /\ k + 1 \in 1..(n + 1) /\ k \in 1..n
             /\ code[k].type \in Operators[part]
             /\ Is(code, env, part, i, k - 1) /\ Is(code, env, O, k + 1, j)
             /\ i <= k - 1 /\ k + 1 <= j
             /\ Is(code, env, "sum", i, k - 1) /\ Is(code, env, "sum", k + 1, j)
  <2>1. /\ k - 1 \in 0..n /\ k + 1 \in 1..(n + 1) /\ k \in 1..n
        /\ code[k].type \in Operators[part]
        /\ Is(code, env, part, i, k - 1) /\ Is(code, env, O, k + 1, j)
    BY <1>0, <1>2 DEF Splits
  <2>2. i <= k - 1 /\ k + 1 <= j
    BY <1>0, <1>1, <2>1, IsNotEmpty
  <2>3. Is(code, env, "sum", i, k - 1) /\ Is(code, env, "sum", k + 1, j)
    BY <2>1, Lifts, RulesAre
  <2>. QED
    BY <2>1, <2>2, <2>3
\* There is no other place to divide it.
<1>3. ASSUME NEW k \in i..j, Splits(code, env, part, i, j, k),
             NEW l \in i..j, Splits(code, env, part, i, j, l), k < l
      PROVE  FALSE
  <2>1. k - 1 \in i..((l - 1) - 1)
    BY <1>0, <1>2, <1>3
  <2>2. GoesOn(code, env, part, l - 1, k - 1)
    BY <1>1, <1>2, <1>3, <2>1, PrefixGoesOn
  <2>3. (k - 1) + 2 = k + 1
    BY <1>2, <1>3
  <2>4. Is(code, env, "sum", k + 1, l - 1)
    BY <2>2, <2>3 DEF GoesOn
  <2>5. l - 1 \in (k + 1)..(j - 1)
    <3>1. k + 1 <= l - 1
      BY <1>1, <1>2, <1>3, <2>4, IsNotEmpty
    <3>. QED
      BY <1>0, <1>2, <1>3, <3>1
  <2>6. GoesOn(code, env, O, j, l - 1)
    BY <1>1, <1>2, <1>3, <2>4, <2>5, PrefixGoesOn
  <2>7. (l - 1) + 1 = l
    BY <1>3
  <2>. QED
    BY <1>1, <1>2, <1>3, <2>6, <2>7 DEF GoesOn
\* Nor is it an operand.
<1>4. ~Is(code, env, O, i, j)
  <2>1. SUFFICES ASSUME Is(code, env, O, i, j)
                 PROVE  FALSE
    OBVIOUS
  <2>2. p - 1 \in i..(j - 1)
    BY <1>0, <1>2
  <2>3. GoesOn(code, env, O, j, p - 1)
    BY <1>1, <1>2, <2>1, <2>2, PrefixGoesOn
  <2>4. (p - 1) + 1 = p
    OBVIOUS
  <2>. QED
    BY <1>1, <1>2, <2>3, <2>4 DEF GoesOn
<1>5. ASSUME NEW k \in i..j, code[k].type \in Operators[part], C(k) # {}
      PROVE  k = p
  <2>1. Splits(code, env, part, i, j, k)
    BY <1>5, CombinedIs DEF Splits, Is
  <2>2. ~(k < p) /\ ~(p < k)
    BY <1>3, <2>1
  <2>. QED
    BY <2>2
<1>6. ASSUME NEW x
      PROVE  x \in Means(code, env, part, i, j) <=> x \in C(p)
  <2>1. i <= j /\ code[p].type \in Operators[part]
    BY <1>0, <1>2
  <2>2. x \notin Means(code, env, O, i, j)
    BY <1>4 DEF Is
  <2>3. x \in Means(code, env, part, i, j) <=>
          \E k \in i..j : code[k].type \in Operators[part] /\ x \in C(k)
    BY <2>1, <2>2, ChainIs
  <2> HIDE DEF C
  <2>. QED
    BY <1>5, <2>1, <2>3
<1>. QED
  BY <1>6

\* An operand alone means as a chain what it means as an operand.
LEMMA LiftMeansTheSame ==
  ASSUME NEW code, NEW env, Readable(code, env), NEW part \in {"sum", "product"},
         NEW i \in 1..(Len(code) + 1), NEW j \in 0..Len(code), Is(code, env, Operand[part], i, j)
  PROVE  Means(code, env, part, i, j) = Means(code, env, Operand[part], i, j)
<1> DEFINE n == Len(code)
           O == Operand[part]
           C(k) == Combinations(code[k].type, Means(code, env, part, i, k - 1), Means(code, env, O, k + 1, j))
<1>0. n \in Nat
  BY DEF Readable
<1>1. O \in Parts /\ Operators[part] \cap Joints(O) = {}
  BY RulesAre DEF Joints, AddSub, MulDiv
<1>2. i <= j
  BY <1>1, IsNotEmpty
<1>3. ASSUME NEW k \in i..j, code[k].type \in Operators[part], C(k) # {}
      PROVE  FALSE
  <2>1. Is(code, env, part, i, k - 1) /\ Is(code, env, O, k + 1, j)
    BY <1>3, CombinedIs DEF Is
  <2>2. k - 1 \in 0..n /\ k + 1 \in 1..(n + 1)
    BY <1>0
  <2>3. Is(code, env, "sum", i, k - 1) /\ part \in Parts
    BY <2>1, <2>2, Lifts, RulesAre
  <2>4. k - 1 \in i..(j - 1)
    <3>1. i <= k - 1
      BY <2>1, <2>2, <2>3, IsNotEmpty
    <3>. QED
      BY <1>0, <3>1
  <2>5. GoesOn(code, env, O, j, k - 1)
    BY <1>1, <2>2, <2>3, <2>4, PrefixGoesOn
  <2>6. (k - 1) + 1 = k
    BY <1>0
  <2>. QED
    BY <1>1, <1>3, <2>5, <2>6 DEF GoesOn
<1>4. ASSUME NEW x
      PROVE  x \in Means(code, env, part, i, j) <=> x \in Means(code, env, O, i, j)
  <2>1. x \in Means(code, env, part, i, j) <=>
          \/ x \in Means(code, env, O, i, j)
          \/ \E k \in i..j : code[k].type \in Operators[part] /\ x \in C(k)
    BY <1>2, ChainIs
  <2> HIDE DEF C
  <2>. QED
    BY <1>3, <2>1
<1>. QED
  BY <1>4

\* The tokens of `code' from a to b stand in `other' too, `off' tokens further.
Occurs(code, other, off, a, b) ==
  /\ off \in Int /\ a \in 1..(Len(code) + 1) /\ b \in (a - 1)..Len(code)
  /\ a + off >= 1 /\ b + off <= Len(other)
  /\ \A k \in a..b : other[k + off] = code[k]

\* The same tokens mean the same wherever they stand.
LEMMA SameTokensMeanTheSame ==
  ASSUME NEW code, NEW other, NEW env, Readable(code, env), Readable(other, env),
         NEW off, NEW a, NEW b, Occurs(code, other, off, a, b)
  PROVE  \A part \in Parts, i \in a..(b + 1), j \in (a - 1)..b :
           Means(other, env, part, i + off, j + off) = Means(code, env, part, i, j)
<1> DEFINE n == Len(code)
           P(part, i, j) ==
             i \in a..(b + 1) /\ j \in (a - 1)..b =>
               Means(other, env, part, i + off, j + off) = Means(code, env, part, i, j)
           T == {s \in Spans(code) : P(s[1], s[2], s[3])}
<1>0. n \in Nat /\ Len(other) \in Nat
  BY DEF Readable
<1> USE DEF Occurs
<1>1. ASSUME NEW part \in Parts, NEW i \in 1..(n + 1), NEW j \in 0..n
      PROVE  <<part, i, j>> \in T <=> P(part, i, j)
  BY DEF Spans
<1> HIDE DEF T
<1>2. ASSUME NEW i \in a..(b + 1), NEW j \in (a - 1)..b
      PROVE  /\ i \in 1..(n + 1) /\ j \in 0..n
             /\ i + off \in 1..(Len(other) + 1) /\ j + off \in 0..Len(other)
  BY <1>0
<1>3. ASSUME NEW part \in Parts, NEW i \in a..(b + 1), NEW j \in (a - 1)..b,
             \A q \in Parts, c \in 1..(n + 1), d \in 0..n :
               Extent(n, q, c, d) < Extent(n, part, i, j) => P(q, c, d)
      PROVE  Means(other, env, part, i + off, j + off) = Means(code, env, part, i, j)
  <2>1. /\ i \in 1..(n + 1) /\ j \in 0..n
        /\ i + off \in 1..(Len(other) + 1) /\ j + off \in 0..Len(other)
    BY <1>2
  <2>2. ASSUME NEW q \in Parts, NEW c \in a..(b + 1), NEW d \in (a - 1)..b,
               Extent(n, q, c, d) < Extent(n, part, i, j)
        PROVE  Means(other, env, q, c + off, d + off) = Means(code, env, q, c, d)
    BY <1>2, <1>3, <2>2
  <2>3. CASE i > j
    <3>1. i + off > j + off
      BY <1>0, <2>1, <2>3
    <3>. QED
      BY <2>1, <2>3, <3>1, NothingMeansNothing
  <2>4. CASE i <= j /\ part = "atom"
    <3>1. /\ i + off <= j + off /\ (i = j <=> i + off = j + off)
          /\ other[i + off] = code[i] /\ other[j + off] = code[j]
      BY <1>0, <2>1, <2>4
    <3>2. ASSUME i # j
          PROVE  Means(other, env, "sum", (i + off) + 1, (j + off) - 1)
                   = Means(code, env, "sum", i + 1, j - 1)
      <4>1. i + 1 \in a..(b + 1) /\ j - 1 \in (a - 1)..b /\ (j - 1) - (i + 1) < j - i
        BY <1>0, <2>4, <3>2
      <4>2. "sum" \in Parts /\ Extent(n, "sum", i + 1, j - 1) < Extent(n, part, i, j)
        BY <1>0, <1>2, <2>1, <4>1, ExtentIs, RulesAre
      <4>3. (i + off) + 1 = (i + 1) + off /\ (j + off) - 1 = (j - 1) + off
        OBVIOUS
      <4>. QED
        BY <2>2, <4>1, <4>2, <4>3
    <3>3. CASE i = j
      <4>1. /\ Means(code, env, "atom", i, j) =
                       CASE code[i].type = "INT"   -> {code[i].value}
                         [] code[i].type = "IDENT" -> {env[code[i].value]}
                         [] OTHER                  -> {}
            /\ Means(other, env, "atom", i + off, j + off) =
                       CASE code[i].type = "INT"   -> {code[i].value}
                         [] code[i].type = "IDENT" -> {env[code[i].value]}
                         [] OTHER                  -> {}
        BY <2>1, <2>4, <3>1, <3>3, AtomIs
      <4>. QED
        BY <2>4, <4>1
    <3>4. CASE i # j
      <4>1. Means(code, env, "atom", i, j) =
              IF code[i].type = "(" /\ code[j].type = ")"
              THEN Means(code, env, "sum", i + 1, j - 1) ELSE {}
        BY <2>1, <2>4, <3>4, AtomIs
      <4>2. Means(other, env, "atom", i + off, j + off) =
              IF other[i + off].type = "(" /\ other[j + off].type = ")"
              THEN Means(other, env, "sum", (i + off) + 1, (j + off) - 1) ELSE {}
        BY <2>1, <3>1, <3>4, AtomIs
      <4>. QED
        BY <2>4, <3>1, <3>2, <3>4, <4>1, <4>2
    <3>. QED
      BY <3>3, <3>4
  <2>5. CASE i <= j /\ part = "signed"
    <3>1. /\ other[i + off] = code[i] /\ i \in 1..n /\ i + off \in 1..Len(other)
          /\ i + 1 \in a..(b + 1) /\ j - (i + 1) < j - i /\ i + 1 \in 1..(n + 1)
          /\ (i + 1) + off = (i + off) + 1
      BY <1>0, <2>1, <2>5
    <3>2. /\ Extent(n, "signed", i + 1, j) < Extent(n, part, i, j)
          /\ Extent(n, "atom", i, j) < Extent(n, part, i, j)
      BY <1>0, <2>1, <2>5, <3>1, ExtentIs, RulesAre
    <3>3. Means(other, env, "signed", (i + off) + 1, j + off) = Means(code, env, "signed", i + 1, j)
      BY <2>2, <3>1, <3>2, RulesAre
    <3>4. Means(other, env, "atom", i + off, j + off) = Means(code, env, "atom", i, j)
      BY <2>2, <3>2, RulesAre
    <3>5. CASE code[i].type = "ADD"
      BY <2>1, <2>5, <3>1, <3>3, <3>5, SignedIs
    <3>6. CASE code[i].type = "SUB"
      BY <2>1, <2>5, <3>1, <3>3, <3>6, SignedIs
    <3>7. CASE code[i].type \notin AddSub
      BY <2>1, <2>5, <3>1, <3>4, <3>7, SignedIs
    <3>. QED
      BY <3>5, <3>6, <3>7 DEF AddSub
  <2>6. CASE i <= j /\ part \in {"sum", "product"}
    <3> DEFINE O == Operand[part]
               C(k) == Combinations(code[k].type, Means(code, env, part, i, k - 1),
                                    Means(code, env, O, k + 1, j))
               D(k) == Combinations(other[k].type, Means(other, env, part, i + off, k - 1),
                                    Means(other, env, O, k + 1, j + off))
    <3>1. O \in Parts /\ Extent(n, O, i, j) < Extent(n, part, i, j)
      BY <1>0, <2>1, <2>6, OperandIsSmaller
    <3>2. Means(other, env, O, i + off, j + off) = Means(code, env, O, i, j)
      BY <2>2, <3>1
    <3>3. ASSUME NEW k \in i..j
          PROVE  k + off \in (i + off)..(j + off) /\ other[k + off] = code[k] /\ D(k + off) = C(k)
      <4>1. /\ k - 1 \in (a - 1)..b /\ k + 1 \in a..(b + 1) /\ k \in a..b
            /\ k - 1 \in 0..n /\ k + 1 \in 1..(n + 1)
            /\ (k - 1) - i < j - i /\ j - (k + 1) < j - i
            /\ (k + off) - 1 = (k - 1) + off /\ (k + off) + 1 = (k + 1) + off
            /\ k + off \in (i + off)..(j + off)
        BY <1>0, <2>1
      <4>2. /\ Extent(n, part, i, k - 1) < Extent(n, part, i, j)
            /\ Extent(n, O, k + 1, j) < Extent(n, part, i, j)
        <5> HIDE DEF O
        <5>. QED
          BY <1>0, <2>1, <3>1, <4>1, ExtentIs
      <4>3. Means(other, env, part, i + off, (k + off) - 1) = Means(code, env, part, i, k - 1)
        BY <2>2, <4>1, <4>2
      <4>4. Means(other, env, O, (k + off) + 1, j + off) = Means(code, env, O, k + 1, j)
        BY <2>2, <3>1, <4>1, <4>2
      <4>. QED
        BY <4>1, <4>3, <4>4
    <3>4. \A k \in (i + off)..(j + off) : k - off \in i..j /\ (k - off) + off = k
      BY <1>0, <2>1
    <3>5. i + off <= j + off
      BY <1>0, <2>1, <2>6
    <3>6. ASSUME NEW x
          PROVE  x \in Means(other, env, part, i + off, j + off) <=> x \in Means(code, env, part, i, j)
      <4>1. x \in Means(code, env, part, i, j) <=>
              \/ x \in Means(code, env, O, i, j)
              \/ \E k \in i..j : code[k].type \in Operators[part] /\ x \in C(k)
        BY <2>1, <2>6, ChainIs
      <4>2. x \in Means(other, env, part, i + off, j + off) <=>
              \/ x \in Means(other, env, O, i + off, j + off)
              \/ \E k \in (i + off)..(j + off) : other[k].type \in Operators[part] /\ x \in D(k)
        BY <2>1, <2>6, <3>5, ChainIs
      <4> HIDE DEF C, D
      <4>3. ASSUME NEW k \in i..j, code[k].type \in Operators[part], x \in C(k)
            PROVE  \E l \in (i + off)..(j + off) : other[l].type \in Operators[part] /\ x \in D(l)
        BY <3>3, <4>3
      <4>4. ASSUME NEW l \in (i + off)..(j + off), other[l].type \in Operators[part], x \in D(l)
            PROVE  \E k \in i..j : code[k].type \in Operators[part] /\ x \in C(k)
        <5>1. l - off \in i..j /\ (l - off) + off = l
          BY <3>4
        <5>. QED
          BY <3>3, <4>4, <5>1
      <4>. QED
        BY <3>2, <4>1, <4>2, <4>3, <4>4
    <3>. QED
      BY <3>6
  <2>. QED
    BY <2>1, <2>3, <2>4, <2>5, <2>6, RulesAre
<1>4. \A part \in Parts, i \in 1..(n + 1), j \in 0..n : <<part, i, j>> \in T
  <2> HIDE DEF P
  <2>1. ASSUME NEW part \in Parts, NEW i \in 1..(n + 1), NEW j \in 0..n,
               \A q \in Parts, c \in 1..(n + 1), d \in 0..n :
                 Extent(n, q, c, d) < Extent(n, part, i, j) => <<q, c, d>> \in T
        PROVE  <<part, i, j>> \in T
    <3>1. \A q \in Parts, c \in 1..(n + 1), d \in 0..n :
            Extent(n, q, c, d) < Extent(n, part, i, j) => P(q, c, d)
      BY <1>1, <2>1
    <3>. QED
      BY <1>1, <1>3, <3>1 DEF P
  <2>. QED
    BY <1>0, <2>1, SpanInduction
<1>. QED
  BY <1>1, <1>2, <1>4

\* No part means two things.
THEOREM MeaningIsUnique ==
  ASSUME NEW code, NEW env, Readable(code, env)
  PROVE  \A part \in Parts, i \in 1..(Len(code) + 1), j \in 0..Len(code) :
           \A x, y \in Means(code, env, part, i, j) : x = y
<1> DEFINE n == Len(code)
           P(part, i, j) == \A x, y \in Means(code, env, part, i, j) : x = y
           T == {s \in Spans(code) : P(s[1], s[2], s[3])}
<1>0. n \in Nat
  BY DEF Readable
<1>1. ASSUME NEW part \in Parts, NEW i \in 1..(n + 1), NEW j \in 0..n
      PROVE  <<part, i, j>> \in T <=> P(part, i, j)
  BY DEF Spans
<1> HIDE DEF T
<1>2. ASSUME NEW part \in Parts, NEW i \in 1..(n + 1), NEW j \in 0..n,
             \A q \in Parts, a \in 1..(n + 1), b \in 0..n :
               Extent(n, q, a, b) < Extent(n, part, i, j) => P(q, a, b)
      PROVE  P(part, i, j)
  <2>1. CASE i > j
    BY <2>1, NothingMeansNothing
  <2>2. CASE i <= j /\ part = "atom"
    <3>1. CASE i = j
      <4>1. Means(code, env, "atom", i, j) =
                       CASE code[i].type = "INT"   -> {code[i].value}
                         [] code[i].type = "IDENT" -> {env[code[i].value]}
                         [] OTHER                  -> {}
        BY <2>2, <3>1, AtomIs
      <4>. QED
        BY <2>2, <4>1
    <3>2. CASE i # j
      <4>1. i + 1 \in 1..(n + 1) /\ j - 1 \in 0..n /\ (j - 1) - (i + 1) < j - i /\ "sum" \in Parts
        BY <1>0, <2>2, <3>2, RulesAre
      <4>2. Extent(n, "sum", i + 1, j - 1) < Extent(n, part, i, j)
        BY <1>0, <4>1, ExtentIs
      <4>3. P("sum", i + 1, j - 1)
        BY <1>2, <4>1, <4>2
      <4>. QED
        BY <2>2, <3>2, <4>3, AtomIs
    <3>. QED
      BY <3>1, <3>2
  <2>3. CASE i <= j /\ part = "signed"
    <3>1. /\ i \in 1..n /\ i + 1 \in 1..(n + 1) /\ j - (i + 1) < j - i
          /\ "signed" \in Parts /\ "atom" \in Parts
      BY <1>0, <2>3, RulesAre
    <3>2. /\ Extent(n, "signed", i + 1, j) < Extent(n, part, i, j)
          /\ Extent(n, "atom", i, j) < Extent(n, part, i, j)
      BY <1>0, <2>3, <3>1, ExtentIs
    <3>3. P("signed", i + 1, j) /\ P("atom", i, j)
      BY <1>2, <3>1, <3>2
    <3>4. \A x, y \in Negated(Means(code, env, "signed", i + 1, j)) : x = y
      BY <3>3 DEF Negated
    <3>. QED
      BY <2>3, <3>1, <3>3, <3>4, SignedIs DEF AddSub
  <2>4. CASE i <= j /\ part \in {"sum", "product"}
    <3> DEFINE O == Operand[part]
    <3>1. O \in Parts /\ Extent(n, O, i, j) < Extent(n, part, i, j)
      BY <1>0, <2>4, OperandIsSmaller
    <3>2. CASE Is(code, env, O, i, j)
      <4>1. Means(code, env, part, i, j) = Means(code, env, O, i, j)
        BY <2>4, <3>2, LiftMeansTheSame
      <4>. QED
        BY <1>2, <3>1, <4>1
    <3>3. ASSUME NEW k \in i..j, Splits(code, env, part, i, j, k)
          PROVE  P(part, i, j)
      <4> DEFINE as == Means(code, env, part, i, k - 1)
                 bs == Means(code, env, O, k + 1, j)
      <4>1. Means(code, env, part, i, j) = Combinations(code[k].type, as, bs)
        BY <2>4, <3>3, OneWay
      <4>2. k - 1 \in 0..n /\ k + 1 \in 1..(n + 1) /\ (k - 1) - i < j - i /\ j - (k + 1) < j - i
        BY <1>0
      <4>3. /\ Extent(n, part, i, k - 1) < Extent(n, part, i, j)
            /\ Extent(n, O, k + 1, j) < Extent(n, part, i, j)
        <5> HIDE DEF O
        <5>. QED
          BY <1>0, <3>1, <4>2, ExtentIs
      <4>4. P(part, i, k - 1) /\ P(O, k + 1, j)
        BY <1>2, <3>1, <4>2, <4>3
      <4>5. PICK a, b : a \in as /\ b \in bs
        BY <3>3 DEF Splits, Is
      <4>6. as = {a} /\ bs = {b}
        BY <4>4, <4>5
      <4>7. Combinations(code[k].type, as, bs) = {StrictBinary(code[k].type, a, b)}
        BY <4>6, CombinedIs
      <4>. QED
        BY <4>1, <4>7
    <3>4. CASE ~Is(code, env, part, i, j)
      BY <3>4 DEF Is
    <3>. QED
      BY <2>4, <3>2, <3>3, <3>4, IsChain
  <2>. QED
    BY <2>1, <2>2, <2>3, <2>4, RulesAre, <1>0
<1>3. \A part \in Parts, i \in 1..(n + 1), j \in 0..n : <<part, i, j>> \in T
  <2> HIDE DEF P
  <2>1. ASSUME NEW part \in Parts, NEW i \in 1..(n + 1), NEW j \in 0..n,
               \A q \in Parts, a \in 1..(n + 1), b \in 0..n :
                 Extent(n, q, a, b) < Extent(n, part, i, j) => <<q, a, b>> \in T
        PROVE  <<part, i, j>> \in T
    <3>1. \A q \in Parts, a \in 1..(n + 1), b \in 0..n :
            Extent(n, q, a, b) < Extent(n, part, i, j) => P(q, a, b)
      BY <1>1, <2>1
    <3>. QED
      BY <1>1, <1>2, <3>1
  <2>. QED
    BY <1>0, <2>1, SpanInduction
<1>. QED
  BY <1>1, <1>3

\* Two minus signs are none.
LEMMA NegatedTwice ==
  /\ \A a \in Value : StrictNegate(a) \in Value /\ StrictNegate(StrictNegate(a)) = a
  /\ \A as \in SUBSET Value : Negated(as) \in SUBSET Value /\ Negated(Negated(as)) = as
<1>1. ASSUME NEW a \in Value
      PROVE  StrictNegate(a) \in Value /\ StrictNegate(StrictNegate(a)) = a
  <2>1. CASE a = TRAP
    BY <1>1, <2>1, StrictIsValue DEF StrictNegate
  <2>2. CASE a \in Long
    <3>1. a \in Int /\ -a \in Int /\ 0 \in Int /\ -a = 0 - a /\ a # TRAP
      BY <2>2, LongIs
    <3>2. Wrap(-a) \in Long /\ Wrap(-a) \in Int /\ Wrap(-a) # TRAP
      BY <3>1, WrapIsLong, LongIs
    <3>3. Wrap(0 - Wrap(-a)) = Wrap(0 - (-a))
      BY <3>1, WrapInside
    <3>4. 0 - (-a) = a /\ 0 - Wrap(-a) = -Wrap(-a)
      BY <3>1, <3>2
    <3>5. Wrap(-Wrap(-a)) = a
      BY <2>2, <3>3, <3>4, WrapOfLong
    <3>6. StrictNegate(a) = Wrap(-a) /\ StrictNegate(Wrap(-a)) = Wrap(-Wrap(-a))
      BY <3>1, <3>2 DEF StrictNegate, Negate
    <3>. QED
      BY <3>2, <3>5, <3>6 DEF Value
  <2>. QED
    BY <2>1, <2>2 DEF Value
<1>2. ASSUME NEW as \in SUBSET Value
      PROVE  Negated(as) \in SUBSET Value /\ Negated(Negated(as)) = as
  BY <1>1, Zenon DEF Negated
<1>. QED
  BY <1>1, <1>2

\* Tokens whose numbers are longs mean longs, or a trap.
Moderate(code, env) ==
  /\ Len(code) \in Nat
  /\ \A k \in 1..Len(code) :
       /\ code[k].type = "INT" => code[k].value \in Long
       /\ code[k].type = "IDENT" => env[code[k].value] \in Long

LEMMA MeaningsAreValues ==
  ASSUME NEW code, NEW env, Moderate(code, env)
  PROVE  /\ Readable(code, env)
         /\ \A part \in Parts, i \in 1..(Len(code) + 1), j \in 0..Len(code) :
              Means(code, env, part, i, j) \in SUBSET Value
<1> DEFINE n == Len(code)
           P(part, i, j) == Means(code, env, part, i, j) \in SUBSET Value
           T == {s \in Spans(code) : P(s[1], s[2], s[3])}
<1>0. n \in Nat /\ Readable(code, env)
  BY LongIs DEF Moderate, Readable
<1>1. ASSUME NEW part \in Parts, NEW i \in 1..(n + 1), NEW j \in 0..n
      PROVE  <<part, i, j>> \in T <=> P(part, i, j)
  BY DEF Spans
<1> HIDE DEF T
<1>2. ASSUME NEW part \in Parts, NEW i \in 1..(n + 1), NEW j \in 0..n,
             \A q \in Parts, a \in 1..(n + 1), b \in 0..n :
               Extent(n, q, a, b) < Extent(n, part, i, j) => P(q, a, b)
      PROVE  P(part, i, j)
  <2>0. CASE i > j
    BY <1>0, <2>0, NothingMeansNothing
  <2>1. CASE i <= j /\ part = "atom"
    <3>1. i \in 1..n /\ code[i].type = "INT" => code[i].value \in Long
      BY DEF Moderate
    <3>2. i \in 1..n /\ code[i].type = "IDENT" => env[code[i].value] \in Long
      BY DEF Moderate
    <3>3. i \in 1..n
      BY <1>0, <2>1
    <3>4. CASE i = j
      BY <1>0, <2>1, <3>1, <3>2, <3>3, <3>4, AtomIs DEF Value
    <3>5. CASE i # j
      <4>1. i + 1 \in 1..(n + 1) /\ j - 1 \in 0..n /\ (j - 1) - (i + 1) < j - i /\ "sum" \in Parts
        BY <1>0, <2>1, <3>5, RulesAre
      <4>2. P("sum", i + 1, j - 1)
        <5>1. Extent(n, "sum", i + 1, j - 1) < Extent(n, part, i, j)
          BY <1>0, <4>1, ExtentIs
        <5>. QED
          BY <1>2, <4>1, <5>1
      <4>. QED
        BY <1>0, <2>1, <3>5, <4>2, AtomIs
    <3>. QED
      BY <3>4, <3>5
  <2>2. CASE i <= j /\ part = "signed"
    <3>1. i \in 1..n /\ i + 1 \in 1..(n + 1) /\ j - (i + 1) < j - i /\ "signed" \in Parts /\ "atom" \in Parts
      BY <1>0, <2>2, RulesAre
    <3>2. /\ Extent(n, "signed", i + 1, j) < Extent(n, part, i, j)
          /\ Extent(n, "atom", i, j) < Extent(n, part, i, j)
      BY <1>0, <2>2, <3>1, ExtentIs
    <3>3. P("signed", i + 1, j) /\ P("atom", i, j)
      BY <1>2, <3>1, <3>2
    <3>4. Negated(Means(code, env, "signed", i + 1, j)) \in SUBSET Value
      BY <3>3, NegatedTwice
    <3>. QED
      BY <1>0, <2>2, <3>1, <3>3, <3>4, SignedIs DEF AddSub
  <2>3. CASE i <= j /\ part \in {"sum", "product"}
    <3> DEFINE O == Operand[part]
    <3>1. O \in Parts /\ Extent(n, O, i, j) < Extent(n, part, i, j)
      BY <1>0, <2>3, OperandIsSmaller
    <3>2. Means(code, env, O, i, j) \in SUBSET Value
      BY <1>2, <3>1
    <3>3. ASSUME NEW k \in i..j, code[k].type \in Operators[part]
          PROVE  Combinations(code[k].type, Means(code, env, part, i, k - 1), Means(code, env, O, k + 1, j))
                   \in SUBSET Value
      <4>1. k - 1 \in 0..n /\ k + 1 \in 1..(n + 1) /\ (k - 1) - i < j - i /\ j - (k + 1) < j - i
        BY <1>0
      <4>2. Extent(n, part, i, k - 1) < Extent(n, part, i, j) /\ Extent(n, O, k + 1, j) < Extent(n, part, i, j)
        BY <1>0, <3>1, <4>1, ExtentIs
      <4>3. /\ Means(code, env, part, i, k - 1) \in SUBSET Value
            /\ Means(code, env, O, k + 1, j) \in SUBSET Value
        BY <1>2, <3>1, <4>1, <4>2
      <4>4. code[k].type \in BinaryTypes
        BY <2>3, <3>3, RulesAre DEF BinaryTypes
      <4>. QED
        BY <4>3, <4>4, StrictIsValue DEF Combinations
    <3>4. ASSUME NEW x \in Means(code, env, part, i, j)
          PROVE  x \in Value
      BY <1>0, <2>3, <3>2, <3>3, <3>4, ChainIs
    <3>. QED
      BY <3>4
  <2>. QED
    BY <1>0, <2>0, <2>1, <2>2, <2>3, RulesAre
<1>3. \A part \in Parts, i \in 1..(n + 1), j \in 0..n : <<part, i, j>> \in T
  <2> HIDE DEF P
  <2>1. ASSUME NEW part \in Parts, NEW i \in 1..(n + 1), NEW j \in 0..n,
               \A q \in Parts, a \in 1..(n + 1), b \in 0..n :
                 Extent(n, q, a, b) < Extent(n, part, i, j) => <<q, a, b>> \in T
        PROVE  <<part, i, j>> \in T
    <3>1. \A q \in Parts, a \in 1..(n + 1), b \in 0..n :
            Extent(n, q, a, b) < Extent(n, part, i, j) => P(q, a, b)
      BY <1>1, <2>1
    <3>. QED
      BY <1>1, <1>2, <3>1
  <2>. QED
    BY <1>0, <2>1, SpanInduction
<1>. QED
  BY <1>0, <1>1, <1>3

-----------------------------------------------------------------------------
(***************************************************************************)
(* The text of an AST means what the AST computes                          *)
(***************************************************************************)

\* The tokens of which texts consist, for the names of the arguments.
PrintedTokens(names) ==
  [type : BinaryTypes \cup {"(", ")", "INT"}, value : Int]
    \cup {[type |-> "IDENT", value |-> names[i]] : i \in DOMAIN names}

\* The text of a node, if f has those of its children.
Digits(num) == <<[type |-> "INT", value |-> Abs(num)]>>
NodeText(node, names, f) ==
  CASE node.type \in BinaryTypes -> InParentheses(f[node.left], node.type, f[node.right])
    [] node.type = "INV" -> Minus \o f[node.left]
    [] node.type = "INT" -> IF node.num < 0 THEN Minus \o Digits(node.num) ELSE Digits(node.num)
    [] node.type = "VAR" -> <<[type |-> "IDENT", value |-> names[node.num]]>>

\* The tokens of s, and behind them those of u.
Beside(T, s, u, both) ==
  /\ both \in Seq(T) /\ Len(both) = Len(s) + Len(u)
  /\ \A k \in 1..Len(s) : both[k] = s[k]
  /\ \A k \in 1..Len(u) : both[k + Len(s)] = u[k]

LEMMA BesideIs ==
  ASSUME NEW T, NEW s \in Seq(T), NEW u \in Seq(T)
  PROVE  Beside(T, s, u, s \o u)
<1>1. /\ s \o u \in Seq(T) /\ Len(s \o u) = Len(s) + Len(u)
      /\ \A k \in 1..(Len(s) + Len(u)) :
           (s \o u)[k] = IF k <= Len(s) THEN s[k] ELSE u[k - Len(s)]
  BY ConcatProperties
<1>2. Len(s) \in Nat /\ Len(u) \in Nat
  OBVIOUS
<1>3. \A k \in 1..Len(s) : k \in 1..(Len(s) + Len(u)) /\ k <= Len(s)
  BY <1>2
<1>4. \A k \in 1..Len(u) :
        k + Len(s) \in 1..(Len(s) + Len(u)) /\ ~(k + Len(s) <= Len(s)) /\ (k + Len(s)) - Len(s) = k
  BY <1>2
<1>. QED
  BY <1>1, <1>3, <1>4 DEF Beside

\* Where the tokens of an expression in parentheses are.
Parenthesized(T, l, type, r, t) ==
  /\ t \in Seq(T) /\ Len(t) = Len(l) + Len(r) + 3
  /\ t[1].type = "(" /\ t[Len(l) + 2].type = type /\ t[Len(t)].type = ")"
  /\ \A k \in 1..Len(l) : t[k + 1] = l[k]
  /\ \A k \in 1..Len(r) : t[k + (Len(l) + 2)] = r[k]

LEMMA ParenthesesAre ==
  ASSUME NEW T, NEW l \in Seq(T), NEW r \in Seq(T), NEW type,
         Token("(") \in T, Token(")") \in T,
         Token(type) \in T, NEW t, t = InParentheses(l, type, r)
  PROVE  Parenthesized(T, l, type, r, t)
<1> DEFINE open == <<[type |-> "(", value |-> 0]>>
           op == <<[type |-> type, value |-> 0]>>
           close == <<[type |-> ")", value |-> 0]>>
           s == open \o l
           u == s \o op
           v == u \o r
<1>1. /\ open \in Seq(T) /\ Len(open) = 1 /\ open[1].type = "("
      /\ op \in Seq(T) /\ Len(op) = 1 /\ op[1].type = type
      /\ close \in Seq(T) /\ Len(close) = 1 /\ close[1].type = ")"
  BY DEF Token
<1>2. t = v \o close
  BY DEF InParentheses
<1>3. Len(l) \in Nat /\ Len(r) \in Nat
  OBVIOUS
<1> HIDE DEF open, op, close
<1>4. /\ s \in Seq(T) /\ Len(s) = 1 + Len(l)
      /\ \A k \in 1..1 : s[k] = open[k]
      /\ \A k \in 1..Len(l) : s[k + 1] = l[k]
  <2>1. Beside(T, open, l, s)
    BY <1>1, BesideIs
  <2>. QED
    BY <1>1, <1>3, <2>1 DEF Beside
<1> HIDE DEF s
<1>5. /\ u \in Seq(T) /\ Len(u) = Len(l) + 2
      /\ \A k \in 1..(1 + Len(l)) : u[k] = s[k]
      /\ \A k \in 1..1 : u[k + (1 + Len(l))] = op[k]
  <2>1. Beside(T, s, op, u)
    BY <1>1, <1>4, BesideIs
  <2>. QED
    BY <1>1, <1>3, <1>4, <2>1 DEF Beside
<1> HIDE DEF u
<1>6. /\ v \in Seq(T) /\ Len(v) = Len(l) + 2 + Len(r)
      /\ \A k \in 1..(Len(l) + 2) : v[k] = u[k]
      /\ \A k \in 1..Len(r) : v[k + (Len(l) + 2)] = r[k]
  <2>1. Beside(T, u, r, v)
    BY <1>5, BesideIs
  <2>. QED
    BY <1>5, <2>1 DEF Beside
<1> HIDE DEF v
<1>7. /\ t \in Seq(T) /\ Len(t) = Len(l) + Len(r) + 3
      /\ \A k \in 1..(Len(l) + 2 + Len(r)) : t[k] = v[k]
      /\ \A k \in 1..1 : t[k + (Len(l) + 2 + Len(r))] = close[k]
  <2>1. Beside(T, v, close, t)
    BY <1>1, <1>2, <1>6, BesideIs
  <2>. QED
    BY <1>1, <1>3, <1>6, <2>1 DEF Beside
<1>8. t[1].type = "(" /\ t[Len(l) + 2].type = type /\ t[Len(t)].type = ")"
  <2>1. t[1] = open[1]
    <3>1. 1 \in 1..1 /\ 1 \in 1..(1 + Len(l)) /\ 1 \in 1..(Len(l) + 2) /\ 1 \in 1..(Len(l) + 2 + Len(r))
      BY <1>3
    <3>. QED
      BY <1>4, <1>5, <1>6, <1>7, <3>1
  <2>2. t[Len(l) + 2] = op[1]
    <3>1. /\ Len(l) + 2 \in 1..(Len(l) + 2) /\ Len(l) + 2 \in 1..(Len(l) + 2 + Len(r))
          /\ 1 + (1 + Len(l)) = Len(l) + 2 /\ 1 \in 1..1
      BY <1>3
    <3>. QED
      BY <1>5, <1>6, <1>7, <3>1
  <2>3. t[Len(t)] = close[1]
    <3>1. 1 + (Len(l) + 2 + Len(r)) = Len(t) /\ 1 \in 1..1
      BY <1>3, <1>7
    <3>. QED
      BY <1>7, <3>1
  <2>. QED
    BY <1>1, <2>1, <2>2, <2>3
<1>9. ASSUME NEW k \in 1..Len(l)
      PROVE  t[k + 1] = l[k]
  <2>1. /\ k + 1 \in 1..(1 + Len(l)) /\ k + 1 \in 1..(Len(l) + 2)
        /\ k + 1 \in 1..(Len(l) + 2 + Len(r))
    BY <1>3
  <2>. QED
    BY <1>4, <1>5, <1>6, <1>7, <2>1
<1>10. ASSUME NEW k \in 1..Len(r)
       PROVE  t[k + (Len(l) + 2)] = r[k]
  <2>1. k + (Len(l) + 2) \in 1..(Len(l) + 2 + Len(r))
    BY <1>3
  <2>. QED
    BY <1>6, <1>7, <2>1
<1>. QED
  BY <1>7, <1>8, <1>9, <1>10 DEF Parenthesized

\* Code is not changed in what it means by what stands around it.
LEMMA InsideMeansTheSame ==
  ASSUME NEW code, NEW other, NEW env, Readable(code, env), Readable(other, env),
         NEW off \in Nat, off + Len(code) <= Len(other),
         \A k \in 1..Len(code) : other[k + off] = code[k],
         NEW part \in Parts
  PROVE  Means(other, env, part, 1 + off, Len(code) + off) = Means(code, env, part, 1, Len(code))
<1>1. Len(code) \in Nat /\ Len(other) \in Nat
  BY DEF Readable
<1>2. PICK a, b : a = 1 /\ b = Len(code)
  OBVIOUS
<1>3. Occurs(code, other, off, a, b) /\ a \in a..(b + 1) /\ b \in (a - 1)..b
  BY <1>1, <1>2 DEF Occurs
<1>4. Means(other, env, part, a + off, b + off) = Means(code, env, part, a, b)
  BY <1>3, SameTokensMeanTheSame
<1>. QED
  BY <1>2, <1>4

\* What means something as a SIGNED means the same as a PRODUCT and as a SUM.
LEMMA SignedMeansTheSame ==
  ASSUME NEW code, NEW env, Readable(code, env),
         NEW i \in 1..(Len(code) + 1), NEW j \in 0..Len(code), Is(code, env, "signed", i, j)
  PROVE  /\ Means(code, env, "product", i, j) = Means(code, env, "signed", i, j)
         /\ Means(code, env, "sum", i, j) = Means(code, env, "signed", i, j)
<1>1. Operand["product"] = "signed" /\ Operand["sum"] = "product"
  BY RulesAre
<1>2. Means(code, env, "product", i, j) = Means(code, env, "signed", i, j)
  BY <1>1, LiftMeansTheSame
<1>3. Is(code, env, "product", i, j)
  BY <1>2 DEF Is
<1>. QED
  BY <1>1, <1>2, <1>3, LiftMeansTheSame

\* A text that means v alone, wherever an operand can stand.
Writes(code, env, v) ==
  /\ Readable(code, env) /\ code # <<>>
  /\ Means(code, env, "signed", 1, Len(code)) = {v}

LEMMA WritesEverywhere ==
  ASSUME NEW code, NEW other, NEW env, NEW v, Writes(code, env, v), Readable(other, env),
         NEW off \in Nat, off + Len(code) <= Len(other),
         \A k \in 1..Len(code) : other[k + off] = code[k]
  PROVE  \A part \in {"signed", "product", "sum"} :
           Means(other, env, part, 1 + off, Len(code) + off) = {v}
<1>0. Readable(code, env) /\ Len(code) \in Nat
  BY DEF Writes, Readable
<1>1. 1 \in 1..(Len(code) + 1) /\ Len(code) \in 0..Len(code)
  BY <1>0
<1>2. Means(code, env, "signed", 1, Len(code)) = {v} /\ Is(code, env, "signed", 1, Len(code))
  BY DEF Writes, Is
<1>3. /\ Means(code, env, "product", 1, Len(code)) = {v}
      /\ Means(code, env, "sum", 1, Len(code)) = {v}
  BY <1>0, <1>1, <1>2, SignedMeansTheSame
<1>4. \A part \in Parts :
        Means(other, env, part, 1 + off, Len(code) + off) = Means(code, env, part, 1, Len(code))
  BY <1>0, InsideMeansTheSame
<1>. QED
  BY <1>2, <1>3, <1>4, RulesAre

LEMMA WordSays ==
  ASSUME NEW token, NEW env
  PROVE  /\ token.type = "INT" /\ token.value \in Int => Writes(<<token>>, env, token.value)
         /\ token.type = "IDENT" /\ env[token.value] \in Int =>
              Writes(<<token>>, env, env[token.value])
<1> DEFINE code == <<token>>
<1>1. SUFFICES ASSUME NEW v, \/ token.type = "INT" /\ token.value \in Int /\ v = token.value
                             \/ token.type = "IDENT" /\ env[token.value] \in Int /\ v = env[token.value]
               PROVE  Writes(code, env, v)
  BY Zenon
<1>2. Len(code) = 1 /\ code[1] = token /\ code # <<>>
  OBVIOUS
<1> HIDE DEF code
<1>3. Readable(code, env)
  BY <1>1, <1>2 DEF Readable
<1>4. 1 \in 1..(Len(code) + 1) /\ 1 \in 0..Len(code) /\ 1 \in 1..Len(code)
  BY <1>2
<1>5. Means(code, env, "atom", 1, 1) = {v}
  <2>1. Means(code, env, "atom", 1, 1) =
          CASE code[1].type = "INT"   -> {code[1].value}
            [] code[1].type = "IDENT" -> {env[code[1].value]}
            [] OTHER                  -> {}
    BY <1>3, <1>4, AtomIs
  <2>. QED
    BY <1>1, <1>2, <2>1
<1>6. Means(code, env, "signed", 1, 1) = Means(code, env, "atom", 1, 1)
  BY <1>1, <1>2, <1>3, <1>4, SignedIs DEF AddSub
<1>. QED
  BY <1>2, <1>3, <1>5, <1>6 DEF Writes

LEMMA MinusSays ==
  ASSUME NEW T, NEW code \in Seq(T), NEW env, NEW v, Writes(code, env, v),
         Token("SUB") \in T
  PROVE  Writes(Minus \o code, env, StrictNegate(v))
<1>1. Minus \in Seq(T) /\ Len(Minus) = 1 /\ Minus[1].type = "SUB"
  BY DEF Minus, Token
<1>2. PICK t : t = Minus \o code
  OBVIOUS
<1>3. Beside(T, Minus, code, t)
  BY <1>1, <1>2, BesideIs
<1>4. Len(code) \in Nat /\ Readable(code, env)
  BY DEF Writes, Readable
<1>5. /\ Len(t) = Len(code) + 1 /\ t[1].type = "SUB" /\ t # <<>>
      /\ \A k \in 1..Len(code) : t[k + 1] = code[k]
  <2>1. /\ Len(t) = Len(Minus) + Len(code)
        /\ \A k \in 1..Len(Minus) : t[k] = Minus[k]
        /\ \A k \in 1..Len(code) : t[k + Len(Minus)] = code[k]
    BY <1>3 DEF Beside
  <2>2. Len(t) # 0
    BY <1>1, <1>4, <2>1
  <2>. QED
    BY <1>1, <1>4, <2>1, <2>2
<1>6. Readable(t, env)
  <2>1. ASSUME NEW k \in 1..Len(t), k # 1
        PROVE  k - 1 \in 1..Len(code) /\ t[k] = code[k - 1]
    <3>1. k - 1 \in 1..Len(code) /\ (k - 1) + 1 = k
      BY <1>4, <1>5, <2>1
    <3>. QED
      BY <1>5, <3>1
  <2>2. Len(t) \in Nat
    BY <1>4, <1>5
  <2>3. ASSUME NEW k \in 1..Len(t)
        PROVE  /\ t[k].type = "INT" => t[k].value \in Int
               /\ t[k].type = "IDENT" => env[t[k].value] \in Int
    <3>1. CASE k = 1
      BY <1>5, <3>1
    <3>2. CASE k # 1
      <4>1. k - 1 \in 1..Len(code) /\ t[k] = code[k - 1]
        BY <2>1, <3>2
      <4>. QED
        BY <1>4, <4>1 DEF Readable
    <3>. QED
      BY <3>1, <3>2
  <2>. QED
    BY <2>2, <2>3 DEF Readable
<1>7. Means(t, env, "signed", 1 + 1, Len(code) + 1) = {v}
  <2>1. 1 \in Nat /\ 1 + Len(code) <= Len(t)
    BY <1>4, <1>5
  <2>. QED
    BY <1>5, <1>6, <2>1, WritesEverywhere
<1>8. Means(t, env, "signed", 1, Len(t)) = Negated({v})
  <2>1. 1 \in 1..Len(t) /\ Len(t) \in 0..Len(t)
    BY <1>4, <1>5
  <2>2. Means(t, env, "signed", 1, Len(t)) = Negated(Means(t, env, "signed", 1 + 1, Len(t)))
    BY <1>5, <1>6, <2>1, SignedIs
  <2>. QED
    BY <1>5, <1>7, <2>2
<1>. QED
  BY <1>2, <1>5, <1>6, <1>8, NegatedIs DEF Writes

LEMMA BinaryWrites ==
  ASSUME NEW T, NEW l \in Seq(T), NEW r \in Seq(T), NEW type \in BinaryTypes, NEW env,
         NEW a, NEW b, Writes(l, env, a), Writes(r, env, b),
         Token("(") \in T, Token(")") \in T,
         Token(type) \in T
  PROVE  Writes(InParentheses(l, type, r), env, StrictBinary(type, a, b))
<1>1. PICK t : t = InParentheses(l, type, r)
  OBVIOUS
<1>2. /\ Len(t) = Len(l) + Len(r) + 3
      /\ t[1].type = "(" /\ t[Len(l) + 2].type = type /\ t[Len(t)].type = ")"
      /\ \A k \in 1..Len(l) : t[k + 1] = l[k]
      /\ \A k \in 1..Len(r) : t[k + (Len(l) + 2)] = r[k]
  <2>1. Parenthesized(T, l, type, r, t)
    BY <1>1, ParenthesesAre
  <2>. QED
    BY <2>1 DEF Parenthesized
<1>3. /\ Len(l) \in Nat /\ Len(r) \in Nat /\ Len(l) >= 1 /\ Len(r) >= 1
      /\ Readable(l, env) /\ Readable(r, env)
  BY DEF Writes
<1>4. Len(t) \in Nat /\ t # <<>>
  <2>1. Len(t) \in Nat /\ Len(t) # 0
    BY <1>2, <1>3
  <2>. QED
    BY <2>1
<1>5. Readable(t, env)
  <2>1. SUFFICES ASSUME NEW k \in 1..Len(t)
                 PROVE  /\ t[k].type = "INT" => t[k].value \in Int
                        /\ t[k].type = "IDENT" => env[t[k].value] \in Int
    BY <1>4 DEF Readable
  <2>2. CASE k \in {1, Len(l) + 2, Len(t)}
    BY <1>2, <2>2 DEF BinaryTypes, AddSub, MulDiv
  <2>3. CASE k \in 2..(Len(l) + 1)
    <3>1. k - 1 \in 1..Len(l) /\ (k - 1) + 1 = k
      BY <1>3, <2>3
    <3>2. t[k] = l[k - 1]
      BY <1>2, <3>1
    <3>. QED
      BY <1>3, <3>1, <3>2 DEF Readable
  <2>4. CASE k \in (Len(l) + 3)..(Len(t) - 1)
    <3>1. k - (Len(l) + 2) \in 1..Len(r) /\ (k - (Len(l) + 2)) + (Len(l) + 2) = k
      BY <1>2, <1>3, <2>4
    <3>2. t[k] = r[k - (Len(l) + 2)]
      BY <1>2, <3>1
    <3>. QED
      BY <1>3, <3>1, <3>2 DEF Readable
  <2>5. k \in {1, Len(l) + 2, Len(t)} \/ k \in 2..(Len(l) + 1) \/ k \in (Len(l) + 3)..(Len(t) - 1)
    <3>1. Len(t) = Len(l) + Len(r) + 3 /\ Len(l) \in Nat /\ Len(r) \in Nat /\ k \in 1..Len(t)
      BY <1>2, <1>3
    <3>. QED
      BY <3>1
  <2>. QED
    BY <2>2, <2>3, <2>4, <2>5
<1>6. \A part \in {"signed", "product", "sum"} : Means(t, env, part, 2, Len(l) + 1) = {a}
  <2>1. 1 \in Nat /\ 1 + Len(l) <= Len(t) /\ 1 + 1 = 2
    BY <1>2, <1>3
  <2>. QED
    BY <1>2, <1>5, <2>1, WritesEverywhere
<1>7. \A part \in {"signed", "product", "sum"} :
        Means(t, env, part, Len(l) + 3, Len(t) - 1) = {b}
  <2>1. PICK off : off = Len(l) + 2
    OBVIOUS
  <2>2. /\ off \in Nat /\ off + Len(r) <= Len(t) /\ 1 + off = Len(l) + 3
        /\ Len(r) + off = Len(t) - 1
    BY <1>2, <1>3, <2>1
  <2>3. \A k \in 1..Len(r) : t[k + off] = r[k]
    BY <1>2, <2>1
  <2>4. \A part \in {"signed", "product", "sum"} :
          Means(t, env, part, 1 + off, Len(r) + off) = {b}
    BY <1>5, <2>2, <2>3, WritesEverywhere
  <2>. QED
    BY <2>2, <2>4
<1>8. PICK part \in {"sum", "product"} : type \in Operators[part]
  BY RulesAre DEF BinaryTypes
<1>9. PICK p, e : p = Len(l) + 2 /\ e = Len(t) - 1
  OBVIOUS
<1>10. /\ 2 \in 1..(Len(t) + 1) /\ e \in 0..Len(t) /\ p \in 2..e
       /\ p - 1 = Len(l) + 1 /\ p + 1 = Len(l) + 3 /\ t[p].type = type
  BY <1>2, <1>3, <1>9
<1>11. Operand[part] \in {"signed", "product", "sum"} /\ part \in {"signed", "product", "sum"}
  BY <1>8, RulesAre
<1>12. /\ Means(t, env, part, 2, p - 1) = {a}
       /\ Means(t, env, Operand[part], p + 1, e) = {b}
  BY <1>6, <1>7, <1>9, <1>10, <1>11
<1>13. Splits(t, env, part, 2, e, p)
  BY <1>8, <1>10, <1>12 DEF Splits, Is
<1>14. Means(t, env, part, 2, e)
         = Combinations(t[p].type, Means(t, env, part, 2, p - 1), Means(t, env, Operand[part], p + 1, e))
  BY <1>5, <1>10, <1>13, OneWay
<1>15. Means(t, env, part, 2, e) = {StrictBinary(type, a, b)}
  BY <1>10, <1>12, <1>14, CombinedIs
<1>16. Means(t, env, "sum", 2, e) = {StrictBinary(type, a, b)}
  <2>1. CASE part = "product"
    <3>1. Is(t, env, Operand["sum"], 2, e) /\ Operand["sum"] = "product"
      BY <1>15, <2>1, RulesAre DEF Is
    <3>2. Means(t, env, "sum", 2, e) = Means(t, env, Operand["sum"], 2, e)
      BY <1>5, <1>10, <3>1, LiftMeansTheSame
    <3>. QED
      BY <1>15, <2>1, <3>1, <3>2
  <2>. QED
    BY <1>15, <2>1
<1>17. Means(t, env, "signed", 1, Len(t)) = Means(t, env, "sum", 2, e)
  <2>1. PICK n : n = Len(t)
    OBVIOUS
  <2>2. 1 \in 1..(Len(t) + 1) /\ 1 \in 1..Len(t) /\ n \in 0..Len(t) /\ 1 <= n /\ 1 # n
    BY <1>2, <1>3, <2>1
  <2>3. Means(t, env, "signed", 1, n) = Means(t, env, "atom", 1, n)
    BY <1>2, <1>5, <2>2, SignedIs DEF AddSub
  <2>4. Means(t, env, "atom", 1, n)
          = IF t[1].type = "(" /\ t[n].type = ")" THEN Means(t, env, "sum", 1 + 1, n - 1) ELSE {}
    BY <1>5, <2>2, AtomIs
  <2>. QED
    BY <1>2, <1>9, <2>1, <2>3, <2>4
<1>. QED
  BY <1>1, <1>4, <1>5, <1>16, <1>17 DEF Writes

\* The texts of all nodes.
Texts(ast, names) ==
  LET text[i \in DOMAIN ast] ==
        LET node == ast[i]
            digits == <<[type |-> "INT", value |-> Abs(node.num)]>>
        IN
        CASE node.type \in BinaryTypes ->
               InParentheses(text[node.left], node.type, text[node.right])
          [] node.type = "INV" -> Minus \o text[node.left]
          [] node.type = "INT" -> IF node.num < 0 THEN Minus \o digits ELSE digits
          [] node.type = "VAR" -> <<[type |-> "IDENT", value |-> names[node.num]]>>
  IN  text

LEMMA SameNodeText ==
  ASSUME NEW n, NEW argc, NEW node, IsNode(node, n, argc), NEW names,
         NEW f, NEW g, \A j \in Children(node) : f[j] = g[j]
  PROVE  NodeText(node, names, f) = NodeText(node, names, g)
<1>1. CASE node.type \in BinaryTypes
  BY <1>1, NodeIs DEF NodeText, BinaryTypes, AddSub, MulDiv
<1>2. CASE node.type = "INV"
  BY <1>2, NodeIs DEF NodeText, BinaryTypes, AddSub, MulDiv
<1>3. CASE node.type \in {"INT", "VAR"}
  BY <1>3, NodeIs DEF NodeText, BinaryTypes, AddSub, MulDiv
<1>. QED
  BY <1>1, <1>2, <1>3, NodeIs DEF NodeTypes

LEMMA TokensArePrinted ==
  ASSUME NEW names
  PROVE  /\ \A type \in BinaryTypes \cup {"(", ")"} : Token(type) \in PrintedTokens(names)
         /\ \A n \in Int : [type |-> "INT", value |-> n] \in PrintedTokens(names)
         /\ \A i \in DOMAIN names : [type |-> "IDENT", value |-> names[i]] \in PrintedTokens(names)
BY DEF PrintedTokens, Token

LEMMA NodeTextIsText ==
  ASSUME NEW n, NEW argc, NEW node, IsNode(node, n, argc), NEW names, DOMAIN names = 1..argc,
         NEW f, \A j \in Children(node) : f[j] \in Seq(PrintedTokens(names))
  PROVE  NodeText(node, names, f) \in Seq(PrintedTokens(names))
<1> DEFINE T == PrintedTokens(names)
<1>1. /\ Token("(") \in T /\ Token(")") \in T
      /\ \A type \in BinaryTypes : Token(type) \in T
      /\ \A m \in Int : [type |-> "INT", value |-> m] \in T
      /\ \A i \in DOMAIN names : [type |-> "IDENT", value |-> names[i]] \in T
  BY TokensArePrinted
<1>2. Minus \in Seq(T)
  BY <1>1 DEF Minus, Token, BinaryTypes, AddSub
<1> HIDE DEF T
<1>3. CASE node.type \in BinaryTypes
  <2>1. PICK l, r, op, t : l = f[node.left] /\ r = f[node.right] /\ op = node.type
                             /\ t = InParentheses(l, op, r)
    OBVIOUS
  <2>2. l \in Seq(T) /\ r \in Seq(T) /\ Token(op) \in T
    BY <1>1, <1>3, <2>1, NodeIs DEF T
  <2>3. Token("(") \in T /\ Token(")") \in T
    BY <1>1
  <2>4. Parenthesized(T, l, op, r, t)
    BY <2>1, <2>2, <2>3, ParenthesesAre
  <2>5. NodeText(node, names, f) = t
    <3>1. NodeText(node, names, f) = InParentheses(f[node.left], node.type, f[node.right])
      BY <1>3 DEF NodeText, BinaryTypes, AddSub, MulDiv
    <3>. QED
      BY <2>1, <3>1
  <2>. QED
    BY <2>4, <2>5 DEF Parenthesized, T
<1>4. CASE node.type = "INV"
  <2>1. f[node.left] \in Seq(T)
    BY <1>4, NodeIs DEF T
  <2>2. Beside(T, Minus, f[node.left], Minus \o f[node.left])
    BY <1>2, <2>1, BesideIs
  <2>3. NodeText(node, names, f) = Minus \o f[node.left]
    BY <1>4 DEF NodeText, BinaryTypes, AddSub, MulDiv
  <2>. QED
    BY <2>2, <2>3 DEF Beside, T
<1>5. CASE node.type = "INT"
  <2>1. Abs(node.num) \in Int
    BY <1>5, NodeIs, LongIs DEF Abs
  <2>2. Digits(node.num) \in Seq(T)
    BY <1>1, <2>1 DEF Digits
  <2>3. Beside(T, Minus, Digits(node.num), Minus \o Digits(node.num))
    BY <1>2, <2>2, BesideIs
  <2>4. NodeText(node, names, f) \in {Minus \o Digits(node.num), Digits(node.num)}
    BY <1>5 DEF NodeText, BinaryTypes, AddSub, MulDiv
  <2>. QED
    BY <2>2, <2>3, <2>4 DEF Beside, T
<1>6. CASE node.type = "VAR"
  <2>1. node.num \in DOMAIN names
    BY <1>6, NodeIs
  <2>2. NodeText(node, names, f) = <<[type |-> "IDENT", value |-> names[node.num]]>>
    BY <1>6 DEF NodeText, BinaryTypes, AddSub, MulDiv
  <2>. QED
    BY <1>1, <2>1, <2>2 DEF T
<1>. QED
  BY <1>3, <1>4, <1>5, <1>6, NodeIs DEF NodeTypes

\* ast_print() of an AST without cycles has a text for each node, which is the
\* one that the node's type makes of those of its children.
LEMMA TextsAre ==
  ASSUME NEW argc, NEW ast \in Seq(NodeRecord), IsAst(ast, argc), Acyclic(ast),
         NEW names, DOMAIN names = 1..argc
  PROVE  /\ Texts(ast, names) \in [DOMAIN ast -> Seq(PrintedTokens(names))]
         /\ \A i \in DOMAIN ast :
              Texts(ast, names)[i] = NodeText(ast[i], names, Texts(ast, names))
<1> DEFINE D == DOMAIN ast
           V == Seq(PrintedTokens(names))
           below == [i \in D |-> Children(ast[i])]
           step == [x \in Arguments(D, below, V) |-> NodeText(ast[x[1]], names, x[2])]
<1>1. ASSUME NEW i \in D
      PROVE  IsNode(ast[i], Len(ast), argc) /\ Children(ast[i]) \subseteq D
  BY ChildrenAreNodes DEF IsAst
<1>2. below \in [D -> SUBSET D]
  BY <1>1
<1>3. WellFounded(D, below)
  BY DEF WellFounded, Acyclic
<1>4. ASSUME NEW i \in D, NEW f \in [Children(ast[i]) -> V]
      PROVE  NodeText(ast[i], names, f) \in V
  BY <1>1, NodeTextIsText
<1> HIDE DEF V
<1>5. ASSUME NEW i \in D, NEW f \in [Children(ast[i]) -> V]
      PROVE  /\ <<i, f>> \in Arguments(D, below, V)
             /\ step[<<i, f>>] = NodeText(ast[i], names, f)
  <2>1. <<i, f>> \in {i} \X [below[i] -> V]
    OBVIOUS
  <2>2. <<i, f>> \in Arguments(D, below, V)
    BY <2>1, Zenon DEF Arguments
  <2>. QED
    BY <2>2
<1>6. step \in [Arguments(D, below, V) -> V]
  <2>1. SUFFICES ASSUME NEW x \in Arguments(D, below, V)
                 PROVE  NodeText(ast[x[1]], names, x[2]) \in V
    OBVIOUS
  <2>2. PICK i \in D : x \in {i} \X [below[i] -> V]
    BY Zenon DEF Arguments
  <2>3. x[1] = i /\ x[2] \in [Children(ast[i]) -> V]
    BY <2>2
  <2>. QED
    BY <1>4, <2>3
<1>7. PICK f \in [D -> V] : Obeys(f, D, below, step)
  BY <1>2, <1>3, <1>6, RecursiveFunction
<1>8. ASSUME NEW i \in D
      PROVE  f[i] = NodeText(ast[i], names, f)
  <2> DEFINE g == [j \in below[i] |-> f[j]]
  <2>1. g \in [Children(ast[i]) -> V] /\ \A j \in Children(ast[i]) : g[j] = f[j]
    BY <1>1
  <2>2. f[i] = step[<<i, g>>]
    BY <1>7 DEF Obeys
  <2>3. f[i] = NodeText(ast[i], names, g)
    BY <1>5, <2>1, <2>2
  <2>. QED
    BY <1>1, <2>1, <2>3, SameNodeText
<1>9. f = [i \in D |-> NodeText(ast[i], names, f)]
  BY <1>8
<1> HIDE DEF below, step
<1>10. Texts(ast, names) = [i \in D |-> NodeText(ast[i], names, Texts(ast, names))]
  BY <1>9 DEF Texts, NodeText, Digits
<1> DEFINE text == Texts(ast, names)
<1>11. text = [i \in D |-> NodeText(ast[i], names, text)]
  BY <1>10
<1> HIDE DEF text
<1>12. \A i \in D : text[i] = f[i]
  <2> DEFINE S == {i \in D : text[i] # f[i]}
  <2>1. SUFFICES ASSUME S # {}
                 PROVE  FALSE
    OBVIOUS
  <2>2. PICK i \in S : Children(ast[i]) \cap S = {}
    BY <2>1 DEF Acyclic
  <2>3. \A j \in Children(ast[i]) : text[j] = f[j]
    BY <1>1, <2>2
  <2>4. NodeText(ast[i], names, text) = NodeText(ast[i], names, f)
    BY <1>1, <2>3, SameNodeText
  <2>. QED
    BY <1>8, <1>11, <2>4
<1>13. text \in [D -> V]
  BY <1>7, <1>11, <1>12
<1>. QED
  BY <1>11, <1>13 DEF text, V

\* The text of a node says what the node computes, if those of its children do.
LEMMA NodeTextWrites ==
  ASSUME NEW n, NEW argc, NEW node, IsNode(node, n, argc), NEW names, DOMAIN names = 1..argc,
         NEW args \in [1..argc -> Long], NEW env, \A i \in 1..argc : env[names[i]] = args[i],
         NEW f, \A j \in Children(node) : f[j] \in Seq(PrintedTokens(names)),
         NEW value, \A j \in Children(node) : Writes(f[j], env, value[j])
  PROVE  Writes(NodeText(node, names, f), env, NodeValue(node, args, value))
<1> DEFINE T == PrintedTokens(names)
<1>1. /\ Token("(") \in T /\ Token(")") \in T
      /\ \A type \in BinaryTypes : Token(type) \in T
      /\ \A m \in Int : [type |-> "INT", value |-> m] \in T
  BY TokensArePrinted
<1>2. Token("SUB") \in T
  BY <1>1 DEF BinaryTypes, AddSub
<1> HIDE DEF T
<1>3. CASE node.type \in BinaryTypes
  <2>1. PICK l, r, a, b, op : l = f[node.left] /\ r = f[node.right] /\ op = node.type
                                /\ a = value[node.left] /\ b = value[node.right]
    OBVIOUS
  <2>2. l \in Seq(T) /\ r \in Seq(T) /\ Writes(l, env, a) /\ Writes(r, env, b)
    BY <1>3, <2>1, NodeIs DEF T
  <2>3. /\ Token(op) \in T /\ op \in BinaryTypes
        /\ Token("(") \in T /\ Token(")") \in T
    BY <1>1, <1>3, <2>1
  <2>4. Writes(InParentheses(l, op, r), env, StrictBinary(op, a, b))
    BY <2>2, <2>3, BinaryWrites
  <2>5. NodeText(node, names, f) = InParentheses(l, op, r)
    <3>1. NodeText(node, names, f) = InParentheses(f[node.left], node.type, f[node.right])
      BY <1>3 DEF NodeText, BinaryTypes, AddSub, MulDiv
    <3>. QED
      BY <2>1, <3>1
  <2>6. NodeValue(node, args, value) = StrictBinary(op, a, b)
    BY <1>3, <2>1 DEF NodeValue, BinaryTypes, AddSub, MulDiv
  <2>. QED
    BY <2>4, <2>5, <2>6
<1>4. CASE node.type = "INV"
  <2>1. PICK l, a : l = f[node.left] /\ a = value[node.left]
    OBVIOUS
  <2>2. l \in Seq(T) /\ Writes(l, env, a)
    BY <1>4, <2>1, NodeIs DEF T
  <2>3. Writes(Minus \o l, env, StrictNegate(a))
    BY <1>2, <2>2, MinusSays
  <2>4. NodeText(node, names, f) = Minus \o l /\ NodeValue(node, args, value) = StrictNegate(a)
    BY <1>4, <2>1 DEF NodeText, NodeValue, BinaryTypes, AddSub, MulDiv
  <2>. QED
    BY <2>3, <2>4
<1>5. CASE node.type = "INT"
  <2>1. PICK num : num = node.num
    OBVIOUS
  <2>2. num \in Long /\ num \in Int /\ Abs(num) \in Int
    BY <1>5, <2>1, NodeIs, LongIs DEF Abs
  <2>3. Digits(num) \in Seq(T)
    BY <1>1, <2>2 DEF Digits
  <2>4. Writes(Digits(num), env, Abs(num))
    <3>1. PICK token : token = [type |-> "INT", value |-> Abs(num)]
      OBVIOUS
    <3>2. token.type = "INT" /\ token.value = Abs(num)
      BY <3>1
    <3>3. Writes(<<token>>, env, token.value)
      BY <2>2, <3>2, WordSays
    <3>. QED
      BY <3>1, <3>2, <3>3 DEF Digits
  <2>5. NodeValue(node, args, value) = num
    BY <1>5, <2>1 DEF NodeValue, BinaryTypes, AddSub, MulDiv
  <2>6. CASE num < 0
    <3>1. NodeText(node, names, f) = Minus \o Digits(num)
      BY <1>5, <2>1, <2>6 DEF NodeText, BinaryTypes, AddSub, MulDiv
    <3>2. StrictNegate(Abs(num)) = num
      <4>1. -(-num) = num /\ Abs(num) = -num /\ -num # TRAP
        BY <2>2, <2>6, LongIs DEF Abs
      <4>2. Wrap(num) = num
        BY <2>2, WrapOfLong
      <4>. QED
        BY <4>1, <4>2 DEF StrictNegate, Negate
    <3>. QED
      BY <1>2, <2>3, <2>4, <2>5, <3>1, <3>2, MinusSays
  <2>7. CASE ~(num < 0)
    <3>1. NodeText(node, names, f) = Digits(num) /\ Abs(num) = num
      BY <1>5, <2>1, <2>7 DEF NodeText, Abs, BinaryTypes, AddSub, MulDiv
    <3>. QED
      BY <2>4, <2>5, <3>1
  <2>. QED
    BY <2>6, <2>7
<1>6. CASE node.type = "VAR"
  <2>1. PICK token : token = [type |-> "IDENT", value |-> names[node.num]]
    OBVIOUS
  <2>2. node.num \in 1..argc
    BY <1>6, NodeIs
  <2>3. token.type = "IDENT" /\ env[token.value] = args[node.num] /\ env[token.value] \in Int
    BY <2>1, <2>2, LongIs
  <2>4. Writes(<<token>>, env, args[node.num])
    BY <2>3, WordSays
  <2>5. NodeText(node, names, f) = <<token>> /\ NodeValue(node, args, value) = args[node.num]
    BY <1>6, <2>1 DEF NodeText, NodeValue, BinaryTypes, AddSub, MulDiv
  <2>. QED
    BY <2>4, <2>5
<1>. QED
  BY <1>3, <1>4, <1>5, <1>6, NodeIs DEF NodeTypes

\* Each name stands for the argument at its place.
Binds(env, names, args, argc) ==
  /\ DOMAIN names = 1..argc /\ args \in [1..argc -> Long]
  /\ \A i \in 1..argc : env[names[i]] = args[i]

\* What ast_print() writes is code in the program's own language, for an AST
\* without cycles, and means what ast_eval() computes: parentheses around every
\* operator and none around a sign are enough, and the smallest long is written
\* as the negation of a number that is none.
THEOREM PrintedMeansTheAst ==
  ASSUME NEW argc, NEW ast \in Seq(NodeRecord), ast # <<>>, IsAst(ast, argc), Acyclic(ast),
         NEW names, NEW args, NEW env, Binds(env, names, args, argc)
  PROVE  Meanings(Printed(ast, names), env) = {AstEval(ast, args)}
<1> DEFINE text == Texts(ast, names)
           value == NodeEval(ast, args)
           S == {i \in DOMAIN ast : ~Writes(text[i], env, value[i])}
<1>1. /\ text \in [DOMAIN ast -> Seq(PrintedTokens(names))]
      /\ \A i \in DOMAIN ast : text[i] = NodeText(ast[i], names, text)
      /\ \A i \in DOMAIN ast : value[i] = NodeValue(ast[i], args, value)
  BY TextsAre, NodeEvalIs DEF Binds
<1>2. Printed(ast, names) = text[Root(ast)] /\ AstEval(ast, args) = value[Root(ast)]
  BY DEF Printed, Texts, AstEval
<1> HIDE DEF text, value
<1>3. S = {}
  <2>1. SUFFICES ASSUME S # {}
                 PROVE  FALSE
    OBVIOUS
  <2>2. PICK i \in S : Children(ast[i]) \cap S = {}
    BY <2>1 DEF Acyclic
  <2>3. IsNode(ast[i], Len(ast), argc) /\ Children(ast[i]) \subseteq DOMAIN ast
    BY ChildrenAreNodes DEF IsAst
  <2>4. \A j \in Children(ast[i]) : text[j] \in Seq(PrintedTokens(names)) /\ Writes(text[j], env, value[j])
    BY <1>1, <2>2, <2>3
  <2>5. Writes(NodeText(ast[i], names, text), env, NodeValue(ast[i], args, value))
    BY <2>3, <2>4, NodeTextWrites DEF Binds
  <2>. QED
    BY <1>1, <2>2, <2>5
<1>4. PICK code, v : code = text[Root(ast)] /\ v = value[Root(ast)]
  OBVIOUS
<1>5. Writes(code, env, v)
  <2>1. Root(ast) \in DOMAIN ast
    BY DEF Root
  <2>. QED
    BY <1>3, <1>4, <2>1
<1>6. Means(code, env, "sum", 1, Len(code)) = {v}
  <2>1. Readable(code, env) /\ 1 \in 1..(Len(code) + 1) /\ Len(code) \in 0..Len(code)
    BY <1>5 DEF Writes, Readable
  <2>2. Is(code, env, "signed", 1, Len(code)) /\ Means(code, env, "signed", 1, Len(code)) = {v}
    BY <1>5 DEF Writes, Is
  <2>. QED
    BY <2>1, <2>2, SignedMeansTheSame
<1>. QED
  BY <1>2, <1>4, <1>6 DEF Meanings, Means

-----------------------------------------------------------------------------
(***************************************************************************)
(* What the tokens of a part look like                                     *)
(*                                                                         *)
(* Which tokens stand next to each other, and that parentheses match: this *)
(* is not all that the grammar asks for, but what tells that tokens that   *)
(* have been read already cannot go on to a sentence.                      *)
(***************************************************************************)
Openers == BinaryTypes \cup {"("}
Firsts  == AddSub \cup {"INT", "IDENT", "("}
Lasts   == {"INT", "IDENT", ")"}

Follows(a, b) ==
  /\ a \in Openers => b \in Firsts
  /\ a \in Lasts => b \in BinaryTypes \cup {")"}

\* height[k]: how many parentheses are open behind token k.
Rise(type) == CASE type = "(" -> 1 [] type = ")" -> -1 [] OTHER -> 0
IsHeight(code, height) ==
  /\ height \in [0..Len(code) -> Int]
  /\ \A k \in 1..Len(code) : height[k] = height[k - 1] + Rise(code[k].type)

WellFormed(code, height, i, j) ==
  /\ code[i].type \in Firsts /\ code[j].type \in Lasts
  /\ \A k \in i..(j - 1) : Follows(code[k].type, code[k + 1].type)
  /\ \A k \in i..j : height[k] >= height[i - 1]
  /\ height[j] = height[i - 1]

LEMMA TypesAre ==
  /\ AddSub \subseteq Firsts /\ AddSub \subseteq Openers /\ AddSub \subseteq BinaryTypes
  /\ BinaryTypes \subseteq Openers /\ Openers \cap Lasts = {}
  /\ \A type \in BinaryTypes : Rise(type) = 0
  /\ Rise("INT") = 0 /\ Rise("IDENT") = 0 /\ Rise("(") = 1 /\ Rise(")") = -1
BY DEF Firsts, Openers, Lasts, AddSub, MulDiv, BinaryTypes, Rise

\* Two parts with an operator between them.
LEMMA JoinedIsWellFormed ==
  ASSUME NEW code, Len(code) \in Nat, NEW height, IsHeight(code, height),
         NEW i \in 1..Len(code), NEW j \in 1..Len(code), NEW p \in (i + 1)..(j - 1),
         WellFormed(code, height, i, p - 1), WellFormed(code, height, p + 1, j),
         code[p].type \in BinaryTypes
  PROVE  WellFormed(code, height, i, j)
<1>1. /\ p \in 1..Len(code) /\ p - 1 \in i..j /\ p + 1 \in i..j
      /\ p - 1 \in 0..Len(code) /\ i - 1 \in 0..Len(code) /\ (p + 1) - 1 = p /\ (p - 1) + 1 = p
  OBVIOUS
<1>2. \A k \in 0..Len(code) : height[k] \in Int
  BY DEF IsHeight
<1>3. height[p] = height[p - 1] /\ height[p - 1] = height[i - 1] /\ height[j] = height[p]
  <2>1. height[p] = height[p - 1] + 0
    BY <1>1, TypesAre DEF IsHeight
  <2>. QED
    BY <1>1, <1>2, <2>1 DEF WellFormed
<1>4. \A k \in i..j : height[k] >= height[i - 1]
  <2>1. \A k \in i..j : k \in i..(p - 1) \/ k = p \/ k \in (p + 1)..j
    BY <1>1
  <2>2. height[p] >= height[i - 1]
    BY <1>1, <1>2, <1>3
  <2>. QED
    BY <1>1, <1>3, <2>1, <2>2 DEF WellFormed
<1>5. \A k \in i..(j - 1) : Follows(code[k].type, code[k + 1].type)
  <2>1. \A k \in i..(j - 1) : k \in i..((p - 1) - 1) \/ k = p - 1 \/ k = p \/ k \in (p + 1)..(j - 1)
    BY <1>1
  <2>2. Follows(code[p - 1].type, code[p].type)
    BY TypesAre DEF WellFormed, Follows
  <2>3. Follows(code[p].type, code[p + 1].type)
    BY TypesAre DEF WellFormed, Follows
  <2>. QED
    BY <1>1, <2>1, <2>2, <2>3 DEF WellFormed
<1>. QED
  BY <1>1, <1>3, <1>4, <1>5 DEF WellFormed

\* A part in parentheses.
LEMMA EnclosedIsWellFormed ==
  ASSUME NEW code, Len(code) \in Nat, NEW height, IsHeight(code, height),
         NEW i \in 1..Len(code), NEW j \in (i + 2)..Len(code),
         WellFormed(code, height, i + 1, j - 1), code[i].type = "(", code[j].type = ")"
  PROVE  WellFormed(code, height, i, j)
<1>1. /\ j \in 1..Len(code) /\ i - 1 \in 0..Len(code) /\ (i + 1) - 1 = i /\ (j - 1) + 1 = j
      /\ j - 1 \in 0..Len(code) /\ i \in 0..Len(code) /\ j \in 0..Len(code)
  OBVIOUS
<1>2. \A k \in 0..Len(code) : height[k] \in Int
  BY DEF IsHeight
<1>3. height[i] = height[i - 1] + 1 /\ height[j] = height[j - 1] + (-1) /\ height[j - 1] = height[i]
  BY <1>1, TypesAre DEF IsHeight, WellFormed
<1>4. height[j] = height[i - 1] /\ height[i] >= height[i - 1]
  <2>1. height[i - 1] \in Int /\ height[i] \in Int
    BY <1>1, <1>2
  <2>. QED
    BY <1>3, <2>1
<1>5. \A k \in i..j : height[k] >= height[i - 1]
  <2>1. ASSUME NEW k \in (i + 1)..(j - 1)
        PROVE  height[k] >= height[i - 1]
    <3>1. height[k] >= height[i] /\ k \in 0..Len(code)
      BY <1>1 DEF WellFormed
    <3>2. height[k] \in Int /\ height[i] \in Int /\ height[i - 1] \in Int
      BY <1>1, <1>2, <3>1
    <3>. QED
      BY <1>4, <3>1, <3>2
  <2>2. \A k \in i..j : k = i \/ k = j \/ k \in (i + 1)..(j - 1)
    BY <1>1
  <2>3. height[j] >= height[i - 1]
    BY <1>1, <1>2, <1>4
  <2>. QED
    BY <1>4, <2>1, <2>2, <2>3
<1>6. \A k \in i..(j - 1) : Follows(code[k].type, code[k + 1].type)
  <2>1. \A k \in i..(j - 1) : k = i \/ k = j - 1 \/ k \in (i + 1)..((j - 1) - 1)
    BY <1>1
  <2>2. Follows(code[i].type, code[i + 1].type)
    BY DEF WellFormed, Follows, Openers, Lasts
  <2>3. Follows(code[j - 1].type, code[j].type)
    BY TypesAre DEF WellFormed, Follows
  <2>. QED
    BY <1>1, <2>1, <2>2, <2>3 DEF WellFormed
<1>7. code[i].type \in Firsts /\ code[j].type \in Lasts
  BY DEF Firsts, Lasts
<1>. QED
  BY <1>4, <1>5, <1>6, <1>7 DEF WellFormed

\* A sign before a part.
LEMMA SignedIsWellFormed ==
  ASSUME NEW code, Len(code) \in Nat, NEW height, IsHeight(code, height),
         NEW i \in 1..Len(code), NEW j \in (i + 1)..Len(code),
         WellFormed(code, height, i + 1, j), code[i].type \in AddSub
  PROVE  WellFormed(code, height, i, j)
<1>1. i - 1 \in 0..Len(code) /\ (i + 1) - 1 = i /\ i \in 0..Len(code)
  OBVIOUS
<1>2. \A k \in 0..Len(code) : height[k] \in Int
  BY DEF IsHeight
<1>3. height[i] = height[i - 1]
  <2>1. height[i] = height[i - 1] + 0
    BY TypesAre DEF IsHeight
  <2>. QED
    BY <1>1, <1>2, <2>1
<1>4. \A k \in i..j : height[k] >= height[i - 1]
  <2>1. \A k \in i..j : k = i \/ k \in (i + 1)..j
    OBVIOUS
  <2>2. height[i] >= height[i - 1]
    BY <1>1, <1>2, <1>3
  <2>. QED
    BY <1>1, <1>3, <2>1, <2>2 DEF WellFormed
<1>5. \A k \in i..(j - 1) : Follows(code[k].type, code[k + 1].type)
  <2>1. \A k \in i..(j - 1) : k = i \/ k \in (i + 1)..(j - 1)
    OBVIOUS
  <2>2. Follows(code[i].type, code[i + 1].type)
    BY TypesAre DEF WellFormed, Follows
  <2>. QED
    BY <2>1, <2>2 DEF WellFormed
<1>. QED
  BY <1>1, <1>3, <1>4, <1>5, TypesAre DEF WellFormed

\* A number or a name.
LEMMA WordIsWellFormed ==
  ASSUME NEW code, Len(code) \in Nat, NEW height, IsHeight(code, height),
         NEW i \in 1..Len(code), code[i].type \in {"INT", "IDENT"}
  PROVE  WellFormed(code, height, i, i)
<1>1. i - 1 \in 0..Len(code) /\ height[i - 1] \in Int /\ height[i] = height[i - 1] + 0
  BY TypesAre DEF IsHeight
<1>2. i..(i - 1) = {} /\ i..i = {i}
  OBVIOUS
<1>. QED
  BY <1>1, <1>2 DEF WellFormed, Firsts, Lasts

LEMMA PartsAreWellFormed ==
  ASSUME NEW code, NEW env, Readable(code, env), NEW height, IsHeight(code, height)
  PROVE  \A part \in Parts, i \in 1..(Len(code) + 1), j \in 0..Len(code) :
           Is(code, env, part, i, j) => i <= j /\ WellFormed(code, height, i, j)
<1> DEFINE n == Len(code)
           P(part, i, j) == Is(code, env, part, i, j) => WellFormed(code, height, i, j)
           T == {s \in Spans(code) : P(s[1], s[2], s[3])}
<1>0. n \in Nat
  BY DEF Readable
<1>1. ASSUME NEW part \in Parts, NEW i \in 1..(n + 1), NEW j \in 0..n
      PROVE  <<part, i, j>> \in T <=> P(part, i, j)
  BY DEF Spans
<1> HIDE DEF T
<1>2. ASSUME NEW part \in Parts, NEW i \in 1..(n + 1), NEW j \in 0..n,
             \A q \in Parts, a \in 1..(n + 1), b \in 0..n :
               Extent(n, q, a, b) < Extent(n, part, i, j) => P(q, a, b)
      PROVE  P(part, i, j)
  <2>0. SUFFICES ASSUME Is(code, env, part, i, j)
                 PROVE  WellFormed(code, height, i, j)
    OBVIOUS
  <2>1. i <= j /\ i \in 1..n /\ j \in 1..n
    BY <1>0, <2>0, IsNotEmpty
  <2>2. CASE part = "atom"
    <3>1. CASE i = j
      <4>1. Means(code, env, "atom", i, j) =
                       CASE code[i].type = "INT"   -> {code[i].value}
                         [] code[i].type = "IDENT" -> {env[code[i].value]}
                         [] OTHER                  -> {}
        BY <2>1, <3>1, AtomIs
      <4>2. code[i].type \in {"INT", "IDENT"}
        BY <2>0, <2>2, <4>1 DEF Is
      <4>. QED
        BY <1>0, <2>1, <3>1, <4>2, WordIsWellFormed
    <3>2. CASE i # j
      <4>1. i + 1 \in 1..(n + 1) /\ j - 1 \in 0..n /\ (j - 1) - (i + 1) < j - i /\ "sum" \in Parts
        BY <1>0, <2>1, <3>2, RulesAre
      <4>2. Extent(n, "sum", i + 1, j - 1) < Extent(n, part, i, j)
        BY <1>0, <4>1, ExtentIs
      <4>3. code[i].type = "(" /\ code[j].type = ")" /\ Is(code, env, "sum", i + 1, j - 1)
        BY <2>0, <2>1, <2>2, <3>2, AtomIs DEF Is
      <4>4. WellFormed(code, height, i + 1, j - 1)
        BY <1>2, <4>1, <4>2, <4>3
      <4>5. i + 1 <= j - 1
        BY <4>1, <4>3, IsNotEmpty
      <4>6. j \in (i + 2)..n
        BY <2>1, <4>5
      <4>. QED
        BY <1>0, <2>1, <4>3, <4>4, <4>6, EnclosedIsWellFormed
    <3>. QED
      BY <3>1, <3>2
  <2>3. CASE part = "signed"
    <3>1. /\ i + 1 \in 1..(n + 1) /\ j - (i + 1) < j - i
          /\ "signed" \in Parts /\ "atom" \in Parts
      BY <1>0, <2>1, RulesAre
    <3>2. /\ Extent(n, "signed", i + 1, j) < Extent(n, part, i, j)
          /\ Extent(n, "atom", i, j) < Extent(n, part, i, j)
      BY <1>0, <2>3, <3>1, ExtentIs
    <3>3. P("signed", i + 1, j) /\ P("atom", i, j)
      BY <1>2, <3>1, <3>2
    <3>4. CASE code[i].type \in AddSub
      <4>1. Negated({}) = {}
        BY DEF Negated
      <4>2. Is(code, env, "signed", i + 1, j)
        <5>1. j \in 0..n /\ Means(code, env, "signed", i, j) # {}
          BY <2>0, <2>3 DEF Is
        <5>2. CASE code[i].type = "ADD"
          BY <2>1, <5>1, <5>2, SignedIs DEF Is
        <5>3. CASE code[i].type = "SUB"
          <6>1. Means(code, env, "signed", i, j) = Negated(Means(code, env, "signed", i + 1, j))
            BY <2>1, <5>1, <5>3, SignedIs
          <6>. QED
            BY <4>1, <5>1, <6>1 DEF Is
        <5>. QED
          BY <3>4, <5>2, <5>3 DEF AddSub
      <4>3. i + 1 <= j
        BY <3>1, <4>2, IsNotEmpty
      <4>4. j \in (i + 1)..n
        BY <2>1, <4>3
      <4>. QED
        BY <1>0, <2>1, <3>3, <3>4, <4>2, <4>4, SignedIsWellFormed
    <3>5. CASE code[i].type \notin AddSub
      <4>1. Is(code, env, "atom", i, j)
        BY <2>0, <2>1, <2>3, <3>5, SignedIs DEF Is
      <4>. QED
        BY <3>3, <4>1
    <3>. QED
      BY <3>4, <3>5
  <2>4. CASE part \in {"sum", "product"}
    <3> DEFINE O == Operand[part]
    <3>1. O \in Parts /\ Extent(n, O, i, j) < Extent(n, part, i, j)
      BY <1>0, <2>4, OperandIsSmaller
    <3>2. CASE Is(code, env, O, i, j)
      BY <1>2, <3>1, <3>2
    <3>3. ASSUME NEW p \in i..j, Splits(code, env, part, i, j, p)
          PROVE  WellFormed(code, height, i, j)
      <4>1. p - 1 \in 0..n /\ p + 1 \in 1..(n + 1) /\ (p - 1) - i < j - i /\ j - (p + 1) < j - i
        BY <1>0, <2>1
      <4>2. /\ Extent(n, part, i, p - 1) < Extent(n, part, i, j)
            /\ Extent(n, O, p + 1, j) < Extent(n, part, i, j)
        <5> HIDE DEF O
        <5>. QED
          BY <1>0, <3>1, <4>1, ExtentIs
      <4>3. Is(code, env, part, i, p - 1) /\ Is(code, env, O, p + 1, j)
        BY <3>3 DEF Splits
      <4>4. WellFormed(code, height, i, p - 1) /\ WellFormed(code, height, p + 1, j)
        BY <1>2, <3>1, <4>1, <4>2, <4>3
      <4>5. i <= p - 1 /\ p + 1 <= j
        BY <3>1, <4>1, <4>3, IsNotEmpty
      <4>6. p \in (i + 1)..(j - 1)
        BY <2>1, <4>5
      <4>7. code[p].type \in BinaryTypes
        BY <2>4, <3>3, RulesAre DEF Splits, BinaryTypes
      <4>. QED
        BY <1>0, <2>1, <4>4, <4>6, <4>7, JoinedIsWellFormed
    <3>. QED
      BY <2>0, <2>4, <3>2, <3>3, IsChain
  <2>. QED
    BY <2>2, <2>3, <2>4, RulesAre
<1>3. \A part \in Parts, i \in 1..(n + 1), j \in 0..n : <<part, i, j>> \in T
  <2> HIDE DEF P
  <2>1. ASSUME NEW part \in Parts, NEW i \in 1..(n + 1), NEW j \in 0..n,
               \A q \in Parts, a \in 1..(n + 1), b \in 0..n :
                 Extent(n, q, a, b) < Extent(n, part, i, j) => <<q, a, b>> \in T
        PROVE  <<part, i, j>> \in T
    <3>1. \A q \in Parts, a \in 1..(n + 1), b \in 0..n :
            Extent(n, q, a, b) < Extent(n, part, i, j) => P(q, a, b)
      BY <1>1, <2>1
    <3>. QED
      BY <1>1, <1>2, <3>1
  <2>. QED
    BY <1>0, <2>1, SpanInduction
<1>. QED
  BY <1>0, <1>1, <1>3, IsNotEmpty

\* Signs open and close nothing.
LEMMA SignsKeepHeight ==
  ASSUME NEW code, Len(code) \in Nat, NEW height, IsHeight(code, height),
         NEW a \in 1..(Len(code) + 1), NEW b \in (a - 1)..Len(code),
         \A k \in a..b : code[k].type \in AddSub
  PROVE  height[b] = height[a - 1]
<1> DEFINE S == {k \in Nat : k \in (a - 1)..b /\ height[k] # height[a - 1]}
<1>1. SUFFICES ASSUME S # {}
               PROVE  FALSE
  <2>1. b \in Nat /\ b \in (a - 1)..b
    OBVIOUS
  <2>. QED
    BY <2>1
<1>2. PICK k \in S : \A l \in S : k <= l
  <2>1. S \subseteq Nat
    OBVIOUS
  <2>. QED
    BY <1>1, <2>1, LeastNumber
<1>3. k \in a..b /\ k \in 1..Len(code) /\ k - 1 \in Nat /\ k - 1 \in (a - 1)..b /\ ~(k <= k - 1)
  <2>1. k \in (a - 1)..b /\ k # a - 1
    OBVIOUS
  <2>. QED
    BY <2>1
<1>4. height[k - 1] = height[a - 1]
  BY <1>2, <1>3
<1>5. height[k] = height[k - 1] + 0 /\ height[k - 1] \in Int
  <2>1. code[k].type \in AddSub /\ k - 1 \in 0..Len(code)
    BY <1>3
  <2>. QED
    BY <1>3, <2>1, TypesAre DEF IsHeight
<1>. QED
  BY <1>4, <1>5

\* Nothing but closing parentheses.
LEMMA ClosingLowers ==
  ASSUME NEW code, Len(code) \in Nat, NEW height, IsHeight(code, height),
         NEW a \in 0..Len(code), \A k \in (a + 1)..Len(code) : code[k].type = ")"
  PROVE  \A j \in a..Len(code) : height[j] = height[a] - (j - a)
<1> DEFINE S == {k \in Nat : k \in a..Len(code) /\ height[k] # height[a] - (k - a)}
<1>1. SUFFICES ASSUME S # {}
               PROVE  FALSE
  OBVIOUS
<1>2. PICK k \in S : \A l \in S : k <= l
  <2>1. S \subseteq Nat
    OBVIOUS
  <2>. QED
    BY <1>1, <2>1, LeastNumber
<1>3. \A l \in 0..Len(code) : height[l] \in Int
  BY DEF IsHeight
<1>4. /\ k \in (a + 1)..Len(code) /\ k \in 1..Len(code) /\ k - 1 \in 0..Len(code)
      /\ k - 1 \in Nat /\ k - 1 \in a..Len(code) /\ ~(k <= k - 1)
  <2>1. k \in a..Len(code) /\ k # a
    BY <1>3
  <2>. QED
    BY <2>1
<1>5. height[k - 1] = height[a] - ((k - 1) - a)
  BY <1>2, <1>4
<1>6. height[k] = height[k - 1] + (-1)
  BY <1>4, TypesAre DEF IsHeight
<1>7. height[k] = height[a] - (k - a)
  BY <1>3, <1>4, <1>5, <1>6
<1>. QED
  BY <1>7

\* Every code has heights: they are what Count counts.
OfType(code, type, k) == {l \in 1..k : code[l].type = type}
HeightOf(code) ==
  [k \in 0..Len(code) |-> Cardinality(OfType(code, "(", k)) - Cardinality(OfType(code, ")", k))]

LEMMA OneMoreOfType ==
  ASSUME NEW code, NEW type, NEW k \in Nat \ {0}
  PROVE  /\ Cardinality(OfType(code, type, k)) \in Nat
         /\ Cardinality(OfType(code, type, k))
              = Cardinality(OfType(code, type, k - 1)) + (IF code[k].type = type THEN 1 ELSE 0)
<1> DEFINE S == OfType(code, type, k - 1)
<1>1. ASSUME NEW m \in Nat
      PROVE  IsFiniteSet(OfType(code, type, m)) /\ Cardinality(OfType(code, type, m)) \in Nat
  <2>1. IsFiniteSet(1..m)
    BY FS_Interval
  <2>2. OfType(code, type, m) \subseteq 1..m
    BY DEF OfType
  <2>3. IsFiniteSet(OfType(code, type, m))
    BY <2>1, <2>2, FS_Subset
  <2>. QED
    BY <2>3, FS_CardinalityType
<1>2. k - 1 \in Nat /\ k \notin S
  BY DEF OfType
<1>3. CASE code[k].type = type
  <2>1. OfType(code, type, k) = S \cup {k}
    BY <1>3 DEF OfType
  <2>2. Cardinality(S \cup {k}) = Cardinality(S) + 1
    <3> HIDE DEF S
    <3>. QED
      BY <1>1, <1>2, FS_AddElement DEF S
  <2>. QED
    BY <1>1, <1>3, <2>1, <2>2
<1>4. CASE code[k].type # type
  <2>1. OfType(code, type, k) = S
    BY <1>4 DEF OfType
  <2>. QED
    BY <1>1, <1>2, <1>4, <2>1
<1>. QED
  BY <1>3, <1>4

LEMMA HeightExists ==
  ASSUME NEW code, Len(code) \in Nat
  PROVE  IsHeight(code, HeightOf(code)) /\ HeightOf(code)[0] = 0
<1> DEFINE h == HeightOf(code)
           up(k) == Cardinality(OfType(code, "(", k))
           down(k) == Cardinality(OfType(code, ")", k))
<1>1. up(0) = 0 /\ down(0) = 0
  <2>1. OfType(code, "(", 0) = {} /\ OfType(code, ")", 0) = {}
    BY DEF OfType
  <2>. QED
    BY <2>1, FS_EmptySet
<1>2. ASSUME NEW k \in 1..Len(code)
      PROVE  /\ up(k) = up(k - 1) + (IF code[k].type = "(" THEN 1 ELSE 0)
             /\ down(k) = down(k - 1) + (IF code[k].type = ")" THEN 1 ELSE 0)
             /\ up(k) \in Nat /\ down(k) \in Nat
  BY OneMoreOfType
<1>3. ASSUME NEW k \in 0..Len(code)
      PROVE  up(k) \in Nat /\ down(k) \in Nat /\ h[k] = up(k) - down(k)
  <2>1. k = 0 \/ k \in 1..Len(code)
    OBVIOUS
  <2>. QED
    BY <1>1, <1>2, <2>1 DEF HeightOf
<1>4. ASSUME NEW k \in 1..Len(code)
      PROVE  h[k] = h[k - 1] + Rise(code[k].type)
  <2>1. k \in 0..Len(code) /\ k - 1 \in 0..Len(code)
    OBVIOUS
  <2>2. /\ h[k] = up(k) - down(k) /\ h[k - 1] = up(k - 1) - down(k - 1)
        /\ up(k - 1) \in Nat /\ down(k - 1) \in Nat
    BY <1>3, <2>1
  <2>3. CASE code[k].type = "("
    <3>1. up(k) = up(k - 1) + 1 /\ down(k) = down(k - 1) + 0 /\ Rise(code[k].type) = 1
      BY <1>2, <2>3, TypesAre
    <3> HIDE DEF up, down, h
    <3>. QED
      BY <2>2, <3>1
  <2>4. CASE code[k].type = ")"
    <3>1. up(k) = up(k - 1) + 0 /\ down(k) = down(k - 1) + 1 /\ Rise(code[k].type) = -1
      BY <1>2, <2>4, TypesAre
    <3> HIDE DEF up, down, h
    <3>. QED
      BY <2>2, <3>1
  <2>5. CASE code[k].type \notin {"(", ")"}
    <3>1. up(k) = up(k - 1) + 0 /\ down(k) = down(k - 1) + 0 /\ Rise(code[k].type) = 0
      BY <1>2, <2>5 DEF Rise
    <3> HIDE DEF up, down, h
    <3>. QED
      BY <2>2, <3>1
  <2>. QED
    BY <2>3, <2>4, <2>5
<1>5. h \in [0..Len(code) -> Int]
  <2>1. ASSUME NEW k \in 0..Len(code)
        PROVE  up(k) - down(k) \in Int
    BY <1>3
  <2>. QED
    BY <2>1 DEF HeightOf
<1>6. h[0] = 0
  <2>1. 0 \in 0..Len(code)
    OBVIOUS
  <2>. QED
    BY <1>1, <1>3, <2>1
<1>. QED
  BY <1>4, <1>5, <1>6 DEF IsHeight
=============================================================================
