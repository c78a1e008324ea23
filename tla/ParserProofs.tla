---------------------------- MODULE ParserProofs -----------------------------
(***************************************************************************)
(* The parser keeps its types, builds a tree, finds the meaning of the     *)
(* code, and reports an error of the syntax where it is, for every set of  *)
(* arguments, names and numbers and for code of any length.                *)
(*                                                                         *)
(* The argument is about the call stack: its calls follow each other as    *)
(* the functions call each other, the left operands that wait in it for    *)
(* their right ones are different nodes, and none of them is a child of    *)
(* the node that is on its way up.  What has been read is cut into the     *)
(* parts that these calls have read, and each node that waits computes     *)
(* what its part means.  When the parser fails, the parts that wait say    *)
(* that what has been consumed begins a sentence, and the token before the *)
(* one in hand says that the latter cannot go on with it.                  *)
(***************************************************************************)
EXTENDS Grammar, AstProofs

-----------------------------------------------------------------------------
(***************************************************************************)
(* Call stacks                                                             *)
(***************************************************************************)
Bottom == {"arguments", "expr", "end"}

\* Which function calls which.
Calling(caller, callee) ==
  \/ caller \in {"expr", "paren"} /\ callee \in {"sum", "sum right"}
  \/ caller \in {"sum", "sum right"} /\ callee \in {"product", "product right"}
  \/ caller \in {"product", "product right"} /\ callee = "signed"
  \/ caller = "signed" /\ callee = "paren"

DifferentLefts(fs) ==
  \A k, l \in DOMAIN fs :
    k # l /\ AwaitsRight(fs[k]) /\ AwaitsRight(fs[l]) => fs[k].left # fs[l].left

IsStack(fs) ==
  /\ fs \in Seq(Frame)
  /\ fs # <<>> /\ fs[1].at \in Bottom
  /\ \A k \in DOMAIN fs \ {1} : Calling(fs[k - 1].at, fs[k].at)
  /\ DifferentLefts(fs)

Below(fs) == SubSeq(fs, 1, Len(fs) - 1)
Last(fs) == fs[Len(fs)]
LeftOf(f) == IF AwaitsRight(f) THEN {f.left} ELSE {}

LEMMA Before ==
  \A n \in Nat : /\ \A k \in 1..n : k # n => k \in 1..(n - 1)
                 /\ \A k \in 1..(n - 1) : k \in 1..n /\ k # n
  BY SMT

LEMMA Pop ==
  ASSUME NEW fs, IsStack(fs), Last(fs).at \notin Bottom
  PROVE  /\ IsStack(Below(fs)) /\ Calling(Last(Below(fs)).at, Last(fs).at)
         /\ OpenLefts(Below(fs)) = OpenLefts(fs) \ LeftOf(Last(fs))
         /\ LeftOf(Last(fs)) \subseteq OpenLefts(fs)
<1> DEFINE n == Len(fs)
           bs == Below(fs)
<1>1. fs \in Seq(Frame) /\ n \in Nat /\ n >= 1 /\ DOMAIN fs = 1..n
  BY DEF IsStack
<1>2. n > 1
  BY <1>1 DEF IsStack, Last
<1>3. /\ bs \in Seq(Frame) /\ Len(bs) = n - 1 /\ DOMAIN bs = 1..(n - 1)
      /\ \A k \in 1..(n - 1) : bs[k] = fs[k]
  BY <1>1, <1>2 DEF Below
<1>4. IsStack(bs) /\ Calling(Last(bs).at, Last(fs).at)
  <2>1. bs # <<>> /\ bs[1] = fs[1]
    BY <1>2, <1>3
  <2>2. \A k \in DOMAIN bs \ {1} : Calling(bs[k - 1].at, bs[k].at)
    <3> SUFFICES ASSUME NEW k \in 1..(n - 1), k # 1
                 PROVE  Calling(bs[k - 1].at, bs[k].at)
      BY <1>3
    <3>1. k \in 1..n /\ k - 1 \in 1..(n - 1)
      BY <1>1
    <3> QED BY <1>1, <1>3, <3>1 DEF IsStack
  <2>3. DifferentLefts(bs)
    BY <1>1, <1>3 DEF IsStack, DifferentLefts
  <2>4. Calling(Last(bs).at, Last(fs).at)
    <3>1. n \in 1..n /\ n # 1 /\ n - 1 \in 1..(n - 1)
      BY <1>1, <1>2
    <3> QED BY <1>1, <1>3, <3>1 DEF IsStack, Last
  <2> QED BY <1>2, <1>3, <2>1, <2>2, <2>3, <2>4 DEF IsStack
<1>5. OpenLefts(bs) = OpenLefts(fs) \ LeftOf(Last(fs))
  <2>1. ASSUME NEW x \in OpenLefts(bs) PROVE x \in OpenLefts(fs) \ LeftOf(Last(fs))
    <3>1. PICK k \in 1..(n - 1) : AwaitsRight(bs[k]) /\ x = bs[k].left
      BY <1>3 DEF OpenLefts
    <3>2. k \in 1..n /\ k # n /\ AwaitsRight(fs[k]) /\ x = fs[k].left
      BY <1>1, <1>3, <3>1, Before
    <3>3. x \in OpenLefts(fs)
      BY <1>1, <3>2 DEF OpenLefts
    <3>4. x \notin LeftOf(Last(fs))
      <4>1. n \in 1..n
        BY <1>1
      <4> QED BY <1>1, <3>2, <4>1 DEF LeftOf, Last, IsStack, DifferentLefts
    <3> QED BY <3>3, <3>4
  <2>2. ASSUME NEW x \in OpenLefts(fs), x \notin LeftOf(Last(fs)) PROVE x \in OpenLefts(bs)
    <3>1. PICK k \in 1..n : AwaitsRight(fs[k]) /\ x = fs[k].left
      BY <1>1 DEF OpenLefts
    <3>2. k # n
      BY <2>2, <3>1 DEF LeftOf, Last
    <3>3. k \in 1..(n - 1)
      BY <1>1, <3>2, Before
    <3> QED BY <1>3, <3>1, <3>3 DEF OpenLefts
  <2> QED BY <2>1, <2>2
<1>6. LeftOf(Last(fs)) \subseteq OpenLefts(fs)
  BY <1>1 DEF LeftOf, Last, OpenLefts
<1> QED BY <1>4, <1>5, <1>6

LEMMA Push ==
  ASSUME NEW fs, IsStack(fs), NEW f \in Frame, Calling(Last(fs).at, f.at),
         LeftOf(f) \cap OpenLefts(fs) = {}
  PROVE  /\ IsStack(Append(fs, f))
         /\ Last(Append(fs, f)) = f
         /\ OpenLefts(Append(fs, f)) = OpenLefts(fs) \cup LeftOf(f)
<1> DEFINE n == Len(fs)
           gs == Append(fs, f)
<1>1. fs \in Seq(Frame) /\ n \in Nat /\ n >= 1 /\ DOMAIN fs = 1..n
  BY DEF IsStack
<1>2. /\ gs \in Seq(Frame) /\ Len(gs) = n + 1 /\ DOMAIN gs = 1..(n + 1)
      /\ gs[n + 1] = f
      /\ \A k \in 1..n : gs[k] = fs[k]
  BY <1>1
<1>3. \A k \in 1..(n + 1) : k \in 1..n \/ k = n + 1
  BY <1>1
<1>4. OpenLefts(gs) = OpenLefts(fs) \cup LeftOf(f)
  <2>1. ASSUME NEW x \in OpenLefts(gs) PROVE x \in OpenLefts(fs) \cup LeftOf(f)
    <3>1. PICK k \in 1..(n + 1) : AwaitsRight(gs[k]) /\ x = gs[k].left
      BY <1>2 DEF OpenLefts
    <3> QED BY <1>1, <1>2, <1>3, <3>1 DEF OpenLefts, LeftOf
  <2>2. ASSUME NEW x \in OpenLefts(fs) PROVE x \in OpenLefts(gs)
    <3>1. PICK k \in 1..n : AwaitsRight(fs[k]) /\ x = fs[k].left
      BY <1>1 DEF OpenLefts
    <3>2. k \in 1..(n + 1)
      BY <1>1
    <3> QED BY <1>2, <3>1, <3>2 DEF OpenLefts
  <2>3. LeftOf(f) \subseteq OpenLefts(gs)
    <3>1. n + 1 \in 1..(n + 1)
      BY <1>1
    <3> QED BY <1>2, <3>1 DEF OpenLefts, LeftOf
  <2> QED BY <2>1, <2>2, <2>3
<1>5. \A k \in DOMAIN gs \ {1} : Calling(gs[k - 1].at, gs[k].at)
  <2> SUFFICES ASSUME NEW k \in 1..(n + 1), k # 1
               PROVE  Calling(gs[k - 1].at, gs[k].at)
    BY <1>2
  <2>1. CASE k \in 1..n
    <3>1. k - 1 \in 1..n
      BY <1>1
    <3> QED BY <1>1, <1>2, <2>1, <3>1 DEF IsStack
  <2>2. CASE k = n + 1
    <3>1. n \in 1..n /\ k - 1 = n
      BY <1>1, <2>2
    <3> QED BY <1>2, <2>2, <3>1 DEF Last
  <2> QED BY <1>3, <2>1, <2>2
<1>6. DifferentLefts(gs)
  <2> SUFFICES ASSUME NEW k \in 1..(n + 1), NEW l \in 1..(n + 1), k # l,
                      AwaitsRight(gs[k]), AwaitsRight(gs[l])
               PROVE  gs[k].left # gs[l].left
    BY <1>2 DEF DifferentLefts
  <2>1. CASE k \in 1..n /\ l \in 1..n
    BY <1>1, <1>2, <2>1 DEF IsStack, DifferentLefts
  <2>2. CASE k = n + 1 /\ l \in 1..n
    <3>1. gs[l].left \in OpenLefts(fs) /\ gs[k].left \in LeftOf(f)
      BY <1>1, <1>2, <2>2 DEF OpenLefts, LeftOf
    <3> QED BY <3>1
  <2>3. CASE k \in 1..n /\ l = n + 1
    <3>1. gs[k].left \in OpenLefts(fs) /\ gs[l].left \in LeftOf(f)
      BY <1>1, <1>2, <2>3 DEF OpenLefts, LeftOf
    <3> QED BY <3>1
  <2> QED BY <1>3, <2>1, <2>2, <2>3
<1>7. gs # <<>> /\ gs[1] = fs[1] /\ Last(gs) = f
  BY <1>1, <1>2 DEF Last
<1> QED BY <1>2, <1>4, <1>5, <1>6, <1>7 DEF IsStack

-----------------------------------------------------------------------------
(***************************************************************************)
(* Nodes on their way to a caller                                          *)
(***************************************************************************)
ResultRecord == [node : NodeRecord, from : Nat, to : Nat]

\* The children of the node on its way, if there is one.
Held(r) == IF r = Nothing THEN {} ELSE Children(r.node)

\* A node that fits an array of n nodes, for argc arguments.  No constant is
\* LONG_MIN: the negation in parse_signed does not overflow.
IsResult(r, n, argc) ==
  \/ r = Nothing
  \/ /\ r \in ResultRecord
     /\ IsNode(r.node, n, argc)
     /\ r.node.type \in BinaryTypes => r.node.left # r.node.right
     /\ r.node.type = "INT" => r.node.num \in (-LONG_MAX)..LONG_MAX

LEMMA SomeResult ==
  ASSUME NEW node \in NodeRecord, NEW a \in Nat, NEW b \in Nat
  PROVE  Result(node, a, b) # Nothing /\ Result(node, a, b) \in ResultRecord
  BY ParserAssumption DEF Result, ResultRecord

LEMMA IntResult ==
  ASSUME NEW v \in (-LONG_MAX)..LONG_MAX, NEW a \in Nat, NEW b \in Nat, NEW n, NEW argc
  PROVE  /\ IsResult(Result(IntNode(v), a, b), n, argc)
         /\ Held(Result(IntNode(v), a, b)) = {}
<1>1. v \in Int /\ v \in Long
  BY LongAssumption, SMT DEF Long, LONG_MIN
<1>2. IntNode(v) \in NodeRecord /\ Children(IntNode(v)) = {} /\ IntNode(v).type = "INT"
      /\ IntNode(v).num = v
  BY <1>1 DEF IntNode, NodeRecord, Children, NodeTypes, BinaryTypes, AddSub, MulDiv
<1>3. IsNode(IntNode(v), n, argc)
  BY <1>1, <1>2 DEF IsNode
<1>4. IntNode(v).type \notin BinaryTypes
  BY <1>2 DEF BinaryTypes, AddSub, MulDiv
<1> QED BY <1>2, <1>3, <1>4, SomeResult DEF IsResult, Held, Result

LEMMA VarResult ==
  ASSUME NEW argc \in Nat, NEW v \in 1..argc, NEW a \in Nat, NEW b \in Nat, NEW n
  PROVE  /\ IsResult(Result(VarNode(v), a, b), n, argc)
         /\ Held(Result(VarNode(v), a, b)) = {}
<1>1. VarNode(v) \in NodeRecord /\ Children(VarNode(v)) = {} /\ VarNode(v).type = "VAR"
      /\ VarNode(v).num = v
  BY DEF VarNode, NodeRecord, Children, NodeTypes, BinaryTypes, AddSub, MulDiv
<1>2. IsNode(VarNode(v), n, argc)
  BY <1>1 DEF IsNode
<1>3. VarNode(v).type \notin BinaryTypes
  BY <1>1 DEF BinaryTypes, AddSub, MulDiv
<1> QED BY <1>1, <1>2, <1>3, SomeResult DEF IsResult, Held, Result

LEMMA InvResult ==
  ASSUME NEW n \in Nat, NEW v \in 1..n, NEW a \in Nat, NEW b \in Nat, NEW argc
  PROVE  /\ IsResult(Result(InvNode(v), a, b), n, argc)
         /\ Held(Result(InvNode(v), a, b)) = {v}
<1>1. InvNode(v) \in NodeRecord /\ InvNode(v).type = "INV" /\ InvNode(v).left = v
  BY DEF InvNode, NodeRecord, NodeTypes, BinaryTypes, AddSub, MulDiv
<1>2. IsNode(InvNode(v), n, argc)
  BY <1>1 DEF IsNode
<1>3. InvNode(v).type \notin BinaryTypes /\ Children(InvNode(v)) = {v}
  BY <1>1 DEF Children, BinaryTypes, AddSub, MulDiv
<1> QED BY <1>1, <1>2, <1>3, SomeResult DEF IsResult, Held, Result

LEMMA BinaryResult ==
  ASSUME NEW n \in Nat, NEW l \in 1..n, NEW r \in 1..n, l # r,
         NEW type \in BinaryTypes, NEW a \in Nat, NEW b \in Nat, NEW argc
  PROVE  /\ IsResult(Result(BinaryNode(type, l, r), a, b), n, argc)
         /\ Held(Result(BinaryNode(type, l, r), a, b)) = {l, r}
<1>1. /\ BinaryNode(type, l, r) \in NodeRecord
      /\ BinaryNode(type, l, r).type = type
      /\ BinaryNode(type, l, r).left = l /\ BinaryNode(type, l, r).right = r
  BY DEF BinaryNode, NodeRecord, NodeTypes
<1>2. IsNode(BinaryNode(type, l, r), n, argc)
  BY <1>1 DEF IsNode
<1>3. type # "INT" /\ Children(BinaryNode(type, l, r)) = {l, r}
  BY <1>1 DEF Children, BinaryTypes, AddSub, MulDiv
<1> QED BY <1>1, <1>2, <1>3, SomeResult DEF IsResult, Held, Result

LEMMA IsNodeGrows ==
  ASSUME NEW node, NEW n \in Nat, NEW m \in Nat, n <= m, NEW argc,
         IsNode(node, n, argc)
  PROVE  IsNode(node, m, argc)
<1>1. 1..n \subseteq 1..m
  BY SMT
<1> QED BY <1>1 DEF IsNode

-----------------------------------------------------------------------------
(***************************************************************************)
(* The inductive invariant                                                 *)
(***************************************************************************)
\* The second half of ParsesToATree, of one node.
IsPlain(node, ast) ==
  /\ node.type = "INV" => ast[node.left].type # "INT"
  /\ node.type = "DIV" => ~(ast[node.right].type = "INT" /\ ast[node.right].num = 0)

TokensOK ==
  /\ state \in {"PENDING", "READY", "DONE", "ERROR"}
  /\ read \in Seq(Tokens \cup {Eof})
  /\ state = "READY" => read # <<>>

NodesOK ==
  /\ args \in Seq(Names)
  /\ nodes \in Seq(NodeRecord)
  /\ IsAst(nodes, ArgCount)
  /\ \A i \in DOMAIN nodes : IsPlain(nodes[i], nodes)

StackOK ==
  /\ frames = <<>> \/ IsStack(frames)
  /\ OpenLefts(frames) \subseteq 1..Len(nodes)

ResultOK ==
  /\ IsResult(result, Len(nodes), ArgCount)
  /\ Held(result) \cap OpenLefts(frames) = {}
  /\ result # Nothing => IsPlain(result.node, nodes)

\* The root is in the array.
Ended == frames = <<>> \/ Last(frames).at = "end"

\* A node that has got past a loop has a token in hand.
PastALoop ==
  result # Nothing /\ Last(frames).at \in {"sum", "sum right", "paren", "expr"}
    => state # "PENDING"

ControlOK ==
  /\ frames = <<>> <=> state = "DONE"
  /\ Ended => result = Nothing /\ nodes # <<>> /\ OpenLefts(frames) = {}
  /\ PastALoop

IInv == TokensOK /\ NodesOK /\ StackOK /\ ResultOK /\ ControlOK

LEMMA NoLefts == OpenLefts(<<>>) = {}
  BY DEF OpenLefts

LEMMA RootsAre ==
  ASSUME Ended => result = Nothing
  PROVE  PendingRoots = OpenLefts(frames) \cup Held(result)
                          \cup (IF Ended THEN {Root(nodes)} ELSE {})
  BY DEF PendingRoots, Held, Ended, Last, Top

\* The steps that append no node.
LEMMA MoveStep ==
  ASSUME IInv, UNCHANGED <<args, nodes>>, TokensOK', state' # "DONE",
         IsStack(frames'), OpenLefts(frames') = OpenLefts(frames),
         IsResult(result', Len(nodes), ArgCount), Held(result') = Held(result),
         result' # Nothing => IsPlain(result'.node, nodes),
         Ended' <=> Ended, Ended => result' = Nothing, PastALoop'
  PROVE  IInv' /\ UNCHANGED AsForest!vars
<1>1. ArgCount' = ArgCount
  BY DEF ArgCount
<1>2. NodesOK' /\ StackOK' /\ ResultOK'
  BY <1>1 DEF IInv, NodesOK, StackOK, ResultOK
<1>3. ControlOK'
  <2>1. frames' # <<>>
    BY DEF IsStack
  <2> QED BY <2>1 DEF IInv, ControlOK
<1>4. PendingRoots' = PendingRoots
  <2>1. Root(nodes)' = Root(nodes)
    BY DEF Root
  <2>2. Ended => result = Nothing
    BY DEF IInv, ControlOK
  <2>3. PendingRoots = OpenLefts(frames) \cup Held(result)
                         \cup (IF Ended THEN {Root(nodes)} ELSE {})
    BY <2>2, RootsAre
  <2>4. PendingRoots' = OpenLefts(frames') \cup Held(result')
                          \cup (IF Ended' THEN {Root(nodes)'} ELSE {})
    BY RootsAre DEF PendingRoots, Held, Ended, Last, Top
  <2> QED BY <2>1, <2>3, <2>4
<1> QED BY <1>1, <1>2, <1>3, <1>4 DEF IInv, AsForest!vars

LEMMA FailStep ==
  ASSUME IInv, ~Stopped, NEW code, NEW from, NEW to, Fail(code, from, to)
  PROVE  IInv' /\ UNCHANGED AsForest!vars
<1>1. /\ state' = "ERROR"
      /\ UNCHANGED <<args, read, nodes, frames, result>>
  BY DEF Fail
<1>2. IInv'
  BY <1>1 DEF IInv, Stopped, TokensOK, NodesOK, StackOK, ResultOK, ControlOK,
              PastALoop, Ended, ArgCount
<1>3. UNCHANGED AsForest!vars
  BY <1>1 DEF AsForest!vars, ArgCount, PendingRoots, Top
<1> QED BY <1>2, <1>3

\* Forest says the same of nodes.
LEMMA SameNodes ==
  /\ AsForest!Long = Long
  /\ AsForest!BinaryTypes = BinaryTypes
  /\ \A v : AsForest!IntNode(v) = IntNode(v)
  /\ \A v : AsForest!VarNode(v) = VarNode(v)
  /\ \A c : AsForest!InvNode(c) = InvNode(c)
  /\ \A t, l, r : AsForest!BinaryNode(t, l, r) = BinaryNode(t, l, r)
  /\ \A node : AsForest!Children(node) = Children(node)
<1>1. AsForest!Long = Long
  BY DEF AsForest!Long, Long, AsForest!LONG_MIN, LONG_MIN
<1>2. AsForest!BinaryTypes = BinaryTypes
  BY DEF AsForest!BinaryTypes, BinaryTypes, AsForest!AddSub, AddSub, AsForest!MulDiv, MulDiv
<1>3. /\ \A v : AsForest!IntNode(v) = IntNode(v)
      /\ \A v : AsForest!VarNode(v) = VarNode(v)
      /\ \A c : AsForest!InvNode(c) = InvNode(c)
      /\ \A t, l, r : AsForest!BinaryNode(t, l, r) = BinaryNode(t, l, r)
  BY DEF AsForest!IntNode, IntNode, AsForest!VarNode, VarNode, AsForest!InvNode, InvNode,
         AsForest!BinaryNode, BinaryNode
<1>4. \A node : AsForest!Children(node) = Children(node)
  BY <1>2 DEF AsForest!Children, Children
<1> QED BY <1>1, <1>2, <1>3, <1>4

\* The node on its way is one that the forest may append.
LEMMA Joins ==
  ASSUME IInv, result # Nothing, AsForest!AppendNode(result.node)
  PROVE  AsForest!Next
<1> DEFINE node == result.node
<1>1. /\ IsNode(node, Len(nodes), ArgCount)
      /\ node.type \in BinaryTypes => node.left # node.right
  BY DEF IInv, ResultOK, IsResult
<1>2. Children(node) \subseteq PendingRoots
  BY DEF PendingRoots
<1>3. AsForest!AppendNode(node)
  OBVIOUS
<1> HIDE DEF node
<1>4. ASSUME node.type \in BinaryTypes, node = BinaryNode(node.type, node.left, node.right)
      PROVE  AsForest!Next
  <2>1. node.left \in PendingRoots /\ node.right \in PendingRoots
    <3>1. node.type \in BinaryTypes
      BY <1>4
    <3>2. Children(node) = {node.left, node.right}
      BY <3>1 DEF Children, BinaryTypes, AddSub, MulDiv
    <3> QED BY <1>2, <3>2
  <2>2. AsForest!AppendNode(AsForest!BinaryNode(node.type, node.left, node.right))
    BY <1>3, <1>4, SameNodes
  <2>3. node.type \in AsForest!BinaryTypes
    BY <1>4, SameNodes
  <2> QED BY <1>1, <1>4, <2>1, <2>2, <2>3 DEF AsForest!Next
<1>5. ASSUME node = InvNode(node.left) PROVE AsForest!Next
  <2>1. node.type = "INV" /\ node.type \notin BinaryTypes
    BY <1>5 DEF InvNode, BinaryTypes, AddSub, MulDiv
  <2>2. node.left \in PendingRoots
    BY <1>2, <2>1 DEF Children
  <2>3. AsForest!AppendNode(AsForest!InvNode(node.left))
    BY <1>3, <1>5, SameNodes
  <2> QED BY <2>2, <2>3 DEF AsForest!Next
<1>6. ASSUME node.num \in Long, node = IntNode(node.num) PROVE AsForest!Next
  <2>1. AsForest!AppendNode(AsForest!IntNode(node.num)) /\ node.num \in AsForest!Long
    BY <1>3, <1>6, SameNodes
  <2> QED BY <2>1 DEF AsForest!Next
<1>7. ASSUME node.num \in 1..ArgCount, node = VarNode(node.num) PROVE AsForest!Next
  <2>1. AsForest!AppendNode(AsForest!VarNode(node.num))
    BY <1>3, <1>7, SameNodes
  <2> QED BY <1>7, <2>1 DEF AsForest!Next
<1> QED BY <1>1, <1>4, <1>5, <1>6, <1>7 DEF IsNode

\* What appending a node does to the nodes that are there.
LEMMA NodesGrow ==
  ASSUME IInv, result # Nothing, args' = args, nodes' = Append(nodes, result.node)
  PROVE  /\ Len(nodes) \in Nat /\ Len(nodes') = Len(nodes) + 1
         /\ nodes'[Len(nodes) + 1] = result.node
         /\ \A i \in 1..Len(nodes) : nodes'[i] = nodes[i]
         /\ NodesOK'
<1> DEFINE n == Len(nodes)
           node == result.node
<1>1. node \in NodeRecord /\ IsNode(node, n, ArgCount) /\ IsPlain(node, nodes)
  BY DEF IInv, ResultOK, IsResult, ResultRecord
<1>2. nodes \in Seq(NodeRecord) /\ n \in Nat
  BY DEF IInv, NodesOK
<1>3. /\ nodes' \in Seq(NodeRecord) /\ Len(nodes') = n + 1
      /\ nodes'[n + 1] = node
      /\ DOMAIN nodes = 1..n /\ DOMAIN nodes' = 1..(n + 1)
      /\ \A i \in 1..n : nodes'[i] = nodes[i]
  BY <1>1, <1>2
<1>4. n + 1 \in Nat /\ n <= n + 1 /\ \A i \in 1..(n + 1) : i \in 1..n \/ i = n + 1
  BY <1>2
<1>5. ASSUME NEW x, IsNode(x, n, ArgCount), IsPlain(x, nodes)
      PROVE  IsNode(x, n + 1, ArgCount) /\ IsPlain(x, nodes')
  <2>1. IsNode(x, n + 1, ArgCount)
    BY <1>2, <1>4, <1>5, IsNodeGrows
  <2>2. x.type \in {"INV", "DIV"} => x.left \in 1..n
    BY <1>5 DEF IsNode, IntNode, VarNode, BinaryTypes, AddSub, MulDiv
  <2>3. x.type = "DIV" => x.right \in 1..n
    BY <1>5 DEF IsNode, IntNode, VarNode, InvNode, BinaryTypes, AddSub, MulDiv
  <2>4. IsPlain(x, nodes')
    BY <1>3, <1>5, <2>2, <2>3 DEF IsPlain
  <2> QED BY <2>1, <2>4
<1>6. \A i \in 1..n : IsNode(nodes[i], n, ArgCount) /\ IsPlain(nodes[i], nodes)
  BY <1>3 DEF IInv, NodesOK, IsAst
<1>7. IsAst(nodes', ArgCount) /\ \A i \in DOMAIN nodes' : IsPlain(nodes'[i], nodes')
  BY <1>1, <1>3, <1>4, <1>5, <1>6 DEF IsAst
<1> QED BY <1>2, <1>3, <1>7 DEF IInv, NodesOK, ArgCount

\* The steps that append the node that has been passed up.
LEMMA AppendStep ==
  ASSUME IInv, result # Nothing, args' = args, nodes' = Append(nodes, result.node),
         TokensOK', state' # "DONE", IsStack(frames'),
         OpenLefts(frames') \cup Held(result') \subseteq OpenLefts(frames) \cup {Len(nodes) + 1},
         Ended' \/ OpenLefts(frames') \cup Held(result') = OpenLefts(frames) \cup {Len(nodes) + 1},
         IsResult(result', Len(nodes) + 1, ArgCount),
         Held(result') \cap OpenLefts(frames') = {},
         result' # Nothing => IsPlain(result'.node, nodes'),
         Ended' => result' = Nothing /\ OpenLefts(frames) = {} /\ OpenLefts(frames') = {},
         PastALoop'
  PROVE  IInv' /\ AsForest!Next
<1> DEFINE n == Len(nodes)
<1>1. n \in Nat /\ Len(nodes') = n + 1 /\ NodesOK'
  BY NodesGrow
<1>2. ArgCount' = ArgCount
  BY DEF ArgCount
<1>3. StackOK'
  <2>1. OpenLefts(frames) \subseteq 1..n
    BY DEF IInv, StackOK
  <2>2. OpenLefts(frames') \subseteq 1..(n + 1)
    BY <1>1, <2>1
  <2> QED BY <1>1, <2>2 DEF StackOK
<1>4. ResultOK'
  BY <1>1, <1>2 DEF ResultOK
<1>5. ControlOK'
  <2>1. frames' # <<>> /\ nodes' # <<>>
    BY <1>1 DEF IsStack
  <2> QED BY <2>1 DEF ControlOK
<1>6. PendingRoots' = (PendingRoots \ Children(result.node)) \cup {n + 1}
  <2>1. ~Ended /\ PendingRoots = OpenLefts(frames) \cup Held(result)
    BY RootsAre DEF IInv, ControlOK
  <2>2. Held(result) = Children(result.node) /\ Held(result) \cap OpenLefts(frames) = {}
    BY DEF Held, IInv, ResultOK
  <2>3. PendingRoots' = OpenLefts(frames') \cup Held(result')
                          \cup (IF Ended' THEN {n + 1} ELSE {})
    BY <1>1 DEF PendingRoots, Held, Ended, Last, Top, Root
  <2>4. PendingRoots' = OpenLefts(frames) \cup {n + 1}
    <3>1. CASE Ended'
      BY <2>3, <3>1 DEF Held
    <3>2. CASE ~Ended'
      BY <2>3, <3>2
    <3> QED BY <3>1, <3>2
  <2> HIDE DEF n
  <2> QED BY <2>1, <2>2, <2>4
<1>7. AsForest!AppendNode(result.node)
  BY <1>2, <1>6, SameNodes DEF AsForest!AppendNode
<1> QED BY <1>1, <1>3, <1>4, <1>5, <1>7, Joins DEF IInv

-----------------------------------------------------------------------------
(***************************************************************************)
(* The actions                                                             *)
(***************************************************************************)
LEMMA CallsAre ==
  ASSUME NEW at \in Calls
  PROVE  Call(at) \in Frame /\ Call(at).at = at
  BY DEF Call, Frame, BinaryTypes, AddSub

LEMMA Concat ==
  ASSUME NEW fs \in Seq(Frame), NEW f \in Frame
  PROVE  fs \o <<f>> = Append(fs, f)
  BY AppendIsConcat

LEMMA PushFirst ==
  ASSUME NEW fs \in Seq(Frame), NEW f \in Frame, NEW gs \in Seq(Frame)
  PROVE  fs \o (<<f>> \o gs) = (fs \o <<f>>) \o gs
<1>1. <<f>> \in Seq(Frame)
  OBVIOUS
<1> QED BY <1>1, ConcatAssociative

\* A frame that awaits no right operand.
LEMMA PushPlain ==
  ASSUME NEW fs, IsStack(fs), NEW f \in Frame, Calling(Last(fs).at, f.at), ~AwaitsRight(f)
  PROVE  /\ IsStack(fs \o <<f>>)
         /\ Last(fs \o <<f>>) = f
         /\ OpenLefts(fs \o <<f>>) = OpenLefts(fs)
<1>1. LeftOf(f) = {} /\ fs \in Seq(Frame)
  BY DEF LeftOf, IsStack
<1>2. fs \o <<f>> = Append(fs, f)
  BY <1>1, Concat
<1>3. /\ IsStack(Append(fs, f)) /\ Last(Append(fs, f)) = f
      /\ OpenLefts(Append(fs, f)) = OpenLefts(fs) \cup LeftOf(f)
  BY <1>1, Push
<1> QED BY <1>1, <1>2, <1>3

LEMMA TokensRead ==
  ASSUME IInv
  PROVE  Len(read) \in Nat /\ Len(read) + 1 \in Nat
<1>1. read \in Seq(Tokens \cup {Eof})
  BY DEF IInv, TokensOK
<1> QED BY <1>1

LEMMA PushSigned ==
  ASSUME IInv, NEW fs, IsStack(fs), Last(fs).at \in {"product", "product right"}
  PROVE  /\ IsStack(fs \o CallSigned)
         /\ Last(fs \o CallSigned).at = "signed"
         /\ OpenLefts(fs \o CallSigned) = OpenLefts(fs)
<1> DEFINE f == [Call("signed") EXCEPT !.from = Len(read) + 1]
<1>1. Len(read) + 1 \in Nat
  BY TokensRead
<1>2. f \in Frame /\ f.at = "signed"
  BY <1>1 DEF Call, Frame, Calls, BinaryTypes, AddSub
<1>3. ~AwaitsRight(f) /\ Calling(Last(fs).at, f.at) /\ CallSigned = <<f>>
  BY <1>2 DEF AwaitsRight, Calling, CallSigned
<1> HIDE DEF f
<1> QED BY <1>2, <1>3, PushPlain

LEMMA SignedSeq ==
  ASSUME IInv
  PROVE  CallSigned \in Seq(Frame)
<1>1. Len(read) + 1 \in Nat
  BY TokensRead
<1>2. [Call("signed") EXCEPT !.from = Len(read) + 1] \in Frame
  BY <1>1 DEF Call, Frame, Calls, BinaryTypes, AddSub
<1> QED BY <1>2 DEF CallSigned

LEMMA PushProduct ==
  ASSUME IInv, NEW fs, IsStack(fs), Last(fs).at \in {"sum", "sum right"}
  PROVE  /\ IsStack(fs \o CallProduct)
         /\ Last(fs \o CallProduct).at = "signed"
         /\ OpenLefts(fs \o CallProduct) = OpenLefts(fs)
<1> DEFINE f == Call("product")
<1>1. f \in Frame /\ f.at = "product"
  BY CallsAre DEF Calls
<1>2. ~AwaitsRight(f) /\ Calling(Last(fs).at, f.at)
  BY <1>1 DEF AwaitsRight, Calling
<1> HIDE DEF f
<1>3. IsStack(fs \o <<f>>) /\ Last(fs \o <<f>>) = f /\ OpenLefts(fs \o <<f>>) = OpenLefts(fs)
  BY <1>1, <1>2, PushPlain
<1>4. fs \o CallProduct = (fs \o <<f>>) \o CallSigned
  <2>1. fs \in Seq(Frame)
    BY DEF IsStack
  <2>2. CallSigned \in Seq(Frame)
    BY SignedSeq
  <2>3. CallProduct = <<f>> \o CallSigned
    BY DEF CallProduct, f
  <2> QED BY <1>1, <2>1, <2>2, <2>3, PushFirst
<1> QED BY <1>1, <1>3, <1>4, PushSigned

LEMMA PushSum ==
  ASSUME IInv, NEW fs, IsStack(fs), Last(fs).at \in {"expr", "paren"}
  PROVE  /\ IsStack(fs \o CallSum)
         /\ Last(fs \o CallSum).at = "signed"
         /\ OpenLefts(fs \o CallSum) = OpenLefts(fs)
<1> DEFINE f == Call("sum")
<1>1. f \in Frame /\ f.at = "sum" /\ Call("product") \in Frame
  BY CallsAre DEF Calls
<1>2. ~AwaitsRight(f) /\ Calling(Last(fs).at, f.at)
  BY <1>1 DEF AwaitsRight, Calling
<1>3. CallProduct \in Seq(Frame)
  BY <1>1, SignedSeq DEF CallProduct
<1> HIDE DEF f
<1>4. IsStack(fs \o <<f>>) /\ Last(fs \o <<f>>) = f /\ OpenLefts(fs \o <<f>>) = OpenLefts(fs)
  BY <1>1, <1>2, PushPlain
<1>5. fs \o CallSum = (fs \o <<f>>) \o CallProduct
  <2>1. fs \in Seq(Frame)
    BY DEF IsStack
  <2>2. CallProduct \in Seq(Frame)
    BY <1>3
  <2>3. CallSum = <<f>> \o CallProduct
    BY DEF CallSum, f
  <2> QED BY <1>1, <2>1, <2>2, <2>3, PushFirst
<1> QED BY <1>1, <1>4, <1>5, PushProduct

\* The only call of parse_slice's own that there can be.
LEMMA Single ==
  ASSUME NEW f \in Frame, f.at \in Bottom
  PROVE  IsStack(<<f>>) /\ Last(<<f>>) = f /\ OpenLefts(<<f>>) = {}
<1>1. <<f>> \in Seq(Frame) /\ Len(<<f>>) = 1 /\ <<f>>[1] = f /\ DOMAIN <<f>> = {1} /\ <<f>> # <<>>
  OBVIOUS
<1>2. ~AwaitsRight(f)
  BY DEF AwaitsRight, Bottom
<1> QED BY <1>1, <1>2 DEF IsStack, DifferentLefts, Last, OpenLefts

\* A call of parse_slice's own is alone on the stack.
LEMMA Alone ==
  ASSUME NEW fs, IsStack(fs), Last(fs).at \in Bottom
  PROVE  OpenLefts(fs) = {}
<1>1. fs \in Seq(Frame) /\ Len(fs) \in Nat /\ Len(fs) >= 1 /\ DOMAIN fs = 1..Len(fs)
  BY DEF IsStack
<1>2. Len(fs) = 1
  <2>1. SUFFICES ASSUME Len(fs) # 1 PROVE FALSE
    OBVIOUS
  <2>2. Len(fs) \in DOMAIN fs \ {1}
    BY <1>1, <2>1
  <2>3. Calling(fs[Len(fs) - 1].at, Last(fs).at)
    BY <2>2 DEF IsStack, Last
  <2> QED BY <2>3 DEF Calling, Bottom
<1>3. \A k \in DOMAIN fs : fs[k] = Last(fs)
  BY <1>1, <1>2 DEF Last
<1>4. ~AwaitsRight(Last(fs))
  BY DEF AwaitsRight, Bottom
<1> QED BY <1>3, <1>4 DEF OpenLefts

\* What each step is to be shown to do.
StepOK == IInv' /\ [AsForest!Next]_(AsForest!vars)

LEMMA StackInUse ==
  ASSUME IInv, ~Stopped
  PROVE  IsStack(frames) /\ Top = Last(frames) /\ Top \in Frame /\ Callers = Below(frames)
<1>1. frames # <<>>
  BY DEF IInv, ControlOK, Stopped
<1>2. IsStack(frames)
  BY <1>1 DEF IInv, StackOK
<1>3. Last(frames) \in Frame
  <2>1. frames \in Seq(Frame) /\ Len(frames) \in 1..Len(frames)
    BY <1>1, <1>2 DEF IsStack
  <2> QED BY <2>1 DEF Last
<1> QED BY <1>2, <1>3 DEF Top, Last, Callers, Below

LEMMA TokensStay ==
  ASSUME IInv, ~Stopped, read' = read, state' = state \/ state' = "PENDING"
  PROVE  TokensOK' /\ state' # "DONE"
  BY DEF IInv, TokensOK, Stopped

\* parser->token, of which the parser keeps only the type and the value.
LEMMA TokenIs ==
  ASSUME IInv, state = "READY"
  PROVE  token \in Tokens \cup {Eof}
<1>1. read \in Seq(Tokens \cup {Eof}) /\ read # <<>>
  BY DEF IInv, TokensOK
<1> QED BY <1>1 DEF token

\* The call on top returns, and is not one that awaits its right operand.
LEMMA PopPlain ==
  ASSUME IInv, ~Stopped, Top.at \notin Bottom, ~AwaitsRight(Top)
  PROVE  /\ IsStack(Callers) /\ Calling(Last(Callers).at, Top.at)
         /\ OpenLefts(Callers) = OpenLefts(frames)
<1>1. IsStack(frames) /\ Top = Last(frames) /\ Callers = Below(frames)
  BY StackInUse
<1>2. LeftOf(Last(frames)) = {}
  BY <1>1 DEF LeftOf
<1> QED BY <1>1, <1>2, Pop

LEMMA OnStartParsing ==
  ASSUME IInv, StartParsing
  PROVE  StepOK
<1>1. ~Stopped /\ Top.at = "arguments" /\ result = Nothing
  BY DEF StartParsing, Running
<1>2. IsStack(frames) /\ Last(frames).at = "arguments"
  BY <1>1, StackInUse
<1>3. OpenLefts(frames) = {} /\ ~Ended
  BY <1>2, Alone DEF Bottom, Ended, IsStack
<1>4. Call("expr") \in Frame /\ Call("expr").at = "expr"
  BY CallsAre DEF Calls
<1>5. /\ IsStack(<<Call("expr")>>) /\ Last(<<Call("expr")>>).at = "expr"
      /\ OpenLefts(<<Call("expr")>>) = {}
  BY <1>4, Single DEF Bottom
<1>6. frames' = <<Call("expr")>> \o CallSum
  BY DEF StartParsing
<1>7. IsStack(frames') /\ Last(frames').at = "signed" /\ OpenLefts(frames') = {}
  BY <1>5, <1>6, PushSum
<1>8. TokensOK' /\ state' # "DONE"
  BY <1>1, TokensStay DEF StartParsing
<1>9. UNCHANGED <<args, nodes, result>>
  BY DEF StartParsing
<1>10. ~Ended' /\ PastALoop'
  BY <1>7 DEF Ended, PastALoop, IsStack
<1>11. /\ IsResult(result', Len(nodes), ArgCount) /\ Held(result') = Held(result)
       /\ result' # Nothing => IsPlain(result'.node, nodes)
  BY <1>9 DEF IInv, ResultOK
<1> QED BY <1>3, <1>7, <1>8, <1>9, <1>10, <1>11, MoveStep DEF StepOK

LEMMA OnPeek ==
  ASSUME IInv, Peek
  PROVE  StepOK
<1>1. ~Stopped
  BY DEF Peek, Peeks, Running, Returned
<1>2. UNCHANGED <<args, nodes, frames, result>> /\ state' = "READY"
  BY DEF Peek
<1>3. TokensOK'
  <2>1. PICK next \in Tokens \cup {Eof} : read' = Append(read, next)
    BY DEF Peek
  <2>2. read' \in Seq(Tokens \cup {Eof}) /\ read' # <<>>
    BY <2>1 DEF IInv, TokensOK
  <2> QED BY <1>2, <2>2 DEF TokensOK
<1>4. IsStack(frames')
  BY <1>1, <1>2, StackInUse
<1>5. (Ended' <=> Ended) /\ (Ended => result' = Nothing) /\ PastALoop'
  BY <1>2 DEF Ended, PastALoop, IInv, ControlOK
<1>6. /\ IsResult(result', Len(nodes), ArgCount) /\ Held(result') = Held(result)
      /\ result' # Nothing => IsPlain(result'.node, nodes)
      /\ OpenLefts(frames') = OpenLefts(frames)
  BY <1>2 DEF IInv, ResultOK
<1> QED BY <1>2, <1>3, <1>4, <1>5, <1>6, MoveStep DEF StepOK

LEMMA OnSign ==
  ASSUME IInv, Sign
  PROVE  StepOK
<1> DEFINE f == [Top EXCEPT !.inverse = (@ # (token.type = "SUB"))]
<1>1. ~Stopped /\ Top.at = "signed" /\ result = Nothing
  BY DEF Sign, Running
<1>2. IsStack(frames) /\ Top = Last(frames) /\ Top \in Frame /\ frames # <<>>
  BY <1>1, StackInUse DEF IsStack
<1>3. f \in Frame /\ f.at = "signed"
  BY <1>1, <1>2 DEF Frame
<1>4. ~AwaitsRight(Top) /\ ~AwaitsRight(f)
  BY <1>1, <1>3 DEF AwaitsRight
<1>5. frames' = Callers \o <<f>> /\ state' = "PENDING" /\ UNCHANGED <<args, read, nodes, result>>
  BY DEF Sign, Consume
<1> HIDE DEF f
<1>6. /\ IsStack(Callers) /\ Calling(Last(Callers).at, f.at)
      /\ OpenLefts(Callers) = OpenLefts(frames)
  BY <1>1, <1>3, <1>4, PopPlain DEF Bottom
<1>7. IsStack(frames') /\ Last(frames').at = "signed" /\ OpenLefts(frames') = OpenLefts(frames)
  BY <1>3, <1>4, <1>5, <1>6, PushPlain
<1>8. TokensOK' /\ state' # "DONE"
  BY <1>1, <1>5, TokensStay
<1>9. ~Ended /\ ~Ended' /\ PastALoop'
  BY <1>1, <1>2, <1>7 DEF Ended, PastALoop, IsStack
<1>10. /\ IsResult(result', Len(nodes), ArgCount) /\ Held(result') = Held(result)
       /\ result' # Nothing => IsPlain(result'.node, nodes)
  BY <1>5 DEF IInv, ResultOK
<1> QED BY <1>5, <1>7, <1>8, <1>9, <1>10, MoveStep DEF StepOK

\* parse_atom: the node has no children.
LEMMA OnAtom ==
  ASSUME IInv, Running("signed"), NEW node, ReturnAtom(node), node.type \in {"INT", "VAR"},
         IsResult(Result(node, Len(read), Len(read)), Len(nodes), ArgCount),
         Held(Result(node, Len(read), Len(read))) = {}
  PROVE  StepOK
<1>1. ~Stopped /\ Top.at = "signed" /\ result = Nothing
  BY DEF Running
<1>2. IsStack(frames) /\ Top = Last(frames) /\ frames # <<>>
  BY <1>1, StackInUse DEF IsStack
<1>3. /\ result' = Result(node, Len(read), Len(read)) /\ state' = "PENDING"
      /\ UNCHANGED <<args, read, nodes, frames>>
  BY DEF ReturnAtom, Consume
<1>4. TokensOK' /\ state' # "DONE"
  BY <1>1, <1>3, TokensStay
<1>5. ~Ended /\ ~Ended' /\ PastALoop'
  BY <1>1, <1>2, <1>3 DEF Ended, PastALoop
<1>6. IsPlain(result'.node, nodes)
  BY <1>3 DEF IsPlain, Result
<1>7. Held(result) = {} /\ Held(result') = {}
  BY <1>1, <1>3 DEF Held
<1> QED BY <1>2, <1>3, <1>4, <1>5, <1>6, <1>7, MoveStep DEF StepOK

LEMMA OnAtomInt ==
  ASSUME IInv, AtomInt
  PROVE  StepOK
<1>1. state = "READY" /\ token.type = "INT" /\ Running("signed")
  BY DEF AtomInt, Sees
<1>2. token.value \in Numbers
  BY <1>1, TokenIs DEF Tokens, Eof, Token, BinaryTypes, AddSub, MulDiv
<1>3. token.value \in (-LONG_MAX)..LONG_MAX
  <2>1. token.value \in 0..LONG_MAX
    BY <1>2, ParserAssumption
  <2> QED BY <2>1, LongAssumption
<1>4. Len(read) \in Nat
  BY TokensRead
<1>5. ReturnAtom(IntNode(token.value)) /\ IntNode(token.value).type = "INT"
  BY DEF AtomInt, IntNode
<1> QED BY <1>1, <1>3, <1>4, <1>5, IntResult, OnAtom

LEMMA OnAtomVar ==
  ASSUME IInv, AtomVar
  PROVE  StepOK
<1>1. Running("signed")
  BY DEF AtomVar
<1>2. PICK arg \in DOMAIN args : ReturnAtom(VarNode(arg))
  BY DEF AtomVar
<1>3. arg \in 1..ArgCount /\ ArgCount \in Nat
  BY DEF IInv, NodesOK, ArgCount
<1>4. Len(read) \in Nat /\ VarNode(arg).type = "VAR"
  BY TokensRead DEF VarNode
<1> QED BY <1>1, <1>2, <1>3, <1>4, VarResult, OnAtom

LEMMA OnOpenParen ==
  ASSUME IInv, OpenParen
  PROVE  StepOK
<1> DEFINE f == [Call("paren") EXCEPT !.from = Len(read)]
<1>1. ~Stopped /\ Top.at = "signed" /\ result = Nothing
  BY DEF OpenParen, Running
<1>2. IsStack(frames) /\ Top = Last(frames) /\ frames # <<>>
  BY <1>1, StackInUse DEF IsStack
<1>3. f \in Frame /\ f.at = "paren"
  BY TokensRead DEF Call, Frame, Calls, BinaryTypes, AddSub
<1>4. ~AwaitsRight(f) /\ Calling(Last(frames).at, f.at)
  BY <1>1, <1>2, <1>3 DEF AwaitsRight, Calling
<1>5. /\ frames' = (frames \o <<f>>) \o CallSum /\ state' = "PENDING"
      /\ UNCHANGED <<args, read, nodes, result>>
  BY DEF OpenParen, Consume
<1> HIDE DEF f
<1>6. /\ IsStack(frames \o <<f>>) /\ Last(frames \o <<f>>).at = "paren"
      /\ OpenLefts(frames \o <<f>>) = OpenLefts(frames)
  BY <1>2, <1>3, <1>4, PushPlain
<1>7. IsStack(frames') /\ Last(frames').at = "signed" /\ OpenLefts(frames') = OpenLefts(frames)
  BY <1>5, <1>6, PushSum
<1>8. TokensOK' /\ state' # "DONE"
  BY <1>1, <1>5, TokensStay
<1>9. ~Ended /\ ~Ended' /\ PastALoop'
  BY <1>1, <1>2, <1>7 DEF Ended, PastALoop, IsStack
<1>10. /\ IsResult(result', Len(nodes), ArgCount) /\ Held(result') = Held(result)
       /\ result' # Nothing => IsPlain(result'.node, nodes)
  BY <1>5 DEF IInv, ResultOK
<1> QED BY <1>5, <1>7, <1>8, <1>9, <1>10, MoveStep DEF StepOK

\* A call below the loops' right operands returns a node that has the children
\* of the node it was returned.
LEMMA OnReturn ==
  ASSUME IInv, ~Stopped, result # Nothing, Top.at \notin Bottom, ~AwaitsRight(Top),
         frames' = Callers, UNCHANGED <<args, read, nodes>>,
         state' = state \/ state' = "PENDING",
         IsResult(result', Len(nodes), ArgCount), Held(result') = Held(result),
         result' # Nothing, IsPlain(result'.node, nodes),
         Top.at \in {"sum", "product"} => state' = "READY"
  PROVE  StepOK
<1>1. IsStack(frames) /\ Top = Last(frames) /\ frames # <<>>
  BY StackInUse DEF IsStack
<1>2. /\ IsStack(frames') /\ Calling(Last(frames').at, Top.at)
      /\ OpenLefts(frames') = OpenLefts(frames)
  BY PopPlain
<1>3. TokensOK' /\ state' # "DONE"
  BY TokensStay
<1>4. ~Ended /\ ~Ended'
  BY <1>1, <1>2 DEF Ended, IsStack, Bottom, Calling
<1>5. PastALoop'
  <2>1. Top.at \in {"sum", "product", "signed", "paren"}
    BY <1>2 DEF AwaitsRight, Calling
  <2>2. CASE Top.at \in {"sum", "product"}
    BY <2>2 DEF PastALoop
  <2>3. CASE Top.at \in {"signed", "paren"}
    BY <1>2, <2>3 DEF PastALoop, Calling
  <2> QED BY <2>1, <2>2, <2>3
<1> QED BY <1>2, <1>3, <1>4, <1>5, MoveStep DEF StepOK

LEMMA OnPositive ==
  ASSUME IInv, Positive
  PROVE  StepOK
<1>1. ~Stopped /\ Top.at = "signed" /\ result # Nothing
  BY DEF Positive, Returned
<1>2. Top \in Frame
  BY <1>1, StackInUse
<1>3. /\ frames' = Callers /\ UNCHANGED <<args, state, read, nodes>>
      /\ result' = Result(result.node, Top.from, result.to)
  BY DEF Positive, ReturnSigned
<1>4. /\ result \in ResultRecord /\ IsResult(result, Len(nodes), ArgCount)
      /\ IsPlain(result.node, nodes)
  BY <1>1 DEF IInv, ResultOK, IsResult
<1>5. /\ result' # Nothing /\ result' \in ResultRecord
      /\ result'.node = result.node
  <2>1. result.node \in NodeRecord /\ result.to \in Nat /\ Top.from \in Nat
    BY <1>2, <1>4 DEF ResultRecord, Frame
  <2> QED BY <1>3, <2>1, SomeResult DEF Result
<1>6. IsResult(result', Len(nodes), ArgCount) /\ Held(result') = Held(result)
  BY <1>1, <1>4, <1>5 DEF IsResult, Held
<1>7. Top.at \notin Bottom /\ ~AwaitsRight(Top) /\ Top.at \notin {"sum", "product"}
  BY <1>1 DEF Bottom, AwaitsRight
<1> QED BY <1>1, <1>3, <1>4, <1>5, <1>6, <1>7, OnReturn

LEMMA OnNegativeInt ==
  ASSUME IInv, NegativeInt
  PROVE  StepOK
<1> DEFINE v == -result.node.num
<1>1. ~Stopped /\ Top.at = "signed" /\ result # Nothing /\ result.node.type = "INT"
  BY DEF NegativeInt, Returned
<1>2. Top \in Frame
  BY <1>1, StackInUse
<1>3. /\ frames' = Callers /\ UNCHANGED <<args, state, read, nodes>>
      /\ result' = Result(IntNode(v), Top.from, result.to)
  BY DEF NegativeInt, ReturnSigned
<1>4. result \in ResultRecord /\ result.node.num \in (-LONG_MAX)..LONG_MAX
  BY <1>1 DEF IInv, ResultOK, IsResult
<1>5. v \in (-LONG_MAX)..LONG_MAX
  BY <1>4, LongAssumption
<1>6. result.to \in Nat /\ Top.from \in Nat
  BY <1>2, <1>4 DEF ResultRecord, Frame
<1> HIDE DEF v
<1>7. IsResult(result', Len(nodes), ArgCount) /\ Held(result') = {}
  BY <1>3, <1>5, <1>6, IntResult
<1>8. Held(result) = {}
  BY <1>1 DEF Held, Children, BinaryTypes, AddSub, MulDiv
<1>9. result' # Nothing /\ IsPlain(result'.node, nodes)
  <2>1. IntNode(v) \in NodeRecord
    BY <1>5, LongAssumption DEF IntNode, NodeRecord, NodeTypes
  <2>2. result' # Nothing /\ result'.node = IntNode(v)
    BY <1>3, <1>6, <2>1, SomeResult DEF Result
  <2> QED BY <2>2 DEF IsPlain, IntNode
<1>10. Top.at \notin Bottom /\ ~AwaitsRight(Top) /\ Top.at \notin {"sum", "product"}
  BY <1>1 DEF Bottom, AwaitsRight
<1> QED BY <1>1, <1>3, <1>7, <1>8, <1>9, <1>10, OnReturn

LEMMA OnNoOperator ==
  ASSUME IInv, NEW level \in {"sum", "product"}, NoOperator(level)
  PROVE  StepOK
<1>1. ~Stopped /\ Top.at = level /\ result # Nothing /\ state = "READY"
  BY DEF NoOperator, Returned
<1>2. frames' = Callers /\ UNCHANGED <<args, state, read, nodes, result>>
  BY DEF NoOperator
<1>3. /\ IsResult(result', Len(nodes), ArgCount) /\ Held(result') = Held(result)
      /\ IsPlain(result'.node, nodes)
  BY <1>1, <1>2 DEF IInv, ResultOK
<1>4. Top.at \notin Bottom /\ ~AwaitsRight(Top)
  BY <1>1 DEF Bottom, AwaitsRight
<1> QED BY <1>1, <1>2, <1>3, <1>4, OnReturn

LEMMA OnCloseParen ==
  ASSUME IInv, CloseParen
  PROVE  StepOK
<1>1. ~Stopped /\ Top.at = "paren" /\ result # Nothing
  BY DEF CloseParen, Returned
<1>2. frames' = Callers /\ UNCHANGED <<args, read, nodes, result>> /\ state' = "PENDING"
  BY DEF CloseParen, Consume
<1>3. /\ IsResult(result', Len(nodes), ArgCount) /\ Held(result') = Held(result)
      /\ IsPlain(result'.node, nodes)
  BY <1>1, <1>2 DEF IInv, ResultOK
<1>4. Top.at \notin Bottom /\ ~AwaitsRight(Top) /\ Top.at \notin {"sum", "product"}
  BY <1>1 DEF Bottom, AwaitsRight
<1> QED BY <1>1, <1>2, <1>3, <1>4, OnReturn

LEMMA OnNegation ==
  ASSUME IInv, Negation
  PROVE  StepOK
<1> DEFINE n == Len(nodes)
<1>1. ~Stopped /\ Top.at = "signed" /\ result # Nothing /\ result.node.type # "INT"
  BY DEF Negation, Returned
<1>2. IsStack(frames) /\ Top = Last(frames) /\ Top \in Frame /\ frames # <<>>
  BY <1>1, StackInUse DEF IsStack
<1>3. /\ frames' = Callers /\ UNCHANGED <<args, state, read>>
      /\ nodes' = Append(nodes, result.node)
      /\ result' = Result(InvNode(n + 1), Top.from, result.to)
  BY DEF Negation, ReturnSigned
<1>4. n \in Nat /\ nodes'[n + 1] = result.node
  BY <1>1, <1>3, NodesGrow
<1>5. result \in ResultRecord
  BY <1>1 DEF IInv, ResultOK, IsResult
<1>6. result.to \in Nat /\ Top.from \in Nat
  BY <1>2, <1>5 DEF ResultRecord, Frame
<1>7. n + 1 \in Nat /\ n + 1 \in 1..(n + 1)
  BY <1>4
<1>8. IsResult(result', n + 1, ArgCount) /\ Held(result') = {n + 1}
  BY <1>3, <1>6, <1>7, InvResult
<1>9. IsPlain(result'.node, nodes')
  <2>1. result'.node = InvNode(n + 1)
    BY <1>3 DEF Result
  <2>2. result'.node.type = "INV" /\ result'.node.left = n + 1
    BY <2>1 DEF InvNode
  <2> QED BY <1>1, <1>4, <2>2 DEF IsPlain
<1>10. /\ IsStack(frames') /\ Calling(Last(frames').at, "signed")
       /\ OpenLefts(frames') = OpenLefts(frames)
  BY <1>1, <1>3, PopPlain DEF Bottom, AwaitsRight
<1>11. OpenLefts(frames) \subseteq 1..n /\ n + 1 \notin 1..n
  BY <1>4 DEF IInv, StackOK
<1>12. Held(result') \cap OpenLefts(frames') = {}
  BY <1>8, <1>10, <1>11
<1>13. TokensOK' /\ state' # "DONE"
  BY <1>1, <1>3, TokensStay
<1>14. ~Ended' /\ PastALoop'
  BY <1>10 DEF Ended, IsStack, PastALoop, Calling
<1> HIDE DEF n
<1> QED
  BY <1>1, <1>3, <1>8, <1>9, <1>10, <1>12, <1>13, <1>14, AppendStep DEF StepOK, n

LEMMA OnOperator ==
  ASSUME IInv, NEW level \in {"sum", "product"}, Operator(level)
  PROVE  StepOK
<1> DEFINE n == Len(nodes)
           f == [Call(RightOf(level)) EXCEPT !.left = n + 1, !.op = token.type,
                                             !.from = Len(read), !.to = Len(read)]
<1>1. /\ ~Stopped /\ Top.at = level /\ result # Nothing
      /\ token.type \in Operators[level]
  BY DEF Operator, Returned, Sees
<1>2. /\ frames' = (Callers \o <<f>>) \o CallOperand(level)
      /\ UNCHANGED <<args, read>> /\ state' = "PENDING"
      /\ nodes' = Append(nodes, result.node) /\ result' = Nothing
  BY DEF Operator, Consume
<1>3. n \in Nat
  BY <1>1, <1>2, NodesGrow
<1>4. token.type \in BinaryTypes /\ Len(read) \in Nat /\ n + 1 \in Nat
  BY <1>1, <1>3, TokensRead DEF Operators, BinaryTypes, AddSub, MulDiv
<1>5. f \in Frame /\ f.at = RightOf(level) /\ f.left = n + 1
  BY <1>4 DEF Call, Frame, Calls, RightOf
<1>6. LeftOf(f) = {n + 1}
  BY <1>5 DEF LeftOf, AwaitsRight, RightOf
<1> HIDE DEF f
<1>7. /\ IsStack(Callers) /\ Calling(Last(Callers).at, level)
      /\ OpenLefts(Callers) = OpenLefts(frames)
  BY <1>1, PopPlain DEF Bottom, AwaitsRight
<1>8. OpenLefts(frames) \subseteq 1..n /\ n + 1 \notin 1..n
  BY <1>3 DEF IInv, StackOK
<1>9. Calling(Last(Callers).at, f.at)
  BY <1>5, <1>7 DEF Calling, RightOf
<1>10. /\ IsStack(Callers \o <<f>>) /\ Last(Callers \o <<f>>) = f
       /\ OpenLefts(Callers \o <<f>>) = OpenLefts(frames) \cup {n + 1}
  <2>1. LeftOf(f) \cap OpenLefts(Callers) = {}
    BY <1>6, <1>7, <1>8
  <2>2. Callers \o <<f>> = Append(Callers, f)
    BY <1>5, <1>7, Concat DEF IsStack
  <2>3. /\ IsStack(Append(Callers, f)) /\ Last(Append(Callers, f)) = f
        /\ OpenLefts(Append(Callers, f)) = OpenLefts(Callers) \cup LeftOf(f)
    BY <1>5, <1>7, <1>9, <2>1, Push
  <2> QED BY <1>6, <1>7, <2>2, <2>3
<1>11. /\ IsStack(frames') /\ Last(frames').at = "signed"
       /\ OpenLefts(frames') = OpenLefts(frames) \cup {n + 1}
  <2>1. CASE level = "sum"
    <3>1. f.at = "sum right" /\ frames' = (Callers \o <<f>>) \o CallProduct
      BY <1>2, <1>5, <2>1 DEF RightOf, CallOperand
    <3> QED BY <1>10, <3>1, PushProduct
  <2>2. CASE level = "product"
    <3>1. f.at = "product right" /\ frames' = (Callers \o <<f>>) \o CallSigned
      BY <1>2, <1>5, <2>2 DEF RightOf, CallOperand
    <3> QED BY <1>10, <3>1, PushSigned
  <2> QED BY <2>1, <2>2
<1>12. TokensOK' /\ state' # "DONE"
  BY <1>1, <1>2, TokensStay
<1>13. ~Ended' /\ PastALoop'
  BY <1>11 DEF Ended, IsStack, PastALoop
<1>14. IsResult(result', n + 1, ArgCount) /\ Held(result') = {}
  BY <1>2 DEF IsResult, Held
<1> HIDE DEF n
<1> QED
  BY <1>1, <1>2, <1>11, <1>12, <1>13, <1>14, AppendStep DEF StepOK, n

LEMMA OnRightOperand ==
  ASSUME IInv, NEW level \in {"sum", "product"}, RightOperand(level)
  PROVE  StepOK
<1> DEFINE n == Len(nodes)
           f == Call(level)
<1>1. ~Stopped /\ Top.at = RightOf(level) /\ result # Nothing /\ ~DividesByZero
  BY DEF RightOperand, Returned
<1>2. IsStack(frames) /\ Top = Last(frames) /\ Top \in Frame /\ Callers = Below(frames)
  BY <1>1, StackInUse
<1>3. /\ frames' = Callers \o <<f>>
      /\ UNCHANGED <<args, read, state>>
      /\ nodes' = Append(nodes, result.node)
      /\ result' = Result(BinaryNode(Top.op, Top.left, n + 1), Top.from, Top.to)
  BY DEF RightOperand
<1>4. /\ n \in Nat /\ nodes'[n + 1] = result.node
      /\ \A i \in 1..n : nodes'[i] = nodes[i]
  BY <1>1, <1>3, NodesGrow
<1>5. Top.op \in BinaryTypes /\ Top.from \in Nat /\ Top.to \in Nat
  BY <1>2 DEF Frame
<1>6. LeftOf(Top) = {Top.left} /\ Top.at \notin Bottom
  BY <1>1 DEF LeftOf, AwaitsRight, RightOf, Bottom
<1>7. /\ IsStack(Callers) /\ Calling(Last(Callers).at, Top.at)
      /\ OpenLefts(Callers) = OpenLefts(frames) \ {Top.left}
      /\ Top.left \in OpenLefts(frames)
  BY <1>2, <1>6, Pop
<1>8. OpenLefts(frames) \subseteq 1..n /\ n + 1 \notin 1..n
  BY <1>4 DEF IInv, StackOK
<1>9. /\ Top.left \in 1..n /\ Top.left # n + 1 /\ n + 1 \in Nat
      /\ Top.left \in 1..(n + 1) /\ n + 1 \in 1..(n + 1)
  BY <1>4, <1>7, <1>8
<1>10. IsResult(result', n + 1, ArgCount) /\ Held(result') = {Top.left, n + 1}
  <2> DEFINE r == Result(BinaryNode(Top.op, Top.left, n + 1), Top.from, Top.to)
  <2>1. IsResult(r, n + 1, ArgCount) /\ Held(r) = {Top.left, n + 1}
    <3> DEFINE m == n + 1
               op == Top.op
               left == Top.left
               from == Top.from
               to == Top.to
    <3>1. /\ m \in Nat /\ left \in 1..m /\ m \in 1..m /\ left # m
          /\ op \in BinaryTypes /\ from \in Nat /\ to \in Nat
      BY <1>5, <1>9
    <3> HIDE DEF m, op, left, from, to
    <3>2. /\ IsResult(Result(BinaryNode(op, left, m), from, to), m, ArgCount)
          /\ Held(Result(BinaryNode(op, left, m), from, to)) = {left, m}
      BY <3>1, BinaryResult
    <3> QED BY <3>2 DEF m, op, left, from, to
  <2>2. result' = r
    BY <1>3
  <2> QED BY <2>1, <2>2
<1>11. f \in Frame /\ f.at = level
  BY CallsAre DEF Calls
<1> HIDE DEF f
<1>12. ~AwaitsRight(f) /\ Calling(Last(Callers).at, f.at)
  BY <1>1, <1>7, <1>11 DEF AwaitsRight, Calling, RightOf
<1>13. /\ IsStack(frames') /\ Last(frames') = f
       /\ OpenLefts(frames') = OpenLefts(frames) \ {Top.left}
  BY <1>3, <1>7, <1>11, <1>12, PushPlain
<1>14. /\ Held(result') \cap OpenLefts(frames') = {}
       /\ OpenLefts(frames') \cup Held(result') = OpenLefts(frames) \cup {n + 1}
  BY <1>7, <1>8, <1>10, <1>13
<1>15. IsPlain(result'.node, nodes')
  <2>1. result'.node = BinaryNode(Top.op, Top.left, n + 1)
    BY <1>3 DEF Result
  <2>2. result'.node.type = Top.op /\ result'.node.right = n + 1 /\ Top.op # "INV"
    BY <1>5, <2>1 DEF BinaryNode, BinaryTypes, AddSub, MulDiv
  <2> QED BY <1>1, <1>4, <2>2 DEF IsPlain, DividesByZero
<1>16. TokensOK' /\ state' # "DONE"
  BY <1>1, <1>3, TokensStay
<1>17. ~Ended'
  BY <1>11, <1>13 DEF Ended, IsStack
<1>18. PastALoop'
  <2>1. CASE level = "sum"
    <3>1. state # "PENDING"
      BY <1>1, <1>2, <2>1 DEF IInv, ControlOK, PastALoop, RightOf
    <3> QED BY <1>3, <3>1 DEF PastALoop
  <2>2. CASE level = "product"
    BY <1>11, <1>13, <2>2 DEF PastALoop
  <2> QED BY <2>1, <2>2
<1> HIDE DEF n
<1> QED
  BY <1>1, <1>3, <1>10, <1>13, <1>14, <1>15, <1>16, <1>17, <1>18, AppendStep DEF StepOK, n

LEMMA OnAppendRoot ==
  ASSUME IInv, AppendRoot
  PROVE  StepOK
<1>1. ~Stopped /\ Top.at = "expr" /\ result # Nothing
  BY DEF AppendRoot, Returned
<1>2. IsStack(frames) /\ Last(frames).at = "expr"
  BY <1>1, StackInUse
<1>3. OpenLefts(frames) = {}
  BY <1>2, Alone DEF Bottom
<1>4. /\ frames' = <<Call("end")>> /\ UNCHANGED <<args, state, read>>
      /\ nodes' = Append(nodes, result.node) /\ result' = Nothing
  BY DEF AppendRoot
<1>5. IsStack(frames') /\ Last(frames').at = "end" /\ OpenLefts(frames') = {}
  <2>1. Call("end") \in Frame /\ Call("end").at = "end"
    BY CallsAre DEF Calls
  <2> QED BY <1>4, <2>1, Single DEF Bottom
<1>6. Ended' /\ PastALoop'
  BY <1>5 DEF Ended, PastALoop
<1>7. IsResult(result', Len(nodes) + 1, ArgCount) /\ Held(result') = {}
  BY <1>4 DEF IsResult, Held
<1>8. TokensOK' /\ state' # "DONE"
  BY <1>1, <1>4, TokensStay
<1> QED BY <1>1, <1>3, <1>4, <1>5, <1>6, <1>7, <1>8, AppendStep DEF StepOK

LEMMA OnFinish ==
  ASSUME IInv, Finish
  PROVE  StepOK
<1>1. ~Stopped /\ Top.at = "end" /\ result = Nothing
  BY DEF Finish, Running
<1>2. IsStack(frames) /\ Last(frames).at = "end" /\ Top = Last(frames)
  BY <1>1, StackInUse
<1>3. state' = "DONE" /\ frames' = <<>> /\ UNCHANGED <<args, read, nodes, result>>
  BY DEF Finish
<1>4. OpenLefts(frames) = {} /\ Ended /\ nodes # <<>>
  BY <1>2 DEF Ended, IInv, ControlOK
<1>5. OpenLefts(frames') = {} /\ ArgCount' = ArgCount
  BY <1>3, NoLefts DEF ArgCount
<1>6. IInv'
  BY <1>1, <1>3, <1>4, <1>5
  DEF IInv, TokensOK, NodesOK, StackOK, ResultOK, ControlOK, Ended, PastALoop, Held
<1>7. PendingRoots' = PendingRoots
  BY <1>1, <1>3, <1>4, <1>5 DEF PendingRoots, Root
<1> QED BY <1>3, <1>5, <1>6, <1>7 DEF StepOK, AsForest!vars

-----------------------------------------------------------------------------
(***************************************************************************)
(* The theorems                                                            *)
(***************************************************************************)
LEMMA InitOK ==
  ASSUME Init
  PROVE  IInv /\ AsForest!Init
<1>1. args \in Seq(Names) /\ ArgCount \in Nat
  BY ParserAssumption DEF Init, ArgCount
<1>2. Call("arguments") \in Frame /\ Call("arguments").at = "arguments"
  BY CallsAre DEF Calls
<1>3. frames = <<Call("arguments")>> /\ nodes = <<>> /\ result = Nothing
      /\ state = "PENDING" /\ read = <<>>
  BY DEF Init
<1>4. /\ IsStack(frames) /\ Last(frames).at = "arguments" /\ OpenLefts(frames) = {}
  BY <1>2, <1>3, Single DEF Bottom
<1>5. ~Ended /\ frames # <<>>
  BY <1>4 DEF Ended, IsStack
<1>6. nodes \in Seq(NodeRecord) /\ DOMAIN nodes = {}
  BY <1>3
<1>7. TokensOK /\ NodesOK
  BY <1>1, <1>3, <1>6 DEF TokensOK, NodesOK, IsAst
<1>8. StackOK /\ ResultOK /\ ControlOK
  BY <1>3, <1>4, <1>5 DEF StackOK, ResultOK, ControlOK, PastALoop, IsResult, Held
<1>9. PendingRoots = {}
  BY <1>3, <1>4, <1>5, RootsAre DEF Held
<1> QED BY <1>1, <1>3, <1>7, <1>8, <1>9 DEF IInv, AsForest!Init

LEMMA NextOK ==
  ASSUME IInv, Next
  PROVE  StepOK
<1>1. ASSUME ~Stopped, \E code, from, to : Fail(code, from, to) PROVE StepOK
  BY <1>1, FailStep DEF StepOK
<1>2. CASE BadArg
  BY <1>1, <1>2 DEF BadArg, Running
<1>3. CASE PeekFails
  BY <1>1, <1>3 DEF PeekFails, Peeks, Running, Returned
<1>4. CASE UndefinedVariable
  BY <1>1, <1>4 DEF UndefinedVariable, Running
<1>5. CASE IllegalAtom
  BY <1>1, <1>5 DEF IllegalAtom, Running
<1>6. CASE NegativeIntRefused
  BY <1>1, <1>6 DEF NegativeIntRefused, Returned
<1>7. CASE DivisionByZero
  BY <1>1, <1>7 DEF DivisionByZero, Returned
<1>8. CASE ExpectedCloseParen
  BY <1>1, <1>8 DEF ExpectedCloseParen, Returned
<1>9. CASE TrailingToken
  BY <1>1, <1>9 DEF TrailingToken, Running
<1>10. CASE AppendFails
  BY <1>1, <1>10 DEF AppendFails, Appends, Returned
<1>11. CASE \E level \in DOMAIN Operators :
              Operator(level) \/ NoOperator(level) \/ RightOperand(level)
  <2>1. PICK level \in {"sum", "product"} :
          Operator(level) \/ NoOperator(level) \/ RightOperand(level)
    BY <1>11 DEF Operators
  <2> QED BY <2>1, OnOperator, OnNoOperator, OnRightOperand
<1>12. CASE Terminated
  <2>1. UNCHANGED vars
    BY <1>12 DEF Terminated
  <2>2. IInv'
    BY <2>1 DEF vars, IInv, TokensOK, NodesOK, StackOK, ResultOK, ControlOK, Ended,
                PastALoop, ArgCount
  <2>3. UNCHANGED AsForest!vars
    BY <2>1 DEF vars, AsForest!vars, ArgCount, PendingRoots, Top
  <2> QED BY <2>2, <2>3 DEF StepOK
<1> QED
  BY <1>2, <1>3, <1>4, <1>5, <1>6, <1>7, <1>8, <1>9, <1>10, <1>11, <1>12,
     OnStartParsing, OnPeek, OnSign, OnAtomInt, OnAtomVar, OnOpenParen, OnPositive,
     OnNegativeInt, OnNegation, OnCloseParen, OnAppendRoot, OnFinish
  DEF Next, Descend

LEMMA StaysOK ==
  ASSUME IInv, [Next]_vars
  PROVE  StepOK
<1>1. CASE Next
  BY <1>1, NextOK
<1>2. CASE UNCHANGED vars
  <2>1. IInv'
    BY <1>2 DEF vars, IInv, TokensOK, NodesOK, StackOK, ResultOK, ControlOK, Ended,
                PastALoop, ArgCount
  <2>2. UNCHANGED AsForest!vars
    BY <1>2 DEF vars, AsForest!vars, ArgCount, PendingRoots, Top
  <2> QED BY <2>1, <2>2 DEF StepOK
<1> QED BY <1>1, <1>2

\* The parser's state keeps to its types.
THEOREM KeepsTypes == Spec => []TypeOK
<1>1. Init => IInv
  BY InitOK
<1>2. IInv /\ [Next]_vars => IInv'
  BY StaysOK DEF StepOK
<1>3. IInv => TypeOK
  <2> SUFFICES ASSUME IInv PROVE TypeOK
    OBVIOUS
  <2>1. frames \in Seq(Frame)
    <3>1. <<>> \in Seq(Frame)
      OBVIOUS
    <3> QED BY <3>1 DEF IInv, StackOK, IsStack
  <2>2. result # Nothing => result \in ResultRecord /\ IsNode(result.node, Len(nodes), ArgCount)
    BY DEF IInv, ResultOK, IsResult
  <2>3. /\ args \in Seq(Names) /\ state \in {"PENDING", "READY", "DONE", "ERROR"}
        /\ read \in Seq(Tokens \cup {Eof})
        /\ nodes \in Seq(NodeRecord) /\ IsAst(nodes, ArgCount)
    BY DEF IInv, TokensOK, NodesOK
  <2> QED BY <2>1, <2>2, <2>3 DEF TypeOK, ResultRecord
<1> QED BY <1>1, <1>2, <1>3, PTL DEF Spec

\* parse_paren looks at a token that has been read and not been consumed.
THEOREM ParenHasToken == Spec => []TokenInHand
<1>1. Init => IInv
  BY InitOK
<1>2. IInv /\ [Next]_vars => IInv'
  BY StaysOK DEF StepOK
<1>3. IInv => TokenInHand
  <2> SUFFICES ASSUME IInv, Returned("paren") PROVE state = "READY"
    BY DEF TokenInHand
  <2>1. ~Stopped /\ result # Nothing /\ Top.at = "paren"
    BY DEF Returned
  <2>2. Last(frames).at = "paren"
    BY <2>1, StackInUse
  <2> QED BY <2>1, <2>2 DEF IInv, TokensOK, ControlOK, PastALoop, Stopped
<1> QED BY <1>1, <1>2, <1>3, PTL DEF Spec

\* parse_add_sub, parse_mul_div, parse_signed and parse_expr together append
\* nodes after their children, and none as a child of two.
THEOREM ImplementsForest == Spec => BuildsAForest
<1>1. Init => IInv /\ AsForest!Init
  BY InitOK
<1>2. IInv /\ [Next]_vars => IInv' /\ [AsForest!Next]_(AsForest!vars)
  BY StaysOK DEF StepOK
<1> QED BY <1>1, <1>2, PTL DEF Spec, BuildsAForest, AsForest!Spec

-----------------------------------------------------------------------------
(***************************************************************************)
(* What every behaviour of Forest comes to: appending nodes after their    *)
(* children builds a forest                                                *)
(***************************************************************************)
\* What AppendNode is used for: a node whose children are two different
\* roots, or one, or none.
JoinsRoots(node) ==
  /\ node \in AsForest!NodeRecord
  /\ AsForest!IsNode(node, Len(nodes), ArgCount)
  /\ AsForest!Children(node) \subseteq PendingRoots
  /\ node.type \in AsForest!BinaryTypes => node.left # node.right

\* A node of an array is a node of every longer array.
LEMMA ForestNodeGrows ==
  ASSUME NEW node, NEW n \in Nat, NEW m \in Nat, n <= m, NEW argc,
         AsForest!IsNode(node, n, argc)
  PROVE  AsForest!IsNode(node, m, argc)
<1>1. 1..n \subseteq 1..m
  BY SMT
<1> QED BY <1>1 DEF AsForest!IsNode

\* The steps of the specification append only such nodes.
LEMMA NextJoinsRoots ==
  ASSUME AsForest!TypeOK, AsForest!Next
  PROVE  \E node : JoinsRoots(node) /\ AsForest!AppendNode(node)
<1>1. Len(nodes) \in Nat /\ PendingRoots \subseteq 1..Len(nodes)
  BY DEF AsForest!TypeOK
<1>2. LONG_MAX \in Nat /\ AsForest!Long \subseteq Int
  BY LongAssumption, SMT DEF AsForest!Long, AsForest!LONG_MIN
<1>3. ASSUME NEW value \in AsForest!Long, AsForest!AppendNode(AsForest!IntNode(value))
      PROVE  \E node : JoinsRoots(node) /\ AsForest!AppendNode(node)
  <2>1. JoinsRoots(AsForest!IntNode(value))
    BY <1>2, <1>3
    DEF JoinsRoots, AsForest!NodeRecord, AsForest!IsNode, AsForest!IntNode,
        AsForest!Children, AsForest!NodeTypes, AsForest!BinaryTypes, AsForest!AddSub,
        AsForest!MulDiv
  <2> QED BY <1>3, <2>1
<1>4. ASSUME NEW arg \in 1..ArgCount, AsForest!AppendNode(AsForest!VarNode(arg))
      PROVE  \E node : JoinsRoots(node) /\ AsForest!AppendNode(node)
  <2>1. JoinsRoots(AsForest!VarNode(arg))
    BY <1>4
    DEF AsForest!TypeOK, JoinsRoots, AsForest!NodeRecord, AsForest!IsNode, AsForest!VarNode,
        AsForest!Children, AsForest!NodeTypes, AsForest!BinaryTypes, AsForest!AddSub,
        AsForest!MulDiv
  <2> QED BY <1>4, <2>1
<1>5. ASSUME NEW child \in PendingRoots, AsForest!AppendNode(AsForest!InvNode(child))
      PROVE  \E node : JoinsRoots(node) /\ AsForest!AppendNode(node)
  <2>1. JoinsRoots(AsForest!InvNode(child))
    BY <1>1, <1>5
    DEF JoinsRoots, AsForest!NodeRecord, AsForest!IsNode, AsForest!InvNode,
        AsForest!Children, AsForest!NodeTypes, AsForest!BinaryTypes, AsForest!AddSub,
        AsForest!MulDiv
  <2> QED BY <1>5, <2>1
<1>6. ASSUME NEW type \in AsForest!BinaryTypes,
             NEW left \in PendingRoots, NEW right \in PendingRoots, left # right,
             AsForest!AppendNode(AsForest!BinaryNode(type, left, right))
      PROVE  \E node : JoinsRoots(node) /\ AsForest!AppendNode(node)
  <2>1. JoinsRoots(AsForest!BinaryNode(type, left, right))
    BY <1>1, <1>6
    DEF JoinsRoots, AsForest!NodeRecord, AsForest!IsNode, AsForest!BinaryNode,
        AsForest!Children, AsForest!NodeTypes
  <2> QED BY <1>6, <2>1
<1> QED BY <1>3, <1>4, <1>5, <1>6 DEF AsForest!Next

LEMMA ForestTypes ==
  ASSUME AsForest!TypeOK, NEW node, JoinsRoots(node), AsForest!AppendNode(node)
  PROVE  AsForest!TypeOK'
<1> DEFINE n == Len(nodes)
<1>1. /\ n \in Nat /\ nodes \in Seq(AsForest!NodeRecord) /\ node \in AsForest!NodeRecord
      /\ nodes' = Append(nodes, node)
  BY DEF AsForest!TypeOK, JoinsRoots, AsForest!AppendNode
<1>2. /\ nodes' \in Seq(AsForest!NodeRecord) /\ Len(nodes') = n + 1
      /\ nodes'[n + 1] = node
      /\ \A i \in 1..n : nodes'[i] = nodes[i]
  BY <1>1
<1>3. DOMAIN nodes' = 1..(n + 1) /\ DOMAIN nodes = 1..n
  BY <1>1, <1>2
<1>4. AsForest!IsAst(nodes', ArgCount')
  <2>1. AsForest!IsNode(node, n + 1, ArgCount)
    BY <1>1, ForestNodeGrows DEF JoinsRoots
  <2>2. ASSUME NEW i \in 1..n PROVE AsForest!IsNode(nodes[i], n + 1, ArgCount)
    <3>1. AsForest!IsNode(nodes[i], n, ArgCount)
      BY <1>3 DEF AsForest!TypeOK, AsForest!IsAst
    <3>2. n + 1 \in Nat /\ n <= n + 1
      BY <1>1
    <3> QED BY <1>1, <3>1, <3>2, ForestNodeGrows
  <2> QED BY <1>2, <1>3, <2>1, <2>2 DEF AsForest!IsAst, AsForest!AppendNode
<1>5. PendingRoots' \subseteq DOMAIN nodes'
  BY <1>1, <1>3 DEF AsForest!TypeOK, AsForest!AppendNode
<1> QED BY <1>2, <1>4, <1>5 DEF AsForest!TypeOK, AsForest!NodeRecord, AsForest!AppendNode

LEMMA ForestShape ==
  ASSUME AsForest!TypeOK, AsForest!ForestShaped,
         NEW node, JoinsRoots(node), AsForest!AppendNode(node)
  PROVE  AsForest!ForestShaped'
<1> DEFINE n == Len(nodes)
<1>1. /\ n \in Nat /\ nodes \in Seq(AsForest!NodeRecord)
      /\ nodes' = Append(nodes, node)
  BY DEF AsForest!TypeOK, JoinsRoots, AsForest!AppendNode
<1>2. /\ DOMAIN nodes = 1..n /\ DOMAIN nodes' = 1..(n + 1)
      /\ nodes'[n + 1] = node
      /\ \A i \in 1..n : nodes'[i] = nodes[i]
  BY <1>1
<1>3. AsForest!Children(node) \subseteq PendingRoots /\ PendingRoots \subseteq 1..n
  BY <1>2 DEF JoinsRoots, AsForest!TypeOK
<1>4. AsForest!ChildBeforeParent(nodes')
  <2> SUFFICES ASSUME NEW i \in 1..(n + 1), NEW c \in AsForest!Children(nodes'[i])
               PROVE  c \in 1..(i - 1)
    BY <1>2 DEF AsForest!ChildBeforeParent
  <2>1. CASE i = n + 1
    <3>1. c \in 1..n
      BY <1>2, <1>3, <2>1
    <3> QED BY <1>1, <2>1, <3>1
  <2>2. CASE i # n + 1
    <3>1. i \in 1..n
      BY <1>1, <2>2
    <3> QED BY <1>2, <3>1 DEF AsForest!ForestShaped, AsForest!ChildBeforeParent
  <2> QED BY <2>1, <2>2
<1>5. \A i \in DOMAIN nodes' :
        nodes'[i].type \in AsForest!BinaryTypes => nodes'[i].left # nodes'[i].right
  BY <1>1, <1>2 DEF AsForest!ForestShaped, JoinsRoots
<1>6. ASSUME NEW i \in 1..n PROVE AsForest!Children(nodes[i]) \cap AsForest!Children(node) = {}
  BY <1>2, <1>3 DEF AsForest!ForestShaped
<1>7. \A i, j \in DOMAIN nodes' :
        i # j => AsForest!Children(nodes'[i]) \cap AsForest!Children(nodes'[j]) = {}
  <2> SUFFICES ASSUME NEW i \in 1..(n + 1), NEW j \in 1..(n + 1), i # j
               PROVE  AsForest!Children(nodes'[i]) \cap AsForest!Children(nodes'[j]) = {}
    BY <1>2
  <2>1. CASE i \in 1..n /\ j \in 1..n
    BY <1>2, <2>1 DEF AsForest!ForestShaped
  <2>2. CASE i = n + 1 /\ j \in 1..n
    BY <1>2, <1>6, <2>2
  <2>3. CASE i \in 1..n /\ j = n + 1
    BY <1>2, <1>6, <2>3
  <2>4. \A k \in 1..(n + 1) : k \in 1..n \/ k = n + 1
    BY <1>1
  <2> QED BY <2>1, <2>2, <2>3, <2>4
<1>8. UNION {AsForest!Children(nodes'[i]) : i \in DOMAIN nodes'} = DOMAIN nodes' \ PendingRoots'
  <2> DEFINE claimed == UNION {AsForest!Children(nodes[i]) : i \in 1..n}
  <2>1. UNION {AsForest!Children(nodes'[i]) : i \in DOMAIN nodes'}
          = claimed \cup AsForest!Children(node)
    <3>1. 1..(n + 1) = (1..n) \cup {n + 1}
      BY <1>1
    <3> QED BY <1>2, <3>1
  <2>2. claimed = (1..n) \ PendingRoots
    BY <1>2 DEF AsForest!ForestShaped
  <2>3. DOMAIN nodes' = (1..n) \cup {n + 1} /\ n + 1 \notin 1..n
    BY <1>1, <1>2
  <2>4. PendingRoots' = (PendingRoots \ AsForest!Children(node)) \cup {n + 1}
    BY DEF AsForest!AppendNode
  <2> HIDE DEF claimed, n
  <2> QED BY <1>3, <2>1, <2>2, <2>3, <2>4
<1> QED BY <1>4, <1>5, <1>7, <1>8 DEF AsForest!ForestShaped

LEMMA ForestGrows ==
  ASSUME AsForest!TypeOK, AsForest!ForestShaped, [AsForest!Next]_(AsForest!vars)
  PROVE  AsForest!TypeOK' /\ AsForest!ForestShaped'
<1>1. CASE AsForest!Next
  BY <1>1, NextJoinsRoots, ForestTypes, ForestShape
<1>2. CASE UNCHANGED AsForest!vars
  BY <1>2 DEF AsForest!vars, AsForest!TypeOK, AsForest!ForestShaped
<1> QED BY <1>1, <1>2

LEMMA ForestBegins == AsForest!Init => AsForest!TypeOK /\ AsForest!ForestShaped
  BY DEF
      AsForest!Init, AsForest!TypeOK, AsForest!ForestShaped, AsForest!IsAst,
      AsForest!ChildBeforeParent

\* Whatever appends nodes after their children, and none of them twice, has a
\* forest at every moment.
THEOREM IsForest == AsForest!Spec => [](AsForest!TypeOK /\ AsForest!ForestShaped)
<1>1. AsForest!TypeOK /\ AsForest!ForestShaped /\ [AsForest!Next]_(AsForest!vars)
        => (AsForest!TypeOK /\ AsForest!ForestShaped)'
  BY ForestGrows
<1> QED BY <1>1, ForestBegins, PTL DEF AsForest!Spec

\* A forest with one root, the last node, is what parse_slice promises.
THEOREM OneRootIsTree ==
  ASSUME AsForest!TypeOK, AsForest!ForestShaped, nodes # <<>>,
         PendingRoots = {AsForest!Root(nodes)}
  PROVE  AsForest!ParsedShape(nodes)
<1>1. Len(nodes) \in Nat /\ DOMAIN nodes = 1..Len(nodes)
  BY DEF AsForest!TypeOK
<1>2. (1..Len(nodes)) \ {Len(nodes)} = 1..(Len(nodes) - 1)
  BY <1>1
<1> QED BY <1>1, <1>2
    DEF AsForest!ForestShaped, AsForest!ParsedShape, AsForest!OneParent, AsForest!Root

LEMMA SameShape ==
  ASSUME AsForest!ParsedShape(nodes)
  PROVE  ParsedShape(nodes)
<1>1. AsForest!ChildBeforeParent(nodes) => ChildBeforeParent(nodes)
  BY SameNodes DEF AsForest!ChildBeforeParent, ChildBeforeParent
<1>2. AsForest!OneParent(nodes) => OneParent(nodes)
  <2>1. UNION {AsForest!Children(nodes[i]) : i \in DOMAIN nodes}
          = UNION {Children(nodes[i]) : i \in DOMAIN nodes}
    BY SameNodes
  <2> QED BY <2>1, SameNodes DEF AsForest!OneParent, OneParent
<1> QED BY <1>1, <1>2 DEF AsForest!ParsedShape, ParsedShape

\* The parser's invariant, and that of the forest that it builds.
Whole == IInv /\ AsForest!TypeOK /\ AsForest!ForestShaped

LEMMA WholeAtFirst == Init => Whole
  BY InitOK, ForestBegins DEF Whole

LEMMA StaysWhole == Whole /\ [Next]_vars => Whole'
  BY StaysOK, ForestGrows DEF StepOK, Whole

LEMMA WholeParses == Whole => ParsesToATree
<1> SUFFICES ASSUME IInv, AsForest!TypeOK, AsForest!ForestShaped, state = "DONE"
             PROVE  /\ ParsedShape(nodes)
                    /\ \A i \in DOMAIN nodes :
                         /\ nodes[i].type = "INV" => nodes[nodes[i].left].type # "INT"
                         /\ nodes[i].type = "DIV" =>
                              ~(nodes[nodes[i].right].type = "INT" /\ nodes[nodes[i].right].num = 0)
  BY DEF ParsesToATree, Whole
<1>1. frames = <<>> /\ result = Nothing /\ nodes # <<>> /\ OpenLefts(frames) = {}
  BY DEF IInv, ControlOK, Ended
<1>2. PendingRoots = {AsForest!Root(nodes)}
  BY <1>1 DEF PendingRoots, Root, AsForest!Root
<1>3. AsForest!ParsedShape(nodes)
  BY <1>1, <1>2, OneRootIsTree
<1>4. ParsedShape(nodes)
  BY <1>3, SameShape
<1> QED BY <1>4 DEF IInv, NodesOK, IsPlain

\* The tree that is returned is in the form that optimize() and
\* bytecode_compile() are given.
THEOREM ParsesTree == Spec => []ParsesToATree
BY WholeAtFirst, StaysWhole, WholeParses, PTL DEF Spec

\* The parser has stopped with an error exactly if parser->error says which.
ErrorIsSet == state = "ERROR" <=> error.code # "NONE"

LEMMA ErrorAtFirst == Init => ErrorIsSet
  BY DEF Init, ErrorIsSet

\* No step touches the argument names, or stops with an error that has no code.
LEMMA StepsAndErrors ==
  ASSUME [Next]_vars
  PROVE  args' = args /\ (ErrorIsSet => ErrorIsSet')
<1> DEFINE Good == args' = args /\ (ErrorIsSet => ErrorIsSet')
<1>1. ASSUME NEW code, NEW from, NEW to, Fail(code, from, to), code # "NONE" PROVE Good
  <2>1. state' = "ERROR" /\ error'.code = code /\ args' = args
    BY <1>1 DEF Fail
  <2> QED BY <1>1, <2>1 DEF ErrorIsSet
<1>2. ASSUME args' = args, error' = error, state' = state \/ (~Stopped /\ state' # "ERROR")
      PROVE  Good
  BY <1>2 DEF ErrorIsSet, Stopped
<1>3. CASE BadArg \/ PeekFails
  BY <1>1, <1>3 DEF BadArg, PeekFails
<1>4. CASE UndefinedVariable \/ IllegalAtom \/ NegativeIntRefused \/ DivisionByZero
  BY <1>1, <1>4 DEF UndefinedVariable, IllegalAtom, NegativeIntRefused, DivisionByZero
<1>5. CASE ExpectedCloseParen \/ TrailingToken \/ AppendFails
  BY <1>1, <1>5 DEF ExpectedCloseParen, TrailingToken, AppendFails
<1>6. CASE Peek \/ StartParsing \/ Sign \/ AtomInt \/ AtomVar \/ OpenParen
  BY <1>2, <1>6 DEF Peek, Peeks, StartParsing, Sign, AtomInt, AtomVar, OpenParen, ReturnAtom,
                    Consume, Running, Returned
<1>7. CASE Positive \/ NegativeInt \/ Negation \/ CloseParen \/ AppendRoot \/ Finish
  BY <1>2, <1>7 DEF Positive, NegativeInt, Negation, CloseParen, AppendRoot, Finish, ReturnSigned,
                    Consume, Running, Returned
<1>8. ASSUME NEW level \in DOMAIN Operators,
             Operator(level) \/ NoOperator(level) \/ RightOperand(level)
      PROVE  Good
  BY <1>2, <1>8 DEF Operator, NoOperator, RightOperand, Consume, Returned
<1>9. CASE Terminated \/ UNCHANGED vars
  BY <1>2, <1>9 DEF Terminated, vars
<1> QED BY <1>3, <1>4, <1>5, <1>6, <1>7, <1>8, <1>9 DEF Next, Descend

-----------------------------------------------------------------------------
(***************************************************************************)
(* Source ranges                                                           *)
(*                                                                         *)
(* A call that is in progress has kept the start of a token that has been  *)
(* read, or of the one that will be read next; and a node has its range    *)
(* behind the starts that its callers have kept.                           *)
(***************************************************************************)

\* The number of the last token that a call may have kept the start of.
Reach == IF state = "READY" THEN Len(read) ELSE Len(read) + 1

HasStart(f) == f.at \in {"signed", "paren", "sum right", "product right"}

InTokens(fs, start, n) ==
  \A k \in DOMAIN fs :
    /\ fs[k].from <= start
    /\ HasStart(fs[k]) => fs[k].from >= 1
    /\ AwaitsRight(fs[k]) =>
         fs[k].to <= n /\ \A l \in 1..k : fs[l].from <= fs[k].to

Behind(fs, to) == \A k \in DOMAIN fs : fs[k].from <= to

Located ==
  /\ InTokens(frames, Reach, Len(read))
  /\ result # Nothing =>
       /\ 1 <= result.from /\ result.from <= result.to /\ result.to <= Len(read)
       /\ Behind(frames, result.to)
  /\ frames # <<>> /\ Last(frames).at = "arguments" => state # "READY"

LEMMA FrameNumbers == \A f \in Frame : f.from \in Nat /\ f.to \in Nat
  BY DEF Frame

LEMMA StacksPop ==
  ASSUME NEW fs, IsStack(fs), NEW start, NEW n
  PROVE  /\ InTokens(fs, start, n) => InTokens(Below(fs), start, n)
         /\ \A to : Behind(fs, to) => Behind(Below(fs), to)
<1>1. /\ Len(fs) \in Nat /\ Len(fs) >= 1 /\ DOMAIN fs = 1..Len(fs)
      /\ fs \in Seq(Frame)
  BY DEF IsStack
<1>2. /\ DOMAIN Below(fs) = 1..(Len(fs) - 1)
      /\ \A k \in 1..(Len(fs) - 1) : Below(fs)[k] = fs[k] /\ k \in 1..Len(fs)
  BY <1>1 DEF Below
<1>3. \A k \in 1..(Len(fs) - 1) : \A l \in 1..k : l \in 1..(Len(fs) - 1)
  BY <1>1
<1>4. ASSUME InTokens(fs, start, n)
      PROVE  InTokens(Below(fs), start, n)
  BY <1>1, <1>2, <1>3, <1>4 DEF InTokens
<1>5. \A to : Behind(fs, to) => Behind(Below(fs), to)
  BY <1>1, <1>2 DEF Behind
<1>. QED
  BY <1>4, <1>5

LEMMA StacksGrow ==
  ASSUME NEW fs \in Seq(Frame), NEW start \in Nat, NEW n \in Nat,
         NEW start2 \in Nat, NEW n2 \in Nat, start <= start2, n <= n2,
         InTokens(fs, start, n)
  PROVE  InTokens(fs, start2, n2)
<1>1. \A k \in DOMAIN fs : fs[k].from \in Nat /\ fs[k].to \in Nat
  <2>1. \A k \in DOMAIN fs : fs[k] \in Frame
    OBVIOUS
  <2>. QED
    BY <2>1, FrameNumbers
<1>. QED
  BY <1>1 DEF InTokens

LEMMA StacksWait ==
  ASSUME NEW fs \in Seq(Frame), NEW n \in Nat, NEW start \in {n, n + 1}, InTokens(fs, start, n)
  PROVE  InTokens(fs, n + 1, n)
<1>1. start \in Nat /\ n + 1 \in Nat /\ start <= n + 1 /\ n <= n
  OBVIOUS
<1>. QED
  BY <1>1, StacksGrow

LEMMA StacksPush ==
  ASSUME NEW fs \in Seq(Frame), NEW start \in Nat, NEW n \in Nat, InTokens(fs, start, n),
         NEW f \in Frame, f.from <= start, HasStart(f) => f.from >= 1,
         AwaitsRight(f) => f.from <= f.to /\ f.to <= n /\ Behind(fs, f.to)
  PROVE  /\ InTokens(fs \o <<f>>, start, n)
         /\ \A to \in Nat : Behind(fs, to) /\ f.from <= to => Behind(fs \o <<f>>, to)
<1> DEFINE m == Len(fs)
           gs == fs \o <<f>>
<1>1. m \in Nat /\ DOMAIN fs = 1..m
  OBVIOUS
<1>2. /\ DOMAIN gs = 1..(m + 1) /\ gs[m + 1] = f
      /\ \A k \in 1..m : gs[k] = fs[k]
  OBVIOUS
<1>3. /\ \A k \in 1..(m + 1) : k \in 1..m \/ k = m + 1
      /\ \A k \in 1..m : \A l \in 1..k : l \in 1..m
  BY <1>1
<1> HIDE DEF gs, m
<1>4. ASSUME NEW k \in 1..(m + 1)
      PROVE  /\ gs[k].from <= start
             /\ HasStart(gs[k]) => gs[k].from >= 1
             /\ AwaitsRight(gs[k]) =>
                  gs[k].to <= n /\ \A l \in 1..k : gs[l].from <= gs[k].to
  <2>1. CASE k \in 1..m
    BY <1>1, <1>2, <1>3, <2>1 DEF InTokens
  <2>2. CASE k = m + 1
    <3>1. AwaitsRight(f) => \A l \in 1..(m + 1) : gs[l].from <= f.to
      BY <1>1, <1>2, <1>3 DEF Behind
    <3>. QED
      BY <1>2, <2>2, <3>1
  <2>. QED
    BY <1>3, <2>1, <2>2
<1>5. InTokens(gs, start, n)
  BY <1>2, <1>4 DEF InTokens
<1>6. \A to \in Nat : Behind(fs, to) /\ f.from <= to => Behind(gs, to)
  BY <1>1, <1>2, <1>3 DEF Behind
<1>. QED
  BY <1>5, <1>6 DEF gs

\* Calls that begin after a token has been consumed.
LEMMA SignedInTokens ==
  ASSUME IInv, NEW fs \in Seq(Frame), InTokens(fs, Len(read) + 1, Len(read))
  PROVE  /\ InTokens(fs \o CallSigned, Len(read) + 1, Len(read))
         /\ fs \o CallSigned \in Seq(Frame) /\ Last(fs \o CallSigned).at = "signed"
<1> DEFINE f == [Call("signed") EXCEPT !.from = Len(read) + 1]
<1>1. Len(read) \in Nat /\ Len(read) + 1 \in Nat
  BY TokensRead
<1>2. f \in Frame /\ f.at = "signed" /\ f.from = Len(read) + 1
  <2>1. f \in Frame /\ f.at = "signed"
    BY <1>1 DEF Call, Frame, Calls, BinaryTypes, AddSub
  <2>2. f.from = Len(read) + 1
    BY DEF Call
  <2>. QED
    BY <2>1, <2>2
<1>3. CallSigned = <<f>>
  BY DEF CallSigned
<1> HIDE DEF f
<1>4. InTokens(fs \o <<f>>, Len(read) + 1, Len(read))
  <2>1. ~AwaitsRight(f) /\ f.from >= 1
    BY <1>1, <1>2 DEF AwaitsRight
  <2>. QED
    BY <1>1, <1>2, <2>1, StacksPush
<1>5. fs \o <<f>> \in Seq(Frame) /\ Last(fs \o <<f>>) = f
  BY <1>2 DEF Last
<1>. QED
  BY <1>2, <1>3, <1>4, <1>5

\* A call that keeps no start.
LEMMA PlainInTokens ==
  ASSUME NEW fs \in Seq(Frame), NEW start \in Nat, NEW n \in Nat, InTokens(fs, start, n),
         NEW at \in Bottom \cup {"sum", "product"}
  PROVE  /\ InTokens(fs \o <<Call(at)>>, start, n) /\ fs \o <<Call(at)>> \in Seq(Frame)
         /\ Last(fs \o <<Call(at)>>).at = at
         /\ \A to \in Nat : Behind(fs, to) => Behind(fs \o <<Call(at)>>, to)
<1>1. Call(at) \in Frame /\ Call(at).at = at /\ Call(at).from = 0
  <2>1. at \in Calls
    BY DEF Calls, Bottom
  <2>. QED
    BY <2>1, CallsAre DEF Call
<1>2. ~AwaitsRight(Call(at)) /\ ~HasStart(Call(at))
  BY <1>1 DEF AwaitsRight, HasStart, Bottom
<1>3. InTokens(fs \o <<Call(at)>>, start, n)
  BY <1>1, <1>2, StacksPush
<1>4. \A to \in Nat : Behind(fs, to) => Behind(fs \o <<Call(at)>>, to)
  BY <1>1, <1>2, StacksPush
<1>5. fs \o <<Call(at)>> \in Seq(Frame) /\ Last(fs \o <<Call(at)>>) = Call(at)
  BY <1>1 DEF Last
<1>. QED
  BY <1>1, <1>3, <1>4, <1>5

LEMMA ProductInTokens ==
  ASSUME IInv, NEW fs \in Seq(Frame), InTokens(fs, Len(read) + 1, Len(read))
  PROVE  /\ InTokens(fs \o CallProduct, Len(read) + 1, Len(read))
         /\ fs \o CallProduct \in Seq(Frame) /\ Last(fs \o CallProduct).at = "signed"
<1>1. /\ InTokens(fs \o <<Call("product")>>, Len(read) + 1, Len(read))
      /\ fs \o <<Call("product")>> \in Seq(Frame)
  BY TokensRead, PlainInTokens
<1>2. fs \o CallProduct = (fs \o <<Call("product")>>) \o CallSigned
  <2>1. Call("product") \in Frame /\ CallSigned \in Seq(Frame)
    BY CallsAre, SignedSeq DEF Calls
  <2>. QED
    BY <2>1, PushFirst DEF CallProduct
<1>. QED
  BY <1>1, <1>2, SignedInTokens

LEMMA SumInTokens ==
  ASSUME IInv, NEW fs \in Seq(Frame), InTokens(fs, Len(read) + 1, Len(read))
  PROVE  /\ InTokens(fs \o CallSum, Len(read) + 1, Len(read))
         /\ fs \o CallSum \in Seq(Frame) /\ Last(fs \o CallSum).at = "signed"
<1>1. /\ InTokens(fs \o <<Call("sum")>>, Len(read) + 1, Len(read))
      /\ fs \o <<Call("sum")>> \in Seq(Frame)
  BY TokensRead, PlainInTokens
<1>2. fs \o CallSum = (fs \o <<Call("sum")>>) \o CallProduct
  <2>1. Call("sum") \in Frame /\ Call("product") \in Frame /\ CallSigned \in Seq(Frame)
    BY CallsAre, SignedSeq DEF Calls
  <2>2. CallProduct \in Seq(Frame)
    BY <2>1 DEF CallProduct
  <2>. QED
    BY <2>1, <2>2, PushFirst DEF CallSum
<1>. QED
  BY <1>1, <1>2, ProductInTokens

\* What is known of the calls in progress.
LEMMA LocatedNow ==
  ASSUME IInv, Located, ~Stopped
  PROVE  /\ Len(read) \in Nat /\ Reach \in {Len(read), Len(read) + 1}
         /\ frames \in Seq(Frame) /\ Callers \in Seq(Frame) /\ Top \in Frame
         /\ InTokens(frames, Reach, Len(read)) /\ InTokens(Callers, Reach, Len(read))
         /\ Len(frames) \in DOMAIN frames /\ Top = frames[Len(frames)]
         /\ \A to : Behind(frames, to) => Behind(Callers, to)
         /\ Top.at \notin Bottom => Last(Callers).at # "arguments"
<1>1. /\ IsStack(frames) /\ Top = Last(frames) /\ Top \in Frame /\ Callers = Below(frames)
  BY StackInUse
<1>2. Len(read) \in Nat /\ Reach \in {Len(read), Len(read) + 1}
  BY TokensRead DEF Reach
<1>3. frames \in Seq(Frame) /\ Len(frames) \in DOMAIN frames /\ Top = frames[Len(frames)]
  BY <1>1 DEF IsStack, Last
<1>4. Callers \in Seq(Frame)
  BY <1>1, <1>3 DEF Below, IsStack
<1>5. InTokens(frames, Reach, Len(read)) /\ InTokens(Callers, Reach, Len(read))
  BY <1>1, StacksPop DEF Located
<1>6. \A to : Behind(frames, to) => Behind(Callers, to)
  BY <1>1, StacksPop
<1>7. Top.at \notin Bottom => Last(Callers).at # "arguments"
  <2>1. Top.at \notin Bottom => Calling(Last(Callers).at, Top.at)
    BY <1>1, Pop
  <2>. QED
    BY <2>1 DEF Calling
<1>. QED
  BY <1>1, <1>2, <1>3, <1>4, <1>5, <1>6, <1>7

\* A call returns a node whose range ends where that of the last one did.
LEMMA ReturnLocates ==
  ASSUME IInv, Located, ~Stopped, result # Nothing, Top.at \notin Bottom,
         frames' = Callers, read' = read, state' \in {state, "PENDING"},
         1 <= result'.from, result'.from <= result'.to, result'.to = result.to
  PROVE  Located'
<1>1. /\ Len(read) \in Nat /\ Reach \in {Len(read), Len(read) + 1}
      /\ Callers \in Seq(Frame) /\ InTokens(Callers, Reach, Len(read))
      /\ Behind(Callers, result.to) /\ Last(Callers).at # "arguments"
  BY LocatedNow DEF Located
<1>2. Reach' \in {Reach, Len(read) + 1} /\ Reach' \in Nat /\ Reach <= Reach'
  BY <1>1 DEF Reach
<1>3. InTokens(frames', Reach', Len(read'))
  BY <1>1, <1>2, StacksGrow
<1>4. result'.to <= Len(read') /\ Behind(frames', result'.to)
  BY <1>1 DEF Located
<1>. QED
  BY <1>1, <1>3, <1>4 DEF Located

\* Calls begin, and there is no node on its way.
LEMMA CallLocates ==
  ASSUME IInv, read' = read, state' = "PENDING", result' = Nothing,
         InTokens(frames', Len(read) + 1, Len(read)), Last(frames').at # "arguments"
  PROVE  Located'
<1>1. Reach' = Len(read) + 1
  BY DEF Reach
<1>. QED
  BY <1>1 DEF Located

LEMMA FailLocates ==
  ASSUME IInv, Located, ~Stopped, NEW code, NEW from, NEW to, Fail(code, from, to)
  PROVE  Located'
<1>1. /\ Len(read) \in Nat /\ Reach \in {Len(read), Len(read) + 1}
      /\ frames \in Seq(Frame) /\ InTokens(frames, Reach, Len(read))
  BY LocatedNow
<1>2. UNCHANGED <<read, frames, result>> /\ state' = "ERROR" /\ Reach' = Len(read) + 1
  BY DEF Fail, Reach
<1>3. InTokens(frames', Reach', Len(read'))
  BY <1>1, <1>2, StacksGrow
<1>. QED
  BY <1>2, <1>3 DEF Located

LEMMA PeekLocates == ASSUME IInv, Located, Peek PROVE Located'
<1>1. ~Stopped /\ Top.at # "arguments" /\ state = "PENDING"
  BY DEF Peek, Peeks, Running, Returned
<1>2. /\ Len(read) \in Nat /\ Reach = Len(read) + 1 /\ Top = Last(frames)
      /\ frames \in Seq(Frame) /\ InTokens(frames, Reach, Len(read))
  BY <1>1, LocatedNow DEF Reach, Last
<1>3. UNCHANGED <<frames, result>> /\ state' = "READY" /\ Len(read') = Len(read) + 1
  <2>1. PICK next \in Tokens \cup {Eof} : read' = Append(read, next)
    BY DEF Peek
  <2>2. read \in Seq(Tokens \cup {Eof})
    BY DEF IInv, TokensOK
  <2>3. Len(read') = Len(read) + 1
    BY <2>1, <2>2
  <2>. QED
    BY <2>3 DEF Peek
<1>4. Reach' = Len(read) + 1
  BY <1>3 DEF Reach
<1>5. InTokens(frames', Reach', Len(read'))
  BY <1>2, <1>3, <1>4, StacksGrow
<1>6. result # Nothing => result \in ResultRecord
  BY DEF IInv, ResultOK, IsResult
<1>7. result' # Nothing =>
        /\ 1 <= result'.from /\ result'.from <= result'.to /\ result'.to <= Len(read')
        /\ Behind(frames', result'.to)
  BY <1>2, <1>3, <1>6 DEF Located, ResultRecord
<1>. QED
  BY <1>1, <1>2, <1>3, <1>5, <1>7 DEF Located

LEMMA SignLocates == ASSUME IInv, Located, Sign PROVE Located'
<1> DEFINE f == [Top EXCEPT !.inverse = (@ # (token.type = "SUB"))]
<1>1. ~Stopped /\ Top.at = "signed" /\ result = Nothing
  BY DEF Sign, Running
<1>2. /\ Len(read) \in Nat /\ Reach \in {Len(read), Len(read) + 1}
      /\ Callers \in Seq(Frame) /\ Top \in Frame /\ InTokens(Callers, Reach, Len(read))
      /\ InTokens(frames, Reach, Len(read))
      /\ Len(frames) \in DOMAIN frames /\ Top = frames[Len(frames)]
  BY <1>1, LocatedNow
<1>3. f \in Frame /\ f.at = "signed" /\ f.from = Top.from
  BY <1>1, <1>2 DEF Frame
<1>4. /\ frames' = Callers \o <<f>> /\ state' = "PENDING" /\ read' = read /\ result' = Nothing
  BY <1>1 DEF Sign, Consume
<1> HIDE DEF f
<1>5. ~AwaitsRight(f) /\ f.from <= Reach /\ f.from >= 1 /\ Reach \in Nat
  <2>1. Top.from <= Reach /\ (HasStart(Top) => Top.from >= 1)
    BY <1>2 DEF InTokens
  <2>. QED
    BY <1>1, <1>2, <1>3, <2>1 DEF AwaitsRight, HasStart
<1>6. InTokens(Callers \o <<f>>, Reach, Len(read))
  BY <1>2, <1>3, <1>5, StacksPush
<1>7. Callers \o <<f>> \in Seq(Frame) /\ Last(Callers \o <<f>>) = f
  BY <1>2, <1>3 DEF Last
<1>8. InTokens(frames', Len(read) + 1, Len(read))
  <2>1. InTokens(Callers \o <<f>>, Len(read) + 1, Len(read))
    BY <1>2, <1>6, <1>7, StacksWait
  <2>. QED
    BY <1>4, <2>1
<1>. QED
  BY <1>3, <1>4, <1>7, <1>8, CallLocates

LEMMA AtomLocates ==
  ASSUME IInv, Located, Running("signed"), state = "READY", NEW node, ReturnAtom(node)
  PROVE  Located'
<1>1. ~Stopped /\ Top.at = "signed"
  BY DEF Running
<1>2. /\ Len(read) \in Nat /\ Reach = Len(read) /\ Top = Last(frames)
      /\ frames \in Seq(Frame) /\ InTokens(frames, Reach, Len(read))
  BY <1>1, LocatedNow DEF Reach, Last
<1>3. /\ result' = Result(node, Len(read), Len(read)) /\ state' = "PENDING"
      /\ UNCHANGED <<read, frames>> /\ Reach' = Len(read) + 1
  BY DEF ReturnAtom, Consume, Reach
<1>4. InTokens(frames', Reach', Len(read'))
  BY <1>2, <1>3, StacksGrow
<1>5. Len(read) >= 1
  <2>1. read \in Seq(Tokens \cup {Eof}) /\ read # <<>>
    BY DEF IInv, TokensOK
  <2>. QED
    BY <2>1
<1>6. Behind(frames, Len(read))
  BY <1>2 DEF InTokens, Behind
<1>7. result'.from = Len(read) /\ result'.to = Len(read)
  BY <1>3 DEF Result
<1>. QED
  BY <1>1, <1>2, <1>3, <1>4, <1>5, <1>6, <1>7 DEF Located

LEMMA OpenLocates == ASSUME IInv, Located, OpenParen PROVE Located'
<1> DEFINE f == [Call("paren") EXCEPT !.from = Len(read)]
<1>1. ~Stopped /\ state = "READY" /\ result = Nothing
  BY DEF OpenParen, Running, Sees
<1>2. /\ Len(read) \in Nat /\ Reach = Len(read)
      /\ frames \in Seq(Frame) /\ InTokens(frames, Reach, Len(read))
  BY <1>1, LocatedNow DEF Reach
<1>3. f \in Frame /\ f.at = "paren" /\ f.from = Len(read)
  <2>1. f \in Frame /\ f.at = "paren"
    BY <1>2 DEF Call, Frame, Calls, BinaryTypes, AddSub
  <2>2. f.from = Len(read)
    BY DEF Call
  <2>. QED
    BY <2>1, <2>2
<1>4. /\ frames' = (frames \o <<f>>) \o CallSum /\ state' = "PENDING"
      /\ read' = read /\ result' = Nothing
  BY <1>1 DEF OpenParen, Consume
<1> HIDE DEF f
<1>5. Len(read) >= 1
  <2>1. read \in Seq(Tokens \cup {Eof}) /\ read # <<>>
    BY <1>1 DEF IInv, TokensOK
  <2>. QED
    BY <2>1
<1>6. InTokens(frames \o <<f>>, Len(read), Len(read))
  <2>1. ~AwaitsRight(f) /\ f.from <= Len(read) /\ f.from >= 1
    BY <1>2, <1>3, <1>5 DEF AwaitsRight
  <2>. QED
    BY <1>2, <1>3, <2>1, StacksPush
<1>7. frames \o <<f>> \in Seq(Frame)
  BY <1>2, <1>3
<1>8. InTokens(frames \o <<f>>, Len(read) + 1, Len(read))
  BY <1>2, <1>6, <1>7, StacksWait
<1>9. InTokens(frames', Len(read) + 1, Len(read)) /\ Last(frames').at = "signed"
  BY <1>4, <1>7, <1>8, SumInTokens
<1>. QED
  BY <1>4, <1>9, CallLocates

LEMMA OperatorLocates ==
  ASSUME IInv, Located, NEW level \in {"sum", "product"}, Operator(level)
  PROVE  Located'
<1> DEFINE f == [Call(RightOf(level)) EXCEPT !.left = Len(nodes) + 1, !.op = token.type,
                                             !.from = Len(read), !.to = Len(read)]
<1>1. /\ ~Stopped /\ Top.at = level /\ state = "READY" /\ result # Nothing
      /\ token.type \in Operators[level]
  BY DEF Operator, Returned, Sees
<1>2. /\ Len(read) \in Nat /\ Reach = Len(read)
      /\ Callers \in Seq(Frame) /\ InTokens(Callers, Len(read), Len(read))
  BY <1>1, LocatedNow DEF Reach
<1>3. /\ frames' = (Callers \o <<f>>) \o CallOperand(level) /\ state' = "PENDING"
      /\ read' = read /\ result' = Nothing
  BY DEF Operator, Consume
<1>4. f \in Frame /\ f.from = Len(read) /\ f.to = Len(read) /\ HasStart(f)
  <2>1. Len(nodes) + 1 \in Nat
    BY DEF IInv, NodesOK
  <2>2. token.type \in BinaryTypes
    BY <1>1 DEF Operators, BinaryTypes, AddSub, MulDiv
  <2>3. f \in Frame /\ f.at = RightOf(level)
    BY <1>2, <2>1, <2>2 DEF Call, Frame, Calls, RightOf
  <2>4. f.from = Len(read) /\ f.to = Len(read)
    BY DEF Call
  <2>. QED
    BY <2>3, <2>4 DEF HasStart, RightOf
<1> HIDE DEF f
<1>5. Len(read) >= 1
  <2>1. read \in Seq(Tokens \cup {Eof}) /\ read # <<>>
    BY <1>1 DEF IInv, TokensOK
  <2>. QED
    BY <2>1
<1>6. Behind(Callers, Len(read))
  BY <1>2 DEF InTokens, Behind
<1>7. InTokens(Callers \o <<f>>, Len(read), Len(read)) /\ Callers \o <<f>> \in Seq(Frame)
  BY <1>2, <1>4, <1>5, <1>6, StacksPush
<1>8. InTokens(Callers \o <<f>>, Len(read) + 1, Len(read))
  BY <1>2, <1>7, StacksWait
<1>9. InTokens(frames', Len(read) + 1, Len(read)) /\ Last(frames').at = "signed"
  <2>1. CASE level = "sum"
    BY <1>3, <1>7, <1>8, <2>1, ProductInTokens DEF CallOperand
  <2>2. CASE level = "product"
    BY <1>3, <1>7, <1>8, <2>2, SignedInTokens DEF CallOperand
  <2>. QED
    BY <2>1, <2>2
<1>. QED
  BY <1>3, <1>9, CallLocates

LEMMA RightLocates ==
  ASSUME IInv, Located, NEW level \in {"sum", "product"}, RightOperand(level)
  PROVE  Located'
<1>1. ~Stopped /\ AwaitsRight(Top) /\ HasStart(Top)
  BY DEF RightOperand, Returned, AwaitsRight, HasStart, RightOf
<1>2. /\ Len(read) \in Nat /\ Reach \in Nat /\ Top \in Frame
      /\ frames \in Seq(Frame) /\ InTokens(frames, Reach, Len(read))
      /\ Callers \in Seq(Frame) /\ InTokens(Callers, Reach, Len(read))
      /\ Len(frames) \in DOMAIN frames /\ Top = frames[Len(frames)]
  BY <1>1, LocatedNow
<1>3. /\ frames' = Callers \o <<Call(level)>> /\ UNCHANGED <<state, read>>
      /\ result'.from = Top.from /\ result'.to = Top.to
  BY DEF RightOperand, Result
<1>4. /\ 1 <= Top.from /\ Top.from <= Top.to /\ Top.to <= Len(read)
      /\ \A l \in 1..Len(frames) : frames[l].from <= Top.to
  <2>1. Len(frames) \in 1..Len(frames)
    BY <1>2
  <2>. QED
    BY <1>1, <1>2, <2>1 DEF InTokens
<1>5. Behind(Callers, Top.to)
  <2>1. Behind(frames, Top.to)
    BY <1>2, <1>4 DEF Behind
  <2>. QED
    BY <1>1, <2>1, LocatedNow
<1>6. /\ InTokens(frames', Reach, Len(read)) /\ Behind(frames', Top.to)
      /\ Last(frames').at = level
  <2>1. Top.to \in Nat
    BY <1>2, FrameNumbers
  <2>. QED
    BY <1>2, <1>3, <1>5, <2>1, PlainInTokens
<1>7. Reach' = Reach
  BY <1>3 DEF Reach
<1>. QED
  BY <1>3, <1>4, <1>6, <1>7 DEF Located

\* The only call there is.
LEMMA AloneInTokens ==
  ASSUME NEW start \in Nat, NEW n \in Nat, NEW at \in Bottom
  PROVE  InTokens(<<Call(at)>>, start, n) /\ <<Call(at)>> \in Seq(Frame) /\ Last(<<Call(at)>>).at = at
<1>1. <<>> \in Seq(Frame) /\ InTokens(<<>>, start, n)
  BY DEF InTokens
<1>2. <<>> \o <<Call(at)>> = <<Call(at)>>
  OBVIOUS
<1>3. InTokens(<<>> \o <<Call(at)>>, start, n) /\ <<>> \o <<Call(at)>> \in Seq(Frame)
  BY <1>1, PlainInTokens
<1>4. Last(<<>> \o <<Call(at)>>).at = at
  BY <1>1, PlainInTokens
<1>. QED
  BY <1>2, <1>3, <1>4

LEMMA StartLocates == ASSUME IInv, Located, StartParsing PROVE Located'
<1>1. ~Stopped /\ Top.at = "arguments" /\ result = Nothing
  BY DEF StartParsing, Running
<1>2. Top = Last(frames) /\ Len(read) \in Nat /\ Len(read) + 1 \in Nat
  BY <1>1, StackInUse, TokensRead
<1>3. state = "PENDING"
  <2>1. frames # <<>>
    BY <1>1, StackInUse DEF IsStack
  <2>. QED
    BY <1>1, <1>2, <2>1 DEF Located, Stopped, IInv, TokensOK
<1>4. /\ InTokens(<<Call("expr")>>, Len(read) + 1, Len(read))
      /\ <<Call("expr")>> \in Seq(Frame)
  BY <1>2, AloneInTokens DEF Bottom
<1>5. frames' = <<Call("expr")>> \o CallSum /\ read' = read /\ state' = "PENDING" /\ result' = Nothing
  BY <1>1, <1>3 DEF StartParsing
<1>. QED
  BY <1>4, <1>5, SumInTokens, CallLocates

LEMMA SignedLocates ==
  ASSUME IInv, Located, Returned("signed"), NEW node, ReturnSigned(node)
  PROVE  Located'
<1>1. ~Stopped /\ Top.at = "signed" /\ result # Nothing
  BY DEF Returned
<1>2. /\ InTokens(frames, Reach, Len(read)) /\ Behind(frames, result.to)
      /\ Len(frames) \in DOMAIN frames /\ Top = frames[Len(frames)]
  BY <1>1, LocatedNow DEF Located
<1>3. 1 <= Top.from /\ Top.from <= result.to
  <2>1. 1 <= Top.from
    <3>1. Top.from >= 1 /\ Top \in Frame
      BY <1>1, <1>2, LocatedNow DEF InTokens, HasStart
    <3>. QED
      BY <3>1, FrameNumbers
  <2>. QED
    BY <1>2, <2>1 DEF Behind
<1>4. /\ frames' = Callers /\ read' = read /\ state' = state
      /\ result'.from = Top.from /\ result'.to = result.to
  BY DEF ReturnSigned, Result
<1>. QED
  BY <1>1, <1>3, <1>4, ReturnLocates DEF Bottom

\* A loop ends, or the parenthesis is closed.
LEMMA PassLocates ==
  ASSUME IInv, Located, (\E level \in {"sum", "product"} : NoOperator(level)) \/ CloseParen
  PROVE  Located'
<1>1. /\ ~Stopped /\ Top.at \in {"sum", "product", "paren"} /\ result # Nothing
      /\ frames' = Callers /\ read' = read /\ state' \in {state, "PENDING"} /\ result' = result
  BY DEF NoOperator, CloseParen, Returned, Consume
<1>2. 1 <= result.from /\ result.from <= result.to
  BY <1>1 DEF Located
<1>. QED
  BY <1>1, <1>2, ReturnLocates DEF Bottom

LEMMA AppendRootLocates == ASSUME IInv, Located, AppendRoot PROVE Located'
<1>1. frames' = <<Call("end")>> /\ UNCHANGED <<state, read>> /\ result' = Nothing
  BY DEF AppendRoot
<1>2. Reach' = Reach /\ Reach \in Nat /\ Len(read) \in Nat
  BY <1>1, TokensRead DEF Reach
<1>3. InTokens(frames', Reach', Len(read')) /\ Last(frames').at = "end"
  BY <1>1, <1>2, AloneInTokens DEF Bottom
<1>. QED
  BY <1>1, <1>3 DEF Located

LEMMA FinishLocates == ASSUME Finish PROVE Located'
<1>1. frames' = <<>> /\ result' = Nothing
  BY DEF Finish, Running
<1>2. InTokens(<<>>, Reach', Len(read'))
  BY DEF InTokens
<1>. QED
  BY <1>1, <1>2 DEF Located

\* The steps that fail.
InRead(from, to) == from \in 1..Len(read) /\ to \in from..Len(read)

ArgErrors == {"ILLEGAL_ARG_NAME", "DUPLICATED_ARG_NAME"}
FailsInside == \E code, from, to : Fail(code, from, to) /\ (code \in ArgErrors \/ InRead(from, to))

\* Where the parser fails at a token, or at the node that it has.
LEMMA FailsAt ==
  ASSUME IInv, Located
  PROVE  /\ state = "READY" => InRead(Len(read), Len(read))
         /\ result # Nothing => InRead(result.from, result.to)
<1>1. Len(read) \in Nat
  BY TokensRead
<1>2. ASSUME state = "READY"
      PROVE  Len(read) >= 1
  <2>1. read \in Seq(Tokens \cup {Eof}) /\ read # <<>>
    BY <1>2 DEF IInv, TokensOK
  <2>. QED
    BY <2>1
<1>3. result # Nothing => result.from \in Nat /\ result.to \in Nat
  BY DEF IInv, ResultOK, IsResult, ResultRecord
<1>. QED
  BY <1>1, <1>2, <1>3 DEF InRead, Located

\* Where a call fails that has kept the start of a token.
LEMMA FailsFrom ==
  ASSUME IInv, Located, ~Stopped, result # Nothing, Top.at \in {"signed", "paren"}
  PROVE  /\ InRead(Top.from, result.to)
         /\ state = "READY" => InRead(Top.from, Len(read))
<1>1. /\ InTokens(frames, Reach, Len(read)) /\ Behind(frames, result.to)
      /\ Len(frames) \in DOMAIN frames /\ Top = frames[Len(frames)]
      /\ Len(read) \in Nat /\ Top \in Frame
  BY LocatedNow DEF Located
<1>2. Top.from \in Nat /\ Top.from >= 1 /\ Top.from <= Reach /\ Top.from <= result.to
  BY <1>1, FrameNumbers DEF InTokens, HasStart, Behind
<1>3. result.to \in Nat
  BY DEF IInv, ResultOK, IsResult, ResultRecord
<1>. QED
  BY <1>1, <1>2, <1>3 DEF InRead, Located, Reach

LEMMA DescendLocates ==
  ASSUME IInv, Located, Descend
  PROVE  (state' # "ERROR" /\ Located') \/ FailsInside
<1> DEFINE Passes == state' # "ERROR" /\ Located'
<1>1. CASE BadArg
  <2>1. PICK i : Fail(IF args[i] \in Identifiers THEN "DUPLICATED_ARG_NAME" ELSE "ILLEGAL_ARG_NAME", i, i)
    BY <1>1 DEF BadArg
  <2>. QED
    BY <2>1 DEF FailsInside, ArgErrors
<1>2. CASE UndefinedVariable \/ IllegalAtom \/ TrailingToken
  <2>1. state = "READY" /\ \E code : Fail(code, Len(read), Len(read))
    BY <1>2 DEF UndefinedVariable, IllegalAtom, TrailingToken, Sees
  <2>. QED
    BY <2>1, FailsAt DEF FailsInside
<1>3. CASE DivisionByZero \/ AppendFails
  <2>1. result # Nothing /\ \E code : Fail(code, result.from, result.to)
    BY <1>3 DEF DivisionByZero, AppendFails, Appends, Returned
  <2>. QED
    BY <2>1, FailsAt DEF FailsInside
<1>4. CASE NegativeIntRefused
  <2>1. /\ ~Stopped /\ result # Nothing /\ Top.at = "signed"
        /\ Fail("VALUE_OUT_OF_RANGE", Top.from, result.to)
    BY <1>4 DEF NegativeIntRefused, Returned
  <2>. QED
    BY <2>1, FailsFrom DEF FailsInside
<1>5. CASE ExpectedCloseParen
  <2>1. /\ ~Stopped /\ result # Nothing /\ Top.at = "paren"
        /\ Fail("EXPECTED_CLOSE_PAREN", Top.from, Len(read))
    BY <1>5 DEF ExpectedCloseParen, Returned
  <2>2. state = "READY"
    BY <2>1, StackInUse DEF IInv, TokensOK, ControlOK, PastALoop, Stopped
  <2>. QED
    BY <2>1, <2>2, FailsFrom DEF FailsInside
<1>6. CASE StartParsing
  <2>1. state' # "ERROR"
    BY <1>6 DEF StartParsing, Running, Stopped
  <2>. QED
    BY <1>6, <2>1, StartLocates
<1>7. CASE Sign \/ OpenParen
  <2>1. state' # "ERROR"
    BY <1>7 DEF Sign, OpenParen, Consume
  <2>. QED
    BY <1>7, <2>1, SignLocates, OpenLocates
<1>8. CASE AtomInt \/ AtomVar
  <2>1. PICK node : Running("signed") /\ state = "READY" /\ ReturnAtom(node)
    BY <1>8 DEF AtomInt, AtomVar, Sees
  <2>2. state' # "ERROR"
    BY <2>1 DEF ReturnAtom, Consume
  <2>. QED
    BY <2>1, <2>2, AtomLocates
<1>9. CASE Positive \/ NegativeInt \/ Negation
  <2>1. PICK node : Returned("signed") /\ ReturnSigned(node)
    BY <1>9 DEF Positive, NegativeInt, Negation
  <2>2. state' # "ERROR"
    BY <2>1 DEF ReturnSigned, Returned, Stopped
  <2>. QED
    BY <2>1, <2>2, SignedLocates
<1>10. CASE \E level \in DOMAIN Operators :
              Operator(level) \/ NoOperator(level) \/ RightOperand(level)
  <2>1. PICK level \in {"sum", "product"} :
          Operator(level) \/ NoOperator(level) \/ RightOperand(level)
    BY <1>10 DEF Operators
  <2>2. state' # "ERROR"
    BY <2>1 DEF Operator, NoOperator, RightOperand, Consume, Returned, Stopped
  <2>3. Located'
    BY <2>1, OperatorLocates, PassLocates, RightLocates
  <2>. QED
    BY <2>2, <2>3
<1>11. CASE CloseParen
  <2>1. state' # "ERROR"
    BY <1>11 DEF CloseParen, Consume
  <2>. QED
    BY <1>11, <2>1, PassLocates
<1>12. CASE AppendRoot \/ Finish
  <2>1. state' # "ERROR"
    BY <1>12 DEF AppendRoot, Finish, Returned, Stopped
  <2>. QED
    BY <1>12, <2>1, AppendRootLocates, FinishLocates
<1>. QED
  BY <1>1, <1>2, <1>3, <1>4, <1>5, <1>6, <1>7, <1>8, <1>9, <1>10, <1>11, <1>12 DEF Descend

LEMMA NextLocates == IInv /\ Located /\ [Next]_vars => Located'
<1>1. SUFFICES ASSUME IInv, Located, [Next]_vars
               PROVE  Located'
  OBVIOUS
<1>2. ASSUME ~Stopped, NEW code, NEW from, NEW to, Fail(code, from, to)
      PROVE  Located'
  BY <1>1, <1>2, FailLocates
<1>3. CASE Descend
  <2>1. ~Stopped
    BY <1>3
    DEF Descend, BadArg, StartParsing, Sign, AtomInt, AtomVar, UndefinedVariable, OpenParen,
        IllegalAtom, Positive, NegativeInt, NegativeIntRefused, Negation, Operator, NoOperator,
        RightOperand, DivisionByZero, CloseParen, ExpectedCloseParen, AppendRoot, Finish,
        TrailingToken, AppendFails, Appends, Running, Returned
  <2>. QED
    BY <1>1, <1>2, <1>3, <2>1, DescendLocates DEF FailsInside
<1>4. CASE PeekFails
  <2>1. ~Stopped /\ \E code, from, to : Fail(code, from, to)
    BY <1>4 DEF PeekFails, Peeks, Running, Returned
  <2>. QED
    BY <1>2, <2>1
<1>5. CASE Terminated \/ UNCHANGED vars
  BY <1>1, <1>5 DEF Terminated, vars, Located, InTokens, Behind, Reach
<1>. QED
  BY <1>1, <1>3, <1>4, <1>5, PeekLocates DEF Next

LEMMA InitLocates == Init => Located
<1>1. SUFFICES ASSUME Init PROVE Located
  OBVIOUS
<1>2. frames = <<Call("arguments")>> /\ result = Nothing /\ state = "PENDING" /\ read = <<>>
  BY <1>1 DEF Init
<1>3. Reach = 1 /\ Len(read) = 0
  BY <1>2 DEF Reach
<1>4. InTokens(frames, Reach, Len(read))
  BY <1>2, <1>3, AloneInTokens DEF Bottom
<1>. QED
  BY <1>2, <1>4 DEF Located

LEMMA RangesHold == Spec => [](IInv /\ Located)
<1>1. Init => IInv /\ Located
  BY InitOK, InitLocates
<1>2. IInv /\ Located /\ [Next]_vars => IInv' /\ Located'
  BY StaysOK, NextLocates DEF StepOK
<1>. QED
  BY <1>1, <1>2, PTL DEF Spec

-----------------------------------------------------------------------------
(***************************************************************************)
(* What the parser computes                                                *)
(*                                                                         *)
(* The AST that is returned computes what the code means by the grammar.   *)
(* The invariant says of every call in progress what the tokens that it    *)
(* has behind it mean: those of a left operand what its node computes, and *)
(* those before an atom a number of signs.  It says so for every code that *)
(* begins with the tokens consumed, as the meaning of a call's tokens does *)
(* not depend on what comes later; and it rests on the grammar not being   *)
(* ambiguous (AstProofs), as the parser finds one derivation and the code  *)
(* means what comes of all of them.                                        *)
(***************************************************************************)

\* The tokens that have been consumed, and any code that begins with them.  The
\* number 1 may come in it whether or not it is one of Numbers (Completions).
One == [type |-> "INT", value |-> 1]
Words == Tokens \cup {Eof, One}

Taken == IF state \in {"READY", "DONE"} THEN Len(read) - 1 ELSE Len(read)

Continues(code) ==
  /\ code \in Seq(Words)
  /\ Taken <= Len(code)
  /\ \A k \in 1..Taken : code[k] = read[k]

\* The values of the arguments, and of the nodes.
ArgValues(env) == [i \in DOMAIN args |-> env[args[i]]]
Evaluated(env) == NodeEval(nodes, ArgValues(env))

\* Where the tokens of the next part begin, in a call whose own begin at start.
Due(f, start) ==
  IF f.at \in {"paren", "sum right", "product right"} THEN f.from + 1 ELSE start

\* The part that waits for its right operand, and the one that a call calls for.
LeftPart(at) == IF at = "sum right" THEN "sum" ELSE "product"
DuePart(at) ==
  CASE at \in {"sum", "expr", "paren"} -> "sum"
    [] at \in {"product", "sum right"} -> "product"
    [] OTHER                           -> "signed"

\* The signs before token `cut' are what f.inverse says.
Signs(inverse, as) == IF inverse THEN Negated(as) ELSE as
SignsMean(code, env, f, cut) ==
  /\ f.from <= cut
  /\ \A k \in f.from..(cut - 1) : code[k].type \in AddSub
  /\ \A j \in 0..Len(code) :
       Means(code, env, "signed", f.from, j) = Signs(f.inverse, Means(code, env, "signed", cut, j))

\* What a call f, whose tokens begin at start, has done already means, if n
\* tokens have been consumed and the nodes have the values E.
FrameMeans(code, env, caller, before, f, start, n, E) ==
  /\ start = Due(caller, before) /\ start \in 1..(n + 1)
  /\ AwaitsRight(f) =>
       /\ f.from \in start..n
       /\ code[f.from].type = f.op /\ f.op \in Operators[LeftPart(f.at)]
       /\ Means(code, env, LeftPart(f.at), start, f.from - 1) = {E[f.left]}
  /\ f.at = "paren" =>
       /\ f.from \in 1..n /\ code[f.from].type = "("
       /\ SignsMean(code, env, caller, f.from)
  /\ f.at = "signed" => f.from = start

Stands(code, env, fs, starts, n, E) ==
  /\ starts \in Seq(Nat) /\ Len(starts) = Len(fs) /\ starts[1] = 1
  /\ \A k \in DOMAIN fs \ {1} :
       FrameMeans(code, env, fs[k - 1], starts[k - 1], fs[k], starts[k], n, E)

\* What has become of the call on top.
TopMeans(code, env, f, start, r, n, A, E) ==
  /\ r = Nothing /\ f.at = "signed" => SignsMean(code, env, f, n + 1)
  /\ r # Nothing =>
       IF f.at = "signed"
       THEN Means(code, env, "signed", start, n) = Signs(f.inverse, {NodeValue(r.node, A, E)})
       ELSE Means(code, env, DuePart(f.at), Due(f, start), n) = {NodeValue(r.node, A, E)}

LEMMA PopStands ==
  ASSUME NEW code, NEW env, NEW fs, IsStack(fs), Last(fs).at \notin Bottom,
         NEW starts, NEW n, NEW E, Stands(code, env, fs, starts, n, E)
  PROVE  /\ IsStack(Below(fs)) /\ Calling(Last(Below(fs)).at, Last(fs).at)
         /\ Stands(code, env, Below(fs), Below(starts), n, E)
         /\ FrameMeans(code, env, Last(Below(fs)), Last(Below(starts)), Last(fs), Last(starts), n, E)
<1> DEFINE m == Len(fs)
<1>1. /\ fs \in Seq(Frame) /\ m \in Nat /\ DOMAIN fs = 1..m /\ fs # <<>>
      /\ starts \in Seq(Nat) /\ Len(starts) = m /\ starts[1] = 1
  BY DEF IsStack, Stands
<1>2. IsStack(Below(fs)) /\ Calling(Last(Below(fs)).at, Last(fs).at)
  BY Pop
<1>3. m # 0 /\ m - 1 \in 0..m
  BY <1>1, SeqIs
<1>4. /\ Len(Below(fs)) = m - 1 /\ \A k \in 1..(m - 1) : Below(fs)[k] = fs[k]
      /\ Below(fs) \in Seq(Frame)
  BY <1>1, <1>3, FrontIs DEF Below
<1>5. /\ Below(starts) \in Seq(Nat) /\ Len(Below(starts)) = m - 1
      /\ \A k \in 1..(m - 1) : Below(starts)[k] = starts[k]
  BY <1>1, <1>3, FrontIs DEF Below
<1>6. Below(fs) # <<>>
  BY <1>2 DEF IsStack
<1>7. m - 1 # 0 /\ m \in 2..m /\ m - 1 \in 1..(m - 1) /\ 1 \in 1..(m - 1)
  BY <1>1, <1>3, <1>4, <1>6, SeqIs
<1>8. \A k \in 1..m \ {1} :
        FrameMeans(code, env, fs[k - 1], starts[k - 1], fs[k], starts[k], n, E)
  BY <1>1 DEF Stands
<1>9. Stands(code, env, Below(fs), Below(starts), n, E)
  <2>1. ASSUME NEW k \in 1..(m - 1) \ {1}
        PROVE  FrameMeans(code, env, Below(fs)[k - 1], Below(starts)[k - 1],
                          Below(fs)[k], Below(starts)[k], n, E)
    <3>1. k \in 1..m \ {1} /\ k - 1 \in 1..(m - 1)
      BY <1>1
    <3>. QED
      BY <1>4, <1>5, <1>8, <3>1
  <2>2. DOMAIN Below(fs) = 1..(m - 1)
    BY <1>4
  <2>. QED
    BY <1>1, <1>4, <1>5, <1>7, <2>1, <2>2 DEF Stands
<1>10. /\ Last(fs) = fs[m] /\ Last(starts) = starts[m]
       /\ Last(Below(fs)) = fs[m - 1] /\ Last(Below(starts)) = starts[m - 1]
  BY <1>1, <1>4, <1>5, <1>7 DEF Last
<1>. QED
  BY <1>2, <1>7, <1>8, <1>9, <1>10

LEMMA PushStands ==
  ASSUME NEW code, NEW env, NEW fs, IsStack(fs), NEW f \in Frame,
         NEW starts, NEW start \in Nat, NEW n, NEW E, Stands(code, env, fs, starts, n, E),
         FrameMeans(code, env, Last(fs), Last(starts), f, start, n, E)
  PROVE  /\ Stands(code, env, fs \o <<f>>, Append(starts, start), n, E)
         /\ Last(Append(starts, start)) = start
<1> DEFINE m == Len(fs)
           gs == Append(fs, f)
           ss == Append(starts, start)
<1>1. /\ fs \in Seq(Frame) /\ m \in Nat /\ DOMAIN fs = 1..m /\ fs # <<>>
      /\ starts \in Seq(Nat) /\ Len(starts) = m /\ starts[1] = 1
  BY DEF IsStack, Stands
<1>2. fs \o <<f>> = gs
  BY <1>1, Concat
<1>3. /\ Len(gs) = m + 1 /\ gs[m + 1] = f /\ \A k \in 1..m : gs[k] = fs[k]
      /\ gs \in Seq(Frame)
  BY <1>1, LastIs
<1>4. /\ Len(ss) = m + 1 /\ ss[m + 1] = start /\ \A k \in 1..m : ss[k] = starts[k]
      /\ ss \in Seq(Nat)
  BY <1>1, LastIs
<1>5. m >= 1
  BY <1>1, SeqIs
<1>6. DOMAIN gs = 1..(m + 1)
  BY <1>3
<1>7. /\ \A k \in 1..m \ {1} :
           FrameMeans(code, env, fs[k - 1], starts[k - 1], fs[k], starts[k], n, E)
      /\ FrameMeans(code, env, fs[m], starts[m], f, start, n, E)
  BY <1>1 DEF Stands, Last
<1> HIDE DEF gs, ss
<1>8. ASSUME NEW k \in 1..(m + 1) \ {1}
      PROVE  FrameMeans(code, env, gs[k - 1], ss[k - 1], gs[k], ss[k], n, E)
  <2>1. k - 1 \in 1..m
    BY <1>1
  <2>2. CASE k = m + 1
    <3>1. k - 1 = m /\ m \in 1..m
      BY <1>1, <1>5, <2>2
    <3>. QED
      BY <1>3, <1>4, <1>7, <2>2, <3>1
  <2>3. CASE k # m + 1
    <3>1. k \in 1..m \ {1}
      BY <1>1, <2>3
    <3>. QED
      BY <1>3, <1>4, <1>7, <2>1, <3>1
  <2>. QED
    BY <2>2, <2>3
<1>9. ss[1] = 1 /\ Last(ss) = start
  BY <1>1, <1>4, <1>5 DEF Last
<1>10. Stands(code, env, gs, ss, n, E)
  BY <1>3, <1>4, <1>6, <1>8, <1>9 DEF Stands
<1>. QED
  BY <1>2, <1>9, <1>10 DEF gs, ss

\* More tokens are consumed, and nodes are added.
LEMMA MoreStands ==
  ASSUME NEW code, NEW env, NEW fs, IsStack(fs), NEW starts, NEW n \in Nat, NEW E,
         Stands(code, env, fs, starts, n, E),
         NEW m \in Nat, n <= m, NEW F, \A i \in OpenLefts(fs) : F[i] = E[i]
  PROVE  Stands(code, env, fs, starts, m, F)
<1>1. fs \in Seq(Frame) /\ DOMAIN fs = 1..Len(fs)
  BY DEF IsStack
<1>2. ASSUME NEW k \in DOMAIN fs \ {1}
      PROVE  FrameMeans(code, env, fs[k - 1], starts[k - 1], fs[k], starts[k], m, F)
  <2>1. FrameMeans(code, env, fs[k - 1], starts[k - 1], fs[k], starts[k], n, E)
    BY DEF Stands
  <2>2. AwaitsRight(fs[k]) => F[fs[k].left] = E[fs[k].left]
    BY DEF OpenLefts
  <2>3. fs[k] \in Frame /\ \A i \in 1..n : i \in 1..m
    BY <1>1
  <2>4. fs[k].from \in Nat /\ starts[k] \in Int
    BY <2>1, <2>3 DEF Frame, FrameMeans
  <2>5. \A i \in starts[k]..n : i \in starts[k]..m
    BY <2>4
  <2>6. starts[k] \in 1..(n + 1) => starts[k] \in 1..(m + 1)
    OBVIOUS
  <2>. QED
    BY <2>1, <2>2, <2>3, <2>5, <2>6 DEF FrameMeans
<1>. QED
  BY <1>2 DEF Stands

LEMMA NextIs == \A n \in Nat : n + 1 \in Nat /\ n + 1 \in 1..(n + 1)
  OBVIOUS

\* A call that is to see the tokens from n + 1 on.
LEMMA PushDue ==
  ASSUME NEW code, NEW env, NEW fs, IsStack(fs), NEW n \in Nat, NEW E,
         NEW starts, Stands(code, env, fs, starts, n, E), Due(Last(fs), Last(starts)) = n + 1,
         NEW f \in Frame, ~AwaitsRight(f), f.at # "paren", Calling(Last(fs).at, f.at),
         f.at = "signed" => f.from = n + 1
  PROVE  /\ IsStack(fs \o <<f>>) /\ Last(fs \o <<f>>) = f
         /\ Stands(code, env, fs \o <<f>>, Append(starts, n + 1), n, E)
         /\ Last(Append(starts, n + 1)) = n + 1
<1>1. PICK start \in Nat : start = n + 1 /\ start \in 1..(n + 1)
  BY NextIs
<1>3. Due(Last(fs), Last(starts)) = start /\ (f.at = "signed" => f.from = start)
  BY <1>1
<1>4. FrameMeans(code, env, Last(fs), Last(starts), f, start, n, E)
  BY <1>1, <1>3 DEF FrameMeans
<1>5. /\ Stands(code, env, fs \o <<f>>, Append(starts, start), n, E)
      /\ Last(Append(starts, start)) = start
  BY <1>4, PushStands
<1>6. IsStack(fs \o <<f>>) /\ Last(fs \o <<f>>) = f
  BY PushPlain
<1>. QED
  BY <1>1, <1>5, <1>6

Consumed(n) == n = Len(read)

\* A new call of parse_signed, of parse_mul_div, and of parse_add_sub.
LEMMA SignedStands ==
  ASSUME IInv, NEW code, NEW env, NEW fs, IsStack(fs),
         Calling(Last(fs).at, "signed"),
         NEW n \in Nat, Consumed(n),
         NEW starts, NEW A, NEW E, Stands(code, env, fs, starts, n, E),
         Due(Last(fs), Last(starts)) = n + 1
  PROVE  \E all : /\ Stands(code, env, fs \o CallSigned, all, n, E)
                  /\ TopMeans(code, env, Last(fs \o CallSigned), Last(all), Nothing, n, A, E)
<1> DEFINE f == [Call("signed") EXCEPT !.from = n + 1]
<1>1. n + 1 \in Nat
  BY NextIs
<1>2. f \in Frame /\ f.at = "signed" /\ f.from = n + 1 /\ f.inverse = FALSE
  BY <1>1 DEF Call, Frame, Calls, BinaryTypes, AddSub
<1>3. ~AwaitsRight(f) /\ f.at # "paren" /\ Calling(Last(fs).at, f.at) /\ CallSigned = <<f>>
  BY <1>2 DEF AwaitsRight, CallSigned, Consumed
<1> HIDE DEF f
<1>4. /\ Stands(code, env, fs \o <<f>>, Append(starts, n + 1), n, E)
      /\ Last(Append(starts, n + 1)) = n + 1 /\ Last(fs \o <<f>>) = f
  BY <1>2, <1>3, PushDue
<1>5. SignsMean(code, env, f, n + 1)
  <2>1. f.from <= n + 1
    BY <1>1, <1>2
  <2>2. f.from..((n + 1) - 1) = {}
    BY <1>1, <1>2
  <2>. QED
    BY <1>2, <2>1, <2>2 DEF SignsMean, Signs
<1>6. TopMeans(code, env, f, n + 1, Nothing, n, A, E)
  BY <1>5 DEF TopMeans
<1>. QED
  BY <1>3, <1>4, <1>6

LEMMA ProductStands ==
  ASSUME IInv, NEW code, NEW env, NEW fs, IsStack(fs),
         Calling(Last(fs).at, "product"),
         NEW n \in Nat, Consumed(n),
         NEW starts, NEW A, NEW E, Stands(code, env, fs, starts, n, E),
         Due(Last(fs), Last(starts)) = n + 1
  PROVE  \E all : /\ Stands(code, env, fs \o CallProduct, all, n, E)
                  /\ TopMeans(code, env, Last(fs \o CallProduct), Last(all), Nothing, n, A, E)
<1> DEFINE f == Call("product")
<1>1. f \in Frame /\ f.at = "product"
  BY CallsAre DEF Calls
<1> HIDE DEF f
<1>2. ~AwaitsRight(f) /\ f.at \notin {"paren", "signed"} /\ Calling(Last(fs).at, f.at)
  BY <1>1 DEF AwaitsRight
<1>3. /\ Stands(code, env, fs \o <<f>>, Append(starts, n + 1), n, E)
      /\ Last(Append(starts, n + 1)) = n + 1
      /\ IsStack(fs \o <<f>>) /\ Last(fs \o <<f>>) = f
  BY <1>1, <1>2, PushDue
<1>4. Due(f, n + 1) = n + 1 /\ Calling(f.at, "signed")
  BY <1>1 DEF Due, Calling
<1>5. fs \o CallProduct = (fs \o <<f>>) \o CallSigned
  BY <1>1, PushFirst, SignedSeq DEF CallProduct, IsStack, f
<1>. QED
  BY <1>1, <1>3, <1>4, <1>5, SignedStands

LEMMA SumStands ==
  ASSUME IInv, NEW code, NEW env, NEW fs, IsStack(fs),
         Calling(Last(fs).at, "sum"),
         NEW n \in Nat, Consumed(n),
         NEW starts, NEW A, NEW E, Stands(code, env, fs, starts, n, E),
         Due(Last(fs), Last(starts)) = n + 1
  PROVE  \E all : /\ Stands(code, env, fs \o CallSum, all, n, E)
                  /\ TopMeans(code, env, Last(fs \o CallSum), Last(all), Nothing, n, A, E)
<1> DEFINE f == Call("sum")
<1>1. f \in Frame /\ f.at = "sum"
  BY CallsAre DEF Calls
<1> HIDE DEF f
<1>2. ~AwaitsRight(f) /\ f.at \notin {"paren", "signed"} /\ Calling(Last(fs).at, f.at)
  BY <1>1 DEF AwaitsRight
<1>3. /\ Stands(code, env, fs \o <<f>>, Append(starts, n + 1), n, E)
      /\ Last(Append(starts, n + 1)) = n + 1
      /\ IsStack(fs \o <<f>>) /\ Last(fs \o <<f>>) = f
  BY <1>1, <1>2, PushDue
<1>4. Due(f, n + 1) = n + 1 /\ Calling(f.at, "product")
  BY <1>1 DEF Due, Calling
<1>5. fs \o CallSum = (fs \o <<f>>) \o CallProduct
  <2>1. CallProduct \in Seq(Frame)
    <3>1. Call("product") \in Frame
      BY CallsAre DEF Calls
    <3>2. <<Call("product")>> \in Seq(Frame)
      BY <3>1
    <3>. QED
      BY <3>2, SignedSeq, ConcatProperties DEF CallProduct
  <2>. QED
    BY <1>1, <2>1, PushFirst DEF CallSum, IsStack, f
<1>. QED
  BY <1>1, <1>3, <1>4, <1>5, ProductStands


Meant(code, env) ==
  IF Ended
  THEN Means(code, env, "sum", 1, Taken) = {Evaluated(env)[Len(nodes)]}
  ELSE \E starts :
         /\ Stands(code, env, frames, starts, Taken, Evaluated(env))
         /\ TopMeans(code, env, Last(frames), Last(starts), result, Taken,
                     ArgValues(env), Evaluated(env))

\* The call of parse_slice has not got past the argument names.
AtStart == frames # <<>> /\ frames[1].at = "arguments"

Distinct(s) == \A i, j \in DOMAIN s : s[i] = s[j] => i = j

Sound ==
  state # "ERROR" =>
    /\ AtStart => read = <<>>
    /\ state = "DONE" => read # <<>> /\ token = Eof
    /\ ~AtStart =>
         /\ args \in Seq(Identifiers) /\ Distinct(args)
         /\ \A code, env :
              Continues(code) /\ env \in [Identifiers -> Long] => Meant(code, env)

LEMMA TakenIs ==
  ASSUME IInv
  PROVE  /\ state = "PENDING" => Taken = Len(read) /\ Taken \in Nat
         /\ state = "READY" =>
              /\ Taken = Len(read) - 1 /\ Taken \in Nat /\ Taken + 1 = Len(read)
              /\ read # <<>> /\ token = read[Taken + 1]
<1>1. read \in Seq(Tokens \cup {Eof}) /\ Len(read) \in Nat
  BY TokensRead DEF IInv, TokensOK
<1>2. state = "READY" => read # <<>> /\ Len(read) # 0
  BY <1>1, SeqIs DEF IInv, TokensOK
<1>. QED
  BY <1>1, <1>2 DEF Taken, token

\* The numbers in the tokens are no larger than a long.
LEMMA TokenNumbers ==
  ASSUME NEW t \in Tokens \cup {Eof}
  PROVE  /\ t.type \in BinaryTypes \cup {"(", ")", "INT", "IDENT", "EOF"}
         /\ t.type = "INT" => t.value \in 0..LONG_MAX /\ t.value \in Long
         /\ t.type = "IDENT" => t.value \in Identifiers
         /\ t.type \in BinaryTypes \cup {"(", ")", "EOF"} => t = Token(t.type)
<1>1. Numbers \subseteq 0..LONG_MAX /\ 0..LONG_MAX \subseteq Long
  BY ParserAssumption, LongIs
<1>2. BinaryTypes = {"ADD", "SUB", "MUL", "DIV"}
  BY DEF BinaryTypes, AddSub, MulDiv
<1>3. CASE t \in {Token(type) : type \in BinaryTypes \cup {"(", ")"}} \/ t = Eof
  <2>1. PICK type \in {"ADD", "SUB", "MUL", "DIV", "(", ")", "EOF"} : t = Token(type)
    BY <1>2, <1>3 DEF Eof
  <2>2. t.type = type
    BY <2>1 DEF Token
  <2>. QED
    BY <1>2, <2>1, <2>2
<1>4. CASE t \in {[type |-> "INT", value |-> number] : number \in Numbers}
  BY <1>1, <1>2, <1>4
<1>5. CASE t \in {[type |-> "IDENT", value |-> name] : name \in Identifiers}
  BY <1>2, <1>5
<1>. QED
  BY <1>3, <1>4, <1>5 DEF Tokens

LEMMA ContinuesIs ==
  ASSUME NEW code, Continues(code), NEW env \in [Identifiers -> Long]
  PROVE  Len(code) \in Nat /\ Moderate(code, env) /\ Readable(code, env)
<1>1. /\ Len(code) \in Nat /\ \A k \in 1..Len(code) : code[k] \in Words
  BY SeqIs DEF Continues
<1>2. One.type = "INT" /\ One.value \in Long
  BY LongAssumption, LongIs DEF One, Long
<1>3. Moderate(code, env)
  BY <1>1, <1>2, TokenNumbers DEF Moderate, Words
<1>. QED
  BY <1>1, <1>3, MeaningsAreValues

\* A step that reads no token, and may consume one.
LEMMA ContinuedBefore ==
  ASSUME IInv, ~Stopped, read' = read, state' \in {state, "PENDING"},
         NEW code, Continues(code)'
  PROVE  /\ Continues(code)
         /\ state' = state => Taken' = Taken
         /\ state = "READY" /\ state' = "PENDING" =>
              /\ Taken' = Taken + 1 /\ Taken' = Len(read)
              /\ Taken + 1 \in 1..Len(code) /\ code[Taken + 1] = token
         /\ Taken \in Nat /\ Taken <= Len(code)
<1>1. state \in {"PENDING", "READY"}
  BY DEF IInv, TokensOK, Stopped
<1>2. /\ code \in Seq(Words) /\ Len(code) \in Nat
      /\ Taken' <= Len(code) /\ \A k \in 1..(Taken') : code[k] = read[k]
  BY SeqIs DEF Continues
<1>3. CASE state' = state
  <2>1. Taken' = Taken
    BY <1>3 DEF Taken
  <2>2. Taken \in Nat
    BY <1>1, TakenIs
  <2>. QED
    BY <1>2, <1>3, <2>1, <2>2 DEF Continues
<1>4. CASE state = "READY" /\ state' = "PENDING"
  <2>1. /\ Taken' = Len(read) /\ Taken + 1 = Len(read) /\ Taken \in Nat
        /\ token = read[Taken + 1]
    BY <1>4, TakenIs DEF Taken
  <2>2. Taken' = Taken + 1 /\ Taken <= Len(code)
    BY <1>2, <2>1
  <2>3. Taken + 1 \in 1..(Taken') /\ \A k \in 1..Taken : k \in 1..(Taken')
    BY <2>1, <2>2
  <2>4. Continues(code)
    BY <1>2, <2>2, <2>3 DEF Continues
  <2>5. Taken + 1 \in 1..Len(code)
    BY <1>2, <2>1, <2>2
  <2>. QED
    BY <1>2, <1>4, <2>1, <2>2, <2>3, <2>4, <2>5
<1>. QED
  BY <1>1, <1>3, <1>4

-----------------------------------------------------------------------------
LEMMA SeqDomain ==
  ASSUME NEW S, NEW s \in Seq(S)
  PROVE  DOMAIN s = 1..Len(s) /\ Len(s) \in Nat /\ \A i \in 1..Len(s) : s[i] \in S
  OBVIOUS

LEMMA SolvedBy ==
  ASSUME NEW ns \in Seq(NodeRecord), NEW as \in Seq(Identifiers), IsAst(ns, Len(as)),
         ChildBeforeParent(ns), NEW env \in [Identifiers -> Long],
         NEW A, A = [i \in DOMAIN as |-> env[as[i]]]
  PROVE  /\ Acyclic(ns) /\ Closed(ns, DOMAIN ns)
         /\ A \in [1..Len(as) -> Long]
         /\ Solves(ns, A, NodeEval(ns, A))
<1>1. DOMAIN as = 1..Len(as) /\ \A i \in 1..Len(as) : as[i] \in Identifiers
  BY SeqDomain
<1>2. A \in [1..Len(as) -> Long]
  BY <1>1
<1>3. Acyclic(ns) /\ Closed(ns, DOMAIN ns)
  BY ParsedIsAcyclic
<1>4. /\ NodeEval(ns, A) \in [DOMAIN ns -> Value]
      /\ \A i \in DOMAIN ns : NodeEval(ns, A)[i] = NodeValue(ns[i], A, NodeEval(ns, A))
  <2>1. PICK argc, B : argc = Len(as) /\ B = A
    OBVIOUS
  <2>2. IsAst(ns, argc) /\ B \in [1..argc -> Long] /\ Acyclic(ns) /\ ns \in Seq(NodeRecord)
    BY <1>2, <1>3, <2>1
  <2>3. /\ NodeEval(ns, B) \in [DOMAIN ns -> Value]
        /\ \A i \in DOMAIN ns : NodeEval(ns, B)[i] = NodeValue(ns[i], B, NodeEval(ns, B))
    BY <2>2, NodeEvalIs, Zenon
  <2>. QED
    BY <2>1, <2>3
<1>5. Solves(ns, A, NodeEval(ns, A))
  BY <1>4, Zenon DEF Solves
<1>. QED
  BY <1>2, <1>3, <1>5

LEMMA ValuesAre ==
  ASSUME Whole, args \in Seq(Identifiers), NEW env \in [Identifiers -> Long]
  PROVE  /\ Acyclic(nodes) /\ Closed(nodes, DOMAIN nodes) /\ IsAst(nodes, ArgCount)
         /\ ArgValues(env) \in [1..ArgCount -> Long]
         /\ Solves(nodes, ArgValues(env), Evaluated(env))
<1>1. nodes \in Seq(NodeRecord) /\ IsAst(nodes, Len(args)) /\ ArgCount = Len(args)
  BY DEF Whole, IInv, NodesOK, ArgCount
<1>2. ChildBeforeParent(nodes)
  <2>1. AsForest!ChildBeforeParent(nodes)
    BY DEF Whole, AsForest!ForestShaped
  <2>. QED
    BY <2>1, SameNodes DEF AsForest!ChildBeforeParent, ChildBeforeParent
<1>. QED
  BY <1>1, <1>2, SolvedBy DEF ArgValues, Evaluated

\* Appending a node adds its value to those of the others.
LEMMA ValuesGrow ==
  ASSUME Whole, Whole', args \in Seq(Identifiers), args' = args,
         NEW env \in [Identifiers -> Long],
         result # Nothing, nodes' = Append(nodes, result.node)
  PROVE  /\ Len(nodes) \in Nat /\ Len(nodes') = Len(nodes) + 1
         /\ ArgValues(env)' = ArgValues(env)
         /\ \A i \in 1..Len(nodes) : Evaluated(env)'[i] = Evaluated(env)[i]
         /\ Evaluated(env)'[Len(nodes) + 1]
              = NodeValue(result.node, ArgValues(env), Evaluated(env))
<1> DEFINE n == Len(nodes)
           f == Evaluated(env)
           g == Evaluated(env)'
           A == ArgValues(env)
<1>1. /\ n \in Nat /\ Len(nodes') = n + 1 /\ nodes'[n + 1] = result.node
      /\ \A i \in 1..n : nodes'[i] = nodes[i]
  BY NodesGrow DEF Whole
<1>2. ArgValues(env)' = A
  BY DEF ArgValues
<1>3. /\ Acyclic(nodes) /\ Closed(nodes, DOMAIN nodes) /\ IsAst(nodes, ArgCount)
      /\ Solves(nodes, A, f)
  BY ValuesAre
<1>4. Solves(nodes', A, g)
  <2>1. nodes' \in Seq(NodeRecord) /\ IsAst(nodes', Len(args)) /\ AsForest!ChildBeforeParent(nodes')
    BY DEF Whole, IInv, NodesOK, ArgCount, AsForest!ForestShaped
  <2>2. ChildBeforeParent(nodes')
    BY <2>1, SameNodes DEF AsForest!ChildBeforeParent, ChildBeforeParent
  <2>3. Solves(nodes', A, NodeEval(nodes', A))
    BY <2>1, <2>2, SolvedBy DEF ArgValues
  <2>. QED
    BY <1>2, <2>3 DEF Evaluated
<1>5. DOMAIN nodes = 1..n /\ DOMAIN nodes' = 1..(n + 1)
  <2>1. nodes \in Seq(NodeRecord) /\ nodes' \in Seq(NodeRecord)
    BY DEF Whole, IInv, NodesOK
  <2>. QED
    BY <1>1, <2>1
<1>6. \A i \in 1..n : g[i] = f[i]
  <2>1. \A i \in DOMAIN nodes : i \in DOMAIN nodes' /\ nodes'[i] = nodes[i]
    BY <1>1, <1>5
  <2>2. \A i \in DOMAIN nodes : f[i] = g[i]
    <3> DEFINE D == DOMAIN nodes
    <3>1. Closed(nodes, D) /\ \A i \in D : i \in DOMAIN nodes' /\ nodes'[i] = nodes[i]
      BY <1>3, <2>1
    <3>2. Acyclic(nodes) /\ IsAst(nodes, ArgCount) /\ Solves(nodes, A, f)
      BY <1>3
    <3>4. \A i \in D : i \in DOMAIN nodes' /\ nodes'[i] = nodes[i]
      BY <2>1
    <3> HIDE DEF f, g, A, D
    <3>5. PICK new, h, c : /\ new = nodes' /\ h = g /\ c = ArgCount
      OBVIOUS
    <3>6. Solves(new, A, h) /\ IsAst(nodes, c) /\ \A i \in D : i \in DOMAIN new /\ new[i] = nodes[i]
      BY <1>4, <3>2, <3>4, <3>5
    <3>7. /\ IsAst(nodes, c) /\ Acyclic(nodes) /\ Closed(nodes, D)
          /\ Solves(nodes, A, f) /\ Solves(new, A, h)
          /\ \A i \in D : i \in DOMAIN new /\ new[i] = nodes[i]
      BY <3>1, <3>2, <3>6
    <3>8. \A i \in D : f[i] = h[i]
      BY <3>7, UntouchedKeepValues
    <3>3. \A i \in D : f[i] = g[i]
      BY <3>5, <3>8
    <3>. QED
      BY <3>3 DEF D
  <2>. QED
    BY <1>5, <2>2
<1>7. g[n + 1] = NodeValue(result.node, A, g)
  BY <1>1, <1>4, <1>5 DEF Solves
<1>8. NodeValue(result.node, A, g) = NodeValue(result.node, A, f)
  <2>1. IsNode(result.node, n, ArgCount)
    BY DEF Whole, IInv, ResultOK, IsResult, ArgCount
  <2>2. Children(result.node) \subseteq 1..n
    BY <2>1, NodeIs DEF NodeTypes
  <2>3. \A j \in Children(result.node) : g[j] = f[j]
    BY <1>6, <2>2
  <2> HIDE DEF f, g, A, n
  <2>. QED
    BY <2>1, <2>3, SameNodeValue
<1>. QED
  BY <1>1, <1>2, <1>6, <1>7, <1>8

\* The node on its way has a value.
LEMMA ResultHasValue ==
  ASSUME Whole, args \in Seq(Identifiers), NEW env \in [Identifiers -> Long], result # Nothing
  PROVE  NodeValue(result.node, ArgValues(env), Evaluated(env)) \in Value
<1>1. IsNode(result.node, Len(nodes), ArgCount) /\ nodes \in Seq(NodeRecord)
  BY DEF Whole, IInv, ResultOK, IsResult, NodesOK
<1>2. Children(result.node) \subseteq 1..Len(nodes) /\ DOMAIN nodes = 1..Len(nodes)
  BY <1>1, NodeIs DEF NodeTypes
<1>3. Evaluated(env) \in [DOMAIN nodes -> Value]
  BY ValuesAre DEF Solves
<1>4. \A j \in Children(result.node) : Evaluated(env)[j] \in Value
  BY <1>2, <1>3
<1>. QED
  BY <1>1, <1>4, ValuesAre, NodeValueIsValue

LEMMA MeantNow ==
  ASSUME IInv, ~Stopped, ~Ended, NEW code, NEW env, Meant(code, env)
  PROVE  \E starts :
           /\ Stands(code, env, frames, starts, Taken, Evaluated(env))
           /\ TopMeans(code, env, Top, Last(starts), result, Taken, ArgValues(env), Evaluated(env))
           /\ Last(starts) \in 1..(Taken + 1) /\ Last(starts) \in Nat
           /\ Top.at \in Bottom => Last(starts) = 1
<1>1. IsStack(frames) /\ Top = Last(frames) /\ Taken \in Nat
  BY StackInUse, TakenIs DEF Stopped, IInv, TokensOK
<1>2. PICK starts :
         /\ Stands(code, env, frames, starts, Taken, Evaluated(env))
         /\ TopMeans(code, env, Last(frames), Last(starts), result, Taken,
                     ArgValues(env), Evaluated(env))
  BY DEF Meant
<1>3. CASE Top.at \in Bottom
  <2>1. /\ frames \in Seq(Frame) /\ Len(frames) \in Nat /\ DOMAIN frames = 1..Len(frames)
        /\ frames # <<>>
    BY <1>1, SeqDomain DEF IsStack
  <2>2. Len(frames) = 1
    <3>1. SUFFICES ASSUME Len(frames) # 1 PROVE FALSE
      OBVIOUS
    <3>2. Len(frames) \in DOMAIN frames \ {1}
      BY <2>1, <3>1, SeqIs
    <3>3. Calling(frames[Len(frames) - 1].at, Top.at)
      BY <1>1, <3>2 DEF IsStack, Last
    <3>. QED
      BY <1>3, <3>3 DEF Calling, Bottom
  <2>3. Last(starts) = 1
    BY <1>2, <2>2 DEF Stands, Last
  <2>4. 1 \in 1..(Taken + 1)
    BY <1>1
  <2>. QED
    BY <1>1, <1>2, <2>3, <2>4
<1>4. CASE Top.at \notin Bottom
  <2>1. FrameMeans(code, env, Last(Below(frames)), Last(Below(starts)), Last(frames), Last(starts),
                   Taken, Evaluated(env))
    BY <1>1, <1>2, <1>4, PopStands
  <2>2. Last(starts) \in 1..(Taken + 1)
    BY <2>1 DEF FrameMeans
  <2>3. Last(starts) \in Nat
    BY <2>2
  <2>. QED
    BY <1>1, <1>2, <1>4, <2>2, <2>3
<1>. QED
  BY <1>3, <1>4

LEMMA MeantThen ==
  ASSUME NEW code, NEW env, ~Ended', NEW starts,
         Stands(code, env, frames', starts, Taken', Evaluated(env)'),
         TopMeans(code, env, Last(frames'), Last(starts), result', Taken',
                  ArgValues(env)', Evaluated(env)')
  PROVE  Meant(code, env)'
  BY DEF Meant

LEMMA SameValuesThen ==
  ASSUME UNCHANGED <<args, nodes>>, NEW env
  PROVE  ArgValues(env)' = ArgValues(env) /\ Evaluated(env)' = Evaluated(env)
  BY DEF ArgValues, Evaluated

LEMMA PeekContinues ==
  ASSUME Whole, Peek
  PROVE  Taken' = Taken /\ \A code : Continues(code)' => Continues(code)
<1>1. /\ read \in Seq(Tokens \cup {Eof}) /\ Len(read) \in Nat
  BY TokensRead DEF Whole, IInv, TokensOK
<1>2. PICK next : read' = Append(read, next)
  BY DEF Peek
<1>3. state = "PENDING" /\ state' = "READY"
  BY DEF Peek
<1>4. Len(read') = Len(read) + 1 /\ \A k \in 1..Len(read) : read'[k] = read[k]
  BY <1>1, <1>2, LastIs
<1>5. Taken = Len(read) /\ Taken' = Taken
  BY <1>1, <1>3, <1>4 DEF Taken
<1>6. ASSUME NEW code, Continues(code)'
      PROVE  Continues(code)
  BY <1>4, <1>5, <1>6 DEF Continues
<1>. QED
  BY <1>5, <1>6

LEMMA PeekMeans ==
  ASSUME Whole, Peek, NEW code, NEW env, Meant(code, env)
  PROVE  Meant(code, env)'
<1>3. UNCHANGED <<args, error, nodes, frames, result>>
  BY DEF Peek
<1>5. Taken' = Taken
  BY PeekContinues
<1>7. ArgValues(env)' = ArgValues(env) /\ Evaluated(env)' = Evaluated(env)
  BY <1>3, SameValuesThen
<1>8. Ended' <=> Ended
  BY <1>3 DEF Ended
<1>11. ~Ended' <=> ~Ended
  BY <1>3 DEF Ended
<1>9. CASE Ended
  <2>1. Means(code, env, "sum", 1, Taken) = {Evaluated(env)[Len(nodes)]}
    BY <1>9 DEF Meant
  <2>2. Means(code, env, "sum", 1, Taken') = {Evaluated(env)'[Len(nodes')]}
    BY <1>3, <1>5, <1>7, <2>1
  <2>3. Ended'
    BY <1>8, <1>9
  <2>. QED
    BY <2>2, <2>3 DEF Meant
<1>10. CASE ~Ended
  <2>1. PICK starts :
          /\ Stands(code, env, frames, starts, Taken, Evaluated(env))
          /\ TopMeans(code, env, Last(frames), Last(starts), result, Taken,
                      ArgValues(env), Evaluated(env))
    BY <1>10 DEF Meant
  <2>2. /\ Stands(code, env, frames', starts, Taken', Evaluated(env)')
        /\ TopMeans(code, env, Last(frames'), Last(starts), result', Taken',
                    ArgValues(env)', Evaluated(env)')
    BY <1>3, <1>5, <1>7, <2>1
  <2>. QED
    BY <1>10, <1>11, <2>2, MeantThen
<1>. QED
  BY <1>9, <1>10

-----------------------------------------------------------------------------
\* parse_signed
LEMMA SignsFlip ==
  ASSUME NEW inverse \in BOOLEAN, NEW as \in SUBSET Value
  PROVE  Signs(inverse, Negated(as)) = Signs(~inverse, as)
<1>1. Negated(Negated(as)) = as
  BY NegatedTwice
<1>. QED
  BY <1>1 DEF Signs

LEMMA SignGoesOn ==
  ASSUME NEW code, NEW env, Moderate(code, env), NEW f \in Frame, NEW n \in Nat,
         n + 1 \in 1..Len(code), code[n + 1].type \in AddSub, SignsMean(code, env, f, n + 1),
         NEW g, g.from = f.from, g.inverse = (f.inverse # (code[n + 1].type = "SUB"))
  PROVE  SignsMean(code, env, g, (n + 1) + 1)
<1>1. f.from \in Nat /\ f.inverse \in BOOLEAN
  BY DEF Frame
<1>2. g.from <= (n + 1) + 1
  <2>1. f.from <= n + 1
    BY DEF SignsMean
  <2>. QED
    BY <1>1, <2>1
<1>3. /\ Readable(code, env) /\ "signed" \in Parts
      /\ (n + 1) + 1 \in 1..(Len(code) + 1)
  BY MeaningsAreValues, RulesAre DEF Moderate
<1>4. ASSUME NEW j \in 0..Len(code)
      PROVE  Means(code, env, "signed", g.from, j)
               = Signs(g.inverse, Means(code, env, "signed", (n + 1) + 1, j))
  <2> DEFINE M == Means(code, env, "signed", (n + 1) + 1, j)
             N == Means(code, env, "signed", n + 1, j)
  <2>1. Means(code, env, "signed", g.from, j) = Signs(f.inverse, N)
    BY <1>4 DEF SignsMean
  <2>2. M \in SUBSET Value
    BY <1>3, MeaningsAreValues
  <2>3. /\ code[n + 1].type = "ADD" => N = M
        /\ code[n + 1].type = "SUB" => N = Negated(M)
    BY <1>3, SignedIs
  <2> HIDE DEF M, N
  <2>4. CASE code[n + 1].type = "ADD"
    <3>1. g.inverse = f.inverse
      BY <1>1, <2>4
    <3>. QED
      BY <2>1, <2>3, <2>4, <3>1 DEF M
  <2>5. CASE code[n + 1].type = "SUB"
    <3>1. g.inverse = ~f.inverse
      BY <1>1, <2>5
    <3>2. Signs(f.inverse, Negated(M)) = Signs(~f.inverse, M)
      BY <1>1, <2>2, SignsFlip
    <3>. QED
      BY <2>1, <2>3, <2>5, <3>1, <3>2 DEF M
  <2>. QED
    BY <2>4, <2>5 DEF AddSub
<1>5. \A k \in g.from..(((n + 1) + 1) - 1) : code[k].type \in AddSub
  <2>1. \A k \in g.from..(((n + 1) + 1) - 1) : k \in f.from..((n + 1) - 1) \/ k = n + 1
    BY <1>1
  <2>. QED
    BY <2>1 DEF SignsMean
<1>. QED
  BY <1>2, <1>4, <1>5 DEF SignsMean

LEMMA SignMeans ==
  ASSUME Whole, Sign, NEW code, NEW env \in [Identifiers -> Long],
         Continues(code)', Meant(code, env)
  PROVE  Meant(code, env)'
<1> DEFINE f == [Top EXCEPT !.inverse = (@ # (token.type = "SUB"))]
           n == Taken
           E == Evaluated(env)
<1>1. /\ ~Stopped /\ Top.at = "signed" /\ result = Nothing
      /\ state = "READY" /\ token.type \in AddSub
  BY DEF Sign, Running, Sees, AddSub
<1>2. /\ IsStack(frames) /\ Top = Last(frames) /\ Top \in Frame /\ Callers = Below(frames) /\ IInv
  BY <1>1, StackInUse DEF Whole
<1>3. /\ frames' = Callers \o <<f>>
      /\ state' = "PENDING" /\ UNCHANGED <<args, read, nodes, result>>
  BY DEF Sign, Consume
<1>4. /\ Continues(code) /\ Taken' = n + 1 /\ n \in Nat
      /\ n + 1 \in 1..Len(code) /\ code[n + 1] = token
  BY <1>1, <1>2, <1>3, ContinuedBefore
<1>5. Moderate(code, env)
  BY <1>4, ContinuesIs
<1>6. ~Ended
  BY <1>1, <1>2 DEF Ended, IsStack
<1>7. PICK starts :
        /\ Stands(code, env, frames, starts, n, E)
        /\ TopMeans(code, env, Top, Last(starts), result, n, ArgValues(env), E)
        /\ Last(starts) \in 1..(n + 1) /\ Last(starts) \in Nat
  BY <1>1, <1>2, <1>6, MeantNow
<1>8. f \in Frame /\ f.at = "signed" /\ f.from = Top.from
      /\ f.inverse = (Top.inverse # (token.type = "SUB"))
  BY <1>1, <1>2 DEF Frame
<1>9. ~AwaitsRight(f) /\ Top.at \notin Bottom
  BY <1>1, <1>8 DEF AwaitsRight, Bottom
<1>10. ArgValues(env)' = ArgValues(env) /\ Evaluated(env)' = E
  BY <1>3, SameValuesThen
<1> HIDE DEF f, n, E
<1>11. /\ IsStack(Callers) /\ Calling(Last(Callers).at, "signed")
       /\ Stands(code, env, Callers, Below(starts), n, E)
       /\ FrameMeans(code, env, Last(Callers), Last(Below(starts)), Top, Last(starts), n, E)
  BY <1>1, <1>2, <1>7, <1>9, PopStands
<1>12. FrameMeans(code, env, Last(Callers), Last(Below(starts)), f, Last(starts), n, E)
  BY <1>1, <1>8, <1>9, <1>11 DEF FrameMeans
<1>13. /\ Stands(code, env, Callers \o <<f>>, Append(Below(starts), Last(starts)), n, E)
       /\ Last(Append(Below(starts), Last(starts))) = Last(starts)
       /\ IsStack(Callers \o <<f>>) /\ Last(Callers \o <<f>>) = f
  BY <1>7, <1>8, <1>9, <1>11, <1>12, PushStands, PushPlain
<1>14. Stands(code, env, Callers \o <<f>>, Append(Below(starts), Last(starts)), n + 1, E)
  BY <1>4, <1>13, MoreStands
<1>15. SignsMean(code, env, f, (n + 1) + 1)
  <2>1. SignsMean(code, env, Top, n + 1)
    BY <1>1, <1>7 DEF TopMeans
  <2>. QED
    BY <1>1, <1>2, <1>4, <1>5, <1>8, <2>1, SignGoesOn
<1>16. TopMeans(code, env, f, Last(starts), Nothing, n + 1, ArgValues(env), E)
  BY <1>15 DEF TopMeans
<1>17. ~Ended'
  BY <1>3, <1>8, <1>13 DEF Ended, IsStack
<1>. QED
  BY <1>1, <1>3, <1>4, <1>10, <1>13, <1>14, <1>16, <1>17, MeantThen

\* What a parse_signed that has got past its signs has to know of a part.
LEMMA SignedPart ==
  ASSUME NEW code, NEW env, Readable(code, env), NEW f, NEW cut \in 1..Len(code),
         SignsMean(code, env, f, cut), code[cut].type \notin AddSub,
         NEW j \in 0..Len(code)
  PROVE  Means(code, env, "signed", f.from, j) = Signs(f.inverse, Means(code, env, "atom", cut, j))
<1>1. Means(code, env, "signed", cut, j) = Means(code, env, "atom", cut, j)
  BY SignedIs
<1>. QED
  BY <1>1 DEF SignsMean

LEMMA AtomMeans ==
  ASSUME Whole, Running("signed"), state = "READY", NEW node, ReturnAtom(node),
         NEW code, NEW env \in [Identifiers -> Long], Continues(code)', Meant(code, env),
         Result(node, Len(read), Len(read)) # Nothing,
         token.type \in {"INT", "IDENT"},
         NodeValue(node, ArgValues(env), Evaluated(env))
           = IF token.type = "INT" THEN token.value ELSE env[token.value]
  PROVE  Meant(code, env)'
<1> DEFINE n == Taken
           E == Evaluated(env)
           A == ArgValues(env)
           v == IF token.type = "INT" THEN token.value ELSE env[token.value]
<1>1. ~Stopped /\ Top.at = "signed" /\ result = Nothing
  BY DEF Running
<1>2. /\ IsStack(frames) /\ Top = Last(frames) /\ Top \in Frame /\ IInv
  BY <1>1, StackInUse DEF Whole
<1>3. /\ result' = Result(node, Len(read), Len(read))
      /\ state' = "PENDING" /\ UNCHANGED <<args, read, nodes, frames>>
  BY DEF ReturnAtom, Consume
<1>4. /\ Continues(code) /\ Taken' = n + 1 /\ n \in Nat
      /\ n + 1 \in 1..Len(code) /\ code[n + 1] = token
  BY <1>2, <1>1, <1>3, ContinuedBefore
<1>5. Readable(code, env) /\ Len(code) \in Nat
  BY <1>4, ContinuesIs
<1>6. ~Ended
  BY <1>1, <1>2 DEF Ended, IsStack
<1>7. PICK starts :
        /\ Stands(code, env, frames, starts, n, E)
        /\ TopMeans(code, env, Top, Last(starts), result, n, A, E)
  BY <1>1, <1>2, <1>6, MeantNow
<1>8. Top.at \notin Bottom
  BY <1>1 DEF Bottom
<1>9. A = ArgValues(env)' /\ E = Evaluated(env)'
  BY <1>3, SameValuesThen
<1>10. result'.node = node /\ result' # Nothing /\ NodeValue(node, A, E) = v
  BY <1>3 DEF Result
<1> HIDE DEF n, E, A, v
<1>11. FrameMeans(code, env, Last(Below(frames)), Last(Below(starts)), Top, Last(starts), n, E)
  BY <1>2, <1>7, <1>8, PopStands
<1>12. Top.from = Last(starts)
  BY <1>1, <1>11 DEF FrameMeans
<1>13. n + 1 \in 0..Len(code) /\ n + 1 \in 1..(Len(code) + 1)
  BY <1>4, <1>5
<1>14. Means(code, env, "atom", n + 1, n + 1) = {v}
  <2>1. PICK m \in 1..Len(code) : m = n + 1
    BY <1>4
  <2>2. m \in 0..Len(code) /\ m \in 1..(Len(code) + 1) /\ m <= m
    BY <1>5
  <2>3. Means(code, env, "atom", m, m) =
                       CASE code[m].type = "INT"   -> {code[m].value}
                         [] code[m].type = "IDENT" -> {env[code[m].value]}
                         [] OTHER                  -> {}
    BY <1>5, <2>2, AtomIs
  <2>4. CASE token.type = "INT"
    BY <1>4, <2>1, <2>3, <2>4 DEF v
  <2>5. CASE token.type = "IDENT"
    BY <1>4, <2>1, <2>3, <2>5 DEF v
  <2>. QED
    BY <2>4, <2>5
<1>15. Means(code, env, "signed", Top.from, n + 1) = Signs(Top.inverse, {v})
  <2>1. SignsMean(code, env, Top, n + 1)
    BY <1>1, <1>7 DEF TopMeans
  <2>2. code[n + 1].type \notin AddSub
    BY <1>4 DEF AddSub
  <2>3. PICK m \in 1..Len(code) : m = n + 1
    BY <1>4
  <2>4. m \in 0..Len(code)
    BY <1>5
  <2>5. Means(code, env, "signed", Top.from, m) = Signs(Top.inverse, Means(code, env, "atom", m, m))
    <3>1. SignsMean(code, env, Top, m) /\ code[m].type \notin AddSub
      BY <2>1, <2>2, <2>3
    <3>. QED
      BY <1>5, <2>4, <3>1, SignedPart
  <2>. QED
    BY <1>14, <2>3, <2>5
<1>16. TopMeans(code, env, Top, Last(starts), result', n + 1, A, E)
  BY <1>1, <1>10, <1>12, <1>15 DEF TopMeans
<1>17. Stands(code, env, frames, starts, n + 1, E)
  BY <1>2, <1>4, <1>7, MoreStands
<1>18. ~Ended'
  BY <1>3, <1>6 DEF Ended
<1>. QED
  BY <1>2, <1>3, <1>4, <1>9, <1>16, <1>17, <1>18, MeantThen

LEMMA AtomIntMeans ==
  ASSUME Whole, AtomInt, NEW code, NEW env \in [Identifiers -> Long],
         Continues(code)', Meant(code, env)
  PROVE  Meant(code, env)'
<1> DEFINE v == token.value
           node == IntNode(v)
<1>1. Running("signed") /\ state = "READY" /\ token.type = "INT" /\ ReturnAtom(node)
  BY DEF AtomInt, Sees
<1>2. v \in 0..LONG_MAX /\ IInv
  BY <1>1, TokenIs, TokenNumbers DEF Whole
<1>3. node.type = "INT" /\ node.num = v
  BY DEF IntNode
<1>4. v \in Int
  BY <1>2, LongIs
<1>5. node \in NodeRecord
  BY <1>4 DEF IntNode, NodeRecord, NodeTypes
<1> HIDE DEF node
<1>6. NodeValue(node, ArgValues(env), Evaluated(env)) = v
  BY <1>3 DEF NodeValue, BinaryTypes, AddSub, MulDiv
<1>7. Result(node, Len(read), Len(read)) # Nothing
  BY <1>2, <1>5, SomeResult, TokensRead
<1>. QED
  BY <1>1, <1>5, <1>6, <1>7, AtomMeans

LEMMA AtomVarMeans ==
  ASSUME Whole, AtomVar, NEW code, NEW env \in [Identifiers -> Long],
         Continues(code)', Meant(code, env)
  PROVE  Meant(code, env)'
<1>1. Running("signed") /\ state = "READY" /\ token.type = "IDENT"
  BY DEF AtomVar, Sees
<1>2. PICK arg \in DOMAIN args : args[arg] = token.value /\ ReturnAtom(VarNode(arg))
  BY DEF AtomVar
<1> DEFINE node == VarNode(arg)
<1>3. node.type = "VAR" /\ node.num = arg
  BY DEF VarNode
<1>4. arg \in Int /\ IInv
  <2>1. args \in Seq(Names)
    BY DEF Whole, IInv, NodesOK
  <2>. QED
    BY <2>1, SeqDomain DEF Whole
<1>5. node \in NodeRecord
  BY <1>4 DEF VarNode, NodeRecord, NodeTypes
<1>6. ArgValues(env)[arg] = env[token.value]
  BY <1>2 DEF ArgValues
<1> HIDE DEF node
<1>7. NodeValue(node, ArgValues(env), Evaluated(env)) = env[token.value]
  BY <1>3, <1>6 DEF NodeValue, BinaryTypes, AddSub, MulDiv
<1>8. Result(node, Len(read), Len(read)) # Nothing
  BY <1>4, <1>5, SomeResult, TokensRead
<1>9. ReturnAtom(node)
  BY <1>2 DEF node
<1>. QED
  BY <1>1, <1>5, <1>7, <1>8, <1>9, AtomMeans

LEMMA OpenParenMeans ==
  ASSUME Whole, OpenParen, NEW code, NEW env \in [Identifiers -> Long],
         Continues(code)', Meant(code, env)
  PROVE  Meant(code, env)'
<1> DEFINE f == [Call("paren") EXCEPT !.from = Len(read)]
           n == Taken
           m == n + 1
           E == Evaluated(env)
           A == ArgValues(env)
<1>1. /\ ~Stopped /\ Top.at = "signed" /\ result = Nothing
      /\ state = "READY" /\ token.type = "("
  BY DEF OpenParen, Running, Sees
<1>2. /\ IsStack(frames) /\ Top = Last(frames) /\ Top \in Frame /\ IInv
  BY <1>1, StackInUse DEF Whole
<1>3. /\ frames' = frames \o <<f>> \o CallSum
      /\ state' = "PENDING" /\ UNCHANGED <<args, read, nodes, result>>
  BY DEF OpenParen, Consume
<1>4. /\ Continues(code) /\ Taken' = m /\ n \in Nat /\ Len(read) = m
      /\ m \in 1..Len(code) /\ code[m] = token
  BY <1>1, <1>2, <1>3, ContinuedBefore
<1>6. ~Ended
  BY <1>1, <1>2 DEF Ended, IsStack
<1>7. PICK starts :
        /\ Stands(code, env, frames, starts, n, E)
        /\ TopMeans(code, env, Top, Last(starts), result, n, A, E)
        /\ Last(starts) \in 1..(n + 1) /\ Last(starts) \in Nat
  BY <1>1, <1>2, <1>6, MeantNow
<1>8. Len(read) \in Nat
  BY <1>2, TokensRead
<1>9. f \in Frame /\ f.at = "paren" /\ f.from = m
  BY <1>4, <1>8 DEF Call, Frame, Calls, BinaryTypes, AddSub
<1>10. A = ArgValues(env)' /\ E = Evaluated(env)'
  BY <1>3, SameValuesThen
<1>11. m \in 1..m /\ m \in Nat /\ n <= m /\ m + 1 \in Nat
  BY <1>4
<1>12. \A k \in 1..(n + 1) : k \in 1..(m + 1)
  BY <1>4
<1> HIDE DEF f, E, A
<1>13. Stands(code, env, frames, starts, m, E)
  BY <1>2, <1>4, <1>7, <1>11, MoreStands
<1>14. SignsMean(code, env, Top, m)
  BY <1>1, <1>7 DEF TopMeans
<1> HIDE DEF n, m
<1>15. ~AwaitsRight(f) /\ Calling(Last(frames).at, f.at)
  BY <1>1, <1>2, <1>9 DEF AwaitsRight, Calling
<1>16. Due(Top, Last(starts)) = Last(starts)
  BY <1>1 DEF Due
<1>17. FrameMeans(code, env, Top, Last(starts), f, Last(starts), m, E)
  BY <1>1, <1>4, <1>7, <1>9, <1>11, <1>12, <1>14, <1>15, <1>16 DEF FrameMeans
<1> DEFINE fs == frames \o <<f>>
           ss == Append(starts, Last(starts))
<1>18. /\ Stands(code, env, fs, ss, m, E) /\ Last(ss) = Last(starts)
       /\ IsStack(fs) /\ Last(fs) = f
  BY <1>2, <1>7, <1>9, <1>13, <1>15, <1>17, PushStands, PushPlain
<1> HIDE DEF fs, ss
<1>19. Due(Last(fs), Last(ss)) = m + 1 /\ Calling(Last(fs).at, "sum")
  BY <1>9, <1>18 DEF Due, Calling
<1>20. PICK all : /\ Stands(code, env, fs \o CallSum, all, m, E)
                  /\ TopMeans(code, env, Last(fs \o CallSum), Last(all), Nothing, m, A, E)
  BY <1>2, <1>4, <1>11, <1>18, <1>19, SumStands DEF Consumed
<1>21. frames' = fs \o CallSum
  BY <1>3 DEF fs
<1>22. ~Ended'
  <2>1. IsStack(fs \o CallSum) /\ Last(fs \o CallSum).at = "signed"
    BY <1>2, <1>9, <1>18, PushSum
  <2>. QED
    BY <1>21, <2>1 DEF Ended, IsStack
<1>. QED
  BY <1>1, <1>3, <1>4, <1>10, <1>20, <1>21, <1>22, MeantThen

LEMMA DuePartIs ==
  ASSUME NEW at, NEW part \in {"signed", "product", "sum"}, Calling(at, part)
  PROVE  \/ DuePart(at) = part
         \/ DuePart(at) \in {"sum", "product"} /\ Operand[DuePart(at)] = part
<1>1. CASE part = "signed"
  BY <1>1 DEF Calling, DuePart, Operand
<1>2. CASE part = "product"
  BY <1>2 DEF Calling, DuePart, Operand
<1>3. CASE part = "sum"
  BY <1>3 DEF Calling, DuePart, Operand
<1>. QED
  BY <1>1, <1>2, <1>3

\* What is returned to a call is an operand for it, or its first operand alone.
LEMMA LiftTop ==
  ASSUME NEW code, NEW env, Readable(code, env),
         NEW at, NEW part \in {"signed", "product", "sum"}, Calling(at, part),
         NEW i \in 1..(Len(code) + 1), NEW n \in 0..Len(code), Is(code, env, part, i, n)
  PROVE  Means(code, env, DuePart(at), i, n) = Means(code, env, part, i, n)
<1>1. CASE DuePart(at) = part
  BY <1>1
<1>2. CASE DuePart(at) \in {"sum", "product"} /\ Operand[DuePart(at)] = part
  <2>1. PICK whole \in {"sum", "product"} : whole = DuePart(at) /\ Operand[whole] = part
    BY <1>2
  <2>3. Is(code, env, Operand[whole], i, n)
    BY <2>1
  <2>4. Means(code, env, whole, i, n) = Means(code, env, Operand[whole], i, n)
    BY <2>3, LiftMeansTheSame
  <2>. QED
    BY <2>1, <2>4
<1>. QED
  BY <1>1, <1>2, DuePartIs

\* parse_signed, parse_mul_div or parse_add_sub returns what its tokens mean.
PassesItOn(code, env) ==
  \A start :
    TopMeans(code, env, Top, start, result, Taken, ArgValues(env), Evaluated(env)) =>
      Means(code, env, Top.at, start, Taken)
        = {NodeValue(result'.node, ArgValues(env)', Evaluated(env)')}

LEMMA ReturnMeans ==
  ASSUME Whole, ~Stopped, Top.at \in {"signed", "product", "sum"},
         frames' = Callers, result' # Nothing, UNCHANGED <<args, state, read>>,
         NEW code, NEW env \in [Identifiers -> Long], Continues(code)', Meant(code, env),
         \A i \in OpenLefts(frames) : Evaluated(env)'[i] = Evaluated(env)[i],
         PassesItOn(code, env)
  PROVE  Meant(code, env)'
<1> DEFINE n == Taken
           E == Evaluated(env)
           F == Evaluated(env)'
           B == ArgValues(env)'
           v == NodeValue(result'.node, B, F)
<1>1. /\ IsStack(frames) /\ Top = Last(frames) /\ Top \in Frame /\ Callers = Below(frames) /\ IInv
  BY StackInUse DEF Whole
<1>2. Continues(code) /\ Taken' = n /\ n \in Nat /\ n <= Len(code)
  BY <1>1, ContinuedBefore
<1>3. Readable(code, env) /\ Len(code) \in Nat
  BY <1>2, ContinuesIs
<1>4. ~Ended
  BY <1>1 DEF Ended, IsStack
<1>5. PICK starts :
        /\ Stands(code, env, frames, starts, n, E)
        /\ TopMeans(code, env, Top, Last(starts), result, n, ArgValues(env), E)
        /\ Last(starts) \in 1..(n + 1) /\ Last(starts) \in Nat
  BY <1>1, <1>4, MeantNow
<1>6. Top.at \notin Bottom /\ ~AwaitsRight(Top)
  BY DEF Bottom, AwaitsRight
<1>7. Means(code, env, Top.at, Last(starts), n) = {v}
  BY <1>5 DEF PassesItOn
<1>8. OpenLefts(Callers) = OpenLefts(frames)
  BY <1>1, <1>6, PopPlain
<1> HIDE DEF n, E, F, B, v
<1>9. /\ IsStack(Callers) /\ Calling(Last(Callers).at, Top.at)
      /\ Stands(code, env, Callers, Below(starts), n, E)
      /\ FrameMeans(code, env, Last(Callers), Last(Below(starts)), Top, Last(starts), n, E)
  BY <1>1, <1>5, <1>6, PopStands
<1>10. Last(starts) = Due(Last(Callers), Last(Below(starts)))
  BY <1>9 DEF FrameMeans
<1>11. PICK i \in 1..(Len(code) + 1), m \in 0..Len(code) : i = Last(starts) /\ m = n
  BY <1>2, <1>3, <1>5
<1>12. Means(code, env, DuePart(Last(Callers).at), i, m) = {v}
  <2>1. PICK part, at, x :
             /\ part \in {"signed", "product", "sum"}
             /\ part = Top.at /\ at = Last(Callers).at /\ x = v
    OBVIOUS
  <2>2. Means(code, env, part, i, m) = {x}
    BY <1>7, <1>11, <2>1
  <2>3. Calling(at, part)
    BY <1>9, <2>1
  <2>4. Is(code, env, part, i, m)
    BY <2>2 DEF Is
  <2>5. Means(code, env, DuePart(at), i, m) = Means(code, env, part, i, m)
    BY <1>3, <2>1, <2>3, <2>4, LiftTop
  <2>. QED
    BY <2>1, <2>2, <2>5
<1>13. Last(Callers).at # "signed" /\ Last(Callers).at # "end"
  BY <1>9 DEF Calling
<1>14. TopMeans(code, env, Last(Callers), Last(Below(starts)), result', n, B, F)
  BY <1>10, <1>11, <1>12, <1>13 DEF TopMeans, v
<1>15. Stands(code, env, Callers, Below(starts), n, F)
  <2>1. \A k \in OpenLefts(Callers) : F[k] = E[k]
    BY <1>8 DEF E, F
  <2>2. n <= n
    BY <1>2
  <2>. QED
    BY <1>2, <1>9, <2>1, <2>2, MoreStands
<1>16. ~Ended'
  BY <1>9, <1>13 DEF Ended, IsStack
<1>. QED
  BY <1>2, <1>14, <1>15, <1>16, MeantThen DEF n, F, B

\* A step that appends no node.
LEMMA SameValues ==
  ASSUME UNCHANGED <<args, nodes>>, NEW env
  PROVE  /\ ArgValues(env)' = ArgValues(env) /\ Evaluated(env)' = Evaluated(env)
         /\ \A i \in OpenLefts(frames) : Evaluated(env)'[i] = Evaluated(env)[i]
  BY SameValuesThen

LEMMA PositiveMeans ==
  ASSUME Whole, Positive, NEW code, NEW env \in [Identifiers -> Long],
         Continues(code)', Meant(code, env)
  PROVE  Meant(code, env)'
<1>1. ~Stopped /\ Top.at = "signed" /\ result # Nothing /\ ~Top.inverse
  BY DEF Positive, Returned
<1>2. IInv /\ Top \in Frame
  BY <1>1, StackInUse DEF Whole
<1>3. /\ frames' = Callers /\ UNCHANGED <<args, state, read, nodes>>
      /\ result' = Result(result.node, Top.from, result.to)
  BY DEF Positive, ReturnSigned
<1>4. /\ result' # Nothing /\ result'.node = result.node
  <2>1. result.node \in NodeRecord /\ result.to \in Nat /\ Top.from \in Nat
    BY <1>1, <1>2 DEF ResultRecord, Frame, IInv, ResultOK, IsResult
  <2>. QED
    BY <1>3, <2>1, SomeResult DEF Result
<1>5. /\ ArgValues(env)' = ArgValues(env) /\ Evaluated(env)' = Evaluated(env)
      /\ \A i \in OpenLefts(frames) : Evaluated(env)'[i] = Evaluated(env)[i]
  BY <1>3, SameValues
<1>6. ASSUME NEW start,
             TopMeans(code, env, Top, start, result, Taken, ArgValues(env), Evaluated(env))
      PROVE  Means(code, env, Top.at, start, Taken)
               = {NodeValue(result'.node, ArgValues(env)', Evaluated(env)')}
  BY <1>1, <1>4, <1>5, <1>6 DEF TopMeans, Signs
<1>. QED
  BY <1>1, <1>3, <1>4, <1>5, <1>6, ReturnMeans DEF PassesItOn

LEMMA NegativeIntMeans ==
  ASSUME Whole, NegativeInt, NEW code, NEW env \in [Identifiers -> Long],
         Continues(code)', Meant(code, env)
  PROVE  Meant(code, env)'
<1> DEFINE w == result.node.num
           v == -w
<1>1. /\ ~Stopped /\ Top.at = "signed" /\ result # Nothing /\ Top.inverse
      /\ result.node.type = "INT"
  BY DEF NegativeInt, Returned
<1>2. IInv /\ Top \in Frame
  BY <1>1, StackInUse DEF Whole
<1>3. /\ frames' = Callers /\ UNCHANGED <<args, state, read, nodes>>
      /\ result' = Result(IntNode(v), Top.from, result.to)
  BY DEF NegativeInt, ReturnSigned
<1>4. result \in ResultRecord /\ w \in (-LONG_MAX)..LONG_MAX
  BY <1>1, <1>2 DEF IInv, ResultOK, IsResult
<1>5. /\ v \in Long /\ w \in Int /\ v \in Int
  BY <1>4, LongAssumption, SMT DEF Long, LONG_MIN
<1>6. StrictNegate(w) = v
  <2>1. Wrap(v) = v
    BY <1>5, WrapOfLong
  <2>2. w # TRAP
    BY <1>5, LongIs
  <2>. QED
    BY <2>1, <2>2 DEF StrictNegate, Negate
<1>7. /\ result' # Nothing /\ result'.node = IntNode(v)
  <2>1. result.to \in Nat /\ Top.from \in Nat
    BY <1>2, <1>4 DEF ResultRecord, Frame
  <2>2. IntNode(v) \in NodeRecord
    BY <1>5 DEF IntNode, NodeRecord, NodeTypes
  <2>. QED
    BY <1>3, <2>1, <2>2, SomeResult DEF Result
<1> HIDE DEF v
<1>8. /\ ArgValues(env)' = ArgValues(env) /\ Evaluated(env)' = Evaluated(env)
      /\ \A i \in OpenLefts(frames) : Evaluated(env)'[i] = Evaluated(env)[i]
  BY <1>3, SameValues
<1>9. \A A, E : NodeValue(result.node, A, E) = w /\ NodeValue(IntNode(v), A, E) = v
  BY <1>1 DEF NodeValue, IntNode, BinaryTypes, AddSub, MulDiv
<1>10. ASSUME NEW start,
             TopMeans(code, env, Top, start, result, Taken, ArgValues(env), Evaluated(env))
      PROVE  Means(code, env, Top.at, start, Taken)
               = {NodeValue(result'.node, ArgValues(env)', Evaluated(env)')}
  <2>1. Means(code, env, "signed", start, Taken) = Negated({w})
    BY <1>1, <1>9, <1>10 DEF TopMeans, Signs
  <2>2. Negated({w}) = {v}
    BY <1>6, NegatedIs
  <2>. QED
    BY <1>1, <1>7, <1>8, <1>9, <2>1, <2>2
<1>. QED
  BY <1>1, <1>3, <1>7, <1>8, <1>10, ReturnMeans DEF PassesItOn

LEMMA NegationMeans ==
  ASSUME Whole, Whole', Negation, args \in Seq(Identifiers),
         NEW code, NEW env \in [Identifiers -> Long], Continues(code)', Meant(code, env)
  PROVE  Meant(code, env)'
<1> DEFINE n == Len(nodes)
           A == ArgValues(env)
           E == Evaluated(env)
           F == Evaluated(env)'
           w == NodeValue(result.node, A, E)
<1>1. /\ ~Stopped /\ Top.at = "signed" /\ result # Nothing /\ Top.inverse
  BY DEF Negation, Returned
<1>2. IInv /\ Top \in Frame
  BY <1>1, StackInUse DEF Whole
<1>3. /\ frames' = Callers /\ UNCHANGED <<args, state, read>>
      /\ nodes' = Append(nodes, result.node)
      /\ result' = Result(InvNode(n + 1), Top.from, result.to)
  BY DEF Negation, ReturnSigned
<1>4. /\ n \in Nat /\ ArgValues(env)' = A
      /\ \A i \in 1..n : F[i] = E[i]
      /\ F[n + 1] = w
  BY <1>1, <1>3, ValuesGrow
<1>5. \A i \in OpenLefts(frames) : F[i] = E[i]
  BY <1>2, <1>4 DEF IInv, StackOK
<1> HIDE DEF A, E, F, w
<1>6. /\ result' # Nothing /\ result'.node = InvNode(n + 1)
  <2>1. result.to \in Nat /\ Top.from \in Nat
    BY <1>1, <1>2 DEF ResultRecord, Frame, IInv, ResultOK, IsResult
  <2>2. InvNode(n + 1) \in NodeRecord
    BY <1>4 DEF InvNode, NodeRecord, NodeTypes
  <2>. QED
    BY <1>3, <2>1, <2>2, SomeResult DEF Result
<1>7. NodeValue(InvNode(n + 1), A, F) = StrictNegate(w)
  <2>1. InvNode(n + 1).type = "INV" /\ InvNode(n + 1).left = n + 1
    BY DEF InvNode
  <2>. QED
    BY <1>4, <2>1 DEF NodeValue, BinaryTypes, AddSub, MulDiv
<1>8. ASSUME NEW start, TopMeans(code, env, Top, start, result, Taken, A, E)
      PROVE  Means(code, env, Top.at, start, Taken) = {NodeValue(result'.node, ArgValues(env)', F)}
  <2>1. Means(code, env, "signed", start, Taken) = Negated({w})
    BY <1>1, <1>8 DEF TopMeans, Signs, w
  <2>2. Negated({w}) = {StrictNegate(w)}
    BY NegatedIs
  <2>. QED
    BY <1>1, <1>4, <1>6, <1>7, <2>1, <2>2
<1>. QED
  BY <1>1, <1>3, <1>5, <1>6, <1>8, ReturnMeans DEF PassesItOn, A, E, F

-----------------------------------------------------------------------------
\* parse_add_sub and parse_mul_div
LEMMA NoOperatorMeans ==
  ASSUME Whole, NEW level \in {"sum", "product"}, NoOperator(level),
         NEW code, NEW env \in [Identifiers -> Long], Continues(code)', Meant(code, env)
  PROVE  Meant(code, env)'
<1>1. ~Stopped /\ Top.at = level /\ result # Nothing
  BY DEF NoOperator, Returned
<1>2. frames' = Callers /\ UNCHANGED <<args, state, read, nodes, result>>
  BY DEF NoOperator
<1>3. /\ ArgValues(env)' = ArgValues(env) /\ Evaluated(env)' = Evaluated(env)
      /\ \A i \in OpenLefts(frames) : Evaluated(env)'[i] = Evaluated(env)[i]
  BY <1>2, SameValues
<1>4. DuePart(Top.at) = level /\ Top.at # "signed" /\ \A start : Due(Top, start) = start
  <2>1. CASE level = "sum"
    BY <1>1, <2>1 DEF DuePart, Due
  <2>2. CASE level = "product"
    BY <1>1, <2>2 DEF DuePart, Due
  <2>. QED
    BY <2>1, <2>2
<1>5. ASSUME NEW start,
             TopMeans(code, env, Top, start, result, Taken, ArgValues(env), Evaluated(env))
      PROVE  Means(code, env, Top.at, start, Taken)
               = {NodeValue(result'.node, ArgValues(env)', Evaluated(env)')}
  BY <1>1, <1>2, <1>3, <1>4, <1>5 DEF TopMeans
<1>. QED
  BY <1>1, <1>2, <1>3, <1>5, ReturnMeans DEF PassesItOn

LEMMA RightIs ==
  ASSUME NEW level \in {"sum", "product"}, NEW f, f.at = RightOf(level)
  PROVE  /\ AwaitsRight(f) /\ LeftPart(f.at) = level /\ f.at \notin {"paren", "signed"}
         /\ \A start : Due(f, start) = f.from + 1
         /\ DuePart(f.at) = Operand[level] /\ Calling(f.at, Operand[level])
         /\ \A at : Calling(at, level) <=> Calling(at, f.at)
         /\ f.at \notin Bottom
<1>1. CASE level = "sum"
  <2>1. f.at = "sum right"
    BY <1>1 DEF RightOf
  <2>. QED
    BY <1>1, <2>1, Zenon DEF AwaitsRight, LeftPart, Due, DuePart, Operand, Calling, Bottom
<1>2. CASE level = "product"
  <2>1. f.at = "product right"
    BY <1>2 DEF RightOf
  <2>. QED
    BY <1>2, <2>1, Zenon DEF AwaitsRight, LeftPart, Due, DuePart, Operand, Calling, Bottom
<1>. QED
  BY <1>1, <1>2

LEMMA LevelIs ==
  ASSUME NEW level \in {"sum", "product"}
  PROVE  /\ Operand[level] \in {"signed", "product"}
         /\ level \notin Bottom /\ DuePart(level) = level
         /\ \A f : f.at = level => ~AwaitsRight(f) /\ \A start : Due(f, start) = start
         /\ \A op : op \in Operators[level] => op \in BinaryTypes
<1>1. CASE level = "sum"
  BY <1>1 DEF Operand, Bottom, DuePart, AwaitsRight, Due, Operators, BinaryTypes, AddSub
<1>2. CASE level = "product"
  BY <1>2 DEF Operand, Bottom, DuePart, AwaitsRight, Due, Operators, BinaryTypes, MulDiv
<1>. QED
  BY <1>1, <1>2

\* The calls that parse the operand.
LEMMA OperandStands ==
  ASSUME IInv, NEW code, NEW env, NEW fs, IsStack(fs), NEW level \in {"sum", "product"},
         Calling(Last(fs).at, Operand[level]),
         NEW n \in Nat, Consumed(n),
         NEW starts, NEW A, NEW E, Stands(code, env, fs, starts, n, E),
         Due(Last(fs), Last(starts)) = n + 1
  PROVE  /\ IsStack(fs \o CallOperand(level)) /\ Last(fs \o CallOperand(level)).at = "signed"
         /\ \E all : /\ Stands(code, env, fs \o CallOperand(level), all, n, E)
                     /\ TopMeans(code, env, Last(fs \o CallOperand(level)), Last(all), Nothing, n, A, E)
<1>1. CASE level = "sum"
  <2>1. CallOperand(level) = CallProduct /\ Operand[level] = "product"
    BY <1>1 DEF CallOperand, Operand
  <2>2. Calling(Last(fs).at, "product")
    BY <2>1
  <2>3. Last(fs).at \in {"sum", "sum right"}
    BY <2>2, Zenon DEF Calling
  <2>4. IsStack(fs \o CallProduct) /\ Last(fs \o CallProduct).at = "signed"
    BY <2>3, PushProduct
  <2>5. \E all : /\ Stands(code, env, fs \o CallProduct, all, n, E)
                 /\ TopMeans(code, env, Last(fs \o CallProduct), Last(all), Nothing, n, A, E)
    BY <2>2, ProductStands
  <2>. QED
    BY <2>1, <2>4, <2>5
<1>2. CASE level = "product"
  <2>1. CallOperand(level) = CallSigned /\ Operand[level] = "signed"
    BY <1>2 DEF CallOperand, Operand
  <2>2. Calling(Last(fs).at, "signed")
    BY <2>1
  <2>3. Last(fs).at \in {"product", "product right"}
    BY <2>2, Zenon DEF Calling
  <2>4. IsStack(fs \o CallSigned) /\ Last(fs \o CallSigned).at = "signed"
    BY <2>3, PushSigned
  <2>5. \E all : /\ Stands(code, env, fs \o CallSigned, all, n, E)
                 /\ TopMeans(code, env, Last(fs \o CallSigned), Last(all), Nothing, n, A, E)
    BY <2>2, SignedStands
  <2>. QED
    BY <2>1, <2>4, <2>5
<1>. QED
  BY <1>1, <1>2

LEMMA OperatorMeans ==
  ASSUME Whole, Whole', NEW level \in {"sum", "product"}, Operator(level),
         args \in Seq(Identifiers),
         NEW code, NEW env \in [Identifiers -> Long], Continues(code)', Meant(code, env)
  PROVE  Meant(code, env)'
<1> DEFINE N == Len(nodes)
           f == [Call(RightOf(level)) EXCEPT !.left = N + 1, !.op = token.type,
                                             !.from = Len(read), !.to = Len(read)]
           n == Taken
           m == n + 1
           A == ArgValues(env)
           E == Evaluated(env)
           F == Evaluated(env)'
           v == NodeValue(result.node, A, E)
<1>1. /\ ~Stopped /\ Top.at = level /\ result # Nothing
      /\ state = "READY" /\ token.type \in Operators[level]
  BY DEF Operator, Returned, Sees
<1>2. IsStack(frames) /\ Top = Last(frames) /\ Top \in Frame /\ Callers = Below(frames) /\ IInv
  BY <1>1, StackInUse DEF Whole
<1>3. /\ frames' = (Callers \o <<f>>) \o CallOperand(level)
      /\ UNCHANGED <<args, read>> /\ state' = "PENDING"
      /\ nodes' = Append(nodes, result.node) /\ result' = Nothing
  BY DEF Operator, Consume
<1>4. /\ Continues(code) /\ Taken' = m /\ n \in Nat /\ Len(read) = m
      /\ m \in 1..Len(code) /\ code[m] = token
  BY <1>1, <1>2, <1>3, ContinuedBefore
<1>5. /\ N \in Nat /\ ArgValues(env)' = A
      /\ \A i \in 1..N : F[i] = E[i]
      /\ F[N + 1] = v
  BY <1>1, <1>3, ValuesGrow
<1>6. ~Ended
  <2>1. Top.at # "end" /\ frames # <<>>
    BY <1>1, <1>2 DEF IsStack
  <2>. QED
    BY <1>2, <2>1 DEF Ended
<1>7. PICK starts :
        /\ Stands(code, env, frames, starts, n, E)
        /\ TopMeans(code, env, Top, Last(starts), result, n, A, E)
        /\ Last(starts) \in 1..(n + 1) /\ Last(starts) \in Nat
  BY <1>1, <1>2, <1>6, MeantNow
<1>8. token.type \in BinaryTypes /\ Len(read) \in Nat /\ N + 1 \in Nat
  BY <1>1, <1>2, <1>5, TokensRead, LevelIs
<1>9. /\ f \in Frame /\ f.at = RightOf(level) /\ f.left = N + 1 /\ f.op = token.type
      /\ f.from = Len(read)
  BY <1>8 DEF Call, Frame, Calls, RightOf
<1>10. OpenLefts(frames) \subseteq 1..N
  BY <1>2 DEF IInv, StackOK
<1> HIDE DEF f, A, E, F, v, N
<1>11. Top.at \notin Bottom /\ ~AwaitsRight(Top) /\ DuePart(Top.at) = level
       /\ Due(Top, Last(starts)) = Last(starts) /\ Top.at # "signed"
  BY <1>1, LevelIs
<1>12. /\ IsStack(Callers) /\ Calling(Last(Callers).at, level)
       /\ Stands(code, env, Callers, Below(starts), n, E)
       /\ FrameMeans(code, env, Last(Callers), Last(Below(starts)), Top, Last(starts), n, E)
  BY <1>1, <1>2, <1>7, <1>11, PopStands
<1>13. OpenLefts(Callers) = OpenLefts(frames)
  BY <1>1, <1>2, <1>11, PopPlain
<1>14. Means(code, env, level, Last(starts), n) = {v}
  BY <1>1, <1>7, <1>11 DEF TopMeans, v
<1>15. n <= m /\ m \in Nat /\ m - 1 = n /\ m \in 1..m
       /\ \A i \in 1..(n + 1) : i \in 1..(m + 1) /\ m \in i..m
  BY <1>4
<1> HIDE DEF n, m
<1>16. Stands(code, env, Callers, Below(starts), m, F)
  <2>1. \A i \in OpenLefts(Callers) : F[i] = E[i]
    BY <1>5, <1>10, <1>13
  <2>. QED
    BY <1>4, <1>12, <1>15, <2>1, MoreStands
<1>17. FrameMeans(code, env, Last(Callers), Last(Below(starts)), f, Last(starts), m, F)
  <2>1. LeftPart(f.at) = level /\ f.at \notin {"paren", "signed"}
    BY <1>9, RightIs
  <2>2. Last(starts) = Due(Last(Callers), Last(Below(starts)))
    BY <1>12 DEF FrameMeans
  <2>3. Last(starts) \in 1..(m + 1) /\ m \in Last(starts)..m
    BY <1>7, <1>15
  <2>4. f.from = m /\ code[f.from].type = f.op /\ f.op \in Operators[LeftPart(f.at)]
    BY <1>1, <1>4, <1>9, <2>1
  <2>5. Means(code, env, LeftPart(f.at), Last(starts), f.from - 1) = {F[f.left]}
    BY <1>5, <1>9, <1>14, <1>15, <2>1, <2>4
  <2>. QED
    BY <2>1, <2>2, <2>3, <2>4, <2>5 DEF FrameMeans
<1> DEFINE fs == Callers \o <<f>>
           ss == Append(Below(starts), Last(starts))
<1>18. Calling(Last(Callers).at, f.at) /\ Calling(f.at, Operand[level])
       /\ Due(f, Last(starts)) = f.from + 1 /\ AwaitsRight(f)
  BY <1>9, <1>12, RightIs
<1>19. LeftOf(f) \cap OpenLefts(Callers) = {}
  <2>1. LeftOf(f) = {N + 1}
    BY <1>9, <1>18 DEF LeftOf
  <2>2. N + 1 \notin 1..N
    BY <1>5
  <2>. QED
    BY <1>10, <1>13, <2>1, <2>2
<1>20. IsStack(fs) /\ Last(fs) = f
  <2>1. fs = Append(Callers, f)
    BY <1>9, <1>12, Concat DEF IsStack
  <2>2. IsStack(Append(Callers, f)) /\ Last(Append(Callers, f)) = f
    <3>1. PICK cs : cs = Callers
      OBVIOUS
    <3>2. IsStack(cs) /\ Calling(Last(cs).at, f.at) /\ LeftOf(f) \cap OpenLefts(cs) = {}
      BY <1>12, <1>18, <1>19, <3>1
    <3>3. IsStack(Append(cs, f)) /\ Last(Append(cs, f)) = f
      BY <1>9, <3>2, Push
    <3>. QED
      BY <3>1, <3>3
  <2>. QED
    BY <2>1, <2>2
<1>21. Stands(code, env, fs, ss, m, F) /\ Last(ss) = Last(starts)
  BY <1>7, <1>9, <1>12, <1>16, <1>17, PushStands
<1> HIDE DEF fs, ss
<1>22. Due(Last(fs), Last(ss)) = m + 1 /\ Calling(Last(fs).at, Operand[level]) /\ Consumed(m)
  BY <1>4, <1>9, <1>18, <1>20, <1>21 DEF Consumed
<1>23. /\ IsStack(fs \o CallOperand(level)) /\ Last(fs \o CallOperand(level)).at = "signed"
       /\ \E all : /\ Stands(code, env, fs \o CallOperand(level), all, m, F)
                   /\ TopMeans(code, env, Last(fs \o CallOperand(level)), Last(all), Nothing, m, A, F)
  BY <1>2, <1>15, <1>20, <1>21, <1>22, OperandStands
<1>24. frames' = fs \o CallOperand(level)
  BY <1>3 DEF fs
<1>25. ~Ended'
  BY <1>23, <1>24 DEF Ended, IsStack
<1>. QED
  BY <1>3, <1>4, <1>5, <1>23, <1>24, <1>25, MeantThen DEF F, A

LEMMA RightOperandMeans ==
  ASSUME Whole, Whole', NEW level \in {"sum", "product"}, RightOperand(level),
         args \in Seq(Identifiers),
         NEW code, NEW env \in [Identifiers -> Long], Continues(code)', Meant(code, env)
  PROVE  Meant(code, env)'
<1> DEFINE N == Len(nodes)
           f == Call(level)
           n == Taken
           A == ArgValues(env)
           E == Evaluated(env)
           F == Evaluated(env)'
           b == NodeValue(result.node, A, E)
           node == BinaryNode(Top.op, Top.left, N + 1)
<1>1. ~Stopped /\ Top.at = RightOf(level) /\ result # Nothing
  BY DEF RightOperand, Returned
<1>2. IsStack(frames) /\ Top = Last(frames) /\ Top \in Frame /\ Callers = Below(frames) /\ IInv
  BY <1>1, StackInUse DEF Whole
<1>3. /\ frames' = Callers \o <<f>>
      /\ UNCHANGED <<args, read, state>>
      /\ nodes' = Append(nodes, result.node)
      /\ result' = Result(node, Top.from, Top.to)
  BY DEF RightOperand
<1>4. Continues(code) /\ Taken' = n /\ n \in Nat /\ n <= Len(code)
  BY <1>1, <1>2, <1>3, ContinuedBefore
<1>5. /\ N \in Nat /\ ArgValues(env)' = A
      /\ \A i \in 1..N : F[i] = E[i]
      /\ F[N + 1] = b
  BY <1>1, <1>3, ValuesGrow
<1>6. /\ AwaitsRight(Top) /\ LeftPart(Top.at) = level /\ DuePart(Top.at) = Operand[level]
      /\ \A start : Due(Top, start) = Top.from + 1
      /\ \A at : Calling(at, level) <=> Calling(at, Top.at)
      /\ Top.at \notin Bottom /\ Top.at # "signed" /\ Top.at # "end"
  BY <1>1, RightIs DEF Bottom
<1>7. ~Ended
  BY <1>2, <1>6 DEF Ended, IsStack
<1>8. PICK starts :
        /\ Stands(code, env, frames, starts, n, E)
        /\ TopMeans(code, env, Top, Last(starts), result, n, A, E)
        /\ Last(starts) \in 1..(n + 1) /\ Last(starts) \in Nat
  BY <1>1, <1>2, <1>7, MeantNow
<1>9. f \in Frame /\ f.at = level
  BY CallsAre DEF Calls
<1>10. OpenLefts(frames) \subseteq 1..N
  BY <1>2 DEF IInv, StackOK
<1>11. Top.op \in BinaryTypes /\ Top.from \in Nat /\ Top.to \in Nat /\ Top.left \in Nat
  BY <1>2 DEF Frame
<1>12. Readable(code, env) /\ Len(code) \in Nat
  BY <1>4, ContinuesIs
<1> HIDE DEF f, A, E, F, b, N
<1>13. node.type = Top.op /\ node.left = Top.left /\ node.right = N + 1 /\ node \in NodeRecord
  BY <1>5, <1>11 DEF BinaryNode, NodeRecord, NodeTypes, BinaryTypes, AddSub, MulDiv
<1> HIDE DEF node
<1>14. result' # Nothing /\ result'.node = node
  BY <1>3, <1>11, <1>13, SomeResult DEF Result
<1>15. /\ IsStack(Callers) /\ Calling(Last(Callers).at, Top.at)
       /\ Stands(code, env, Callers, Below(starts), n, E)
       /\ FrameMeans(code, env, Last(Callers), Last(Below(starts)), Top, Last(starts), n, E)
  BY <1>1, <1>2, <1>6, <1>8, PopStands
<1>16. Top.left \in OpenLefts(frames) /\ OpenLefts(Callers) \subseteq OpenLefts(frames)
  <2>1. /\ OpenLefts(Callers) = OpenLefts(frames) \ LeftOf(Top)
        /\ LeftOf(Top) \subseteq OpenLefts(frames)
    BY <1>2, <1>6, Pop
  <2>. QED
    BY <1>6, <2>1 DEF LeftOf
<1>17. F[Top.left] = E[Top.left] /\ \A i \in OpenLefts(Callers) : F[i] = E[i]
  BY <1>5, <1>10, <1>16
<1>18. NodeValue(node, A, F) = StrictBinary(Top.op, E[Top.left], b)
  <2>1. node.type \in BinaryTypes /\ F[node.left] = E[Top.left] /\ F[node.right] = b
    BY <1>5, <1>11, <1>13, <1>17
  <2>2. node.type \notin {"INT", "VAR", "INV"}
    BY <2>1 DEF BinaryTypes, AddSub, MulDiv
  <2>3. NodeValue(node, A, F) = StrictBinary(node.type, F[node.left], F[node.right])
    BY <2>1, <2>2 DEF NodeValue
  <2>. QED
    BY <1>13, <2>1, <2>3
<1>19. Means(code, env, level, Last(starts), n) = {NodeValue(node, A, F)}
  <2>1. /\ Top.from \in Last(starts)..n /\ code[Top.from].type = Top.op
        /\ Top.op \in Operators[level]
        /\ Means(code, env, level, Last(starts), Top.from - 1) = {E[Top.left]}
    BY <1>6, <1>15 DEF FrameMeans
  <2>2. Means(code, env, Operand[level], Top.from + 1, n) = {b}
    BY <1>1, <1>6, <1>8 DEF TopMeans, b
  <2>3. PICK i, j, p, op, a :
          /\ i \in 1..(Len(code) + 1) /\ j \in 0..Len(code)
          /\ i = Last(starts) /\ j = n /\ p = Top.from /\ op = Top.op /\ a = E[Top.left]
    BY <1>4, <1>8, <1>12
  <2>4. /\ p \in i..j /\ code[p].type = op /\ op \in Operators[level]
        /\ Means(code, env, level, i, p - 1) = {a}
        /\ Means(code, env, Operand[level], p + 1, j) = {b}
    BY <2>1, <2>2, <2>3
  <2>5. Splits(code, env, level, i, j, p)
    BY <2>4 DEF Splits, Is
  <2>6. Means(code, env, level, i, j)
          = Combinations(code[p].type, Means(code, env, level, i, p - 1),
                         Means(code, env, Operand[level], p + 1, j))
    BY <1>12, <2>3, <2>4, <2>5, OneWay
  <2>7. Combinations(op, {a}, {b}) = {StrictBinary(op, a, b)}
    BY CombinedIs
  <2>. QED
    BY <1>18, <2>3, <2>4, <2>6, <2>7
<1>20. ~AwaitsRight(f) /\ Calling(Last(Callers).at, f.at) /\ f.at \notin {"paren", "signed", "end"}
       /\ DuePart(f.at) = level /\ \A start : Due(f, start) = start
  BY <1>6, <1>9, <1>15, LevelIs
<1>21. FrameMeans(code, env, Last(Callers), Last(Below(starts)), f, Last(starts), n, E)
  BY <1>15, <1>20 DEF FrameMeans
<1> DEFINE fs == Callers \o <<f>>
           ss == Append(Below(starts), Last(starts))
<1>22. /\ Stands(code, env, fs, ss, n, E) /\ Last(ss) = Last(starts)
       /\ IsStack(fs) /\ Last(fs) = f /\ OpenLefts(fs) = OpenLefts(Callers)
  BY <1>8, <1>9, <1>15, <1>20, <1>21, PushStands, PushPlain
<1>23. frames' = fs
  BY <1>3
<1> HIDE DEF fs, ss
<1>24. Stands(code, env, fs, ss, n, F)
  <2>1. n <= n
    BY <1>4
  <2>. QED
    BY <1>4, <1>17, <1>22, <2>1, MoreStands
<1>25. TopMeans(code, env, f, Last(ss), result', n, A, F)
  BY <1>14, <1>19, <1>20, <1>22 DEF TopMeans
<1>26. ~Ended'
  BY <1>20, <1>22, <1>23 DEF Ended, IsStack
<1>. QED
  BY <1>4, <1>5, <1>22, <1>23, <1>24, <1>25, <1>26, MeantThen DEF F, A

-----------------------------------------------------------------------------
\* parse_paren
LEMMA CloseParenMeans ==
  ASSUME Whole, CloseParen, NEW code, NEW env \in [Identifiers -> Long],
         Continues(code)', Meant(code, env)
  PROVE  Meant(code, env)'
<1> DEFINE n == Taken
           m == n + 1
           A == ArgValues(env)
           E == Evaluated(env)
           v == NodeValue(result.node, A, E)
           caller == Last(Callers)
<1>1. ~Stopped /\ Top.at = "paren" /\ result # Nothing /\ token.type = ")"
  BY DEF CloseParen, Returned
<1>2. IsStack(frames) /\ Top = Last(frames) /\ Top \in Frame /\ Callers = Below(frames) /\ IInv
  BY <1>1, StackInUse DEF Whole
<1>3. frames' = Callers /\ UNCHANGED <<args, read, nodes, result>> /\ state' = "PENDING"
  BY DEF CloseParen, Consume
<1>4. state = "READY"
  BY <1>1, <1>2 DEF IInv, TokensOK, ControlOK, PastALoop, Stopped
<1>5. /\ Continues(code) /\ Taken' = m /\ n \in Nat
      /\ m \in 1..Len(code) /\ code[m] = token
  BY <1>1, <1>2, <1>3, <1>4, ContinuedBefore
<1>6. Readable(code, env) /\ Len(code) \in Nat
  BY <1>5, ContinuesIs
<1>7. ~Ended
  BY <1>1, <1>2 DEF Ended, IsStack
<1>8. PICK starts :
        /\ Stands(code, env, frames, starts, n, E)
        /\ TopMeans(code, env, Top, Last(starts), result, n, A, E)
  BY <1>1, <1>2, <1>7, MeantNow
<1>9. Top.at \notin Bottom
  BY <1>1 DEF Bottom
<1>10. ArgValues(env)' = A /\ Evaluated(env)' = E
  BY <1>3, SameValuesThen
<1>11. Means(code, env, "sum", Top.from + 1, n) = {v}
  BY <1>1, <1>8, Zenon DEF TopMeans, DuePart, Due
<1> HIDE DEF A, E, v
<1>12. /\ IsStack(Callers) /\ Calling(Last(Callers).at, Top.at)
       /\ Stands(code, env, Callers, Below(starts), n, E)
       /\ FrameMeans(code, env, Last(Callers), Last(Below(starts)), Top, Last(starts), n, E)
  BY <1>2, <1>8, <1>9, PopStands
<1>13. caller.at = "signed" /\ caller.at \notin Bottom
  BY <1>1, <1>12 DEF Calling, Bottom
<1>14. caller.from = Last(Below(starts))
  <2>1. FrameMeans(code, env, Last(Below(Callers)), Last(Below(Below(starts))), caller,
                   Last(Below(starts)), n, E)
    BY <1>12, <1>13, PopStands
  <2>. QED
    BY <1>13, <2>1 DEF FrameMeans
<1>15. Top.from \in 1..n /\ code[Top.from].type = "(" /\ SignsMean(code, env, caller, Top.from)
  BY <1>1, <1>12 DEF FrameMeans
<1>16. Means(code, env, "signed", caller.from, m) = Signs(caller.inverse, {v})
  <2>1. PICK i, j, f :
          /\ i \in 1..Len(code) /\ j \in 1..Len(code)
          /\ i = Top.from /\ j = m /\ f = caller
    BY <1>5, <1>6, <1>15
  <2>2. j \in 0..Len(code) /\ i \in 1..(Len(code) + 1) /\ i < j /\ j - 1 = n
    BY <1>5, <1>6, <1>15, <2>1
  <2>3. code[i].type = "(" /\ code[j].type = ")" /\ SignsMean(code, env, f, i)
    BY <1>1, <1>5, <1>15, <2>1
  <2>4. Means(code, env, "sum", i + 1, j - 1) = {v}
    BY <1>11, <2>1, <2>2
  <2>5. Means(code, env, "atom", i, j) = {v}
    <3>1. i <= j /\ i # j
      BY <2>1, <2>2
    <3>2. Means(code, env, "atom", i, j) = Means(code, env, "sum", i + 1, j - 1)
      BY <1>6, <2>2, <2>3, <3>1, AtomIs
    <3>. QED
      BY <2>4, <3>2
  <2>6. code[i].type \notin AddSub
    BY <2>3 DEF AddSub
  <2>7. Means(code, env, "signed", f.from, j) = Signs(f.inverse, Means(code, env, "atom", i, j))
    BY <1>6, <2>2, <2>3, <2>6, SignedPart
  <2>. QED
    BY <2>1, <2>5, <2>7
<1>17. TopMeans(code, env, caller, Last(Below(starts)), result', m, A, E)
  BY <1>1, <1>3, <1>13, <1>14, <1>16 DEF TopMeans, v
<1>18. Stands(code, env, Callers, Below(starts), m, E)
  <2>1. m \in Nat /\ n <= m
    BY <1>5
  <2>. QED
    BY <1>5, <1>12, <2>1, MoreStands
<1>19. ~Ended'
  BY <1>3, <1>12, <1>13 DEF Ended, IsStack
<1>. QED
  BY <1>3, <1>5, <1>10, <1>17, <1>18, <1>19, MeantThen

-----------------------------------------------------------------------------
\* parse_slice
LEMMA AppendRootMeans ==
  ASSUME Whole, Whole', AppendRoot, args \in Seq(Identifiers),
         NEW code, NEW env \in [Identifiers -> Long], Continues(code)', Meant(code, env)
  PROVE  Meant(code, env)'
<1> DEFINE n == Taken
           A == ArgValues(env)
           E == Evaluated(env)
           F == Evaluated(env)'
           v == NodeValue(result.node, A, E)
<1>1. ~Stopped /\ Top.at = "expr" /\ result # Nothing
  BY DEF AppendRoot, Returned
<1>2. IsStack(frames) /\ Top = Last(frames) /\ IInv
  BY <1>1, StackInUse DEF Whole
<1>3. /\ frames' = <<Call("end")>> /\ UNCHANGED <<args, state, read>>
      /\ nodes' = Append(nodes, result.node) /\ result' = Nothing
  BY DEF AppendRoot
<1>4. Continues(code) /\ Taken' = n
  BY <1>1, <1>2, <1>3, ContinuedBefore
<1>5. ~Ended
  BY <1>1, <1>2 DEF Ended, IsStack
<1>6. PICK starts : TopMeans(code, env, Top, Last(starts), result, n, A, E) /\ Last(starts) = 1
  BY <1>1, <1>2, <1>5, MeantNow DEF Bottom
<1>7. Means(code, env, "sum", 1, n) = {v}
  BY <1>1, <1>6, Zenon DEF TopMeans, DuePart, Due
<1>8. Len(nodes') = Len(nodes) + 1 /\ F[Len(nodes) + 1] = v
  BY <1>1, <1>3, ValuesGrow
<1>9. Ended'
  <2>1. Call("end").at = "end" /\ Call("end") \in Frame
    BY CallsAre DEF Calls
  <2>2. Last(<<Call("end")>>) = Call("end")
    BY <2>1, Single DEF Bottom
  <2>. QED
    BY <1>3, <2>1, <2>2 DEF Ended
<1>10. Means(code, env, "sum", 1, Taken') = {F[Len(nodes')]}
  BY <1>4, <1>7, <1>8
<1>. QED
  BY <1>9, <1>10 DEF Meant

LEMMA FinishMeans ==
  ASSUME Whole, Finish, NEW code, NEW env, Meant(code, env)
  PROVE  Meant(code, env)' /\ (Continues(code)' => Continues(code)) /\ Taken' = Taken
<1>1. ~Stopped /\ Top.at = "end" /\ state = "READY"
  BY DEF Finish, Running, Sees
<1>2. Last(frames).at = "end"
  BY <1>1, StackInUse DEF Whole
<1>3. frames' = <<>> /\ state' = "DONE" /\ UNCHANGED <<args, read, nodes>>
  BY DEF Finish
<1>4. Ended /\ Ended'
  BY <1>2, <1>3 DEF Ended
<1>5. Taken' = Taken
  BY <1>1, <1>3 DEF Taken
<1>6. ArgValues(env)' = ArgValues(env) /\ Evaluated(env)' = Evaluated(env)
  BY <1>3, SameValuesThen
<1>7. Means(code, env, "sum", 1, Taken') = {Evaluated(env)'[Len(nodes')]}
  BY <1>3, <1>4, <1>5, <1>6 DEF Meant
<1>. QED
  BY <1>3, <1>4, <1>5, <1>7 DEF Meant, Continues

LEMMA StartMeans ==
  ASSUME Whole, StartParsing, read = <<>>, NEW code, NEW env \in [Identifiers -> Long]
  PROVE  Meant(code, env)'
<1> DEFINE f == Call("expr")
           fs == <<f>>
           A == ArgValues(env)
           E == Evaluated(env)
           zero == 0
<1>1. ~Stopped /\ result = Nothing
  BY DEF StartParsing, Running
<1>2. frames' = fs \o CallSum /\ UNCHANGED <<args, state, read, nodes, result>>
  BY DEF StartParsing
<1>3. IInv
  BY DEF Whole
<1>4. state = "PENDING"
  BY <1>1, <1>3 DEF IInv, TokensOK, Stopped
<1>5. Taken' = zero /\ Consumed(zero)
  BY <1>2, <1>4 DEF Taken, Consumed
<1>6. f \in Frame /\ f.at = "expr"
  BY CallsAre DEF Calls
<1>7. ArgValues(env)' = A /\ Evaluated(env)' = E
  BY <1>2, SameValuesThen
<1> HIDE DEF f, A, E
<1>8. IsStack(fs) /\ Last(fs) = f
  BY <1>6, Single DEF Bottom
<1>9. Stands(code, env, fs, <<1>>, zero, E) /\ Last(<<1>>) = 1
  <2>1. Len(fs) = 1 /\ DOMAIN fs = {1}
    BY <1>6
  <2>2. <<1>> \in Seq(Nat) /\ Len(<<1>>) = 1 /\ <<1>>[1] = 1
    OBVIOUS
  <2>3. DOMAIN fs \ {1} = {}
    BY <2>1
  <2> HIDE DEF fs
  <2>. QED
    BY <2>1, <2>2, <2>3 DEF Stands, Last
<1>10. Due(Last(fs), Last(<<1>>)) = zero + 1 /\ Calling(Last(fs).at, "sum") /\ zero \in Nat
  <2>1. zero + 1 = 1 /\ zero \in Nat
    OBVIOUS
  <2> HIDE DEF zero, fs
  <2>2. Due(Last(fs), Last(<<1>>)) = 1 /\ Calling(Last(fs).at, "sum")
    BY <1>6, <1>8, <1>9, Zenon DEF Due, Calling
  <2>. QED
    BY <2>1, <2>2
<1> HIDE DEF fs, zero
<1>11. PICK all : /\ Stands(code, env, fs \o CallSum, all, zero, E)
                  /\ TopMeans(code, env, Last(fs \o CallSum), Last(all), Nothing, zero, A, E)
  BY <1>3, <1>5, <1>8, <1>9, <1>10, SumStands
<1>12. ~Ended'
  <2>1. Last(fs).at \in {"expr", "paren"}
    BY <1>6, <1>8
  <2>2. IsStack(fs \o CallSum) /\ Last(fs \o CallSum).at = "signed"
    BY <1>3, <1>8, <2>1, PushSum
  <2>. QED
    BY <1>2, <2>2 DEF Ended, IsStack
<1>. QED
  BY <1>1, <1>2, <1>5, <1>7, <1>11, <1>12, MeantThen

LEMMA BottomIs ==
  ASSUME NEW fs, IsStack(fs)
  PROVE  /\ fs \in Seq(Frame) /\ fs # <<>> /\ Len(fs) \in Nat /\ Len(fs) # 0
         /\ Last(fs).at \in Bottom => Len(fs) = 1 /\ Last(fs) = fs[1]
         /\ fs[1].at = "arguments" => Last(fs) = fs[1]
         /\ Last(fs).at \notin Bottom => Len(fs) > 1
<1>1. fs \in Seq(Frame) /\ Len(fs) \in Nat /\ DOMAIN fs = 1..Len(fs) /\ fs # <<>> /\ Len(fs) # 0
  BY SeqDomain, SeqIs DEF IsStack
<1>2. \A k \in DOMAIN fs \ {1} : Calling(fs[k - 1].at, fs[k].at) /\ fs[1].at \in Bottom
  BY DEF IsStack
<1>3. Len(fs) # 1 => Len(fs) \in DOMAIN fs \ {1} /\ 2 \in DOMAIN fs \ {1} /\ 2 - 1 = 1
  BY <1>1
<1>4. \A at \in Bottom : \A caller : ~Calling(caller, at)
  BY DEF Calling, Bottom
<1>5. \A at : ~Calling("arguments", at)
  BY DEF Calling
<1>6. Last(fs) = fs[Len(fs)]
  BY DEF Last
<1>7. Last(fs).at \in Bottom => Len(fs) = 1
  BY <1>2, <1>3, <1>4, <1>6
<1>8. fs[1].at = "arguments" => Len(fs) = 1
  <2>1. Len(fs) # 1 => Calling(fs[1].at, fs[2].at)
    BY <1>2, <1>3
  <2>. QED
    BY <1>5, <2>1
<1>9. Len(fs) = 1 => Last(fs).at \in Bottom
  BY <1>2, <1>3, <1>6 DEF IsStack
<1>. QED
  BY <1>1, <1>6, <1>7, <1>8, <1>9

\* The call at the bottom stays.
LEMMA FirstStays ==
  ASSUME NEW fs, IsStack(fs), NEW gs \in Seq(Frame)
  PROVE  /\ (fs \o gs)[1] = fs[1]
         /\ Last(fs).at \notin Bottom =>
              /\ Below(fs)[1] = fs[1] /\ Below(fs) \in Seq(Frame)
              /\ (Below(fs) \o gs)[1] = fs[1]
<1>1. fs \in Seq(Frame) /\ Len(fs) \in Nat /\ Len(fs) # 0
  BY BottomIs
<1>2. ASSUME NEW s \in Seq(Frame), Len(s) # 0
      PROVE  (s \o gs)[1] = s[1]
  <2>1. Len(s) \in Nat /\ Len(gs) \in Nat
    BY SeqIs
  <2>2. 1 \in 1..(Len(s) + Len(gs)) /\ 1 <= Len(s)
    BY <1>2, <2>1
  <2>. QED
    BY <2>2, ConcatProperties
<1>3. ASSUME Last(fs).at \notin Bottom
      PROVE  Below(fs)[1] = fs[1] /\ Below(fs) \in Seq(Frame) /\ Len(Below(fs)) # 0
  <2>1. Len(fs) > 1
    BY <1>3, BottomIs
  <2>2. Len(fs) - 1 \in 0..Len(fs) /\ 1 \in 1..(Len(fs) - 1) /\ Len(fs) - 1 # 0
    <3>1. \A n \in Nat : n > 1 => n - 1 \in 0..n /\ 1 \in 1..(n - 1) /\ n - 1 # 0
      OBVIOUS
    <3>. QED
      BY <1>1, <2>1, <3>1
  <2>. QED
    BY <1>1, <2>2, FrontIs DEF Below
<1>. QED
  BY <1>1, <1>2, <1>3

Says(code, env) == Continues(code) /\ env \in [Identifiers -> Long] => Meant(code, env)

LEMMA SoundBefore ==
  ASSUME Whole, Sound, ~Stopped, Top.at # "arguments"
  PROVE  /\ args \in Seq(Identifiers) /\ Distinct(args)
         /\ ~AtStart /\ frames # <<>> /\ IsStack(frames)
         /\ \A code, env : Says(code, env)
<1>1. IsStack(frames) /\ Top = Last(frames)
  BY StackInUse DEF Whole
<1>2. frames # <<>> /\ ~AtStart
  BY <1>1, BottomIs DEF AtStart
<1>. QED
  BY <1>1, <1>2 DEF Sound, Says, Stopped

LEMMA SoundThen ==
  ASSUME ~AtStart', state' \notin {"DONE", "ERROR"}, args' \in Seq(Identifiers), Distinct(args'),
         \A code, env : Says(code, env)'
  PROVE  Sound'
BY DEF Sound, Says

LEMMA FirstThen ==
  ASSUME ~AtStart, frames # <<>>, frames'[1] = frames[1]
  PROVE  ~AtStart'
BY DEF AtStart

\* A step that consumes a token, or none.
LEMMA SoundStep ==
  ASSUME Whole, Sound, ~Stopped, Top.at # "arguments",
         read' = read, args' = args, state' \in {state, "PENDING"},
         ~AtStart',
         \A code, env : env \in [Identifiers -> Long] /\ Continues(code)' /\ Meant(code, env)
                          => Meant(code, env)'
  PROVE  Sound'
<1>1. args \in Seq(Identifiers) /\ Distinct(args) /\ \A code, env : Says(code, env)
  BY SoundBefore
<1>2. state' \notin {"DONE", "ERROR"}
  BY DEF Stopped
<1>3. ASSUME NEW code, Continues(code)'
      PROVE  Continues(code)
  BY <1>3, ContinuedBefore DEF Whole
<1>4. ASSUME NEW code, NEW env
      PROVE  Says(code, env)'
  BY <1>1, <1>3 DEF Says
<1>. QED
  BY <1>1, <1>2, <1>4, SoundThen

LEMMA SoundPeek ==
  ASSUME Whole, Sound, Peek
  PROVE  Sound'
<1>1. ~Stopped /\ Top.at # "arguments"
  BY DEF Peek, Peeks, Running, Returned
<1>2. /\ args \in Seq(Identifiers) /\ Distinct(args)
      /\ ~AtStart /\ frames # <<>> /\ \A code, env : Says(code, env)
  BY <1>1, SoundBefore
<1>3. state' = "READY" /\ args' = args /\ frames' = frames
  BY DEF Peek
<1>4. ASSUME NEW code, NEW env
      PROVE  Says(code, env)'
  <2>1. SUFFICES ASSUME Continues(code)', env \in [Identifiers -> Long]
                 PROVE  Meant(code, env)'
    BY DEF Says
  <2>2. Continues(code)
    BY <2>1, PeekContinues
  <2>3. Meant(code, env)
    BY <1>2, <2>1, <2>2 DEF Says
  <2>. QED
    BY <2>3, PeekMeans
<1>. QED
  BY <1>2, <1>3, <1>4, SoundThen, FirstThen

LEMMA SoundSigned ==
  ASSUME Whole, Whole', Sound, Sign \/ AtomInt \/ AtomVar \/ OpenParen
  PROVE  Sound'
<1>1. ~Stopped /\ Top.at = "signed" /\ read' = read /\ args' = args /\ state' = "PENDING"
  BY DEF Sign, AtomInt, AtomVar, OpenParen, ReturnAtom, Running, Consume
<1>2. /\ IsStack(frames) /\ ~AtStart /\ frames # <<>> /\ Top = Last(frames)
      /\ Callers = Below(frames) /\ Top \in Frame /\ IInv
  BY <1>1, SoundBefore, StackInUse DEF Whole
<1>3. Last(frames).at \notin Bottom
  BY <1>1, <1>2 DEF Bottom
<1>4. ~AtStart'
  <2>1. CASE AtomInt \/ AtomVar
    <3>1. frames' = frames
      BY <2>1 DEF AtomInt, AtomVar, ReturnAtom
    <3>. QED
      BY <1>2, <3>1, FirstThen
  <2>2. CASE Sign
    <3>1. PICK f : frames' = Below(frames) \o <<f>> /\ f = [Top EXCEPT !.inverse = (@ # (token.type = "SUB"))]
      BY <1>2, <2>2 DEF Sign
    <3>2. <<f>> \in Seq(Frame)
      <4>1. f \in Frame
        BY <1>2, <3>1 DEF Frame
      <4>. QED
        BY <4>1
    <3>. QED
      BY <1>2, <1>3, <3>1, <3>2, FirstStays, FirstThen
  <2>3. CASE OpenParen
    <3>1. PICK f : f = [Call("paren") EXCEPT !.from = Len(read)] /\ frames' = frames \o <<f>> \o CallSum
      BY <2>3 DEF OpenParen
    <3>2. f \in Frame
      BY <1>2, <3>1, TokensRead DEF Call, Frame, Calls, BinaryTypes, AddSub
    <3>3. <<f>> \in Seq(Frame) /\ CallSum \in Seq(Frame)
      <4>1. <<f>> \in Seq(Frame) /\ <<Call("sum")>> \in Seq(Frame) /\ <<Call("product")>> \in Seq(Frame)
        <5>1. Call("sum") \in Frame /\ Call("product") \in Frame
          BY CallsAre DEF Calls
        <5>. QED
          BY <3>2, <5>1
      <4>2. CallProduct \in Seq(Frame)
        BY <1>2, <4>1, SignedSeq, ConcatProperties DEF CallProduct
      <4>. QED
        BY <4>1, <4>2, ConcatProperties DEF CallSum
    <3>4. frames \in Seq(Frame)
      BY <1>2 DEF IsStack
    <3>5. frames \o <<f>> \o CallSum = frames \o (<<f>> \o CallSum) /\ <<f>> \o CallSum \in Seq(Frame)
      BY <3>2, <3>3, <3>4, PushFirst, ConcatProperties
    <3>. QED
      BY <1>2, <3>1, <3>5, FirstStays, FirstThen
  <2>. QED
    BY <2>1, <2>2, <2>3
<1>5. ASSUME NEW code, NEW env \in [Identifiers -> Long], Continues(code)', Meant(code, env)
      PROVE  Meant(code, env)'
  BY <1>5, SignMeans, AtomIntMeans, AtomVarMeans, OpenParenMeans
<1>. QED
  BY <1>1, <1>4, <1>5, SoundStep

LEMMA SoundReturn ==
  ASSUME Whole, Whole', Sound,
         Positive \/ NegativeInt \/ Negation \/ CloseParen
           \/ \E level \in {"sum", "product"} : NoOperator(level)
  PROVE  Sound'
<1>1. /\ ~Stopped /\ Top.at \in {"signed", "paren", "sum", "product"}
      /\ read' = read /\ args' = args /\ state' \in {state, "PENDING"}
      /\ frames' = Callers
  BY DEF Positive, NegativeInt, Negation, ReturnSigned, CloseParen, NoOperator, Returned, Consume
<1>2. /\ IsStack(frames) /\ ~AtStart /\ frames # <<>> /\ Top = Last(frames)
      /\ Callers = Below(frames) /\ args \in Seq(Identifiers)
  BY <1>1, SoundBefore, StackInUse DEF Whole
<1>3. Last(frames).at \notin Bottom /\ <<>> \in Seq(Frame)
  BY <1>1, <1>2 DEF Bottom
<1>4. ~AtStart'
  BY <1>1, <1>2, <1>3, FirstStays, FirstThen
<1>5. ASSUME NEW code, NEW env \in [Identifiers -> Long], Continues(code)', Meant(code, env)
      PROVE  Meant(code, env)'
  <2>1. CASE Positive \/ NegativeInt
    BY <1>5, <2>1, PositiveMeans, NegativeIntMeans
  <2>2. CASE Negation
    BY <1>2, <1>5, <2>2, NegationMeans
  <2>3. CASE CloseParen
    BY <1>5, <2>3, CloseParenMeans
  <2>4. CASE \E level \in {"sum", "product"} : NoOperator(level)
    BY <1>5, <2>4, NoOperatorMeans
  <2>. QED
    BY <2>1, <2>2, <2>3, <2>4
<1>6. Top.at # "arguments"
  BY <1>1
<1>. QED
  BY <1>1, <1>4, <1>5, <1>6, SoundStep

LEMMA CallsInSeq ==
  ASSUME IInv, NEW level
  PROVE  CallOperand(level) \in Seq(Frame) /\ CallSum \in Seq(Frame)
<1>1. CallSigned \in Seq(Frame)
  BY SignedSeq
<1>2. Call("product") \in Frame /\ Call("sum") \in Frame
  BY CallsAre DEF Calls
<1>3. <<Call("product")>> \in Seq(Frame) /\ <<Call("sum")>> \in Seq(Frame)
  BY <1>2
<1>4. CallProduct \in Seq(Frame)
  BY <1>1, <1>3, ConcatProperties DEF CallProduct
<1>. QED
  BY <1>1, <1>3, <1>4, ConcatProperties DEF CallOperand, CallSum

LEMMA SoundLoop ==
  ASSUME Whole, Whole', Sound, NEW level \in {"sum", "product"},
         Operator(level) \/ RightOperand(level)
  PROVE  Sound'
<1>1. /\ ~Stopped /\ Top.at \in {level, RightOf(level)}
      /\ read' = read /\ args' = args /\ state' \in {state, "PENDING"}
  BY DEF Operator, RightOperand, Returned, Consume
<1>2. Top.at \notin Bottom /\ Top.at # "arguments"
  BY <1>1, LevelIs, RightIs DEF Bottom
<1>3. /\ IsStack(frames) /\ ~AtStart /\ frames # <<>> /\ Top = Last(frames)
      /\ Callers = Below(frames) /\ args \in Seq(Identifiers) /\ IInv
  BY <1>1, <1>2, SoundBefore, StackInUse DEF Whole
<1>4. ~AtStart'
  <2>1. CASE Operator(level)
    <3>1. PICK f : /\ f = [Call(RightOf(level)) EXCEPT !.left = Len(nodes) + 1, !.op = token.type,
                                                       !.from = Len(read), !.to = Len(read)]
                   /\ frames' = Callers \o <<f>> \o CallOperand(level)
                   /\ token.type \in Operators[level]
                   /\ result # Nothing /\ nodes' = Append(nodes, result.node)
      BY <2>1 DEF Operator, Sees, Returned
    <3>2. f \in Frame
      <4>1. token.type \in BinaryTypes /\ Len(read) \in Nat /\ Len(nodes) + 1 \in Nat
        BY <1>1, <1>3, <3>1, TokensRead, LevelIs, NodesGrow
      <4>. QED
        BY <3>1, <4>1 DEF Call, Frame, Calls, RightOf
    <3>3. <<f>> \in Seq(Frame) /\ CallOperand(level) \in Seq(Frame) /\ Callers \in Seq(Frame)
      <4>1. <<f>> \in Seq(Frame)
        BY <3>2
      <4>2. <<>> \in Seq(Frame)
        OBVIOUS
      <4>. QED
        BY <1>2, <1>3, <4>1, <4>2, CallsInSeq, FirstStays
    <3>4. /\ Callers \o <<f>> \o CallOperand(level) = Callers \o (<<f>> \o CallOperand(level))
          /\ <<f>> \o CallOperand(level) \in Seq(Frame)
      BY <3>2, <3>3, PushFirst, ConcatProperties
    <3>5. PICK gs \in Seq(Frame) : frames' = Callers \o gs
      BY <3>1, <3>4
    <3>6. Last(frames).at \notin Bottom
      BY <1>2, <1>3
    <3>7. (Callers \o gs)[1] = frames[1]
      BY <1>3, <3>6, FirstStays
    <3>. QED
      BY <1>3, <3>5, <3>7, FirstThen
  <2>2. CASE RightOperand(level)
    <3>1. PICK f : f = Call(level) /\ frames' = Callers \o <<f>>
      BY <2>2 DEF RightOperand
    <3>2. <<f>> \in Seq(Frame)
      <4>1. f \in Frame
        BY <3>1, CallsAre DEF Calls
      <4>. QED
        BY <4>1
    <3>. QED
      BY <1>2, <1>3, <3>1, <3>2, FirstStays, FirstThen
  <2>. QED
    BY <2>1, <2>2
<1>5. ASSUME NEW code, NEW env \in [Identifiers -> Long], Continues(code)', Meant(code, env)
      PROVE  Meant(code, env)'
  <2>1. CASE Operator(level)
    BY <1>3, <1>5, <2>1, OperatorMeans
  <2>2. CASE RightOperand(level)
    BY <1>3, <1>5, <2>2, RightOperandMeans
  <2>. QED
    BY <2>1, <2>2
<1>. QED
  BY <1>1, <1>2, <1>4, <1>5, SoundStep

LEMMA SoundSlice ==
  ASSUME Whole, Whole', Sound, StartParsing \/ AppendRoot \/ Finish
  PROVE  Sound'
<1>1. CASE StartParsing
  <2>1. /\ ~Stopped /\ Top.at = "arguments" /\ result = Nothing
        /\ \A i \in DOMAIN args : args[i] \in Identifiers /\ ~Duplicates(i)
    BY <1>1 DEF StartParsing, Running, IsBadArg
  <2>2. frames' = <<Call("expr")>> \o CallSum /\ UNCHANGED <<args, state>>
    BY <1>1 DEF StartParsing
  <2>3. IsStack(frames) /\ Top = Last(frames) /\ IInv
    BY <2>1, StackInUse DEF Whole
  <2>4. read = <<>>
    <3>1. AtStart
      BY <2>1, <2>3, BottomIs DEF AtStart, Bottom
    <3>. QED
      BY <2>1, <3>1 DEF Sound, Stopped
  <2>5. args \in Seq(Identifiers)
    <3>1. args \in Seq(Names)
      BY <2>3 DEF IInv, NodesOK
    <3>2. DOMAIN args = 1..Len(args) /\ Len(args) \in Nat
      BY <3>1
    <3>. QED
      BY <2>1, <3>1, <3>2
  <2>8. Distinct(args)
    <3>1. DOMAIN args = 1..Len(args) /\ Len(args) \in Nat
      BY <2>5
    <3>2. ASSUME NEW i \in DOMAIN args, NEW j \in DOMAIN args, i < j
          PROVE  args[i] # args[j]
      <4>1. i \in 1..(j - 1)
        BY <3>1, <3>2
      <4>. QED
        BY <2>1, <4>1 DEF Duplicates
    <3>3. \A i, j \in DOMAIN args : i = j \/ i < j \/ j < i
      BY <3>1
    <3>. QED
      BY <3>2, <3>3 DEF Distinct
  <2>6. ~AtStart'
    <3>1. IsStack(<<Call("expr")>>) /\ Call("expr").at = "expr"
      BY CallsAre, Single DEF Calls, Bottom
    <3>2. (<<Call("expr")>> \o CallSum)[1] = <<Call("expr")>>[1]
      BY <2>3, <3>1, CallsInSeq, FirstStays
    <3>. QED
      BY <2>2, <3>1, <3>2 DEF AtStart
  <2>7. ASSUME NEW code, NEW env
        PROVE  Says(code, env)'
    BY <1>1, <2>4, StartMeans DEF Says
  <2>. QED
    BY <2>1, <2>2, <2>5, <2>6, <2>7, <2>8, SoundThen DEF Stopped
<1>2. CASE AppendRoot
  <2>1. ~Stopped /\ Top.at = "expr" /\ read' = read /\ args' = args /\ state' = state
    BY <1>2 DEF AppendRoot, Returned
  <2>2. args \in Seq(Identifiers)
    BY <2>1, SoundBefore
  <2>3. ~AtStart'
    <3>1. frames' = <<Call("end")>>
      BY <1>2 DEF AppendRoot
    <3>2. Call("end").at = "end"
      BY CallsAre DEF Calls
    <3>. QED
      BY <3>1, <3>2 DEF AtStart
  <2>4. ASSUME NEW code, NEW env \in [Identifiers -> Long], Continues(code)', Meant(code, env)
        PROVE  Meant(code, env)'
    BY <1>2, <2>2, <2>4, AppendRootMeans
  <2>. QED
    BY <2>1, <2>3, <2>4, SoundStep
<1>3. CASE Finish
  <2>1. ~Stopped /\ Top.at = "end" /\ state = "READY" /\ token.type = "EOF"
    BY <1>3 DEF Finish, Running, Sees
  <2>2. args \in Seq(Identifiers) /\ Distinct(args) /\ \A code, env : Says(code, env)
    BY <2>1, SoundBefore
  <2>3. frames' = <<>> /\ state' = "DONE" /\ args' = args /\ read' = read
    BY <1>3 DEF Finish
  <2>4. read # <<>> /\ token = Eof
    <3>1. IInv
      BY DEF Whole
    <3>2. token \in Tokens \cup {Eof} /\ read # <<>>
      BY <2>1, <3>1, TokenIs DEF IInv, TokensOK
    <3>. QED
      BY <2>1, <3>2, TokenNumbers DEF Eof
  <2>5. ~AtStart' /\ (read # <<>> /\ token = Eof)'
    BY <2>3, <2>4 DEF AtStart, token
  <2>6. ASSUME NEW code, NEW env
        PROVE  Says(code, env)'
    <3>1. SUFFICES ASSUME Continues(code)', env \in [Identifiers -> Long]
                   PROVE  Meant(code, env)'
      BY DEF Says
    <3>2. Meant(code, env)
      <4>1. Continues(code)
        <5>1. Taken' = Taken
          BY <2>1, <2>3 DEF Taken
        <5>. QED
          BY <2>3, <3>1, <5>1 DEF Continues
      <4>. QED
        BY <2>2, <3>1, <4>1 DEF Says
    <3>. QED
      BY <1>3, <3>2, FinishMeans
  <2>. QED
    BY <2>2, <2>3, <2>5, <2>6 DEF Sound, Says
<1>. QED
  BY <1>1, <1>2, <1>3

LEMMA SoundStutter ==
  ASSUME Sound, UNCHANGED vars
  PROVE  Sound'
<1>1. UNCHANGED <<args, state, error, read, nodes, frames, result>>
  BY DEF vars
<1>2. Taken' = Taken /\ token' = token /\ Ended' = Ended /\ AtStart' = AtStart
  BY <1>1 DEF Taken, token, Ended, AtStart
<1>3. ASSUME NEW code
      PROVE  Continues(code)' = Continues(code)
  BY <1>1, <1>2 DEF Continues
<1>4. ASSUME NEW code, NEW env
      PROVE  Meant(code, env)' = Meant(code, env)
  <2>1. ArgValues(env)' = ArgValues(env) /\ Evaluated(env)' = Evaluated(env)
    BY <1>1, SameValuesThen
  <2>. QED
    BY <1>1, <1>2, <2>1 DEF Meant
<1>. QED
  BY <1>1, <1>2, <1>3, <1>4 DEF Sound

LEMMA SoundFails ==
  ASSUME NEW code, NEW from, NEW to, Fail(code, from, to)
  PROVE  Sound'
BY DEF Fail, Sound

LEMMA StaysSound ==
  ASSUME Whole, Whole', Sound, [Next]_vars
  PROVE  Sound'
<1>1. CASE PeekFails \/ BadArg
  BY <1>1, SoundFails DEF PeekFails, BadArg
<1>2. CASE UndefinedVariable \/ IllegalAtom \/ NegativeIntRefused \/ DivisionByZero
  BY <1>2, SoundFails DEF UndefinedVariable, IllegalAtom, NegativeIntRefused, DivisionByZero
<1>3. CASE ExpectedCloseParen \/ TrailingToken \/ AppendFails
  BY <1>3, SoundFails DEF ExpectedCloseParen, TrailingToken, AppendFails
<1>4. CASE Peek
  BY <1>4, SoundPeek
<1>5. CASE Sign \/ AtomInt \/ AtomVar \/ OpenParen
  BY <1>5, SoundSigned
<1>6. CASE Positive \/ NegativeInt \/ Negation \/ CloseParen
  BY <1>6, SoundReturn
<1>7. CASE \E level \in DOMAIN Operators : Operator(level) \/ NoOperator(level) \/ RightOperand(level)
  <2>1. PICK level \in {"sum", "product"} :
          Operator(level) \/ NoOperator(level) \/ RightOperand(level)
    BY <1>7 DEF Operators
  <2>. QED
    BY <2>1, SoundReturn, SoundLoop
<1>8. CASE StartParsing \/ AppendRoot \/ Finish
  BY <1>8, SoundSlice
<1>9. CASE Terminated \/ UNCHANGED vars
  BY <1>9, SoundStutter DEF Terminated
<1>. QED
  BY <1>1, <1>2, <1>3, <1>4, <1>5, <1>6, <1>7, <1>8, <1>9 DEF Next, Descend

LEMMA SoundAtFirst == Init => Sound
<1> SUFFICES ASSUME Init PROVE Sound
  OBVIOUS
<1>1. frames = <<Call("arguments")>> /\ read = <<>> /\ state = "PENDING"
  BY DEF Init
<1>2. Call("arguments").at = "arguments"
  BY CallsAre DEF Calls
<1>3. AtStart
  BY <1>1, <1>2 DEF AtStart
<1>. QED
  BY <1>1, <1>3 DEF Sound

-----------------------------------------------------------------------------
\* What parse_slice has returned computes what the code means, for all values
\* of the identifiers.
LEMMA SoundMeans ==
  ASSUME Whole, Sound, state = "DONE", NEW env \in [Identifiers -> Long]
  PROVE  {AstEval(nodes, ArgValues(env))} = Meanings(Code, env)
<1>1. frames = <<>> /\ Ended /\ IInv
  BY DEF Whole, IInv, ControlOK, Ended
<1>2. read # <<>> /\ token = Eof /\ \A code : Continues(code) => Meant(code, env)
  BY <1>1 DEF Sound, AtStart
<1>3. read \in Seq(Tokens \cup {Eof}) /\ Len(read) \in Nat
  BY <1>1, TokensRead DEF IInv, TokensOK
<1>4. Taken = Len(read) - 1 /\ Taken \in 0..Len(read)
  BY <1>2, <1>3, SeqIs DEF Taken
<1>5. Code = SubSeq(read, 1, Taken)
  BY <1>2, <1>4 DEF Code
<1>6. /\ Code \in Seq(Tokens \cup {Eof}) /\ Len(Code) = Taken
      /\ \A k \in 1..Taken : Code[k] = read[k]
  BY <1>3, <1>4, <1>5, FrontIs
<1>7. Continues(Code)
  <2>1. Taken <= Len(Code)
    BY <1>3, <1>4, <1>6
  <2>2. Code \in Seq(Words)
    BY <1>6, SeqIs DEF Words
  <2>. QED
    BY <1>6, <2>1, <2>2 DEF Continues
<1>8. Means(Code, env, "sum", 1, Len(Code)) = {Evaluated(env)[Len(nodes)]}
  BY <1>1, <1>2, <1>6, <1>7 DEF Meant
<1>9. AstEval(nodes, ArgValues(env)) = Evaluated(env)[Len(nodes)]
  BY DEF AstEval, Evaluated, Root
<1>. QED
  BY <1>8, <1>9 DEF Means, Meanings

\* Precedence, associativity, signs and parentheses come out of the descent as
\* the grammar has them, for code of any length.
THEOREM ComputesTheGrammar == Spec => []MeansTheCode
<1>1. Init => Whole /\ Sound
  BY WholeAtFirst, SoundAtFirst
<1>2. Whole /\ Sound /\ [Next]_vars => (Whole /\ Sound)'
  BY StaysWhole, StaysSound
<1>3. Whole /\ Sound => MeansTheCode
  <2>1. ASSUME Whole, Sound, state = "DONE", NEW env \in Environments
        PROVE  {AstEval(nodes, [i \in DOMAIN args |-> env[args[i]]])} = Meanings(Code, env)
    <3>1. env \in [Identifiers -> Long]
      BY GrammarAssumption
    <3>. QED
      BY <2>1, <3>1, SoundMeans DEF ArgValues
  <2>. QED
    BY <2>1 DEF MeansTheCode
<1>. QED
  BY <1>1, <1>2, <1>3, PTL DEF Spec

-----------------------------------------------------------------------------
(***************************************************************************)
(* The errors                                                              *)
(***************************************************************************)
\* What the calls have left behind them when a node comes back: no operator
\* that belonged to one of them is still in hand; a divisor begins behind its
\* operator; and behind a constant there are only parentheses that close.
PastOperators ==
  /\ result # Nothing /\ Top.at \in {"sum", "sum right", "expr", "paren"} =>
       state = "READY" /\ token.type \notin MulDiv
  /\ result # Nothing /\ Top.at \in {"expr", "paren"} => token.type \notin AddSub
  /\ Top.at = "end" => state = "READY" /\ token.type \notin BinaryTypes

OnlyClosing(to) == to <= Taken /\ \A k \in (to + 1)..Taken : read[k].type = ")"
DivisorIs ==
  result # Nothing =>
    /\ Top.at = "product right" => result.from = Top.from + 1
    /\ result.node.type = "INT" => OnlyClosing(result.to)

Settled == ~Stopped => PastOperators /\ DivisorIs

LEMMA LastOfBoth ==
  ASSUME NEW S, NEW s \in Seq(S), NEW t \in Seq(S), t # <<>>
  PROVE  s \o t \in Seq(S) /\ s \o t # <<>> /\ Last(s \o t) = Last(t)
<1>1. Len(s) \in Nat /\ Len(t) \in Nat /\ Len(t) # 0
  BY SeqIs
<1>2. s \o t \in Seq(S) /\ Len(s \o t) = Len(s) + Len(t)
  BY ConcatProperties
<1>3. Len(s) + Len(t) \in 1..(Len(s) + Len(t)) /\ Len(s) + Len(t) > Len(s)
      /\ (Len(s) + Len(t)) - Len(s) = Len(t) /\ Len(s) + Len(t) # 0
  BY <1>1
<1>4. (s \o t)[Len(s) + Len(t)] = t[Len(t)]
  BY <1>1, <1>3, ConcatProperties
<1>5. s \o t # <<>>
  BY <1>2, <1>3, SeqIs
<1>. QED
  BY <1>2, <1>4, <1>5 DEF Last

LEMMA NewCalls ==
  ASSUME IInv
  PROVE  /\ CallSum \in Seq(Frame) /\ CallSum # <<>> /\ Last(CallSum).at = "signed"
         /\ \A level \in {"sum", "product"} :
              /\ CallOperand(level) \in Seq(Frame) /\ CallOperand(level) # <<>>
              /\ Last(CallOperand(level)).at = "signed"
<1>1. CallSigned \in Seq(Frame) /\ CallSigned # <<>> /\ Last(CallSigned).at = "signed"
  <2>1. PICK f : f = [Call("signed") EXCEPT !.from = Len(read) + 1]
    OBVIOUS
  <2>2. f.at = "signed" /\ CallSigned = <<f>> /\ Len(<<f>>) = 1 /\ <<f>>[1] = f
    BY <2>1 DEF CallSigned, Call
  <2>. QED
    BY <2>2, SignedSeq DEF Last
<1>2. \A at \in {"product", "sum"} : <<Call(at)>> \in Seq(Frame)
  <2>1. \A at \in {"product", "sum"} : Call(at) \in Frame
    BY CallsAre DEF Calls
  <2>. QED
    BY <2>1
<1>3. CallProduct \in Seq(Frame) /\ CallProduct # <<>> /\ Last(CallProduct) = Last(CallSigned)
  BY <1>1, <1>2, LastOfBoth DEF CallProduct
<1>4. CallSum \in Seq(Frame) /\ CallSum # <<>> /\ Last(CallSum) = Last(CallProduct)
  BY <1>2, <1>3, LastOfBoth DEF CallSum
<1>. QED
  BY <1>1, <1>3, <1>4 DEF CallOperand

\* A call of parse_signed is on top, and nothing has come back to it.
LEMMA SignedSettles ==
  ASSUME Top'.at = "signed", result' = Nothing
  PROVE  Settled'
  BY DEF Settled, PastOperators, DivisorIs

LEMMA CallSettles ==
  ASSUME IInv, Settled, Sign \/ OpenParen \/ StartParsing
                          \/ \E level \in {"sum", "product"} : Operator(level)
  PROVE  Settled'
<1>1. /\ ~Stopped /\ result' = Nothing
  BY DEF Sign, OpenParen, StartParsing, Operator, Running, Returned
<1>2. /\ IsStack(frames) /\ Top \in Frame /\ Callers = Below(frames) /\ frames \in Seq(Frame)
      /\ Len(frames) \in Nat /\ Len(frames) # 0
  BY <1>1, StackInUse, BottomIs
<1>3. Callers \in Seq(Frame)
  <2>1. \A n \in Nat : n # 0 => n - 1 \in 0..n
    OBVIOUS
  <2>. QED
    BY <1>2, <2>1, FrontIs DEF Below
<1>4. CASE Sign
  <2>1. PICK f : f = [Top EXCEPT !.inverse = (@ # (token.type = "SUB"))]
    OBVIOUS
  <2>2. f \in Frame /\ f.at = "signed"
    BY <1>2, <1>4, <2>1 DEF Frame, Sign, Running
  <2>3. frames' = Callers \o <<f>> /\ <<f>> \in Seq(Frame) /\ Len(<<f>>) = 1 /\ <<f>>[1] = f /\ <<f>> # <<>>
    BY <1>4, <2>1, <2>2 DEF Sign
  <2>4. Last(frames') = f
    BY <1>3, <2>3, LastOfBoth DEF Last
  <2>. QED
    BY <1>1, <2>2, <2>4, SignedSettles DEF Top, Last
<1>5. CASE OpenParen
  <2>1. PICK f : f = [Call("paren") EXCEPT !.from = Len(read)]
    OBVIOUS
  <2>2. f \in Frame
    BY <2>1, TokensRead DEF Call, Frame, Calls, BinaryTypes, AddSub
  <2>3. frames' = frames \o <<f>> \o CallSum /\ frames \o <<f>> \in Seq(Frame)
    <3>1. <<f>> \in Seq(Frame)
      BY <2>2
    <3>. QED
      BY <1>2, <1>5, <2>1, <3>1, ConcatProperties DEF OpenParen
  <2>4. Last(frames').at = "signed"
    BY <2>3, NewCalls, LastOfBoth
  <2>. QED
    BY <1>1, <2>4, SignedSettles DEF Top, Last
<1>6. CASE StartParsing
  <2>1. <<Call("expr")>> \in Seq(Frame)
    <3>1. Call("expr") \in Frame
      BY CallsAre DEF Calls
    <3>. QED
      BY <3>1
  <2>2. Last(frames').at = "signed"
    BY <1>6, <2>1, NewCalls, LastOfBoth DEF StartParsing
  <2>. QED
    BY <1>1, <2>2, SignedSettles DEF Top, Last
<1>7. ASSUME NEW level \in {"sum", "product"}, Operator(level)
      PROVE  Settled'
  <2>1. PICK f : /\ f = [Call(RightOf(level)) EXCEPT !.left = Len(nodes) + 1, !.op = token.type,
                                                     !.from = Len(read), !.to = Len(read)]
                 /\ frames' = Callers \o <<f>> \o CallOperand(level)
    BY <1>7 DEF Operator
  <2>2. f \in Frame
    <3>1. token.type \in BinaryTypes
      BY <1>7, LevelIs DEF Operator, Sees
    <3>2. Len(nodes) \in Nat
      BY SeqIs DEF IInv, NodesOK
    <3>3. Len(nodes) + 1 \in Nat
      BY <3>2
    <3>. QED
      BY <2>1, <3>1, <3>3, TokensRead DEF Call, Frame, Calls, RightOf
  <2>3. Callers \o <<f>> \in Seq(Frame)
    <3>1. <<f>> \in Seq(Frame)
      BY <2>2
    <3>. QED
      BY <1>3, <3>1, ConcatProperties
  <2>4. Last(frames').at = "signed"
    BY <2>1, <2>3, NewCalls, LastOfBoth
  <2>. QED
    BY <1>1, <2>4, SignedSettles DEF Top, Last
<1>. QED
  BY <1>4, <1>5, <1>6, <1>7

\* What has been consumed, as a code.
Passed == SubSeq(read, 1, Taken)

LEMMA PassedIs ==
  ASSUME IInv, ~Stopped
  PROVE  /\ Taken \in Nat /\ Taken \in 0..Len(read) /\ Len(read) \in Nat
         /\ Passed \in Seq(Tokens \cup {Eof}) /\ Len(Passed) = Taken
         /\ \A k \in 1..Taken : Passed[k] = read[k] /\ read[k] \in Tokens \cup {Eof}
         /\ Continues(Passed)
<1>1. read \in Seq(Tokens \cup {Eof}) /\ Len(read) \in Nat
  BY TokensRead DEF IInv, TokensOK
<1>2. state \in {"PENDING", "READY"}
  BY DEF IInv, TokensOK, Stopped
<1>3. Taken \in Nat /\ Taken \in 0..Len(read)
  BY <1>1, <1>2, TakenIs
<1>4. /\ Passed \in Seq(Tokens \cup {Eof}) /\ Len(Passed) = Taken
      /\ \A k \in 1..Taken : Passed[k] = read[k]
  BY <1>1, <1>3, FrontIs DEF Passed
<1>5. \A k \in 1..Taken : read[k] \in Tokens \cup {Eof}
  <2>1. \A k \in 1..Taken : k \in 1..Len(read)
    BY <1>1, <1>3
  <2>. QED
    BY <1>1, <2>1, SeqIs
<1>6. Continues(Passed)
  <2>1. Passed \in Seq(Words)
    BY <1>4, SeqIs DEF Words
  <2>. QED
    BY <1>3, <1>4, <2>1 DEF Continues
<1>. QED
  BY <1>1, <1>3, <1>4, <1>5, <1>6

\* What Sound says, of any code that begins with what has been consumed.
LEMMA PassedMeans ==
  ASSUME Whole, Sound, ~Stopped, Top.at # "arguments", NEW env \in [Identifiers -> Long],
         NEW code, Continues(code)
  PROVE  Meant(code, env)
  BY SoundBefore DEF Says

\* The first token of a divisor is the one behind its operator.
LEMMA DivisorBegins ==
  ASSUME Whole, Sound, ~Stopped, Top.at = "signed"
  PROVE  Last(Callers).at = "product right" => Top.from = Last(Callers).from + 1
<1>1. /\ IsStack(frames) /\ Top = Last(frames) /\ Callers = Below(frames) /\ IInv
  BY StackInUse DEF Whole
<1>2. PICK env : env \in [Identifiers -> Long]
  BY GrammarAssumption
<1>3. Meant(Passed, env)
  BY <1>1, <1>2, PassedIs, PassedMeans
<1>4. ~Ended /\ Last(frames).at \notin Bottom
  BY <1>1 DEF Ended, IsStack, Bottom
<1>5. PICK starts : Stands(Passed, env, frames, starts, Taken, Evaluated(env))
  BY <1>1, <1>3, <1>4, MeantNow
<1>6. FrameMeans(Passed, env, Last(Callers), Last(Below(starts)), Top, Last(starts), Taken,
                 Evaluated(env))
  BY <1>1, <1>4, <1>5, PopStands
<1>. QED
  BY <1>6 DEF FrameMeans, Due

LEMMA ResultNumbers ==
  ASSUME IInv, result # Nothing
  PROVE  result.to \in Nat /\ result.from \in Nat /\ result.node \in NodeRecord
  BY DEF IInv, ResultOK, IsResult, ResultRecord

LEMMA AtomSettles ==
  ASSUME Whole, Whole', Settled, AtomInt \/ AtomVar
  PROVE  Settled'
<1>1. PICK node : ReturnAtom(node)
  BY DEF AtomInt, AtomVar
<1>2. /\ frames' = frames /\ read' = read /\ state' = "PENDING" /\ Top.at = "signed"
      /\ result' = Result(node, Len(read), Len(read))
  BY <1>1 DEF ReturnAtom, Consume, AtomInt, AtomVar, Running
<1>3. result'.to = Len(read) /\ Taken' = Len(read) /\ Top'.at = "signed" /\ Len(read) \in Nat
  <2>1. IInv
    BY DEF Whole
  <2>. QED
    BY <1>2, <2>1, TokensRead DEF Result, Taken, Top
<1>4. OnlyClosing(result.to)'
  BY <1>3 DEF OnlyClosing
<1>. QED
  BY <1>3, <1>4 DEF Settled, PastOperators, DivisorIs

LEMMA SignedReturnSettles ==
  ASSUME Whole, Whole', Sound, Settled, Positive \/ NegativeInt \/ Negation
  PROVE  Settled'
<1>1. /\ ~Stopped /\ Top.at = "signed" /\ result # Nothing
      /\ frames' = Callers /\ UNCHANGED <<args, state, read>>
  BY DEF Positive, NegativeInt, Negation, ReturnSigned, Returned
<1>2. /\ IsStack(frames) /\ Top = Last(frames) /\ Callers = Below(frames) /\ IInv
      /\ Calling(Last(Callers).at, "signed")
  BY <1>1, StackInUse, Pop DEF Whole, Bottom
<1>3. Last(Callers).at \in {"product", "product right"}
  BY <1>2, Zenon DEF Calling
<1>4. Top' = Last(Callers) /\ Taken' = Taken
  BY <1>1 DEF Top, Last, Taken
<1>5. \E node : /\ result' = Result(node, Top.from, result.to)
                /\ node.type = "INT" => result.node.type = "INT"
  <2>1. CASE Positive
    BY <2>1 DEF Positive, ReturnSigned
  <2>2. CASE NegativeInt
    BY <2>2 DEF NegativeInt, ReturnSigned
  <2>3. CASE Negation
    BY <2>3 DEF Negation, ReturnSigned, InvNode
  <2>. QED
    BY <2>1, <2>2, <2>3
<1>6. /\ result'.from = Top.from /\ result'.to = result.to
      /\ result'.node.type = "INT" => result.node.type = "INT"
  BY <1>5 DEF Result
<1>7. Last(Callers).at = "product right" => result'.from = Last(Callers).from + 1
  BY <1>1, <1>6, DivisorBegins
<1>8. result'.node.type = "INT" => OnlyClosing(result.to)'
  BY <1>1, <1>4, <1>6 DEF Settled, DivisorIs, OnlyClosing
<1>9. PastOperators'
  BY <1>3, <1>4 DEF PastOperators
<1>. QED
  BY <1>4, <1>7, <1>8, <1>9 DEF Settled, DivisorIs

LEMMA CloseParenSettles ==
  ASSUME Whole, Settled, CloseParen
  PROVE  Settled'
<1>1. /\ ~Stopped /\ Top.at = "paren" /\ result # Nothing /\ token.type = ")"
      /\ frames' = Callers /\ state' = "PENDING" /\ UNCHANGED <<args, read, result>>
  BY DEF CloseParen, Returned, Consume
<1>2. /\ IsStack(frames) /\ Top = Last(frames) /\ Callers = Below(frames) /\ IInv
      /\ Calling(Last(Callers).at, "paren")
  BY <1>1, StackInUse, Pop DEF Whole, Bottom
<1>3. Last(Callers).at = "signed"
  BY <1>2, Zenon DEF Calling
<1>4. Top' = Last(Callers)
  BY <1>1 DEF Top, Last
<1>5. state = "READY"
  BY <1>1 DEF Settled, PastOperators
<1>6. /\ Taken \in Nat /\ Taken + 1 = Len(read) /\ Taken' = Taken + 1 /\ read[Taken + 1].type = ")"
  BY <1>1, <1>2, <1>5, TakenIs DEF Taken
<1>7. ASSUME result.node.type = "INT"
      PROVE  OnlyClosing(result.to)'
  <2>1. OnlyClosing(result.to)
    BY <1>1, <1>7 DEF Settled, DivisorIs
  <2>2. result.to \in Nat
    BY <1>1, <1>2, ResultNumbers
  <2>3. \A k \in (result.to + 1)..(Taken + 1) : k \in (result.to + 1)..Taken \/ k = Taken + 1
    BY <1>6, <2>2
  <2>4. \A k \in (result.to + 1)..(Taken + 1) : read[k].type = ")"
    BY <1>6, <2>1, <2>3 DEF OnlyClosing
  <2>5. result.to <= Taken + 1
    BY <1>6, <2>1, <2>2 DEF OnlyClosing
  <2>. QED
    BY <1>1, <1>6, <2>4, <2>5 DEF OnlyClosing
<1>. QED
  BY <1>1, <1>3, <1>4, <1>7 DEF Settled, PastOperators, DivisorIs

LEMMA NoOperatorSettles ==
  ASSUME Whole, Settled, NEW level \in {"sum", "product"}, NoOperator(level)
  PROVE  Settled'
<1>1. /\ ~Stopped /\ Top.at = level /\ result # Nothing
      /\ state = "READY" /\ token.type \notin Operators[level]
      /\ frames' = Callers /\ UNCHANGED <<args, state, read, result>>
  BY DEF NoOperator, Returned
<1>2. /\ IsStack(frames) /\ Top = Last(frames) /\ Callers = Below(frames) /\ IInv
      /\ Calling(Last(Callers).at, level)
  BY <1>1, StackInUse, Pop, LevelIs DEF Whole
<1>4. Top' = Last(Callers) /\ token' = token /\ Taken' = Taken
  BY <1>1 DEF Top, Last, token, Taken
<1>5. Last(Callers).at # "product right" /\ Last(Callers).at # "end"
  BY <1>2, Zenon DEF Calling
<1>6. PastOperators'
  <2>1. CASE level = "product"
    <3>1. Last(Callers).at \in {"sum", "sum right"} /\ token.type \notin MulDiv
      BY <1>1, <1>2, <2>1, RulesAre DEF Calling
    <3>. QED
      BY <1>1, <1>4, <3>1 DEF PastOperators
  <2>2. CASE level = "sum"
    <3>1. token.type \notin MulDiv /\ token.type \notin AddSub
      BY <1>1, <2>2, RulesAre DEF Settled, PastOperators
    <3>. QED
      BY <1>1, <1>4, <1>5, <3>1 DEF PastOperators
  <2>. QED
    BY <2>1, <2>2
<1>7. DivisorIs'
  BY <1>1, <1>4, <1>5 DEF Settled, DivisorIs, OnlyClosing
<1>. QED
  BY <1>6, <1>7 DEF Settled

LEMMA RightOperandSettles ==
  ASSUME Whole, Settled, NEW level \in {"sum", "product"}, RightOperand(level)
  PROVE  Settled'
<1>1. /\ ~Stopped /\ Top.at = RightOf(level) /\ result # Nothing
      /\ frames' = Callers \o <<Call(level)>> /\ UNCHANGED <<args, state, read>>
      /\ result' = Result(BinaryNode(Top.op, Top.left, Len(nodes) + 1), Top.from, Top.to)
  BY DEF RightOperand, Returned
<1>2. /\ IsStack(frames) /\ Top = Last(frames) /\ Callers = Below(frames) /\ IInv /\ Top \in Frame
  BY <1>1, StackInUse DEF Whole
<1>3. Top'.at = level
  <2>1. Call(level) \in Frame /\ Call(level).at = level
    BY CallsAre DEF Calls
  <2>2. <<Call(level)>> \in Seq(Frame) /\ <<Call(level)>> # <<>> /\ Last(<<Call(level)>>) = Call(level)
    BY <2>1 DEF Last
  <2>3. Last(frames).at \notin Bottom
    BY <1>1, <1>2, RightIs
  <2>4. Callers \in Seq(Frame)
    BY <1>2, <2>3, Pop DEF IsStack
  <2>5. Last(frames') = Call(level)
    BY <1>1, <2>2, <2>4, LastOfBoth
  <2>. QED
    BY <2>1, <2>5 DEF Top, Last
<1>4. token' = token
  BY <1>1 DEF token
<1>5. result'.node.type # "INT"
  <2>1. Top.op \in BinaryTypes
    BY <1>2 DEF Frame
  <2>. QED
    BY <1>1, <2>1 DEF Result, BinaryNode, BinaryTypes, AddSub, MulDiv
<1>6. level = "sum" => state = "READY" /\ token.type \notin MulDiv
  BY <1>1 DEF Settled, PastOperators, RightOf
<1>. QED
  BY <1>1, <1>3, <1>4, <1>5, <1>6 DEF Settled, PastOperators, DivisorIs

LEMMA SliceSettles ==
  ASSUME Whole, Settled, AppendRoot \/ Finish
  PROVE  Settled'
<1>1. CASE AppendRoot
  <2>1. /\ ~Stopped /\ Top.at = "expr" /\ result # Nothing
        /\ frames' = <<Call("end")>> /\ result' = Nothing /\ UNCHANGED <<state, read>>
    BY <1>1 DEF AppendRoot, Returned
  <2>2. state = "READY" /\ token.type \notin BinaryTypes
    BY <2>1 DEF Settled, PastOperators, BinaryTypes
  <2>3. token' = token
    BY <2>1 DEF token
  <2>4. Top'.at = "end"
    <3>1. Call("end") \in Frame /\ Call("end").at = "end"
      BY CallsAre DEF Calls
    <3>2. Len(<<Call("end")>>) = 1 /\ <<Call("end")>>[1] = Call("end")
      OBVIOUS
    <3>. QED
      BY <2>1, <3>1, <3>2 DEF Top
  <2>. QED
    BY <2>1, <2>2, <2>3, <2>4 DEF Settled, PastOperators, DivisorIs
<1>2. CASE Finish
  BY <1>2 DEF Finish, Settled, Stopped
<1>. QED
  BY <1>1, <1>2

LEMMA PeekSettles ==
  ASSUME Whole, Settled, Peek
  PROVE  Settled'
<1>1. /\ ~Stopped /\ state = "PENDING" /\ state' = "READY" /\ UNCHANGED <<frames, result>>
  BY DEF Peek, Peeks, Running, Returned
<1>2. PICK next : read' = Append(read, next)
  BY DEF Peek
<1>3. Top.at \in {"signed", "product"} /\ Top' = Top
  <2>1. Running("signed") \/ Running("end") \/ Returned("sum") \/ Returned("product")
    BY DEF Peek, Peeks
  <2>. QED
    BY <1>1, <2>1 DEF Settled, PastOperators, Running, Returned, Top
<1>4. Taken' = Taken /\ IInv
  BY PeekContinues DEF Whole
<1>5. read \in Seq(Tokens \cup {Eof}) /\ Taken \in 0..Len(read) /\ Len(read) \in Nat
  BY <1>1, <1>4, PassedIs DEF IInv, TokensOK
<1>6. ASSUME result # Nothing, result.node.type = "INT"
      PROVE  OnlyClosing(result.to)'
  <2>1. OnlyClosing(result.to) /\ result.to \in Nat
    BY <1>1, <1>4, <1>6, ResultNumbers DEF Settled, DivisorIs
  <2>2. \A k \in 1..Len(read) : read'[k] = read[k]
    BY <1>2, <1>5, LastIs
  <2>3. \A k \in (result.to + 1)..Taken : k \in 1..Len(read)
    BY <1>5, <2>1
  <2>4. \A k \in (result.to + 1)..Taken : read'[k].type = ")"
    BY <2>1, <2>2, <2>3 DEF OnlyClosing
  <2>. QED
    BY <1>1, <1>4, <2>1, <2>4 DEF OnlyClosing
<1>. QED
  BY <1>1, <1>3, <1>6 DEF Settled, PastOperators, DivisorIs

LEMMA StaysSettled ==
  ASSUME Whole, Whole', Sound, Settled, [Next]_vars
  PROVE  Settled'
<1>0. ASSUME NEW code, NEW from, NEW to, Fail(code, from, to)
      PROVE  Settled'
  BY <1>0 DEF Fail, Settled, Stopped
<1>1. CASE PeekFails \/ BadArg
  BY <1>0, <1>1 DEF PeekFails, BadArg
<1>2. CASE UndefinedVariable \/ IllegalAtom \/ NegativeIntRefused \/ DivisionByZero
  BY <1>0, <1>2 DEF UndefinedVariable, IllegalAtom, NegativeIntRefused, DivisionByZero
<1>3. CASE ExpectedCloseParen \/ TrailingToken \/ AppendFails
  BY <1>0, <1>3 DEF ExpectedCloseParen, TrailingToken, AppendFails
<1>4. CASE Peek
  BY <1>4, PeekSettles
<1>5. CASE Sign \/ OpenParen \/ StartParsing
  BY <1>5, CallSettles DEF Whole
<1>6. CASE AtomInt \/ AtomVar
  BY <1>6, AtomSettles
<1>7. CASE Positive \/ NegativeInt \/ Negation
  BY <1>7, SignedReturnSettles
<1>8. CASE CloseParen
  BY <1>8, CloseParenSettles
<1>9. CASE \E level \in DOMAIN Operators : Operator(level) \/ NoOperator(level) \/ RightOperand(level)
  <2>1. PICK level \in {"sum", "product"} :
          Operator(level) \/ NoOperator(level) \/ RightOperand(level)
    BY <1>9 DEF Operators
  <2>. QED
    BY <2>1, CallSettles, NoOperatorSettles, RightOperandSettles DEF Whole
<1>10. CASE AppendRoot \/ Finish
  BY <1>10, SliceSettles
<1>11. CASE Terminated \/ UNCHANGED vars
  <2>1. UNCHANGED <<args, state, error, read, nodes, frames, result>>
    BY <1>11 DEF Terminated, vars
  <2>. QED
    BY <2>1 DEF Settled, Stopped, PastOperators, DivisorIs, OnlyClosing, Taken, Top, token
<1>. QED
  BY <1>1, <1>2, <1>3, <1>4, <1>5, <1>6, <1>7, <1>8, <1>9, <1>10, <1>11 DEF Next, Descend

LEMMA SettledAtFirst == Init => Settled
<1>1. SUFFICES ASSUME Init PROVE Settled
  OBVIOUS
<1>2. frames = <<Call("arguments")>> /\ result = Nothing
  BY <1>1 DEF Init
<1>3. Top.at = "arguments"
  BY <1>2, CallsAre DEF Calls, Top
<1>. QED
  BY <1>2, <1>3 DEF Settled, PastOperators, DivisorIs

-----------------------------------------------------------------------------
\* The part of the call that is due begins behind an operator or parenthesis, or with
\* the code, and no parenthesis is closed there that is not open.
StartIs(code, height, start, n) ==
  /\ start \in 1..(n + 1)
  /\ start = 1 \/ code[start - 1].type \in Openers
  /\ height[start - 1] >= 0

\* What Stands and IsStack say of each frame.
FramesMean(code, env, fs, starts, n, E) ==
  /\ DOMAIN fs = 1..Len(fs) /\ Len(fs) \in Nat
  /\ starts[1] = 1 /\ fs[1].at \in Bottom
  /\ \A k \in DOMAIN fs :
       /\ fs[k] \in Frame /\ fs[k].from \in Nat
       /\ k # 1 => /\ Calling(fs[k - 1].at, fs[k].at) /\ k - 1 \in DOMAIN fs
                   /\ FrameMeans(code, env, fs[k - 1], starts[k - 1], fs[k], starts[k], n, E)

LEMMA FramesAre ==
  ASSUME NEW code, NEW env, NEW fs, IsStack(fs), NEW starts, NEW n, NEW E,
         Stands(code, env, fs, starts, n, E)
  PROVE  FramesMean(code, env, fs, starts, n, E)
<1>1. fs \in Seq(Frame) /\ DOMAIN fs = 1..Len(fs) /\ Len(fs) \in Nat
  BY DEF IsStack
<1>2. ASSUME NEW k \in DOMAIN fs
      PROVE  /\ fs[k] \in Frame /\ fs[k].from \in Nat
             /\ k # 1 => k - 1 \in DOMAIN fs /\ k \in DOMAIN fs \ {1}
  <2>1. fs[k] \in Frame
    BY <1>1
  <2>. QED
    BY <1>1, <2>1 DEF Frame
<1>. QED
  BY <1>1, <1>2 DEF IsStack, Stands, FramesMean

\* An open parenthesis is counted.
LEMMA ParenHeight ==
  ASSUME NEW code, NEW env, Readable(code, env), NEW height, IsHeight(code, height),
         NEW fs, IsStack(fs), NEW starts, NEW n \in 0..Len(code), NEW E,
         Stands(code, env, fs, starts, n, E), NEW k \in DOMAIN fs, fs[k].at = "paren"
  PROVE  /\ k - 1 \in DOMAIN fs /\ fs[k - 1].at = "signed" /\ starts[k] = starts[k - 1]
         /\ fs[k - 1].from = starts[k]
         /\ fs[k].from \in 1..n /\ code[fs[k].from].type = "("
         /\ height[fs[k].from] = height[starts[k] - 1] + 1
<1>0. FramesMean(code, env, fs, starts, n, E) /\ Len(code) \in Nat
  BY FramesAre DEF Readable
<1>1. k # 1 /\ k \in Nat /\ DOMAIN fs = 1..Len(fs) /\ Len(fs) \in Nat /\ n \in Nat /\ Len(code) \in Nat
  BY <1>0 DEF Bottom, FramesMean
<1>2. /\ k - 1 \in DOMAIN fs /\ Calling(fs[k - 1].at, "paren")
      /\ FrameMeans(code, env, fs[k - 1], starts[k - 1], fs[k], starts[k], n, E)
  BY <1>0, <1>1 DEF FramesMean
<1>3. fs[k - 1].at = "signed"
  BY <1>2, Zenon DEF Calling
<1>4. PICK p \in DOMAIN fs : p = k - 1
  BY <1>2
<1>5. p # 1 /\ FrameMeans(code, env, fs[p - 1], starts[p - 1], fs[p], starts[p], n, E)
  BY <1>0, <1>3, <1>4 DEF Bottom, FramesMean
<1>6. fs[p].from = starts[p] /\ starts[k] = starts[p]
  BY <1>2, <1>3, <1>4, <1>5 DEF FrameMeans, Due
<1>7. /\ fs[k].from \in 1..n /\ code[fs[k].from].type = "("
      /\ fs[p].from <= fs[k].from /\ starts[k] \in 1..(n + 1)
      /\ \A l \in fs[p].from..(fs[k].from - 1) : code[l].type \in AddSub
  BY <1>2, <1>4 DEF FrameMeans, SignsMean
<1>8. height[fs[k].from - 1] = height[starts[k] - 1]
  <2>1. PICK a, b : a = starts[k] /\ b = fs[k].from - 1
    OBVIOUS
  <2>2. a \in 1..(Len(code) + 1) /\ b \in (a - 1)..Len(code)
    BY <1>1, <1>6, <1>7, <2>1
  <2>3. \A l \in a..b : code[l].type \in AddSub
    BY <1>6, <1>7, <2>1
  <2>4. height[b] = height[a - 1]
    BY <1>1, <2>2, <2>3, SignsKeepHeight
  <2>. QED
    BY <2>1, <2>4
<1>9. height[fs[k].from] = height[fs[k].from - 1] + 1
  <2>1. fs[k].from \in 1..Len(code)
    BY <1>1, <1>7
  <2>. QED
    BY <1>7, <2>1, TypesAre DEF IsHeight
<1>. QED
  BY <1>2, <1>3, <1>4, <1>6, <1>7, <1>8, <1>9

LEMMA LeftIsWellFormed ==
  ASSUME NEW code, NEW env, Readable(code, env), NEW height, IsHeight(code, height),
         NEW caller, NEW before, NEW f, AwaitsRight(f),
         NEW start, NEW n \in 0..Len(code), NEW E,
         FrameMeans(code, env, caller, before, f, start, n, E)
  PROVE  /\ f.from \in 1..n /\ code[f.from].type \in BinaryTypes
         /\ Is(code, env, LeftPart(f.at), start, f.from - 1)
         /\ height[f.from] = height[start - 1]
<1>1. /\ start \in 1..(n + 1) /\ f.from \in start..n
      /\ code[f.from].type \in Operators[LeftPart(f.at)]
      /\ Is(code, env, LeftPart(f.at), start, f.from - 1)
  BY DEF FrameMeans, Is
<1>2. LeftPart(f.at) \in {"sum", "product"} /\ LeftPart(f.at) \in Parts
  BY RulesAre DEF LeftPart
<1>3. code[f.from].type \in BinaryTypes
  BY <1>1, <1>2, LevelIs
<1>4. Len(code) \in Nat
  BY DEF Readable
<1>5. PICK i, j : i = start /\ j = f.from - 1
  OBVIOUS
<1>6. /\ i \in 1..(Len(code) + 1) /\ j \in 0..Len(code) /\ j + 1 = f.from
      /\ j + 1 \in 1..Len(code) /\ j + 1 \in 1..n
  BY <1>1, <1>4, <1>5
<1>7. WellFormed(code, height, i, j)
  <2>1. PICK part \in Parts : part = LeftPart(f.at)
    BY <1>2
  <2>2. Is(code, env, part, i, j)
    BY <1>1, <1>5, <2>1
  <2>. QED
    BY <1>6, <2>2, PartsAreWellFormed
<1>8. height[j + 1] = height[(j + 1) - 1] + 0
  BY <1>3, <1>6, TypesAre DEF IsHeight
<1>9. height[j + 1] = height[i - 1]
  <2>1. (j + 1) - 1 = j /\ height[j] \in Int
    BY <1>6 DEF IsHeight
  <2>2. height[j] = height[i - 1]
    BY <1>7, Zenon DEF WellFormed
  <2>. QED
    BY <1>8, <2>1, <2>2
<1>. QED
  BY <1>1, <1>3, <1>5, <1>6, <1>9

LEMMA StartsAre ==
  ASSUME NEW code, NEW env, Readable(code, env), NEW height, IsHeight(code, height),
         height[0] = 0, NEW fs, IsStack(fs), NEW starts, NEW n \in 0..Len(code), NEW E,
         Stands(code, env, fs, starts, n, E)
  PROVE  \A k \in DOMAIN fs : StartIs(code, height, starts[k], n)
<1> DEFINE S == {k \in Nat : k \in DOMAIN fs /\ ~StartIs(code, height, starts[k], n)}
<1>0. FramesMean(code, env, fs, starts, n, E) /\ Len(code) \in Nat /\ n \in Nat
  BY FramesAre DEF Readable
<1>1. SUFFICES ASSUME S # {} PROVE FALSE
  <2>1. \A k \in DOMAIN fs : k \in Nat
    BY <1>0 DEF FramesMean
  <2>. QED
    BY <2>1
<1>2. PICK k \in S : \A l \in S : k <= l
  <2>1. S \subseteq Nat
    OBVIOUS
  <2>. QED
    BY <1>1, <2>1, LeastNumber
<1>3. k \in DOMAIN fs /\ ~StartIs(code, height, starts[k], n) /\ n \in Nat /\ Len(code) \in Nat
  BY <1>0
<1>4. k # 1
  <2>1. k = 1 => starts[k] = 1
    BY <1>0 DEF FramesMean
  <2>2. 1 \in 1..(n + 1) /\ 1 - 1 = 0
    BY <1>3
  <2>. QED
    BY <1>3, <2>1, <2>2 DEF StartIs
<1>5. PICK p \in DOMAIN fs : p = k - 1
  BY <1>0, <1>3, <1>4 DEF FramesMean
<1>6. /\ FrameMeans(code, env, fs[p], starts[p], fs[k], starts[k], n, E)
      /\ Calling(fs[p].at, fs[k].at)
  BY <1>0, <1>3, <1>4, <1>5 DEF FramesMean
<1>7. StartIs(code, height, starts[p], n)
  <2>1. p \in Nat /\ ~(k <= p)
    BY <1>0, <1>3, <1>5 DEF FramesMean
  <2>2. p \notin S
    BY <1>2, <2>1
  <2>. QED
    BY <2>1, <2>2
<1>8. starts[k] = Due(fs[p], starts[p]) /\ starts[k] \in 1..(n + 1)
  BY <1>6 DEF FrameMeans
<1>9. \A l \in 0..Len(code) : height[l] \in Int
  BY DEF IsHeight
<1>10. starts[p] - 1 \in 0..Len(code) /\ height[starts[p] - 1] >= 0
  BY <1>3, <1>7 DEF StartIs
<1>11. CASE fs[p].at \in {"sum right", "product right"}
  <2>1. p # 1 /\ AwaitsRight(fs[p])
    BY <1>0, <1>11 DEF Bottom, AwaitsRight, FramesMean
  <2>2. FrameMeans(code, env, fs[p - 1], starts[p - 1], fs[p], starts[p], n, E)
    BY <1>0, <2>1 DEF FramesMean
  <2>3. /\ fs[p].from \in 1..n /\ code[fs[p].from].type \in BinaryTypes
        /\ height[fs[p].from] = height[starts[p] - 1]
    BY <2>1, <2>2, LeftIsWellFormed
  <2>4. starts[k] - 1 = fs[p].from
    <3>1. starts[k] = fs[p].from + 1
      BY <1>8, <1>11 DEF Due
    <3>2. fs[p].from \in Nat
      BY <1>0 DEF FramesMean
    <3>. QED
      BY <3>1, <3>2
  <2>. QED
    BY <1>3, <1>8, <1>10, <2>3, <2>4, TypesAre DEF StartIs
<1>12. CASE fs[p].at = "paren"
  <2>1. /\ fs[p].from \in 1..n /\ code[fs[p].from].type = "("
        /\ height[fs[p].from] = height[starts[p] - 1] + 1
    BY <1>12, ParenHeight
  <2>2. starts[k] - 1 = fs[p].from
    BY <1>0, <1>8, <1>12, <2>1 DEF Due
  <2>3. height[fs[p].from] >= 0
    BY <1>9, <1>10, <2>1
  <2>4. "(" \in Openers
    BY DEF Openers
  <2>. QED
    BY <1>3, <1>8, <2>1, <2>2, <2>3, <2>4 DEF StartIs
<1>13. CASE fs[p].at \notin {"sum right", "product right", "paren"}
  BY <1>3, <1>7, <1>8, <1>13 DEF Due
<1>. QED
  BY <1>11, <1>12, <1>13

\* A part of a call, with nothing but closing parentheses behind it.
DueIs(code, env, f, start, n, j) ==
  /\ j \in n..Len(code)
  /\ \A l \in (j + 1)..Len(code) : code[l].type = ")"
  /\ Is(code, env, DuePart(f.at), Due(f, start), j)

\* What is returned is what its caller asks for.
LEMMA HandsUp ==
  ASSUME NEW code, NEW env, Readable(code, env),
         NEW part \in {"signed", "product", "sum"},
         NEW caller, Calling(caller.at, part), NEW before, NEW start,
         start = Due(caller, before), start \in 1..(Len(code) + 1),
         NEW n, NEW j, j \in n..Len(code), j \in 0..Len(code),
         \A l \in (j + 1)..Len(code) : code[l].type = ")",
         Is(code, env, part, start, j)
  PROVE  DueIs(code, env, caller, before, n, j)
<1>1. PICK at : at = caller.at
  OBVIOUS
<1>2. Means(code, env, DuePart(at), start, j) = Means(code, env, part, start, j)
  BY <1>1, LiftTop
<1>. QED
  BY <1>1, <1>2 DEF DueIs, Is

LEMMA PassesUp ==
  ASSUME NEW code, NEW env, Readable(code, env), NEW height, IsHeight(code, height),
         height[0] = 0, height[Len(code)] = 0,
         NEW fs, IsStack(fs), NEW starts, NEW n \in 0..Len(code), NEW E,
         Stands(code, env, fs, starts, n, E), NEW k \in DOMAIN fs, k # 1,
         NEW j, DueIs(code, env, fs[k], starts[k], n, j)
  PROVE  \E i : DueIs(code, env, fs[k - 1], starts[k - 1], n, i)
<1> DEFINE N == Len(code)
<1>0. FramesMean(code, env, fs, starts, n, E) /\ N \in Nat /\ n \in Nat
  BY FramesAre DEF Readable
<1>1. PICK f, caller, start, before :
        f = fs[k] /\ caller = fs[k - 1] /\ start = starts[k] /\ before = starts[k - 1]
  OBVIOUS
<1>2. /\ FrameMeans(code, env, caller, before, f, start, n, E)
      /\ Calling(caller.at, f.at) /\ k - 1 \in DOMAIN fs /\ f \in Frame
  BY <1>0, <1>1 DEF FramesMean
<1>3. start = Due(caller, before) /\ start \in 1..(n + 1) /\ start \in 1..(N + 1)
  BY <1>0, <1>2 DEF FrameMeans
<1>4. /\ j \in n..N /\ j \in 0..N
      /\ \A l \in (j + 1)..N : code[l].type = ")"
      /\ Is(code, env, DuePart(f.at), Due(f, start), j)
  BY <1>0, <1>1 DEF DueIs
<1>5. CASE f.at \in {"sum", "product", "signed"}
  <2>1. DuePart(f.at) = f.at /\ Due(f, start) = start
    BY <1>5, Zenon DEF DuePart, Due
  <2>2. PICK part \in {"signed", "product", "sum"} : part = f.at
    BY <1>5
  <2>3. Is(code, env, part, start, j) /\ Calling(caller.at, part)
    BY <1>2, <1>4, <2>1, <2>2
  <2>4. DueIs(code, env, caller, before, n, j)
    BY <1>3, <1>4, <2>3, HandsUp
  <2>. QED
    BY <1>1, <2>4
<1>6. CASE AwaitsRight(f)
  <2>1. PICK level \in {"sum", "product"} : f.at = RightOf(level)
    BY <1>6 DEF AwaitsRight, RightOf
  <2>2. /\ LeftPart(f.at) = level /\ Due(f, start) = f.from + 1 /\ DuePart(f.at) = Operand[level]
        /\ Calling(caller.at, level)
    BY <1>2, <2>1, RightIs
  <2>3. /\ f.from \in start..n /\ code[f.from].type \in Operators[level]
        /\ Is(code, env, level, start, f.from - 1)
    BY <1>2, <1>6, <2>2 DEF FrameMeans, Is
  <2>4. f.from \in start..j
    BY <1>3, <1>4, <2>3
  <2>5. Splits(code, env, level, start, j, f.from)
    BY <1>4, <2>2, <2>3, <2>4 DEF Splits
  <2>6. Is(code, env, level, start, j)
    BY <1>3, <1>4, <2>4, <2>5, IsChain
  <2>7. DueIs(code, env, caller, before, n, j)
    BY <1>3, <1>4, <2>2, <2>6, HandsUp
  <2>. QED
    BY <1>1, <2>7
<1>7. CASE f.at = "paren"
  <2>1. /\ caller.at = "signed" /\ start = before /\ caller.from = start
        /\ f.from \in 1..n /\ code[f.from].type = "("
        /\ height[f.from] = height[start - 1] + 1
    BY <1>1, <1>7, ParenHeight
  <2>2. height[start - 1] >= 0
    BY <1>1, StartsAre DEF StartIs
  <2>3. /\ Due(f, start) = f.from + 1 /\ DuePart(f.at) = "sum"
        /\ Due(caller, before) = before /\ DuePart(caller.at) = "signed"
    BY <1>7, <2>1, Zenon DEF Due, DuePart
  <2>4. PICK p \in 1..N : p = f.from
    BY <1>0, <2>1
  <2>5. Is(code, env, "sum", p + 1, j) /\ p + 1 \in 1..(N + 1)
    BY <1>0, <1>4, <2>3, <2>4
  <2>6. p + 1 <= j /\ WellFormed(code, height, p + 1, j)
    BY <1>4, <2>5, PartsAreWellFormed, RulesAre
  <2>7. height[j] = height[p] /\ height[p] = height[start - 1] + 1
    <3>1. (p + 1) - 1 = p
      OBVIOUS
    <3>. QED
      BY <2>1, <2>4, <2>6, <3>1 DEF WellFormed
  <2>8. j # N
    <3>1. start - 1 \in 0..N
      BY <1>0, <1>3
    <3>2. height[start - 1] \in Int
      BY <3>1 DEF IsHeight
    <3>. QED
      BY <2>2, <2>7, <3>2
  <2>9. j + 1 \in (j + 1)..N /\ j + 1 \in 0..N /\ j + 1 \in n..N /\ (j + 1) - 1 = j /\ p <= j + 1 /\ p # j + 1
    BY <1>0, <1>4, <2>6, <2>8
  <2>10. code[j + 1].type = ")" /\ \A l \in ((j + 1) + 1)..N : code[l].type = ")"
    <3>1. \A l \in ((j + 1) + 1)..N : l \in (j + 1)..N
      BY <1>4
    <3>. QED
      BY <1>4, <2>9, <3>1
  <2>11. Is(code, env, "atom", p, j + 1)
    <3>1. PICK q \in 0..N : q = j + 1 /\ q - 1 = j
      BY <2>9
    <3>2. p \in 1..(N + 1) /\ p <= q /\ p # q
      BY <1>0, <2>9, <3>1
    <3>3. Means(code, env, "atom", p, q) = Means(code, env, "sum", p + 1, q - 1)
      BY <2>1, <2>4, <2>10, <3>1, <3>2, AtomIs
    <3>. QED
      BY <2>5, <3>1, <3>3 DEF Is
  <2>12. Means(code, env, "signed", start, j + 1) # {}
    <3>1. SignsMean(code, env, caller, p)
      BY <1>2, <1>7, <2>4 DEF FrameMeans
    <3>2. code[p].type \notin AddSub
      BY <2>1, <2>4 DEF AddSub
    <3>3. Means(code, env, "signed", caller.from, j + 1)
            = Signs(caller.inverse, Means(code, env, "atom", p, j + 1))
      BY <2>9, <3>1, <3>2, SignedPart
    <3>. QED
      BY <2>1, <2>11, <3>3, NegatedIs DEF Is, Signs
  <2>13. DueIs(code, env, caller, before, n, j + 1)
    BY <2>1, <2>3, <2>9, <2>10, <2>12 DEF DueIs, Is
  <2>. QED
    BY <1>1, <2>13
<1>8. f.at \in {"sum", "product", "signed", "sum right", "product right", "paren"}
  BY <1>2 DEF Calling
<1>. QED
  BY <1>5, <1>6, <1>7, <1>8 DEF AwaitsRight

\* When all parentheses are closed behind a part that was due, it is the whole code.
LEMMA ClosesUp ==
  ASSUME NEW code, NEW env, Readable(code, env), NEW height, IsHeight(code, height),
         height[0] = 0, height[Len(code)] = 0,
         NEW fs, IsStack(fs), fs[1].at = "expr", NEW starts, NEW n \in 0..Len(code), NEW E,
         Stands(code, env, fs, starts, n, E), NEW j,
         DueIs(code, env, Last(fs), Last(starts), n, j)
  PROVE  Is(code, env, "sum", 1, Len(code))
<1> DEFINE N == Len(code)
           S == {k \in Nat : k \in DOMAIN fs /\ \E i : DueIs(code, env, fs[k], starts[k], n, i)}
<1>0. FramesMean(code, env, fs, starts, n, E) /\ N \in Nat /\ n \in Nat
  BY FramesAre DEF Readable
<1>1. Len(fs) \in S
  <2>1. Len(fs) \in Nat /\ Len(fs) # 0 /\ Len(fs) \in DOMAIN fs /\ Len(starts) = Len(fs)
    <3>1. Len(fs) \in Nat /\ Len(fs) # 0 /\ DOMAIN fs = 1..Len(fs)
      BY <1>0, BottomIs DEF FramesMean
    <3>. QED
      BY <3>1 DEF Stands
  <2>. QED
    BY <2>1 DEF Last
<1>2. PICK k \in S : \A l \in S : k <= l
  <2>1. S \subseteq Nat
    OBVIOUS
  <2>. QED
    BY <1>1, <2>1, LeastNumber
<1>3. k = 1
  <2>1. SUFFICES ASSUME k # 1 PROVE FALSE
    OBVIOUS
  <2>2. \E i : DueIs(code, env, fs[k - 1], starts[k - 1], n, i)
    <3>1. PICK i : DueIs(code, env, fs[k], starts[k], n, i)
      OBVIOUS
    <3>. QED
      BY <2>1, <3>1, PassesUp
  <2>3. k - 1 \in DOMAIN fs /\ k - 1 \in Nat /\ ~(k <= k - 1)
    BY <1>0, <2>1 DEF FramesMean
  <2>. QED
    BY <1>2, <2>2, <2>3
<1>4. PICK i : DueIs(code, env, fs[1], 1, n, i)
  BY <1>0, <1>3 DEF FramesMean
<1>5. /\ i \in n..N /\ i \in 0..N /\ Is(code, env, "sum", 1, i)
      /\ \A l \in (i + 1)..N : code[l].type = ")"
  <2>1. DuePart(fs[1].at) = "sum" /\ Due(fs[1], 1) = 1
    BY Zenon DEF DuePart, Due
  <2>. QED
    BY <1>0, <1>4, <2>1 DEF DueIs
<1>6. height[i] = 0
  <2>1. 1 \in 1..(N + 1) /\ 1 - 1 = 0
    BY <1>0
  <2>2. WellFormed(code, height, 1, i)
    BY <1>5, <2>1, PartsAreWellFormed, RulesAre
  <2>. QED
    BY <2>1, <2>2 DEF WellFormed
<1>7. i = N
  <2>1. height[N] = height[i] - (N - i)
    <3>1. N \in i..N
      BY <1>0, <1>5
    <3>. QED
      BY <1>0, <1>5, <3>1, ClosingLowers
  <2>. QED
    BY <1>0, <1>5, <1>6, <2>1
<1>. QED
  BY <1>5, <1>7

-----------------------------------------------------------------------------
\* What is put behind a code to close its parentheses.
OpenIn(code) == Count(code, "(") - Count(code, ")")
Closing(code) == [i \in 1..OpenIn(code) |-> Token(")")]

LEMMA CompletionsAre ==
  ASSUME NEW code
  PROVE  Completions(code) = {code \o Closing(code), Append(code, One) \o Closing(code)}
  BY DEF Completions, Closing, OpenIn, One

\* OpenIn is a height.
LEMMA OpenIsHeight ==
  ASSUME NEW code \in Seq(Words), NEW other, Len(other) \in Nat, Len(code) <= Len(other),
         \A k \in 1..Len(code) : other[k] = code[k]
  PROVE  /\ HeightOf(other)[Len(code)] = OpenIn(code)
         /\ OpenIn(code) \in Int
<1>1. DOMAIN code = 1..Len(code) /\ Len(code) \in Nat /\ Len(code) \in 0..Len(other)
  BY SeqDomain
<1>2. \A type : OfType(other, type, Len(code)) = {i \in DOMAIN code : code[i].type = type}
  BY <1>1 DEF OfType
<1>3. \A type : Cardinality(OfType(other, type, Len(code))) = Count(code, type)
  BY <1>2 DEF Count
<1>4. HeightOf(other)[Len(code)] = OpenIn(code)
  BY <1>1, <1>3 DEF HeightOf, OpenIn
<1>5. HeightOf(other)[Len(code)] \in Int
  BY <1>1, HeightExists DEF IsHeight
<1>. QED
  BY <1>4, <1>5

LEMMA ClosingIs ==
  ASSUME NEW code \in Seq(Words)
  PROVE  /\ Closing(code) \in Seq(Words)
         /\ \A i \in 1..Len(Closing(code)) : Closing(code)[i] = Token(")")
         /\ OpenIn(code) >= 0 => Len(Closing(code)) = OpenIn(code)
<1>1. Token(")") \in Words
  BY DEF Words, Tokens
<1>2. OpenIn(code) \in Int
  <2>1. Len(code) \in Nat /\ Len(code) <= Len(code)
    BY SeqIs
  <2>. QED
    BY <2>1, OpenIsHeight
<1>3. CASE OpenIn(code) >= 0
  <2>1. PICK d \in Nat : d = OpenIn(code)
    BY <1>2, <1>3
  <2>2. Closing(code) = [i \in 1..d |-> Token(")")]
    BY <2>1 DEF Closing
  <2>3. /\ Closing(code) \in Seq(Words) /\ Len(Closing(code)) = d
        /\ \A i \in 1..d : Closing(code)[i] = Token(")")
    <3> HIDE DEF Closing
    <3>. QED
      BY <1>1, <2>2
  <2>. QED
    BY <2>1, <2>3
<1>4. CASE OpenIn(code) < 0
  <2>1. 1..OpenIn(code) = 1..0
    BY <1>2, <1>4
  <2>2. Closing(code) = [i \in 1..0 |-> Token(")")]
    BY <2>1 DEF Closing
  <2>3. Closing(code) \in Seq(Words) /\ Len(Closing(code)) = 0
    BY <1>1, <2>2
  <2>. QED
    BY <1>2, <1>4, <2>3
<1>. QED
  BY <1>2, <1>3, <1>4

\* c is a code, or one with one more number, and behind that what closes it.
Closes(code, stem, c) ==
  /\ stem \in Seq(Words) /\ Len(stem) \in Nat /\ Len(code) \in Nat
  /\ Len(stem) = IF stem = code THEN Len(code) ELSE Len(code) + 1
  /\ stem = Append(code, One) => Len(stem) = Len(code) + 1 /\ stem[Len(code) + 1] = One
  /\ c \in Seq(Words) /\ Len(c) \in Nat
  /\ Len(stem) <= Len(c) /\ Len(code) <= Len(stem)
  /\ \A k \in 1..Len(stem) : c[k] = stem[k]
  /\ \A k \in 1..Len(code) : c[k] = code[k]
  /\ \A k \in (Len(stem) + 1)..Len(c) : c[k].type = ")"
  /\ OpenIn(code) >= 0 => Len(c) = Len(stem) + OpenIn(code)

LEMMA ClosedIs ==
  ASSUME NEW code \in Seq(Words), NEW stem, stem = code \/ stem = Append(code, One)
  PROVE  Closes(code, stem, stem \o Closing(code))
<1> DEFINE m == Len(code)
           t == Len(stem)
           d == Len(Closing(code))
<1>1. m \in Nat /\ \A k \in 1..m : code[k] \in Words
  BY SeqIs
<1>2. /\ Append(code, One) \in Seq(Words) /\ Len(Append(code, One)) = m + 1
      /\ Append(code, One)[m + 1] = One /\ \A k \in 1..m : Append(code, One)[k] = code[k]
  <2>1. One \in Words
    BY DEF Words
  <2>. QED
    BY <2>1, LastIs
<1>3. /\ stem \in Seq(Words) /\ t \in Nat /\ m <= t
      /\ t = (IF stem = code THEN m ELSE m + 1)
      /\ \A k \in 1..m : stem[k] = code[k]
  BY <1>1, <1>2
<1>4. /\ Closing(code) \in Seq(Words) /\ d \in Nat
      /\ \A i \in 1..d : Closing(code)[i] = Token(")")
      /\ OpenIn(code) >= 0 => d = OpenIn(code)
  BY ClosingIs, SeqIs
<1>5. /\ stem \o Closing(code) \in Seq(Words)
      /\ Len(stem \o Closing(code)) = t + d
      /\ \A k \in 1..(t + d) :
           (stem \o Closing(code))[k] = IF k <= t THEN stem[k] ELSE Closing(code)[k - t]
  BY <1>3, <1>4, ConcatProperties
<1>6. ASSUME NEW k \in (t + 1)..(t + d)
      PROVE  (stem \o Closing(code))[k].type = ")"
  <2>1. k \in 1..(t + d) /\ ~(k <= t) /\ k - t \in 1..d
    BY <1>3, <1>4
  <2>2. (stem \o Closing(code))[k] = Token(")")
    BY <1>4, <1>5, <2>1
  <2>. QED
    BY <2>2 DEF Token
<1>7. ASSUME NEW k \in 1..t
      PROVE  (stem \o Closing(code))[k] = stem[k]
  <2>1. k \in 1..(t + d) /\ k <= t
    BY <1>3, <1>4
  <2>. QED
    BY <1>5, <2>1
<1>8. \A k \in 1..m : k \in 1..t
  BY <1>1, <1>3
<1>9. t + d \in Nat /\ t <= t + d
  BY <1>3, <1>4
<1> HIDE DEF d
<1>. QED
  BY <1>1, <1>2, <1>3, <1>4, <1>5, <1>6, <1>7, <1>8, <1>9 DEF Closes

-----------------------------------------------------------------------------
AnyEnv == CHOOSE env \in Environments : TRUE

LEMMA SentenceIs ==
  /\ AnyEnv \in [Identifiers -> Long]
  /\ \A code : IsSentence(code) <=> Is(code, AnyEnv, "sum", 1, Len(code))
<1>1. AnyEnv \in Environments
  BY GrammarAssumption DEF AnyEnv
<1>2. AnyEnv \in [Identifiers -> Long]
  BY <1>1, GrammarAssumption
<1>3. ASSUME NEW code
      PROVE  IsSentence(code) <=> Is(code, AnyEnv, "sum", 1, Len(code))
  BY DEF IsSentence, Meanings, Is, Means, AnyEnv
<1>. QED
  BY <1>2, <1>3

LEMMA BeginsIs ==
  ASSUME NEW code
  PROVE  BeginsASentence(code) <=>
           \E stem \in {code, Append(code, One)} :
             Is(stem \o Closing(code), AnyEnv, "sum", 1, Len(stem \o Closing(code)))
BY CompletionsAre, SentenceIs DEF BeginsASentence

LEMMA ClosedHeight ==
  ASSUME NEW code, Len(code) \in Nat, NEW height, IsHeight(code, height),
         NEW a \in 0..Len(code), \A k \in (a + 1)..Len(code) : code[k].type = ")"
  PROVE  height[Len(code)] = height[a] - (Len(code) - a)
<1>1. Len(code) \in a..Len(code)
  OBVIOUS
<1>. QED
  BY <1>1, ClosingLowers

\* A completion closes everything.
LEMMA CompletedIs ==
  ASSUME NEW code \in Seq(Words), OpenIn(code) >= 0,
         NEW stem, stem = code \/ stem = Append(code, One),
         NEW c, c = stem \o Closing(code)
  PROVE  /\ IsHeight(c, HeightOf(c)) /\ HeightOf(c)[0] = 0 /\ HeightOf(c)[Len(c)] = 0
<1> DEFINE h == HeightOf(c)
           m == Len(code)
           t == Len(stem)
<1>1. /\ Len(c) \in Nat /\ t \in Nat /\ m \in Nat /\ m <= t /\ t <= Len(c)
      /\ \A k \in 1..m : c[k] = code[k]
      /\ \A k \in 1..t : c[k] = stem[k]
      /\ \A k \in (t + 1)..Len(c) : c[k].type = ")"
      /\ Len(c) = t + OpenIn(code)
      /\ t = IF stem = code THEN m ELSE m + 1
      /\ stem = Append(code, One) => t = m + 1 /\ stem[m + 1] = One
  BY ClosedIs DEF Closes
<1>2. IsHeight(c, h) /\ h[0] = 0
  BY <1>1, HeightExists
<1>3. h[m] = OpenIn(code) /\ OpenIn(code) \in Int
  <2>1. m <= Len(c)
    BY <1>1
  <2>. QED
    BY <1>1, <2>1, OpenIsHeight
<1>4. h[t] = OpenIn(code)
  <2>1. CASE stem = code
    BY <1>3, <2>1
  <2>2. CASE stem = Append(code, One)
    <3>1. t = m + 1 /\ stem[t] = One /\ t \in 1..t /\ t \in 1..Len(c) /\ t - 1 = m
      BY <1>1, <2>2
    <3>2. c[t].type = "INT"
      BY <1>1, <3>1 DEF One
    <3>3. h[t] = h[m] + 0
      BY <1>2, <3>1, <3>2, TypesAre DEF IsHeight
    <3>. QED
      BY <1>3, <3>3
  <2>. QED
    BY <2>1, <2>2
<1>5. h[Len(c)] = h[t] - (Len(c) - t)
  <2>1. t \in 0..Len(c)
    BY <1>1
  <2> HIDE DEF h, t
  <2>. QED
    BY <1>1, <1>2, <2>1, ClosedHeight
<1>6. h[Len(c)] = 0
  <2>1. PICK x, y, z : x = OpenIn(code) /\ y = t /\ z = Len(c)
    OBVIOUS
  <2>2. x \in Int /\ y \in Int /\ z = y + x
    BY <1>1, <1>3, <2>1
  <2>3. h[Len(c)] = x - (z - y)
    BY <1>4, <1>5, <2>1
  <2> HIDE DEF h, t
  <2>. QED
    BY <2>2, <2>3
<1>. QED
  BY <1>2, <1>6

LEMMA CompletionContinues ==
  ASSUME IInv, ~Stopped, NEW code \in Seq(Words), Taken <= Len(code),
         \A k \in 1..Taken : code[k] = read[k],
         NEW stem, stem = code \/ stem = Append(code, One)
  PROVE  Continues(stem \o Closing(code))
<1>1. /\ stem \o Closing(code) \in Seq(Words)
      /\ Len(code) \in Nat /\ Len(stem) \in Nat /\ Len(stem \o Closing(code)) \in Nat
      /\ Len(code) <= Len(stem) /\ Len(stem) <= Len(stem \o Closing(code))
      /\ \A k \in 1..Len(code) : (stem \o Closing(code))[k] = code[k]
  <2>1. Closes(code, stem, stem \o Closing(code))
    BY ClosedIs, Zenon
  <2>. QED
    BY <2>1, Zenon DEF Closes
<1>2. Taken \in Nat
  BY PassedIs
<1>3. Taken <= Len(stem \o Closing(code)) /\ \A k \in 1..Taken : k \in 1..Len(code)
  BY <1>1, <1>2
<1>. QED
  BY <1>1, <1>3 DEF Continues

-----------------------------------------------------------------------------
\* Where the calls stand in any code that begins with what has been consumed.
LEMMA StandsIn ==
  ASSUME Whole, Sound, ~Stopped, Top.at \notin Bottom,
         NEW code, Continues(code), NEW env \in [Identifiers -> Long]
  PROVE  /\ Readable(code, env) /\ Len(code) \in Nat /\ Taken \in Nat /\ Taken \in 0..Len(code)
         /\ IsHeight(code, HeightOf(code)) /\ HeightOf(code)[0] = 0
         /\ IsStack(frames) /\ Top = Last(frames) /\ frames[1].at = "expr"
         /\ \E starts :
              /\ Stands(code, env, frames, starts, Taken, Evaluated(env))
              /\ TopMeans(code, env, Top, Last(starts), result, Taken, ArgValues(env),
                          Evaluated(env))
              /\ StartIs(code, HeightOf(code), Last(starts), Taken)
              /\ Len(frames) \in DOMAIN frames /\ Last(starts) = starts[Len(frames)]
              /\ Top.at = "signed" => Top.from = Last(starts)
<1>1. IsStack(frames) /\ Top = Last(frames) /\ IInv
  BY StackInUse DEF Whole
<1>2. Readable(code, env) /\ Len(code) \in Nat
  BY ContinuesIs
<1>3. Taken \in Nat /\ Taken \in 0..Len(code)
  <2>1. Taken \in Nat /\ Taken <= Len(code)
    BY <1>1, PassedIs DEF Continues
  <2>. QED
    BY <1>2, <2>1
<1>4. IsHeight(code, HeightOf(code)) /\ HeightOf(code)[0] = 0
  BY <1>2, HeightExists
<1>5. ~AtStart /\ frames # <<>> /\ Meant(code, env)
  <2>1. Top.at # "arguments"
    BY DEF Bottom
  <2>. QED
    BY <2>1, SoundBefore DEF Says
<1>6. frames[1].at = "expr"
  <2>1. /\ Len(frames) \in Nat /\ Len(frames) > 1 /\ DOMAIN frames = 1..Len(frames)
        /\ frames[1].at \in Bottom
    BY <1>1, BottomIs DEF IsStack
  <2>2. 2 \in DOMAIN frames \ {1} /\ 2 - 1 = 1
    BY <2>1
  <2>3. Calling(frames[1].at, frames[2].at)
    BY <1>1, <2>2 DEF IsStack
  <2>. QED
    BY <2>1, <2>3 DEF Calling, Bottom
<1>7. ~Ended
  BY <1>1, <1>5 DEF Ended, Bottom
<1>8. PICK starts :
        /\ Stands(code, env, frames, starts, Taken, Evaluated(env))
        /\ TopMeans(code, env, Top, Last(starts), result, Taken, ArgValues(env), Evaluated(env))
  BY <1>1, <1>5, <1>7, MeantNow
<1>9. Len(frames) \in DOMAIN frames /\ Last(starts) = starts[Len(frames)]
  <2>1. Len(frames) \in Nat /\ Len(frames) # 0 /\ DOMAIN frames = 1..Len(frames)
    BY <1>1, BottomIs
  <2>. QED
    BY <1>8, <2>1 DEF Stands, Last
<1>10. StartIs(code, HeightOf(code), Last(starts), Taken)
  BY <1>1, <1>2, <1>3, <1>4, <1>8, <1>9, StartsAre
<1>11. Top.at = "signed" => Top.from = Last(starts)
  <2>1. FrameMeans(code, env, Last(Below(frames)), Last(Below(starts)), Last(frames), Last(starts),
                   Taken, Evaluated(env))
    BY <1>1, <1>8, PopStands
  <2>. QED
    BY <1>1, <2>1 DEF FrameMeans
<1>. QED
  BY <1>1, <1>2, <1>3, <1>4, <1>6, <1>8, <1>9, <1>10, <1>11

\* Where an operand is due, the token before is an operator or opens a parenthesis.
LEMMA BehindOpener ==
  ASSUME Whole, Sound, Running("signed"), NEW code, Continues(code)
  PROVE  /\ HeightOf(code)[Taken] >= 0
         /\ Taken = 0 \/ code[Taken].type \in Openers
<1> DEFINE h == HeightOf(code)
<1>1. ~Stopped /\ Top.at = "signed" /\ Top.at \notin Bottom /\ result = Nothing
  BY DEF Running, Bottom
<1>2. PICK env : env \in [Identifiers -> Long]
  BY GrammarAssumption
<1>3. Len(code) \in Nat /\ Taken \in Nat /\ Taken \in 0..Len(code) /\ IsHeight(code, h)
  BY <1>1, <1>2, StandsIn
<1>4. PICK starts :
        /\ TopMeans(code, env, Top, Last(starts), result, Taken, ArgValues(env), Evaluated(env))
        /\ StartIs(code, h, Last(starts), Taken) /\ Top.from = Last(starts)
  BY <1>1, <1>2, StandsIn
<1>5. PICK a : a = Last(starts)
  OBVIOUS
<1>6. /\ a \in 1..(Taken + 1)
      /\ a = 1 \/ code[a - 1].type \in Openers
      /\ h[a - 1] >= 0
      /\ \A k \in a..((Taken + 1) - 1) : code[k].type \in AddSub
  BY <1>1, <1>4, <1>5 DEF StartIs, TopMeans, SignsMean
<1>7. a \in 1..(Len(code) + 1) /\ Taken \in (a - 1)..Len(code) /\ (Taken + 1) - 1 = Taken
      /\ (a - 1 = Taken \/ Taken \in a..Taken)
  BY <1>3, <1>4, <1>5 DEF StartIs
<1>8. h[Taken] = h[a - 1]
  <2>1. \A k \in a..Taken : code[k].type \in AddSub
    BY <1>6, <1>7
  <2> HIDE DEF h
  <2>. QED
    BY <1>3, <1>7, <2>1, SignsKeepHeight
<1>9. Taken = 0 \/ code[Taken].type \in Openers
  <2>1. CASE a - 1 = Taken
    <3>1. a = 1 => Taken = 0
      BY <2>1
    <3>. QED
      BY <1>4, <1>5, <2>1, <3>1 DEF StartIs
  <2>2. CASE Taken \in a..Taken
    BY <1>6, <1>7, <2>2, TypesAre
  <2>. QED
    BY <1>7, <2>1, <2>2
<1>. QED
  BY <1>6, <1>8, <1>9

\* Where a parenthesis is due, a part of the code is complete.
LEMMA BehindSum ==
  ASSUME Whole, Sound, Returned("paren"), NEW code, Continues(code)
  PROVE  /\ HeightOf(code)[Taken] >= 1 /\ Taken # 0 /\ code[Taken].type \in Lasts
         /\ \A env \in [Identifiers -> Long] :
              /\ Top.from \in 1..Taken /\ code[Top.from].type = "("
              /\ Is(code, env, "sum", Top.from + 1, Taken)
<1> DEFINE h == HeightOf(code)
<1>1. ~Stopped /\ Top.at = "paren" /\ Top.at \notin Bottom /\ result # Nothing
  BY DEF Returned, Bottom
<1>2. ASSUME NEW env \in [Identifiers -> Long]
      PROVE  /\ h[Taken] >= 1 /\ Taken # 0 /\ code[Taken].type \in Lasts
             /\ Top.from \in 1..Taken /\ code[Top.from].type = "("
             /\ Is(code, env, "sum", Top.from + 1, Taken)
  <2>1. /\ Readable(code, env) /\ Len(code) \in Nat /\ Taken \in Nat /\ Taken \in 0..Len(code)
        /\ IsHeight(code, h) /\ IsStack(frames) /\ Top = Last(frames)
    BY <1>1, <1>2, StandsIn
  <2>2. PICK starts :
          /\ Stands(code, env, frames, starts, Taken, Evaluated(env))
          /\ TopMeans(code, env, Top, Last(starts), result, Taken, ArgValues(env), Evaluated(env))
          /\ StartIs(code, h, Last(starts), Taken)
          /\ Len(frames) \in DOMAIN frames /\ Last(starts) = starts[Len(frames)]
    BY <1>1, <1>2, StandsIn
  <2>3. PICK p, a : p = Top.from /\ a = Last(starts)
    OBVIOUS
  <2>4. frames[Len(frames)] = Top /\ frames[Len(frames)].at = "paren"
    BY <1>1, <2>1 DEF Last
  <2>5. p \in 1..Taken /\ code[p].type = "(" /\ h[p] = h[a - 1] + 1
    BY <2>1, <2>2, <2>3, <2>4, ParenHeight
  <2>6. Is(code, env, "sum", p + 1, Taken)
    <3>1. DuePart("paren") = "sum" /\ Due(Top, a) = p + 1
      BY <1>1, <2>3, Zenon DEF DuePart, Due
    <3>. QED
      BY <1>1, <2>2, <2>3, <3>1 DEF TopMeans, Is
  <2>7. p + 1 <= Taken /\ WellFormed(code, h, p + 1, Taken)
    <3>1. p + 1 \in 1..(Len(code) + 1)
      BY <2>1, <2>5
    <3>. QED
      BY <2>1, <2>6, <3>1, PartsAreWellFormed, RulesAre
  <2>8. h[Taken] = h[p] /\ code[Taken].type \in Lasts
    <3>1. (p + 1) - 1 = p
      BY <2>5
    <3>. QED
      BY <2>7, <3>1 DEF WellFormed
  <2>9. h[a - 1] >= 0 /\ h[a - 1] \in Int
    <3>1. a - 1 \in 0..Len(code)
      BY <2>1, <2>2, <2>3 DEF StartIs
    <3>. QED
      BY <2>1, <2>2, <2>3, <3>1 DEF StartIs, IsHeight
  <2>10. h[Taken] >= 1
    <3> HIDE DEF h
    <3>. QED
      BY <2>5, <2>8, <2>9
  <2>11. Taken # 0
    BY <2>5
  <2>. QED
    BY <2>3, <2>5, <2>6, <2>8, <2>10, <2>11
<1>3. PICK env : env \in [Identifiers -> Long]
  BY GrammarAssumption
<1>. QED
  BY <1>2, <1>3

LEMMA BehindAll ==
  ASSUME Whole, Sound, Running("end"), NEW code, Continues(code)
  PROVE  /\ HeightOf(code)[Taken] = 0 /\ Taken # 0 /\ code[Taken].type \in Lasts
         /\ \A env \in [Identifiers -> Long] : Is(code, env, "sum", 1, Taken)
<1> DEFINE h == HeightOf(code)
<1>1. ~Stopped /\ Top.at = "end" /\ Top.at # "arguments" /\ IInv
  BY DEF Running, Whole
<1>2. Ended
  <2>1. Top = Last(frames)
    BY <1>1, StackInUse
  <2>. QED
    BY <1>1, <2>1 DEF Ended
<1>3. ASSUME NEW env \in [Identifiers -> Long]
      PROVE  /\ h[Taken] = 0 /\ Taken # 0 /\ code[Taken].type \in Lasts
             /\ Is(code, env, "sum", 1, Taken)
  <2>1. Is(code, env, "sum", 1, Taken)
    <3>1. Meant(code, env)
      BY <1>1, <1>3, PassedMeans
    <3>. QED
      BY <1>2, <3>1 DEF Meant, Is
  <2>2. Readable(code, env) /\ Len(code) \in Nat /\ Taken \in Nat /\ Taken \in 0..Len(code)
    <3>1. Readable(code, env) /\ Len(code) \in Nat
      BY <1>3, ContinuesIs
    <3>2. Taken \in Nat /\ Taken <= Len(code)
      BY <1>1, PassedIs DEF Continues
    <3>. QED
      BY <3>1, <3>2
  <2>3. IsHeight(code, h) /\ h[0] = 0 /\ 1 \in 1..(Len(code) + 1) /\ 1 - 1 = 0
    BY <2>2, HeightExists
  <2>4. 1 <= Taken /\ WellFormed(code, h, 1, Taken)
    BY <2>1, <2>2, <2>3, PartsAreWellFormed, RulesAre
  <2>5. Taken # 0
    BY <2>2, <2>4
  <2>. QED
    BY <2>1, <2>3, <2>4, <2>5 DEF WellFormed
<1>4. PICK env : env \in [Identifiers -> Long]
  BY GrammarAssumption
<1>. QED
  BY <1>3, <1>4

-----------------------------------------------------------------------------
\* A token that cannot stand behind the ones before it.
Misplaced(code, n) ==
  \/ /\ n = 0 \/ code[n].type \in Openers
     /\ code[n + 1].type \notin Firsts
  \/ /\ n # 0 /\ code[n].type \in Lasts
     /\ code[n + 1].type \notin BinaryTypes
     /\ code[n + 1].type = ")" => HeightOf(code)[n] = 0

LEMMA NoSentenceGoesOn ==
  ASSUME NEW code, NEW env, Readable(code, env), NEW n \in Nat, n + 1 <= Len(code),
         Misplaced(code, n)
  PROVE  ~Is(code, env, "sum", 1, Len(code))
<1> DEFINE h == HeightOf(code)
           N == Len(code)
<1>1. SUFFICES ASSUME Is(code, env, "sum", 1, N)
               PROVE  FALSE
  OBVIOUS
<1>2. N \in Nat /\ IsHeight(code, h) /\ h[0] = 0 /\ 1 \in 1..(N + 1) /\ N \in 0..N /\ 1 - 1 = 0
  BY HeightExists DEF Readable
<1>3. WellFormed(code, h, 1, N)
  BY <1>1, <1>2, PartsAreWellFormed, RulesAre
<1>4. /\ code[1].type \in Firsts
      /\ \A k \in 1..(N - 1) : Follows(code[k].type, code[k + 1].type)
      /\ \A k \in 1..N : h[k] >= 0
  BY <1>2, <1>3 DEF WellFormed
<1>5. n # 0 => n \in 1..(N - 1) /\ Follows(code[n].type, code[n + 1].type)
  <2>1. n # 0 => n \in 1..(N - 1)
    BY <1>2
  <2>. QED
    BY <1>4, <2>1
<1>6. CASE n = 0 \/ code[n].type \in Openers
  <2>1. code[n + 1].type \in Firsts
    <3>1. CASE n = 0
      <4>1. n + 1 = 1
        BY <3>1
      <4>. QED
        BY <1>4, <4>1
    <3>2. CASE n # 0
      BY <1>5, <1>6, <3>2 DEF Follows
    <3>. QED
      BY <3>1, <3>2
  <2>2. n # 0 => code[n].type \notin Lasts
    BY <1>6, TypesAre
  <2>. QED
    BY <2>1, <2>2 DEF Misplaced
<1>7. CASE n # 0 /\ code[n].type \notin Openers
  <2>1. /\ code[n].type \in Lasts /\ code[n + 1].type \notin BinaryTypes
        /\ code[n + 1].type = ")" => h[n] = 0
    BY <1>7 DEF Misplaced
  <2>2. code[n + 1].type = ")" /\ h[n] = 0
    BY <1>5, <1>7, <2>1 DEF Follows
  <2>3. n + 1 \in 1..N /\ (n + 1) - 1 = n
    BY <1>2
  <2>4. h[n + 1] = h[n] + (-1)
    BY <1>2, <2>2, <2>3, TypesAre DEF IsHeight
  <2>5. h[n + 1] >= 0
    BY <1>4, <2>3
  <2> HIDE DEF h
  <2>. QED
    BY <2>2, <2>4, <2>5
<1>. QED
  BY <1>6, <1>7

\* The code up to the token in hand, and what the errors about the syntax say of it.
AtFirstBadToken ==
  /\ BeginsASentence(BeforeToken)
  /\ IF token = Eof THEN ~IsSentence(BeforeToken) ELSE ~BeginsASentence(read)

LEMMA InHand ==
  ASSUME IInv, ~Stopped, state = "READY"
  PROVE  /\ BeforeToken = Passed /\ Taken \in Nat /\ Len(read) = Taken + 1
         /\ token = read[Taken + 1] /\ token \in Tokens \cup {Eof}
         /\ read \in Seq(Words) /\ Passed \in Seq(Words)
         /\ token.type = "EOF" <=> token = Eof
<1>1. /\ Taken = Len(read) - 1 /\ Taken \in Nat /\ Taken + 1 = Len(read)
      /\ token = read[Taken + 1]
  BY TakenIs
<1>2. token \in Tokens \cup {Eof}
  BY TokenIs
<1>3. read \in Seq(Words) /\ Passed \in Seq(Words)
  <2>1. read \in Seq(Tokens \cup {Eof}) /\ Passed \in Seq(Tokens \cup {Eof})
    BY PassedIs DEF IInv, TokensOK
  <2>2. ASSUME NEW s \in Seq(Tokens \cup {Eof})
        PROVE  s \in Seq(Words)
    BY DEF Words
  <2>. QED
    BY <2>1, <2>2
<1>4. token.type = "EOF" <=> token = Eof
  <2>1. Eof.type = "EOF" /\ Token("EOF") = Eof
    BY DEF Eof, Token
  <2>. QED
    BY <1>2, <2>1, TokenNumbers
<1>. QED
  BY <1>1, <1>2, <1>3, <1>4 DEF BeforeToken, Passed

\* No code that begins with the token in hand as well is a sentence.
LEMMA BadTokenEnds ==
  ASSUME Whole, ~Stopped, state = "READY",
         \A code : Continues(code) /\ Taken + 1 <= Len(code) /\ code[Taken + 1] = token
           => Misplaced(code, Taken)
  PROVE  ~BeginsASentence(read)
<1>1. IInv
  BY DEF Whole
<1>2. SUFFICES ASSUME BeginsASentence(read)
               PROVE  FALSE
  OBVIOUS
<1>3. PICK stem \in {read, Append(read, One)} :
        Is(stem \o Closing(read), AnyEnv, "sum", 1, Len(stem \o Closing(read)))
  BY <1>2, BeginsIs
<1>4. PICK c : c = stem \o Closing(read)
  OBVIOUS
<1>5. read \in Seq(Words) /\ Taken \in Nat /\ Len(read) = Taken + 1 /\ token = read[Taken + 1]
  BY <1>1, InHand
<1>6. Continues(c)
  <2>1. Taken <= Len(read) /\ \A k \in 1..Taken : read[k] = read[k]
    BY <1>5
  <2>. QED
    BY <1>1, <1>3, <1>4, <1>5, <2>1, CompletionContinues
<1>7. Taken + 1 <= Len(c) /\ c[Taken + 1] = token
  <2>1. /\ Len(stem) \in Nat /\ Len(read) \in Nat /\ Len(c) \in Nat
        /\ Len(read) <= Len(stem) /\ Len(stem) <= Len(c)
        /\ \A k \in 1..Len(read) : c[k] = read[k]
    <3>1. Closes(read, stem, c)
      BY <1>3, <1>4, <1>5, ClosedIs
    <3>. QED
      BY <3>1, Zenon DEF Closes
  <2>2. Taken + 1 \in 1..Len(read) /\ Taken + 1 <= Len(c)
    BY <1>5, <2>1
  <2>. QED
    BY <1>5, <2>1, <2>2
<1>8. Misplaced(c, Taken)
  BY <1>6, <1>7
<1>9. Readable(c, AnyEnv)
  BY <1>6, SentenceIs, ContinuesIs
<1>. QED
  BY <1>3, <1>4, <1>5, <1>7, <1>8, <1>9, NoSentenceGoesOn

\* The part that is due can be put there, and all calls return.
LEMMA DueCompletes ==
  ASSUME Whole, Sound, ~Stopped, Top.at \notin Bottom,
         OpenIn(Passed) >= 0,
         NEW stem \in {Passed, Append(Passed, One)},
         \A starts :
           LET c == stem \o Closing(Passed) IN
           /\ TopMeans(c, AnyEnv, Top, Last(starts), result, Taken, ArgValues(AnyEnv),
                       Evaluated(AnyEnv))
           /\ Top.at = "signed" => Top.from = Last(starts)
           => Is(c, AnyEnv, DuePart(Top.at), Due(Top, Last(starts)), Len(stem))
  PROVE  BeginsASentence(Passed)
<1>1. IInv /\ AnyEnv \in [Identifiers -> Long]
  BY SentenceIs DEF Whole
<1>2. PICK c : c = stem \o Closing(Passed)
  OBVIOUS
<1>3. /\ Passed \in Seq(Words) /\ Taken \in Nat /\ Len(Passed) = Taken
      /\ \A k \in 1..Taken : Passed[k] = read[k]
  BY <1>1, PassedIs DEF Continues
<1>4. Continues(c)
  <2>1. Taken <= Len(Passed)
    BY <1>3
  <2>. QED
    BY <1>1, <1>2, <1>3, <2>1, CompletionContinues
<1>5. /\ Readable(c, AnyEnv) /\ Len(c) \in Nat /\ Taken \in 0..Len(c)
      /\ IsStack(frames) /\ Top = Last(frames) /\ frames[1].at = "expr"
  BY <1>1, <1>4, StandsIn
<1>6. PICK starts :
        /\ Stands(c, AnyEnv, frames, starts, Taken, Evaluated(AnyEnv))
        /\ TopMeans(c, AnyEnv, Top, Last(starts), result, Taken, ArgValues(AnyEnv),
                    Evaluated(AnyEnv))
        /\ Top.at = "signed" => Top.from = Last(starts)
  BY <1>1, <1>4, StandsIn
<1>7. IsHeight(c, HeightOf(c)) /\ HeightOf(c)[0] = 0 /\ HeightOf(c)[Len(c)] = 0
  BY <1>2, <1>3, CompletedIs
<1>8. DueIs(c, AnyEnv, Last(frames), Last(starts), Taken, Len(stem))
  <2>1. Is(c, AnyEnv, DuePart(Top.at), Due(Top, Last(starts)), Len(stem))
    BY <1>2, <1>6
  <2>2. /\ Len(stem) \in Nat /\ Len(Passed) <= Len(stem) /\ Len(stem) <= Len(c)
        /\ \A l \in (Len(stem) + 1)..Len(c) : c[l].type = ")"
    BY <1>2, <1>3, ClosedIs DEF Closes
  <2>3. Len(stem) \in Taken..Len(c)
    BY <1>3, <1>5, <2>2
  <2>. QED
    BY <1>5, <2>1, <2>2, <2>3 DEF DueIs
<1>9. Is(c, AnyEnv, "sum", 1, Len(c))
  BY <1>5, <1>6, <1>7, <1>8, ClosesUp
<1>. QED
  BY <1>2, <1>9, BeginsIs

\* How high the parentheses stack up does not depend on what comes later.
LEMMA PassedHeight ==
  ASSUME IInv, ~Stopped, NEW code, Continues(code)
  PROVE  HeightOf(code)[Taken] = OpenIn(Passed) /\ OpenIn(Passed) \in Int
<1>1. /\ Passed \in Seq(Words) /\ Taken \in Nat /\ Len(Passed) = Taken
      /\ \A k \in 1..Taken : Passed[k] = read[k]
  BY PassedIs DEF Continues
<1>2. code \in Seq(Words) /\ Taken <= Len(code) /\ \A k \in 1..Taken : code[k] = read[k]
  BY DEF Continues
<1>3. Len(code) \in Nat /\ \A k \in 1..Taken : code[k] = Passed[k]
  BY <1>1, <1>2, SeqIs
<1>. QED
  BY <1>1, <1>2, <1>3, OpenIsHeight

\* A number where one is due, and what closes the code behind it.
LEMMA CompletedByOne ==
  ASSUME NEW code \in Seq(Words)
  PROVE  LET stem == Append(code, One)
             c == stem \o Closing(code)
         IN  /\ Len(stem) = Len(code) + 1 /\ stem[Len(code) + 1] = One
             /\ Len(c) \in Nat /\ Len(stem) <= Len(c)
             /\ \A k \in 1..Len(stem) : c[k] = stem[k]
<1>1. PICK stem : stem = Append(code, One)
  OBVIOUS
<1>2. /\ Len(stem) = Len(code) + 1 /\ stem[Len(code) + 1] = One
      /\ Len(stem \o Closing(code)) \in Nat /\ Len(stem) <= Len(stem \o Closing(code))
      /\ \A k \in 1..Len(stem) : (stem \o Closing(code))[k] = stem[k]
  BY <1>1, ClosedIs DEF Closes
<1>. QED
  BY <1>1, <1>2

LEMMA IllegalAtomIsFirst ==
  ASSUME Whole, Sound, IllegalAtom
  PROVE  AtFirstBadToken
<1>1. /\ ~Stopped /\ Top.at = "signed" /\ result = Nothing /\ Running("signed") /\ state = "READY"
      /\ token.type \in {"MUL", "DIV", ")", "EOF"} /\ IInv /\ Top.at \notin Bottom
  BY DEF IllegalAtom, Running, Sees, Whole, Bottom
<1>2. /\ BeforeToken = Passed /\ Taken \in Nat /\ Passed \in Seq(Words)
      /\ token.type = "EOF" <=> token = Eof
  BY <1>1, InHand
<1>3. Continues(Passed) /\ Len(Passed) = Taken
  BY <1>1, PassedIs
<1>4. OpenIn(Passed) >= 0
  BY <1>1, <1>3, BehindOpener, PassedHeight
<1>5. BeginsASentence(Passed)
  <2>1. PICK stem \in {Passed, Append(Passed, One)} : stem = Append(Passed, One)
    OBVIOUS
  <2>2. PICK c : c = stem \o Closing(Passed)
    OBVIOUS
  <2>3. /\ Len(stem) = Taken + 1 /\ Len(c) \in Nat /\ Len(stem) <= Len(c)
        /\ \A k \in 1..Len(stem) : c[k] = stem[k]
        /\ stem[Taken + 1] = One
    <3>1. /\ Len(stem) = Len(Passed) + 1 /\ stem[Len(Passed) + 1] = One
          /\ Len(c) \in Nat /\ Len(stem) <= Len(c)
          /\ \A k \in 1..Len(stem) : c[k] = stem[k]
      BY <1>2, <2>1, <2>2, CompletedByOne
    <3>. QED
      BY <1>3, <3>1
  <2>4. Continues(c)
    <3>1. Taken <= Len(Passed) /\ \A k \in 1..Taken : Passed[k] = read[k]
      BY <1>1, <1>2, <1>3, PassedIs
    <3>. QED
      BY <1>1, <1>2, <2>2, <3>1, CompletionContinues
  <2>5. Readable(c, AnyEnv)
    BY <2>4, SentenceIs, ContinuesIs
  <2>6. PICK n \in 1..Len(c) : n = Taken + 1
    BY <1>2, <2>3
  <2>7. c[n].type = "INT"
    BY <2>3, <2>6 DEF One
  <2>8. n \in 0..Len(c) /\ n \in 1..(Len(c) + 1) /\ n <= n
    BY <2>3
  <2>9. Is(c, AnyEnv, "atom", n, n)
    <3>1. Means(c, AnyEnv, "atom", n, n) = CASE c[n].type = "INT"   -> {c[n].value}
                                             [] c[n].type = "IDENT" -> {AnyEnv[c[n].value]}
                                             [] OTHER               -> {}
      BY <2>5, <2>8, AtomIs
    <3>2. Means(c, AnyEnv, "atom", n, n) = {c[n].value}
      BY <2>7, <3>1
    <3>. QED
      BY <3>2 DEF Is
  <2>10. ASSUME NEW start,
                TopMeans(c, AnyEnv, Top, start, result, Taken, ArgValues(AnyEnv),
                         Evaluated(AnyEnv)),
                Top.from = start
         PROVE  Is(c, AnyEnv, DuePart(Top.at), Due(Top, start), Len(stem))
    <3>1. SignsMean(c, AnyEnv, Top, n)
      BY <1>1, <2>6, <2>10 DEF TopMeans
    <3>2. Means(c, AnyEnv, "signed", Top.from, n) = Signs(Top.inverse, Means(c, AnyEnv, "atom", n, n))
      BY <2>5, <2>7, <2>8, <3>1, SignedPart DEF AddSub
    <3>3. Is(c, AnyEnv, "signed", Top.from, n)
      BY <2>9, <3>2, NegatedIs DEF Is, Signs
    <3>4. DuePart(Top.at) = "signed" /\ Due(Top, start) = start
      BY <1>1, Zenon DEF DuePart, Due
    <3>. QED
      BY <2>3, <2>6, <2>10, <3>3, <3>4
  <2>. QED
    BY <1>1, <1>4, <2>2, <2>10, DueCompletes
<1>6. CASE token = Eof
  <2>1. ~Is(Passed, AnyEnv, "sum", 1, Taken)
    <3>1. SUFFICES ASSUME Is(Passed, AnyEnv, "sum", 1, Taken)
                   PROVE  FALSE
      OBVIOUS
    <3>2. Readable(Passed, AnyEnv) /\ IsHeight(Passed, HeightOf(Passed))
      BY <1>2, <1>3, SentenceIs, ContinuesIs, HeightExists
    <3>3. 1 <= Taken /\ WellFormed(Passed, HeightOf(Passed), 1, Taken)
      <4>1. 1 \in 1..(Len(Passed) + 1) /\ Taken \in 0..Len(Passed)
        BY <1>2, <1>3
      <4>. QED
        BY <3>1, <3>2, <4>1, PartsAreWellFormed, RulesAre
    <3>4. Passed[Taken].type \in Openers /\ Passed[Taken].type \in Lasts
      <4>1. Taken # 0
        BY <3>3
      <4>. QED
        BY <1>1, <1>3, <3>3, <4>1, BehindOpener DEF WellFormed
    <3>. QED
      BY <3>4, TypesAre
  <2>. QED
    BY <1>2, <1>3, <1>5, <1>6, <2>1, SentenceIs DEF AtFirstBadToken
<1>7. CASE token # Eof
  <2>1. token.type \notin Firsts
    BY <1>1, <1>2, <1>7 DEF Firsts, AddSub
  <2>2. ASSUME NEW code, Continues(code), code[Taken + 1] = token
        PROVE  Misplaced(code, Taken)
    BY <1>1, <2>1, <2>2, BehindOpener DEF Misplaced
  <2>3. ~BeginsASentence(read)
    BY <1>1, <2>2, BadTokenEnds
  <2>. QED
    BY <1>2, <1>5, <1>7, <2>3 DEF AtFirstBadToken
<1>. QED
  BY <1>6, <1>7

LEMMA ExpectedCloseIsFirst ==
  ASSUME Whole, Sound, Settled, ExpectedCloseParen
  PROVE  AtFirstBadToken
<1>1. /\ ~Stopped /\ Top.at = "paren" /\ result # Nothing /\ Returned("paren")
      /\ token.type # ")" /\ IInv /\ Top.at \notin Bottom
  BY DEF ExpectedCloseParen, Returned, Whole, Bottom
<1>2. state = "READY" /\ token.type \notin BinaryTypes
  BY <1>1 DEF Settled, PastOperators, BinaryTypes
<1>3. BeforeToken = Passed /\ Taken \in Nat /\ Passed \in Seq(Words)
  BY <1>1, <1>2, InHand
<1>4. Continues(Passed) /\ Len(Passed) = Taken
  BY <1>1, PassedIs
<1>5. HeightOf(Passed)[Taken] >= 1 /\ OpenIn(Passed) >= 0
  BY <1>1, <1>4, BehindSum, PassedHeight
<1>6. BeginsASentence(Passed)
  <2>1. PICK stem \in {Passed, Append(Passed, One)} : stem = Passed
    OBVIOUS
  <2>2. PICK c : c = stem \o Closing(Passed)
    OBVIOUS
  <2>3. ASSUME NEW start,
               TopMeans(c, AnyEnv, Top, start, result, Taken, ArgValues(AnyEnv),
                        Evaluated(AnyEnv))
        PROVE  Is(c, AnyEnv, DuePart(Top.at), Due(Top, start), Len(stem))
    BY <1>1, <1>4, <2>1, <2>3 DEF TopMeans, Is
  <2>. QED
    BY <1>1, <1>5, <2>2, <2>3, DueCompletes
<1>7. CASE token = Eof
  <2>1. ~Is(Passed, AnyEnv, "sum", 1, Taken)
    <3>1. SUFFICES ASSUME Is(Passed, AnyEnv, "sum", 1, Taken)
                   PROVE  FALSE
      OBVIOUS
    <3>2. /\ Readable(Passed, AnyEnv) /\ IsHeight(Passed, HeightOf(Passed))
          /\ HeightOf(Passed)[0] = 0
      BY <1>3, <1>4, SentenceIs, ContinuesIs, HeightExists
    <3>3. WellFormed(Passed, HeightOf(Passed), 1, Taken)
      <4>1. 1 \in 1..(Len(Passed) + 1) /\ Taken \in 0..Len(Passed)
        BY <1>3, <1>4
      <4>. QED
        BY <3>1, <3>2, <4>1, PartsAreWellFormed, RulesAre
    <3>4. HeightOf(Passed)[Taken] = 0
      <4>1. 1 - 1 = 0
        OBVIOUS
      <4>. QED
        BY <3>2, <3>3, <4>1 DEF WellFormed
    <3>. QED
      BY <1>5, <3>4
  <2>. QED
    BY <1>3, <1>4, <1>6, <1>7, <2>1, SentenceIs DEF AtFirstBadToken
<1>8. CASE token # Eof
  <2>1. ASSUME NEW code, Continues(code), code[Taken + 1] = token
        PROVE  Misplaced(code, Taken)
    BY <1>1, <1>2, <2>1, BehindSum DEF Misplaced
  <2>2. ~BeginsASentence(read)
    BY <1>1, <1>2, <2>1, BadTokenEnds
  <2>. QED
    BY <1>3, <1>6, <1>8, <2>2 DEF AtFirstBadToken
<1>. QED
  BY <1>7, <1>8

LEMMA TrailingIsFirst ==
  ASSUME Whole, Sound, Settled, TrailingToken
  PROVE  AtFirstBadToken
<1>1. /\ ~Stopped /\ Top.at = "end" /\ Running("end") /\ state = "READY"
      /\ token.type # "EOF" /\ IInv
  BY DEF TrailingToken, Running, Whole
<1>2. token.type \notin BinaryTypes
  BY <1>1 DEF Settled, PastOperators
<1>3. /\ BeforeToken = Passed /\ Taken \in Nat /\ Passed \in Seq(Words) /\ token # Eof
  BY <1>1, InHand
<1>4. Continues(Passed) /\ Len(Passed) = Taken
  BY <1>1, PassedIs
<1>5. OpenIn(Passed) = 0
  BY <1>1, <1>4, BehindAll, PassedHeight
<1>6. BeginsASentence(Passed)
  <2>1. PICK stem \in {Passed, Append(Passed, One)} : stem = Passed
    OBVIOUS
  <2>2. PICK c : c = stem \o Closing(Passed)
    OBVIOUS
  <2>3. Len(c) = Taken
    <3>1. Len(c) = Len(stem) + OpenIn(Passed)
      BY <1>3, <1>5, <2>1, <2>2, ClosedIs DEF Closes
    <3>. QED
      BY <1>3, <1>4, <1>5, <2>1, <3>1
  <2>4. Continues(c)
    <3>1. Taken <= Len(Passed) /\ \A k \in 1..Taken : Passed[k] = read[k]
      BY <1>1, <1>3, <1>4, PassedIs
    <3>. QED
      BY <1>1, <1>3, <2>2, <3>1, CompletionContinues
  <2>5. Is(c, AnyEnv, "sum", 1, Len(c))
    BY <1>1, <2>3, <2>4, SentenceIs, BehindAll
  <2>. QED
    BY <2>2, <2>5, BeginsIs
<1>7. ASSUME NEW code, Continues(code), code[Taken + 1] = token
      PROVE  Misplaced(code, Taken)
  BY <1>1, <1>2, <1>7, BehindAll DEF Misplaced
<1>8. ~BeginsASentence(read)
  BY <1>1, <1>7, BadTokenEnds
<1>. QED
  BY <1>3, <1>6, <1>8 DEF AtFirstBadToken

-----------------------------------------------------------------------------
\* A piece of a sequence.
LEMMA PieceIs ==
  ASSUME NEW S, NEW s \in Seq(S), NEW a \in 1..(Len(s) + 1), NEW b \in (a - 1)..Len(s)
  PROVE  /\ SubSeq(s, a, b) \in Seq(S) /\ Len(SubSeq(s, a, b)) = b - a + 1
         /\ \A k \in 1..(b - a + 1) : SubSeq(s, a, b)[k] = s[k + (a - 1)]
<1>1. /\ a \in Int /\ b \in Int /\ \A k \in a..b : s[k] \in S
      /\ (IF a <= b THEN b - a + 1 ELSE 0) = b - a + 1
  <2>1. Len(s) \in Nat /\ \A k \in 1..Len(s) : s[k] \in S
    BY SeqIs
  <2>2. \A k \in a..b : k \in 1..Len(s)
    BY <2>1
  <2>. QED
    BY <2>1, <2>2
<1>2. \A k \in 1..(b - a + 1) : a + k - 1 = k + (a - 1)
  BY <1>1
<1>3. /\ SubSeq(s, a, b) \in Seq(S) /\ Len(SubSeq(s, a, b)) = b - a + 1
      /\ \A k \in 1..(b - a + 1) : SubSeq(s, a, b)[k] = s[a + k - 1]
  BY <1>1, SubSeqProperties
<1>. QED
  BY <1>2, <1>3

\* Parentheses are counted in the same way in a piece.
LEMMA PieceHeight ==
  ASSUME NEW code, Len(code) \in Nat, NEW height, IsHeight(code, height),
         NEW part, Len(part) \in Nat, NEW other, IsHeight(part, other), other[0] = 0,
         NEW off \in Nat, off + Len(part) <= Len(code),
         \A k \in 1..Len(part) : part[k] = code[k + off]
  PROVE  \A k \in 0..Len(part) : other[k] = height[k + off] - height[off]
<1> DEFINE S == {k \in Nat : k \in 0..Len(part) /\ other[k] # height[k + off] - height[off]}
<1>1. SUFFICES ASSUME S # {}
               PROVE  FALSE
  OBVIOUS
<1>2. PICK k \in S : \A l \in S : k <= l
  <2>1. S \subseteq Nat
    OBVIOUS
  <2>. QED
    BY <1>1, <2>1, LeastNumber
<1>3. \A l \in 0..Len(code) : height[l] \in Int
  BY DEF IsHeight
<1>4. k # 0
  <2>1. off \in 0..Len(code) /\ 0 + off = off
    OBVIOUS
  <2>2. height[off] \in Int
    BY <1>3, <2>1
  <2>3. other[0] = height[0 + off] - height[off]
    BY <2>1, <2>2
  <2>. QED
    BY <2>3
<1>5. /\ k \in 1..Len(part) /\ k - 1 \in Nat /\ k - 1 \in 0..Len(part) /\ ~(k <= k - 1)
      /\ k + off \in 1..Len(code) /\ (k + off) - 1 = (k - 1) + off
      /\ k + off \in 0..Len(code) /\ (k - 1) + off \in 0..Len(code) /\ off \in 0..Len(code)
  <2>1. k \in 0..Len(part)
    OBVIOUS
  <2>. QED
    BY <1>4, <2>1
<1>6. other[k - 1] = height[(k - 1) + off] - height[off]
  BY <1>2, <1>5
<1>7. PICK rise \in Int : rise = Rise(part[k].type)
  BY DEF Rise
<1>8. other[k] = other[k - 1] + rise
  BY <1>5, <1>7 DEF IsHeight
<1>9. height[k + off] = height[(k - 1) + off] + rise
  BY <1>5, <1>7 DEF IsHeight
<1>10. height[(k - 1) + off] \in Int /\ height[off] \in Int /\ height[k + off] \in Int
  BY <1>3, <1>5
<1>11. other[k] = height[k + off] - height[off]
  BY <1>6, <1>8, <1>9, <1>10
<1>. QED
  BY <1>11

\* What is wrong is where the range in error_info says.
LocatedAt(code, from, to) ==
  /\ code = "EXPECTED_CLOSE_PAREN" =>
       /\ read[from] = Token("(")
       /\ to = Len(read)
       /\ IsSentence(SubSeq(read, from + 1, to - 1))
  /\ code = "DIV_BY_ZERO" =>
       /\ read[from - 1] = Token("DIV")
       /\ \E c \in Completions(SubSeq(read, from, to)) :
            \A env \in Environments : Meanings(c, env) = {0}
  /\ code = "UNDEFINED_VARIABLE" =>
       SubSeq(read, from, to) = <<token>> /\ \A i \in DOMAIN args : args[i] # token.value

LEMMA UndefinedIsLocated ==
  ASSUME Whole, UndefinedVariable
  PROVE  LocatedAt("UNDEFINED_VARIABLE", Len(read), Len(read))
<1>1. /\ ~Stopped /\ state = "READY" /\ IInv /\ \A arg \in DOMAIN args : args[arg] # token.value
  BY DEF UndefinedVariable, Running, Sees, Whole
<1>2. /\ read \in Seq(Words) /\ Len(read) \in 1..Len(read) /\ token = read[Len(read)]
  BY <1>1, InHand
<1>3. PICK n \in 1..Len(read) : n = Len(read)
  BY <1>2
<1>4. n \in 1..(Len(read) + 1) /\ n \in (n - 1)..Len(read) /\ n - n + 1 = 1 /\ 1 + (n - 1) = n
      /\ 1 \in 1..1
  BY <1>2
<1>5. /\ SubSeq(read, n, n) \in Seq(Words) /\ Len(SubSeq(read, n, n)) = 1
      /\ SubSeq(read, n, n)[1] = read[n]
  BY <1>2, <1>4, PieceIs
<1>6. SubSeq(read, n, n) = <<read[n]>>
  <2>1. PICK s, x : s = SubSeq(read, n, n) /\ x = read[n]
    OBVIOUS
  <2>2. x \in Words /\ s \in Seq(Words) /\ Len(s) = 1 /\ s[1] = x
    BY <1>2, <1>5, <2>1, SeqIs
  <2>3. <<x>> \in Seq(Words) /\ Len(<<x>>) = 1 /\ <<x>>[1] = x
    BY <2>2
  <2>4. \A k \in 1..Len(s) : s[k] = <<x>>[k]
    BY <2>2, <2>3
  <2>. QED
    BY <2>1, <2>2, <2>3, <2>4, SeqEqual
<1>. QED
  BY <1>1, <1>2, <1>3, <1>6 DEF LocatedAt

LEMMA ExpectedCloseIsLocated ==
  ASSUME Whole, Sound, Settled, ExpectedCloseParen
  PROVE  LocatedAt("EXPECTED_CLOSE_PAREN", Top.from, Len(read))
<1>1. ~Stopped /\ Top.at = "paren" /\ Returned("paren") /\ result # Nothing /\ IInv
  BY DEF ExpectedCloseParen, Returned, Whole
<1>2. state = "READY"
  BY <1>1 DEF Settled, PastOperators
<1>3. read \in Seq(Words) /\ Taken \in Nat /\ Len(read) = Taken + 1 /\ Passed \in Seq(Words)
  BY <1>1, <1>2, InHand
<1>4. /\ Continues(Passed) /\ Len(Passed) = Taken
      /\ \A k \in 1..Taken : Passed[k] = read[k] /\ read[k] \in Tokens \cup {Eof}
  BY <1>1, PassedIs
<1>5. PICK p : p = Top.from
  OBVIOUS
<1>6. p \in 1..Taken /\ Passed[p].type = "(" /\ Is(Passed, AnyEnv, "sum", p + 1, Taken)
  BY <1>1, <1>4, <1>5, SentenceIs, BehindSum
<1>7. read[p] = Token("(")
  BY <1>4, <1>6, TokenNumbers
<1>8. PICK part : part = SubSeq(read, p + 1, Taken)
  OBVIOUS
<1>9. part \in Seq(Words) /\ Len(part) = Taken - p /\ \A k \in 1..(Taken - p) : part[k] = read[k + p]
  <2>1. PICK a : a = p + 1
    OBVIOUS
  <2>2. /\ a \in 1..(Len(read) + 1) /\ Taken \in (a - 1)..Len(read)
        /\ Taken - a + 1 = Taken - p /\ a - 1 = p
    BY <1>3, <1>6, <2>1
  <2>. QED
    BY <1>3, <1>8, <2>1, <2>2, PieceIs
<1>10. Readable(part, AnyEnv) /\ Readable(Passed, AnyEnv)
  <2>1. Readable(Passed, AnyEnv)
    BY <1>4, SentenceIs, ContinuesIs
  <2>2. Len(part) \in Nat /\ \A k \in 1..Len(part) : part[k] = Passed[k + p] /\ k + p \in 1..Len(Passed)
    BY <1>3, <1>4, <1>6, <1>9
  <2>. QED
    BY <2>1, <2>2 DEF Readable
<1>11. Is(part, AnyEnv, "sum", 1, Len(part))
  <2>1. PICK off \in Nat : off = p
    BY <1>6
  <2>2. /\ off + Len(part) <= Len(Passed) /\ \A k \in 1..Len(part) : Passed[k + off] = part[k]
        /\ 1 + off = p + 1 /\ Len(part) + off = Taken
    <3>1. \A k \in 1..(Taken - p) : k + p \in 1..Taken
      BY <1>3, <1>6
    <3>. QED
      BY <1>3, <1>4, <1>6, <1>9, <2>1, <3>1
  <2>3. Means(Passed, AnyEnv, "sum", 1 + off, Len(part) + off)
          = Means(part, AnyEnv, "sum", 1, Len(part))
    BY <1>10, <2>2, RulesAre, InsideMeansTheSame
  <2>. QED
    BY <1>6, <2>2, <2>3 DEF Is
<1>12. Len(read) - 1 = Taken
  BY <1>3
<1>. QED
  BY <1>5, <1>7, <1>8, <1>11, <1>12, SentenceIs DEF LocatedAt

\* A divisor that is the constant 0 has nothing but closing parentheses behind it.
LEMMA DivisionIsLocated ==
  ASSUME Whole, Sound, Settled, DivisionByZero
  PROVE  LocatedAt("DIV_BY_ZERO", result.from, result.to)
<1>1. /\ ~Stopped /\ Top.at = "product right" /\ Top.at \notin Bottom /\ result # Nothing
      /\ Top.op = "DIV" /\ result.node.type = "INT" /\ result.node.num = 0 /\ IInv
  BY DEF DivisionByZero, DividesByZero, Returned, Bottom, Whole
<1>2. /\ Taken \in Nat /\ Taken \in 0..Len(read) /\ Len(read) \in Nat
      /\ Passed \in Seq(Tokens \cup {Eof}) /\ Len(Passed) = Taken /\ Continues(Passed)
      /\ \A k \in 1..Taken : Passed[k] = read[k] /\ read[k] \in Tokens \cup {Eof}
  BY <1>1, PassedIs
<1>3. PICK a, b : a = result.from /\ b = result.to
  OBVIOUS
<1>4. /\ a \in Nat /\ b \in Nat /\ a = Top.from + 1 /\ b <= Taken
      /\ \A k \in (b + 1)..Taken : read[k].type = ")"
  BY <1>1, <1>3, ResultNumbers DEF Settled, DivisorIs, OnlyClosing
<1>5. PICK h : h = HeightOf(Passed)
  OBVIOUS
<1>6. ASSUME NEW env \in [Identifiers -> Long]
      PROVE  /\ Readable(Passed, env) /\ IsHeight(Passed, h)
             /\ Top.from \in 1..Taken /\ Passed[Top.from].type = "DIV"
             /\ Means(Passed, env, "signed", a, Taken) = {0}
  <2>1. /\ Readable(Passed, env) /\ IsHeight(Passed, h) /\ IsStack(frames) /\ Top = Last(frames)
    BY <1>1, <1>2, <1>5, StandsIn
  <2>2. PICK starts :
          /\ Stands(Passed, env, frames, starts, Taken, Evaluated(env))
          /\ TopMeans(Passed, env, Top, Last(starts), result, Taken, ArgValues(env), Evaluated(env))
    BY <1>1, <1>2, StandsIn
  <2>3. FrameMeans(Passed, env, Last(Below(frames)), Last(Below(starts)), Top, Last(starts),
                   Taken, Evaluated(env))
    BY <1>1, <2>1, <2>2, PopStands
  <2>4. /\ Last(starts) \in 1..(Taken + 1) /\ Top.from \in Last(starts)..Taken
        /\ Passed[Top.from].type = Top.op
    BY <1>1, <2>3 DEF FrameMeans, AwaitsRight
  <2>5. Top.from \in 1..Taken
    BY <1>2, <2>4
  <2>6. DuePart("product right") = "signed" /\ Due(Top, Last(starts)) = a
    BY <1>1, <1>4, Zenon DEF DuePart, Due
  <2>7. NodeValue(result.node, ArgValues(env), Evaluated(env)) = 0
    BY <1>1, Zenon DEF NodeValue, BinaryTypes, AddSub, MulDiv
  <2>8. Means(Passed, env, "signed", a, Taken) = {0}
    BY <1>1, <2>2, <2>6, <2>7 DEF TopMeans
  <2>. QED
    BY <1>1, <2>1, <2>4, <2>5, <2>8
<1>7. read[a - 1] = Token("DIV") /\ a - 1 \in 1..Taken
  <2>1. Top.from \in 1..Taken /\ Passed[Top.from].type = "DIV"
    BY <1>6, SentenceIs
  <2>2. a - 1 = Top.from
    BY <1>4, <2>1
  <2>. QED
    BY <1>2, <2>1, <2>2, TokenNumbers DEF BinaryTypes, MulDiv
<1>8. PICK off \in Nat : off = a - 1
  BY <1>7
<1>9. a \in 1..(Taken + 1) /\ off \in 1..Taken /\ a = off + 1
  BY <1>2, <1>4, <1>7, <1>8
<1>10. IsHeight(Passed, h) /\ a <= Taken /\ WellFormed(Passed, h, a, Taken)
  <2>1. Is(Passed, AnyEnv, "signed", a, Taken)
    BY <1>6, SentenceIs DEF Is
  <2>2. Readable(Passed, AnyEnv) /\ IsHeight(Passed, h)
    BY <1>6, SentenceIs
  <2>3. a \in 1..(Len(Passed) + 1) /\ Taken \in 0..Len(Passed)
    BY <1>2, <1>9
  <2>. QED
    BY <2>1, <2>2, <2>3, PartsAreWellFormed, RulesAre
<1>11. a <= b
  <2>1. SUFFICES ASSUME b < a
                 PROVE  FALSE
    BY <1>4
  <2>2. a \in (b + 1)..Taken /\ a \in 1..Taken
    BY <1>2, <1>4, <1>9, <1>10, <2>1
  <2>3. Passed[a].type = ")"
    BY <1>2, <1>4, <2>2
  <2>. QED
    BY <1>10, <2>3 DEF WellFormed, Firsts, AddSub
<1>12. h[b] - h[off] = Taken - b
  <2>1. b \in 0..Len(Passed) /\ Taken \in b..Len(Passed) /\ Len(Passed) \in Nat
    BY <1>2, <1>4
  <2>2. \A k \in (b + 1)..Len(Passed) : Passed[k].type = ")"
    <3>1. \A k \in (b + 1)..Taken : k \in 1..Taken
      BY <1>4
    <3>. QED
      BY <1>2, <1>4, <3>1
  <2>3. h[Taken] = h[b] - (Taken - b)
    BY <1>2, <1>10, <2>1, <2>2, ClosedHeight
  <2>4. h[Taken] = h[off]
    BY <1>8, <1>10 DEF WellFormed
  <2>5. h[b] \in Int /\ h[off] \in Int /\ h[Taken] \in Int
    <3>1. off \in 0..Len(Passed) /\ Taken \in 0..Len(Passed)
      BY <1>2, <1>9
    <3>. QED
      BY <1>10, <2>1, <3>1 DEF IsHeight
  <2>. QED
    BY <1>2, <1>4, <2>3, <2>4, <2>5
<1>13. PICK part : part = SubSeq(read, a, b)
  OBVIOUS
<1>14. /\ part \in Seq(Words) /\ Len(part) = b - off
       /\ \A k \in 1..(b - off) : part[k] = read[k + off]
  <2>1. read \in Seq(Words)
    <3>1. read \in Seq(Tokens \cup {Eof})
      BY <1>1 DEF IInv, TokensOK
    <3>. QED
      BY <3>1 DEF Words
  <2>2. a \in 1..(Len(read) + 1) /\ b \in (a - 1)..Len(read) /\ b - a + 1 = b - off
    BY <1>2, <1>4, <1>8, <1>9, <1>11
  <2>. QED
    BY <1>8, <1>13, <2>1, <2>2, PieceIs
<1>15. OpenIn(part) = Taken - b /\ OpenIn(part) >= 0
  <2>1. Len(part) \in Nat /\ Len(part) <= Len(part) /\ Len(part) \in 0..Len(part)
        /\ off + Len(part) <= Len(Passed) /\ Len(part) + off = b
    BY <1>2, <1>4, <1>9, <1>11, <1>14
  <2>2. IsHeight(part, HeightOf(part)) /\ HeightOf(part)[0] = 0
    BY <2>1, HeightExists
  <2>3. \A k \in 1..Len(part) : part[k] = Passed[k + off]
    <3>1. \A k \in 1..Len(part) : k + off \in 1..Taken
      BY <1>2, <1>4, <1>9, <2>1
    <3>. QED
      BY <1>2, <1>14, <3>1
  <2>4. HeightOf(part)[Len(part)] = h[Len(part) + off] - h[off]
    <3>1. Len(Passed) \in Nat
      BY <1>2
    <3>2. \A k \in 0..Len(part) : HeightOf(part)[k] = h[k + off] - h[off]
      BY <1>10, <2>1, <2>2, <2>3, <3>1, PieceHeight
    <3>. QED
      BY <2>1, <3>2
  <2>5. HeightOf(part)[Len(part)] = OpenIn(part)
    BY <1>14, <2>1, OpenIsHeight
  <2>. QED
    BY <1>2, <1>4, <1>12, <2>1, <2>4, <2>5
<1>16. PICK c : c = part \o Closing(part)
  OBVIOUS
<1>17. /\ c \in Seq(Words) /\ Len(c) = Taken - off
       /\ \A k \in 1..Len(c) : Passed[k + off] = c[k]
  <2>1. /\ c \in Seq(Words) /\ Len(c) = Len(part) + OpenIn(part) /\ Len(part) \in Nat
        /\ \A k \in 1..Len(part) : c[k] = part[k]
        /\ \A k \in (Len(part) + 1)..Len(c) : c[k].type = ")"
    BY <1>14, <1>15, <1>16, ClosedIs DEF Closes
  <2>2. Len(c) = Taken - off /\ Len(part) + off = b
    BY <1>2, <1>4, <1>9, <1>14, <1>15, <2>1
  <2>3. ASSUME NEW k \in 1..Len(c)
        PROVE  Passed[k + off] = c[k]
    <3>1. k + off \in 1..Taken /\ (k \in 1..Len(part) \/ k \in (Len(part) + 1)..Len(c))
      BY <1>2, <1>9, <2>1, <2>2
    <3>2. CASE k \in 1..Len(part)
      BY <1>2, <1>14, <2>1, <3>1, <3>2
    <3>3. CASE k \in (Len(part) + 1)..Len(c)
      <4>1. k + off \in (b + 1)..Taken
        BY <1>2, <1>4, <1>9, <2>1, <2>2, <3>1, <3>3
      <4>2. Passed[k + off] = Token(")")
        BY <1>2, <1>4, <3>1, <4>1, TokenNumbers
      <4>3. c[k] = Token(")")
        <5>1. c[k] \in Words /\ c[k].type = ")"
          BY <2>1, <3>3, SeqIs
        <5>. QED
          BY <5>1, TokenNumbers DEF Words, One
      <4>. QED
        BY <4>2, <4>3
    <3>. QED
      BY <3>1, <3>2, <3>3
  <2>. QED
    BY <2>1, <2>2, <2>3
<1>18. ASSUME NEW env \in Environments
       PROVE  Meanings(c, env) = {0}
  <2>1. env \in [Identifiers -> Long]
    BY GrammarAssumption
  <2>2. Readable(Passed, env) /\ Means(Passed, env, "signed", a, Taken) = {0}
    BY <1>6, <2>1
  <2>3. Len(c) \in Nat /\ Len(c) + off = Taken /\ 1 + off = a /\ off + Len(c) <= Len(Passed)
    BY <1>2, <1>9, <1>17
  <2>4. Readable(c, env)
    <3>1. \A k \in 1..Len(c) : k + off \in 1..Len(Passed)
      BY <1>2, <2>3
    <3>. QED
      BY <1>17, <2>2, <2>3, <3>1 DEF Readable
  <2>5. Means(c, env, "signed", 1, Len(c)) = {0}
    <3>1. Means(Passed, env, "signed", 1 + off, Len(c) + off) = Means(c, env, "signed", 1, Len(c))
      BY <1>17, <2>2, <2>3, <2>4, RulesAre, InsideMeansTheSame
    <3>. QED
      BY <2>2, <2>3, <3>1
  <2>6. Means(c, env, "sum", 1, Len(c)) = {0}
    <3>1. 1 \in 1..(Len(c) + 1) /\ Len(c) \in 0..Len(c)
      BY <2>3
    <3>. QED
      BY <2>4, <2>5, <3>1, SignedMeansTheSame DEF Is
  <2>. QED
    BY <2>6 DEF Means, Meanings
<1>19. c \in Completions(part)
  BY <1>16, CompletionsAre
<1>. QED
  BY <1>3, <1>7, <1>13, <1>18, <1>19 DEF LocatedAt

-----------------------------------------------------------------------------
\* What is said of an error when it is set stays true, as nothing changes then.
ErrorsHold == SyntaxErrorsAtFirstBadToken /\ ErrorsAreLocated

LEMMA NoErrorHolds == error.code = "NONE" => ErrorsHold
  BY DEF ErrorsHold, SyntaxErrorsAtFirstBadToken, ErrorsAreLocated

LEMMA FailHolds ==
  ASSUME NEW code, NEW from, NEW to, Fail(code, from, to),
         code \in {"ILLEGAL_TOKEN", "EXPECTED_CLOSE_PAREN"} => AtFirstBadToken,
         LocatedAt(code, from, to)
  PROVE  ErrorsHold'
<1>1. /\ error'.code = code /\ error'.from = from /\ error'.to = to
      /\ read' = read /\ args' = args
  BY DEF Fail
<1>2. token' = token /\ BeforeToken' = BeforeToken
  BY <1>1 DEF token, BeforeToken
<1>3. SyntaxErrorsAtFirstBadToken'
  BY <1>1, <1>2 DEF SyntaxErrorsAtFirstBadToken, AtFirstBadToken
<1>4. ErrorsAreLocated'
  BY <1>1, <1>2 DEF ErrorsAreLocated, LocatedAt, Reported
<1>. QED
  BY <1>3, <1>4 DEF ErrorsHold

LEMMA ErrorsStay ==
  ASSUME Whole, Sound, Settled, ErrorIsSet, ErrorsHold, [Next]_vars
  PROVE  ErrorsHold'
<1>1. ASSUME NEW code, NEW from, NEW to, Fail(code, from, to),
             code \notin {"ILLEGAL_TOKEN", "EXPECTED_CLOSE_PAREN", "DIV_BY_ZERO", "UNDEFINED_VARIABLE"}
      PROVE  ErrorsHold'
  BY <1>1, FailHolds DEF LocatedAt
<1>2. CASE BadArg \/ PeekFails \/ NegativeIntRefused \/ AppendFails
  BY <1>1, <1>2 DEF BadArg, PeekFails, NegativeIntRefused, AppendFails
<1>3. CASE UndefinedVariable
  <2>1. Fail("UNDEFINED_VARIABLE", Len(read), Len(read))
    BY <1>3 DEF UndefinedVariable
  <2>. QED
    BY <1>3, <2>1, UndefinedIsLocated, FailHolds
<1>4. CASE IllegalAtom
  <2>1. Fail("ILLEGAL_TOKEN", Len(read), Len(read)) /\ LocatedAt("ILLEGAL_TOKEN", Len(read), Len(read))
    BY <1>4 DEF IllegalAtom, LocatedAt
  <2>. QED
    BY <1>4, <2>1, IllegalAtomIsFirst, FailHolds
<1>5. CASE TrailingToken
  <2>1. Fail("ILLEGAL_TOKEN", Len(read), Len(read)) /\ LocatedAt("ILLEGAL_TOKEN", Len(read), Len(read))
    BY <1>5 DEF TrailingToken, LocatedAt
  <2>. QED
    BY <1>5, <2>1, TrailingIsFirst, FailHolds
<1>6. CASE ExpectedCloseParen
  <2>1. Fail("EXPECTED_CLOSE_PAREN", Top.from, Len(read))
    BY <1>6 DEF ExpectedCloseParen
  <2>. QED
    BY <1>6, <2>1, ExpectedCloseIsFirst, ExpectedCloseIsLocated, FailHolds
<1>7. CASE DivisionByZero
  <2>1. Fail("DIV_BY_ZERO", result.from, result.to)
    BY <1>7 DEF DivisionByZero
  <2>. QED
    BY <1>7, <2>1, DivisionIsLocated, FailHolds
<1>8. ASSUME ~Stopped, error' = error
      PROVE  ErrorsHold'
  <2>1. error'.code = "NONE"
    BY <1>8 DEF ErrorIsSet, Stopped
  <2>. QED
    BY <2>1 DEF ErrorsHold, SyntaxErrorsAtFirstBadToken, ErrorsAreLocated
<1>9. CASE Peek \/ StartParsing \/ Sign \/ AtomInt \/ AtomVar \/ OpenParen
  BY <1>8, <1>9 DEF Peek, Peeks, StartParsing, Sign, AtomInt, AtomVar, OpenParen, ReturnAtom,
                    Running, Returned
<1>10. CASE Positive \/ NegativeInt \/ Negation \/ CloseParen \/ AppendRoot \/ Finish
  BY <1>8, <1>10 DEF Positive, NegativeInt, Negation, CloseParen, AppendRoot, Finish, ReturnSigned,
                     Running, Returned
<1>11. ASSUME NEW level \in DOMAIN Operators,
              Operator(level) \/ NoOperator(level) \/ RightOperand(level)
       PROVE  ErrorsHold'
  BY <1>8, <1>11 DEF Operator, NoOperator, RightOperand, Returned
<1>12. CASE Terminated \/ UNCHANGED vars
  <2>1. error' = error /\ read' = read /\ args' = args
    BY <1>12 DEF Terminated, vars
  <2>2. token' = token /\ BeforeToken' = BeforeToken /\ Reported' = Reported
    BY <2>1 DEF token, BeforeToken, Reported
  <2>. QED
    BY <2>1, <2>2 DEF ErrorsHold, SyntaxErrorsAtFirstBadToken, ErrorsAreLocated
<1>. QED
  BY <1>2, <1>3, <1>4, <1>5, <1>6, <1>7, <1>9, <1>10, <1>11, <1>12 DEF Next, Descend

LEMMA ErrorsAlwaysHold == Spec => []ErrorsHold
<1>1. Init => Whole /\ Sound /\ Settled /\ ErrorIsSet /\ ErrorsHold
  <2>1. Init => error.code = "NONE"
    BY DEF Init
  <2>. QED
    BY <2>1, WholeAtFirst, SoundAtFirst, SettledAtFirst, ErrorAtFirst, NoErrorHolds
<1>2. Whole /\ Sound /\ Settled /\ ErrorIsSet /\ ErrorsHold /\ [Next]_vars
        => (Whole /\ Sound /\ Settled /\ ErrorIsSet /\ ErrorsHold)'
  BY StaysWhole, StaysSound, StaysSettled, StepsAndErrors, ErrorsStay
<1>. QED
  BY <1>1, <1>2, PTL DEF Spec

\* An error about the syntax is reported at the first token with which no code
\* is a sentence: what is before it begins one.
THEOREM SyntaxErrorsAreFirst == Spec => []SyntaxErrorsAtFirstBadToken
<1>1. ErrorsHold => SyntaxErrorsAtFirstBadToken
  BY DEF ErrorsHold
<1>. QED
  BY <1>1, ErrorsAlwaysHold, PTL

\* The range in error_info is the code that is wrong: an open parenthesis with
\* a whole expression behind it, a divisor that is 0 for all arguments, a name
\* that is no argument.
THEOREM ErrorsStandWhereTheyAre == Spec => []ErrorsAreLocated
<1>1. ErrorsHold => ErrorsAreLocated
  BY DEF ErrorsHold
<1>. QED
  BY <1>1, ErrorsAlwaysHold, PTL
=============================================================================
