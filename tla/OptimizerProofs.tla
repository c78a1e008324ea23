---------------------------- MODULE OptimizerProofs ---------------------------
(***************************************************************************)
(* Proofs about the optimizer.                                             *)
(*                                                                         *)
(* The nodes that can hang from the root lie in a set T in which no node   *)
(* is a child twice; the calls in progress stand on a path down from the   *)
(* root.  A branch rewrites a node n and sometimes a child c of n; the     *)
(* nodes it hands to the two are nodes that stood below n, each of them    *)
(* once, so T without the child that is taken apart is such a set again.   *)
(* What lies below n and is not c is not touched: it keeps its values, and *)
(* it stays optimized.  What lies above n computes what it computed as     *)
(* long as n does, which is what the laws of wrapping arithmetic are for.  *)
(***************************************************************************)
EXTENDS Optimizer, AstProofs

Nodes == DOMAIN nodes

FrameRecord == [pc : {"walk", "walk_right", "optimize"}, node : Nodes]

-----------------------------------------------------------------------------
(***************************************************************************)
(* The invariant                                                           *)
(***************************************************************************)
IsTree(T) ==
  /\ Closed(nodes, T)
  /\ Root(nodes) \in T
  /\ \A i \in T : nodes[i].type \in BinaryTypes => nodes[i].left # nodes[i].right
  /\ \A i, j \in T : i # j => Children(nodes[i]) \cap Children(nodes[j]) = {}
  /\ \A i \in T : Root(nodes) \notin Children(nodes[i])

\* No branch applies to node m or to a node below it.
Optimized(m) ==
  \E B : Closed(nodes, B) /\ m \in B /\ \A i \in B : Rule(i) = "done"

Types ==
  /\ nodes \in Seq(NodeRecord) /\ nodes # <<>> /\ IsAst(nodes, ArgCount)
  /\ stack \in Seq(FrameRecord)
  /\ trapped \in BOOLEAN

\* The calls stand on a path.
OnPath ==
  /\ stack # <<>> => stack[1].node = Root(nodes)
  /\ \A k \in 1..(Len(stack) - 1) : stack[k + 1].node \in Children(nodes[stack[k].node])
  /\ \A k \in 1..Len(stack) :
       stack[k].pc = "walk_right" => nodes[stack[k].node].type \in BinaryTypes
  /\ \A k \in 1..(Len(stack) - 1) :
       stack[k].pc = "walk_right" => stack[k + 1].node = nodes[stack[k].node].left

Shape ==
  /\ Types
  /\ Acyclic(nodes)
  /\ \E T : IsTree(T) /\ \A k \in 1..Len(stack) : stack[k].node \in T
  /\ OnPath

\* The children of stack[k].node that its call is done with.
DoneWith(k) ==
  LET n == stack[k].node
  IN  (IF stack[k].pc = "optimize" THEN Children(nodes[n])
       ELSE IF stack[k].pc = "walk_right" THEN {nodes[n].left}
       ELSE {})
      \ (IF k < Len(stack) THEN {stack[k + 1].node} ELSE {})

StaysOptimized ==
  /\ \A k \in 1..Len(stack) : \A m \in DoneWith(k) : Optimized(m)
  /\ stack = <<>> => Optimized(Root(nodes))

TrapIsOverflow ==
  trapped => /\ stack # <<>>
             /\ nodes[Top.node].type = "DIV"
             /\ Left(Top.node).num = LONG_MIN /\ Right(Top.node).num = -1

IInv == Shape /\ StaysOptimized /\ TrapIsOverflow

-----------------------------------------------------------------------------
(***************************************************************************)
(* Facts about the nodes                                                   *)
(***************************************************************************)
LEMMA NodesAre ==
  ASSUME Types
  PROVE  /\ Len(nodes) \in Nat /\ Nodes = 1..Len(nodes) /\ Root(nodes) \in Nodes
         /\ \A i \in Nodes : /\ IsNode(nodes[i], Len(nodes), ArgCount)
                             /\ nodes[i] \in NodeRecord
                             /\ Children(nodes[i]) \subseteq Nodes
                             /\ nodes[i].type \in NodeTypes
<1>1. Len(nodes) \in Nat /\ Nodes = 1..Len(nodes) /\ Root(nodes) \in Nodes
  BY DEF Types, Nodes, Root
<1>2. \A i \in Nodes : IsNode(nodes[i], Len(nodes), ArgCount) /\ nodes[i] \in NodeRecord
  BY <1>1 DEF Types, IsAst, Nodes
<1>3. \A i \in Nodes : Children(nodes[i]) \subseteq Nodes /\ nodes[i].type \in NodeTypes
  BY ChildrenAreNodes DEF Types, Nodes
<1>. QED
  BY <1>1, <1>2, <1>3

LEMMA NodeIsRecord ==
  ASSUME NEW n \in Nat, NEW argc \in Nat, NEW node, IsNode(node, n, argc)
  PROVE  node \in NodeRecord
<1>1. CASE node.type \in BinaryTypes
  <2>1. /\ node.left \in 1..n /\ node.right \in 1..n
        /\ node = [type |-> node.type, left |-> node.left, right |-> node.right, num |-> 0]
    BY <1>1, NodeIs DEF BinaryNode
  <2>2. node.left \in Nat /\ node.right \in Nat /\ node.type \in NodeTypes
    BY <1>1, <2>1 DEF NodeTypes
  <2>. QED
    BY <2>1, <2>2 DEF NodeRecord
<1>2. CASE node.type = "INV"
  <2>1. node.left \in 1..n /\ node = [type |-> "INV", left |-> node.left, right |-> 0, num |-> 0]
    BY <1>2, NodeIs DEF InvNode
  <2>2. node.left \in Nat /\ "INV" \in NodeTypes
    BY <2>1 DEF NodeTypes
  <2>. QED
    BY <2>1, <2>2 DEF NodeRecord
<1>3. CASE node.type = "INT"
  <2>1. node.num \in Long /\ node = [type |-> "INT", left |-> 0, right |-> 0, num |-> node.num]
    BY <1>3, NodeIs DEF IntNode
  <2>2. node.num \in Int /\ "INT" \in NodeTypes
    BY <2>1, LongIs DEF NodeTypes
  <2>. QED
    BY <2>1, <2>2 DEF NodeRecord
<1>4. CASE node.type = "VAR"
  <2>1. node.num \in 1..argc /\ node = [type |-> "VAR", left |-> 0, right |-> 0, num |-> node.num]
    BY <1>4, NodeIs DEF VarNode
  <2>2. node.num \in Int /\ "VAR" \in NodeTypes
    BY <2>1 DEF NodeTypes
  <2>. QED
    BY <2>1, <2>2 DEF NodeRecord
<1>. QED
  BY <1>1, <1>2, <1>3, <1>4, NodeIs DEF NodeTypes

\* The frames of the calls.
LEMMA TopIs ==
  ASSUME Shape, stack # <<>>
  PROVE  /\ Len(stack) \in Nat /\ Len(stack) >= 1
         /\ Len(stack) \in 1..Len(stack)
         /\ Top \in FrameRecord /\ Top.node \in Nodes
         /\ \A k \in 1..Len(stack) : stack[k] \in FrameRecord /\ stack[k].node \in Nodes
<1>1. stack \in Seq(FrameRecord)
  BY DEF Shape, Types
<1>2. Len(stack) \in Nat /\ Len(stack) # 0 /\ \A k \in 1..Len(stack) : stack[k] \in FrameRecord
  BY <1>1, SeqIs
<1>3. \A k \in 1..Len(stack) : stack[k].node \in Nodes
  BY <1>2 DEF FrameRecord
<1>. QED
  BY <1>2, <1>3 DEF Top

\* No node is on the path twice.
LEMMA PathIsDistinct ==
  ASSUME Shape, NEW i \in 1..Len(stack), NEW j \in 1..Len(stack), i < j
  PROVE  stack[i].node # stack[j].node
<1> DEFINE S == {stack[x].node : x \in i..(j - 1)}
<1>1. Len(stack) \in Nat /\ i \in Nat /\ j \in Nat
  BY SeqIs DEF Shape, Types
<1>2. \A x \in i..(j - 1) : x \in 1..(Len(stack) - 1) /\ stack[x].node \in Nodes
  <2>1. \A x \in i..(j - 1) : x \in 1..(Len(stack) - 1) /\ x \in 1..Len(stack)
    BY <1>1
  <2>2. stack # <<>>
    BY <1>1
  <2>. QED
    BY <2>1, <2>2, TopIs
<1>3. SUFFICES ASSUME stack[i].node = stack[j].node
               PROVE  FALSE
  OBVIOUS
<1>4. stack[i].node \in S
  BY <1>1
<1>5. S \in SUBSET Nodes
  BY <1>2
<1>6. PICK y \in S : Children(nodes[y]) \cap S = {}
  BY <1>4, <1>5 DEF Shape, Acyclic, Nodes
<1>7. PICK x \in i..(j - 1) : y = stack[x].node
  BY <1>6
<1>8. stack[x + 1].node \in Children(nodes[y])
  BY <1>2, <1>7 DEF Shape, OnPath
<1>9. stack[x + 1].node \in S
  <2>1. CASE x = j - 1
    BY <1>1, <1>3, <1>4, <2>1
  <2>2. CASE x # j - 1
    <3>1. x + 1 \in i..(j - 1)
      BY <1>1, <2>2
    <3>. QED
      BY <3>1
  <2>. QED
    BY <2>1, <2>2
<1>. QED
  BY <1>6, <1>8, <1>9

\* The callers' nodes are not below the node of the last call.
LEMMA CallersAreAbove ==
  ASSUME Shape, NEW k \in 1..(Len(stack) - 1)
  PROVE  stack[k].node # Top.node /\ stack[k].node \notin Children(nodes[Top.node])
<1> DEFINE S == {stack[x].node : x \in k..Len(stack)}
<1>1. Len(stack) \in Nat /\ k \in Nat /\ k \in 1..Len(stack) /\ Len(stack) \in 1..Len(stack)
      /\ k < Len(stack) /\ stack # <<>>
  <2>1. Len(stack) \in Nat
    BY SeqIs DEF Shape, Types
  <2>. QED
    BY <2>1
<1>2. stack[k].node # Top.node
  BY <1>1, PathIsDistinct DEF Top
<1>3. SUFFICES ASSUME stack[k].node \in Children(nodes[Top.node])
               PROVE  FALSE
  BY <1>2
<1>4. \A x \in k..Len(stack) : x \in 1..Len(stack) /\ stack[x].node \in Nodes
  <2>1. \A x \in k..Len(stack) : x \in 1..Len(stack)
    BY <1>1
  <2>. QED
    BY <1>1, <2>1, TopIs
<1>5. stack[k].node \in S /\ S \in SUBSET Nodes
  BY <1>1, <1>4
<1>6. PICK y \in S : Children(nodes[y]) \cap S = {}
  BY <1>5 DEF Shape, Acyclic, Nodes
<1>7. PICK x \in k..Len(stack) : y = stack[x].node
  BY <1>6
<1>8. CASE x = Len(stack)
  BY <1>3, <1>5, <1>6, <1>7, <1>8 DEF Top
<1>9. CASE x # Len(stack)
  <2>1. x \in 1..(Len(stack) - 1) /\ x + 1 \in k..Len(stack)
    BY <1>1, <1>9
  <2>2. stack[x + 1].node \in Children(nodes[y]) /\ stack[x + 1].node \in S
    BY <1>7, <2>1 DEF Shape, OnPath
  <2>. QED
    BY <1>6, <2>2
<1>. QED
  BY <1>8, <1>9

\* What hangs from a caller beside the path has nothing to do with the last
\* call.
LEMMA BesideThePath ==
  ASSUME Shape, NEW k \in 1..(Len(stack) - 1),
         NEW m \in Children(nodes[stack[k].node]), m # stack[k + 1].node,
         NEW c \in Children(nodes[Top.node])
  PROVE  \E F : Closed(nodes, F) /\ m \in F /\ Top.node \notin F /\ c \notin F
<1> DEFINE p == stack[k].node
           P == {stack[x].node : x \in (k + 1)..Len(stack)} \cup {c}
<1>1. Len(stack) \in Nat /\ k \in Nat /\ k \in 1..Len(stack) /\ k + 1 \in 1..Len(stack)
      /\ k < Len(stack) /\ stack # <<>>
  <2>1. Len(stack) \in Nat
    BY SeqIs DEF Shape, Types
  <2>. QED
    BY <2>1
<1>2. PICK T : IsTree(T) /\ \A x \in 1..Len(stack) : stack[x].node \in T
  BY DEF Shape
<1>3. p \in T /\ Closed(nodes, T) /\ Acyclic(nodes)
  BY <1>1, <1>2 DEF IsTree, Shape
<1>4. PICK B \in SUBSET T : Closed(nodes, B) /\ Children(nodes[p]) \subseteq B /\ p \notin B
  BY <1>3, BelowIs
<1>5. \A x \in (k + 1)..Len(stack) : /\ x \in 1..Len(stack) /\ x - 1 \in 1..(Len(stack) - 1)
                                     /\ x - 1 \in k..Len(stack) /\ x - 1 + 1 = x
  BY <1>1
<1>6. \A x \in (k + 1)..Len(stack) : stack[x].node \in Children(nodes[stack[x - 1].node])
  BY <1>5 DEF Shape, OnPath
<1>7. Len(stack) \in (k + 1)..Len(stack)
  BY <1>1
\* Who has a node of P for a child is p or in P.
<1>8. ASSUME NEW y \in P, NEW x \in T, y \in Children(nodes[x])
      PROVE  x \in P \cup {p}
  <2>1. CASE y = c
    <3>1. Top.node \in T /\ Top.node \in P
      BY <1>2, <1>5, <1>7 DEF Top
    <3>2. x = Top.node
      BY <1>2, <1>8, <2>1, <3>1 DEF IsTree
    <3>. QED
      BY <3>1, <3>2
  <2>2. CASE \E z \in (k + 1)..Len(stack) : y = stack[z].node
    <3>1. PICK z \in (k + 1)..Len(stack) : y = stack[z].node
      BY <2>2
    <3>2. y \in Children(nodes[stack[z - 1].node]) /\ z - 1 \in k..Len(stack)
      BY <1>5, <1>6, <3>1
    <3>3. stack[z - 1].node \in T
      BY <1>1, <1>2, <3>2
    <3>4. x = stack[z - 1].node
      BY <1>2, <1>8, <3>2, <3>3 DEF IsTree
    <3>5. z - 1 = k \/ z - 1 \in (k + 1)..Len(stack)
      BY <1>1, <3>2
    <3>. QED
      BY <3>4, <3>5
  <2>. QED
    BY <1>8, <2>1, <2>2
<1>9. Closed(nodes, B \ P)
  BY <1>4, <1>8 DEF Closed
<1>10. m \notin P
  <2>1. SUFFICES ASSUME m \in P
                 PROVE  FALSE
    OBVIOUS
  <2>2. CASE m = c
    <3>1. Top.node \in T /\ Top.node # p
      BY <1>1, <1>2, <1>5, <1>7, CallersAreAbove DEF Top
    <3>. QED
      BY <1>2, <1>3, <2>2, <3>1 DEF IsTree
  <2>3. CASE \E z \in (k + 1)..Len(stack) : m = stack[z].node
    <3>1. PICK z \in (k + 1)..Len(stack) : m = stack[z].node
      BY <2>3
    <3>2. z - 1 \in (k + 1)..Len(stack)
      <4>1. z # k + 1
        BY <3>1
      <4>. QED
        BY <1>1, <4>1
    <3>3. stack[z - 1].node \in T /\ k < z - 1 /\ z - 1 \in 1..Len(stack)
      BY <1>1, <1>2, <1>5, <3>2
    <3>4. p # stack[z - 1].node
      BY <1>1, <3>3, PathIsDistinct
    <3>5. m \in Children(nodes[stack[z - 1].node])
      BY <1>6, <3>1
    <3>. QED
      BY <1>2, <1>3, <3>3, <3>4, <3>5 DEF IsTree
  <2>. QED
    BY <2>1, <2>2, <2>3
<1>11. Top.node \in P /\ c \in P
  BY <1>7 DEF Top
<1>12. m \in B \ P /\ Top.node \notin B \ P /\ c \notin B \ P
  BY <1>4, <1>10, <1>11
<1>. QED
  BY <1>9, <1>12

-----------------------------------------------------------------------------
(***************************************************************************)
(* Rewriting a node and one of its children                                *)
(***************************************************************************)

\* The nodes that hang from n, from its child c or from the children X.
Owned(n, c, X) ==
  Children(nodes[n]) \cup Children(nodes[c]) \cup UNION {Children(nodes[x]) : x \in X}

\* n becomes a and its child c becomes b, while the children X drop out: a and
\* b share what is owned and does not drop out.
Rearranges(n, c, X, a, b) ==
  /\ c \in Children(nodes[n]) /\ X \subseteq Children(nodes[n])
  /\ IsNode(a, Len(nodes), ArgCount) /\ IsNode(b, Len(nodes), ArgCount)
  /\ Children(a) \subseteq Owned(n, c, X) \ X
  /\ a.type \in BinaryTypes => a.left # a.right
  /\ c \in X => b = nodes[c]
  /\ c \notin X => /\ Children(b) \subseteq Owned(n, c, X) \ (X \cup {c})
                   /\ Children(a) \cap Children(b) = {}
                   /\ b.type \in BinaryTypes => b.left # b.right
  /\ nodes' = [nodes EXCEPT ![n] = a, ![c] = b]

LEMMA RewriteIs ==
  ASSUME Types, NEW n \in Nodes, NEW c \in Nodes, n # c, NEW a, NEW b,
         IsNode(a, Len(nodes), ArgCount), IsNode(b, Len(nodes), ArgCount),
         nodes' = [nodes EXCEPT ![n] = a, ![c] = b]
  PROVE  /\ nodes' \in Seq(NodeRecord) /\ nodes' # <<>> /\ IsAst(nodes', ArgCount)
         /\ DOMAIN nodes' = Nodes /\ Len(nodes') = Len(nodes)
         /\ Nodes' = Nodes /\ Root(nodes') = Root(nodes) /\ FrameRecord' = FrameRecord
         /\ nodes'[n] = a /\ nodes'[c] = b
         /\ \A i \in Nodes \ {n, c} : nodes'[i] = nodes[i]
<1>1. a \in NodeRecord /\ b \in NodeRecord
  <2>1. Len(nodes) \in Nat /\ ArgCount \in Nat
    BY NodesAre, InputsAssumption
  <2>. QED
    BY <2>1, NodeIsRecord
<1>2. nodes \in Seq(NodeRecord) /\ Len(nodes) \in Nat /\ nodes # <<>> /\ Nodes = 1..Len(nodes)
  BY NodesAre DEF Types
<1>3. /\ nodes' \in Seq(NodeRecord) /\ DOMAIN nodes' = Nodes /\ Len(nodes') = Len(nodes)
      /\ nodes'[n] = a /\ nodes'[c] = b
      /\ \A i \in Nodes \ {n, c} : nodes'[i] = nodes[i]
  BY <1>1, <1>2
<1>4. nodes' # <<>>
  BY <1>2, <1>3
<1>5. IsAst(nodes', ArgCount)
  <2>1. SUFFICES ASSUME NEW i \in Nodes
                 PROVE  IsNode(nodes'[i], Len(nodes), ArgCount)
    BY <1>3 DEF IsAst
  <2>2. IsNode(nodes[i], Len(nodes), ArgCount)
    BY NodesAre
  <2>. QED
    BY <1>3, <2>2
<1>. QED
  BY <1>3, <1>4, <1>5 DEF Nodes, Root, FrameRecord

\* Apart from c, what is owned lies apart from n and c, with all that is below.
Spares(n, c, X) ==
  \E F : /\ Closed(nodes, F) /\ n \notin F /\ c \notin F
         /\ Owned(n, c, X) \subseteq F \cup {c}

LEMMA RewriteKeepsTree ==
  ASSUME Types, Acyclic(nodes), NEW T, IsTree(T), NEW n \in T,
         NEW c, NEW X, NEW a, NEW b, Rearranges(n, c, X, a, b)
  PROVE  /\ c \in T /\ n # c /\ n \notin X
         /\ Acyclic(nodes')
         /\ IsTree(T \ X)'
         /\ Spares(n, c, X)
<1>1. PICK B \in SUBSET T : Closed(nodes, B) /\ Children(nodes[n]) \subseteq B /\ n \notin B
  BY BelowIs DEF IsTree
<1>2. /\ c \in Children(nodes[n]) /\ X \subseteq Children(nodes[n])
      /\ c \in B /\ c \in T /\ X \subseteq B /\ n # c /\ n \notin X
  BY <1>1 DEF Rearranges
<1>3. n \in Nodes /\ c \in Nodes /\ T \subseteq Nodes
  BY <1>2 DEF IsTree, Closed, Nodes
<1>4. /\ DOMAIN nodes' = Nodes /\ Root(nodes') = Root(nodes)
      /\ nodes'[n] = a /\ nodes'[c] = b
      /\ \A i \in Nodes \ {n, c} : nodes'[i] = nodes[i]
  BY <1>2, <1>3, RewriteIs DEF Rearranges
<1> DEFINE F == B \ {c}
<1>5. Closed(nodes, F)
  <2>1. SUFFICES ASSUME NEW i \in F, c \in Children(nodes[i])
                 PROVE  FALSE
    BY <1>1 DEF Closed
  <2>2. i \in T /\ i # n
    BY <1>1
  <2>. QED
    BY <1>2, <2>1, <2>2 DEF IsTree
<1>6. Owned(n, c, X) \subseteq B /\ n \notin F /\ c \notin F
  BY <1>1, <1>2 DEF Owned, Closed
<1>7. Children(b) \subseteq F
  <2>1. CASE c \in X
    <3>1. b = nodes[c] /\ Children(b) \subseteq B
      BY <1>1, <1>2, <2>1 DEF Rearranges, Closed
    <3>2. c \notin Children(b)
      BY <1>2, <3>1 DEF IsTree
    <3>. QED
      BY <3>1, <3>2
  <2>2. CASE c \notin X
    BY <1>6, <2>2 DEF Rearranges
  <2>. QED
    BY <2>1, <2>2
<1>8. Children(a) \subseteq F \cup {c}
  BY <1>6 DEF Rearranges
<1>9. Acyclic(nodes')
  <2>1. /\ DOMAIN nodes' = DOMAIN nodes /\ \A i \in DOMAIN nodes \ {n, c} : nodes'[i] = nodes[i]
        /\ Children(nodes'[c]) \subseteq F /\ Children(nodes'[n]) \subseteq F \cup {c}
    BY <1>4, <1>7, <1>8 DEF Nodes
  <2> HIDE DEF F
  <2>. QED
    BY <1>2, <1>5, <1>6, <2>1, RewriteIsAcyclic
\* What the rest of the tree owns is not touched.
<1>10. ASSUME NEW i \in T \ X, i # n, i # c
       PROVE  /\ nodes'[i] = nodes[i]
              /\ Children(nodes[i]) \cap Owned(n, c, X) = {}
              /\ Children(nodes[i]) \subseteq T \ X
  <2>1. Children(nodes[i]) \cap Children(nodes[n]) = {}
    BY <1>10 DEF IsTree
  <2>2. \A x \in X \cup {c} : Children(nodes[i]) \cap Children(nodes[x]) = {}
    BY <1>1, <1>2, <1>10 DEF IsTree
  <2>3. Children(nodes[i]) \subseteq T
    BY DEF IsTree, Closed
  <2>. QED
    BY <1>2, <1>3, <1>4, <1>10, <2>1, <2>2, <2>3 DEF Owned
<1>11. IsTree(T \ X)'
  <2>1. Root(nodes) \in T \ X
    BY <1>2 DEF IsTree
  <2>2. Children(a) \subseteq T \ X /\ (c \notin X => Children(b) \subseteq T \ X)
    BY <1>1, <1>6 DEF Rearranges
  <2>3. \A i \in T \ X : Children(nodes'[i]) \subseteq T \ X
    BY <1>4, <1>10, <2>2
  <2>4. \A i \in T \ X : nodes'[i].type \in BinaryTypes => nodes'[i].left # nodes'[i].right
    BY <1>4, <1>10 DEF Rearranges, IsTree
  <2>5. Root(nodes) \notin Owned(n, c, X)
    BY <1>1, <1>2 DEF Owned, IsTree
  <2>6. \A i \in T \ X : Root(nodes) \notin Children(nodes'[i])
    BY <1>4, <1>10, <2>5 DEF Rearranges, IsTree
  <2>7. \A i, j \in T \ X : i # j => Children(nodes'[i]) \cap Children(nodes'[j]) = {}
    <3>1. SUFFICES ASSUME NEW i \in T \ X, NEW j \in T \ X, i # j
                   PROVE  Children(nodes'[i]) \cap Children(nodes'[j]) = {}
      OBVIOUS
    <3>2. Children(a) \subseteq Owned(n, c, X)
          /\ (c \notin X => Children(b) \subseteq Owned(n, c, X) /\ Children(a) \cap Children(b) = {})
      BY DEF Rearranges
    <3>3. CASE i \in {n, c} /\ j \in {n, c}
      BY <1>4, <3>1, <3>2, <3>3
    <3>4. CASE i \in {n, c} /\ j \notin {n, c}
      <4>1. Children(nodes'[i]) \subseteq Owned(n, c, X)
        BY <1>4, <3>2, <3>4
      <4>. QED
        BY <1>10, <3>4, <4>1
    <3>5. CASE i \notin {n, c} /\ j \in {n, c}
      <4>1. Children(nodes'[j]) \subseteq Owned(n, c, X)
        BY <1>4, <3>2, <3>5
      <4>. QED
        BY <1>10, <3>5, <4>1
    <3>6. CASE i \notin {n, c} /\ j \notin {n, c}
      BY <1>10, <3>1, <3>6 DEF IsTree
    <3>. QED
      BY <3>3, <3>4, <3>5, <3>6
  <2>8. T \ X \subseteq DOMAIN nodes'
    BY <1>3, <1>4
  <2>. QED
    BY <1>4, <2>1, <2>3, <2>4, <2>6, <2>7, <2>8 DEF IsTree, Closed
<1>. QED
  BY <1>2, <1>5, <1>6, <1>9, <1>11 DEF Spares

-----------------------------------------------------------------------------
(***************************************************************************)
(* Which branch a node takes                                               *)
(***************************************************************************)

\* It depends on what the node holds and on what is below it.
LEMMA SameRule ==
  ASSUME Types, NEW F, Closed(nodes, F), \A x \in F : nodes'[x] = nodes[x],
         NEW i \in F, NEW j, nodes'[j] = nodes[i]
  PROVE  Rule(j)' = Rule(i)
<1>1. i \in Nodes /\ nodes[i].type \in NodeTypes
  BY NodesAre DEF Closed, Nodes
<1>2. \A x \in F : /\ x \in Nodes
                   /\ nodes[x].type \in BinaryTypes => nodes[x].left \in F /\ nodes[x].right \in F
                   /\ nodes[x].type = "INV" => nodes[x].left \in F
  <2>1. SUFFICES ASSUME NEW x \in F
                 PROVE  /\ x \in Nodes
                        /\ nodes[x].type \in BinaryTypes => nodes[x].left \in F /\ nodes[x].right \in F
                        /\ nodes[x].type = "INV" => nodes[x].left \in F
    OBVIOUS
  <2>2. x \in Nodes /\ Children(nodes[x]) \subseteq F
    BY DEF Closed, Nodes
  <2>3. IsNode(nodes[x], Len(nodes), ArgCount)
    BY <2>2, NodesAre
  <2>. QED
    BY <2>2, <2>3, NodeIs
<1>3. CASE nodes[i].type \in BinaryTypes
  <2>1. PICK l, r : l = nodes[i].left /\ r = nodes[i].right
    OBVIOUS
  <2>2. /\ nodes'[j] = nodes[i] /\ nodes[i].left = l /\ nodes[i].right = r
        /\ nodes'[l] = nodes[l] /\ nodes'[r] = nodes[r]
    BY <1>2, <1>3, <2>1
  <2>3. /\ nodes[l].type \in BinaryTypes =>
             /\ nodes'[nodes[l].left] = nodes[nodes[l].left]
             /\ nodes'[nodes[l].right] = nodes[nodes[l].right]
        /\ nodes[r].type \in BinaryTypes =>
             /\ nodes'[nodes[r].left] = nodes[nodes[r].left]
             /\ nodes'[nodes[r].right] = nodes[nodes[r].right]
    BY <1>2, <1>3, <2>1
  <2>4. nodes[j]' = nodes[i] /\ Left(j)' = Left(i) /\ Right(j)' = Right(i)
    BY <2>1, <2>2 DEF Left, Right
  <2>5. /\ IsInt(nodes[j].left)' <=> IsInt(nodes[i].left)
        /\ IsInt(nodes[j].right)' <=> IsInt(nodes[i].right)
    BY <2>1, <2>2 DEF IsInt
  <2>6. /\ IsIntOf(nodes[j].left, 0)' <=> IsIntOf(nodes[i].left, 0)
        /\ IsIntOf(nodes[j].left, 1)' <=> IsIntOf(nodes[i].left, 1)
        /\ IsIntOf(nodes[j].right, 0)' <=> IsIntOf(nodes[i].right, 0)
        /\ IsIntOf(nodes[j].right, 1)' <=> IsIntOf(nodes[i].right, 1)
    BY <2>1, <2>2 DEF IsIntOf, IsInt
  <2>7. Left(i).type \in BinaryTypes =>
          /\ IsInt(Left(j).left)' <=> IsInt(Left(i).left)
          /\ IsInt(Left(j).right)' <=> IsInt(Left(i).right)
          /\ HasInt(Left(j))' <=> HasInt(Left(i))
    BY <2>1, <2>2, <2>3 DEF IsInt, HasInt, Left
  <2>8. Right(i).type \in BinaryTypes =>
          (HasInt(Right(j))' <=> HasInt(Right(i)))
    BY <2>1, <2>2, <2>3 DEF IsInt, HasInt, Right
  <2>9. (SameVars(j)' <=> SameVars(i)) /\ (FoldsProduct(j)' <=> FoldsProduct(i))
    BY <2>4, <2>5 DEF SameVars, FoldsProduct
  <2>10. CASE nodes[i].type \in AddSub
    <3>1. SumRule(j)' = SumRule(i)
      BY <2>4, <2>5, <2>6, <2>7, <2>8, <2>9 DEF SumRule, BinaryTypes
    <3>. QED
      BY <2>2, <2>10, <3>1 DEF Rule
  <2>11. CASE nodes[i].type \in MulDiv
    <3>1. ProductRule(j)' = ProductRule(i)
      BY <2>4, <2>5, <2>6, <2>7, <2>8, <2>9 DEF ProductRule, BinaryTypes, MulDiv
    <3>. QED
      BY <2>2, <2>11, <3>1 DEF Rule, AddSub, MulDiv
  <2>. QED
    BY <1>3, <2>10, <2>11 DEF BinaryTypes
<1>4. CASE nodes[i].type = "INV"
  <2>1. nodes[i].left \in F
    BY <1>2, <1>4
  <2>. QED
    BY <1>4, <2>1 DEF Rule, InvRule, Left, AddSub, MulDiv
<1>5. CASE nodes[i].type \notin BinaryTypes \cup {"INV"}
  BY <1>5 DEF Rule, BinaryTypes
<1>. QED
  BY <1>3, <1>4, <1>5

-----------------------------------------------------------------------------
(***************************************************************************)
(* What stays optimized, and what becomes so                               *)
(***************************************************************************)
LEMMA OptimizedIsNode ==
  ASSUME NEW m, Optimized(m)
  PROVE  m \in Nodes /\ Rule(m) = "done" /\ \A x \in Children(nodes[m]) : Optimized(x)
<1>1. PICK B : Closed(nodes, B) /\ m \in B /\ \A i \in B : Rule(i) = "done"
  BY DEF Optimized
<1>2. Children(nodes[m]) \subseteq B
  BY <1>1 DEF Closed
<1>3. \A x \in B : Optimized(x)
  BY <1>1 DEF Optimized
<1>. QED
  BY <1>1, <1>2, <1>3 DEF Closed, Nodes

LEMMA StillOptimized ==
  ASSUME Types, Nodes' = Nodes,
         NEW F, Closed(nodes, F), \A x \in F : nodes'[x] = nodes[x],
         NEW m \in F, Optimized(m)
  PROVE  Optimized(m)'
<1>1. PICK B : Closed(nodes, B) /\ m \in B /\ \A i \in B : Rule(i) = "done"
  BY DEF Optimized
<1>2. Closed(nodes', B \cap F)
  BY <1>1 DEF Closed, Nodes
<1>3. ASSUME NEW i \in B \cap F
      PROVE  Rule(i)' = "done"
  <2>1. nodes'[i] = nodes[i] /\ i \in F
    OBVIOUS
  <2>2. Rule(i)' = Rule(i)
    BY <2>1, SameRule
  <2>. QED
    BY <1>1, <2>2
<1>. QED
  BY <1>1, <1>2, <1>3 DEF Optimized

LEMMA CopyIsOptimized ==
  ASSUME Types, Acyclic(nodes), NEW n \in Nodes, NEW x \in Children(nodes[n]), Optimized(x),
         nodes' = [nodes EXCEPT ![n] = nodes[x]]
  PROVE  Optimized(n)'
<1>1. Closed(nodes, Nodes)
  BY NodesAre DEF Closed, Nodes
<1>2. PICK B \in SUBSET Nodes : Closed(nodes, B) /\ Children(nodes[n]) \subseteq B /\ n \notin B
  BY <1>1, BelowIs
<1>3. PICK D : Closed(nodes, D) /\ x \in D /\ \A i \in D : Rule(i) = "done"
  BY DEF Optimized
<1>4. DOMAIN nodes' = Nodes /\ nodes'[n] = nodes[x] /\ \A i \in Nodes \ {n} : nodes'[i] = nodes[i]
  BY DEF Nodes
<1>5. PICK F : F = B \cap D
  OBVIOUS
<1>6. /\ Closed(nodes, F) /\ x \in F /\ n \notin F /\ F \subseteq Nodes
      /\ \A i \in F : nodes'[i] = nodes[i]
  BY <1>2, <1>3, <1>4, <1>5 DEF Closed
<1>7. Closed(nodes', F \cup {n})
  BY <1>4, <1>6 DEF Closed
<1>8. ASSUME NEW i \in F \cup {n}
      PROVE  Rule(i)' = "done"
  <2>1. CASE i \in F
    <3>1. Rule(i)' = Rule(i)
      BY <1>6, <2>1, SameRule
    <3>. QED
      BY <1>3, <1>5, <2>1, <3>1
  <2>2. CASE i = n
    <3>1. Rule(n)' = Rule(x)
      BY <1>4, <1>6, SameRule
    <3>. QED
      BY <1>3, <2>2, <3>1
  <2>. QED
    BY <2>1, <2>2
<1>. QED
  BY <1>7, <1>8 DEF Optimized

LEMMA ParentIsOptimized ==
  ASSUME NEW n \in Nodes, Rule(n) = "done", \A m \in Children(nodes[n]) : Optimized(m)
  PROVE  Optimized(n)
<1> DEFINE U == UNION {B \in SUBSET Nodes : Closed(nodes, B) /\ \A i \in B : Rule(i) = "done"}
<1>1. Children(nodes[n]) \subseteq U
  BY DEF Optimized, Closed, Nodes
<1>2. Closed(nodes, U \cup {n})
  BY <1>1 DEF Closed, Nodes
<1>3. \A i \in U \cup {n} : Rule(i) = "done"
  OBVIOUS
<1> HIDE DEF U
<1>. QED
  BY <1>2, <1>3 DEF Optimized

LEMMA ConstantIsOptimized ==
  ASSUME NEW n \in Nodes', NEW v, nodes'[n] = IntNode(v)
  PROVE  Optimized(n)'
<1>1. nodes'[n].type = "INT"
  BY DEF IntNode
<1>2. Children(nodes'[n]) = {}
  BY <1>1 DEF Children, BinaryTypes, AddSub, MulDiv
<1>3. Closed(nodes', {n})
  BY <1>2 DEF Closed, Nodes
<1>4. Rule(n)' = "done"
  BY <1>1 DEF Rule, AddSub, MulDiv
<1>. QED
  BY <1>3, <1>4 DEF Optimized

-----------------------------------------------------------------------------
(***************************************************************************)
(* How a step ends                                                         *)
(***************************************************************************)

\* What every step keeps: the tree, the calls' places in it, and what the
\* callers are done with.
Keeps(T) ==
  /\ nodes' \in Seq(NodeRecord) /\ nodes' # <<>> /\ IsAst(nodes', ArgCount)
  /\ Nodes' = Nodes
  /\ Acyclic(nodes')
  /\ IsTree(T)' /\ \A k \in 1..Len(stack) : stack[k].node \in T
  /\ \A k \in 1..(Len(stack) - 1) :
       /\ nodes'[stack[k].node] = nodes[stack[k].node]
       /\ \A m \in DoneWith(k) : Optimized(m)'

LEMMA CallersAre ==
  ASSUME Types, stack # <<>>
  PROVE  /\ Callers \in Seq(FrameRecord) /\ Len(Callers) = Len(stack) - 1
         /\ \A k \in 1..(Len(stack) - 1) : Callers[k] = stack[k]
<1>1. stack \in Seq(FrameRecord) /\ Len(stack) \in Nat /\ Len(stack) - 1 \in 0..Len(stack)
  <2>1. stack \in Seq(FrameRecord)
    BY DEF Types
  <2>2. Len(stack) \in Nat /\ Len(stack) # 0
    BY <2>1, SeqIs
  <2>. QED
    BY <2>1, <2>2
<1>. QED
  BY <1>1, FrontIs DEF Callers

\* The call that was running has returned.
LEMMA ReturnKeeps ==
  ASSUME IInv, stack # <<>>, ~trapped, NEW T, Keeps(T),
         NEW n, Top.node = n, Optimized(n)', stack' = Callers, trapped' = trapped
  PROVE  IInv'
<1>1. /\ Callers \in Seq(FrameRecord) /\ Len(Callers) = Len(stack) - 1
      /\ \A k \in 1..(Len(stack) - 1) : Callers[k] = stack[k]
      /\ Len(stack) \in Nat /\ Len(stack) >= 1
  BY CallersAre, TopIs DEF IInv, Shape
<1>2. FrameRecord' = FrameRecord /\ Root(nodes') = Root(nodes)
  <2>1. Len(nodes') = Len(nodes)
    BY NodesAre DEF IInv, Shape, Keeps, Nodes
  <2>. QED
    BY <2>1 DEF FrameRecord, Keeps, Root
<1>3. /\ stack' \in Seq(FrameRecord) /\ Len(stack') = Len(stack) - 1
      /\ \A k \in 1..(Len(stack) - 1) : stack'[k] = stack[k]
      /\ stack' # <<>> => Len(stack) > 1
  BY <1>1
<1>4. Types'
  BY <1>2, <1>3 DEF Types, Keeps, IInv, Shape
<1>5. OnPath'
  <2>1. /\ Len(stack) \in Nat /\ Len(stack') = Len(stack) - 1 /\ (stack' = <<>> <=> Len(stack') = 0)
        /\ \A k \in 1..(Len(stack) - 1) :
             stack'[k] = stack[k] /\ nodes'[stack[k].node] = nodes[stack[k].node]
    BY <1>1, <1>3, SeqIs DEF Keeps
  <2>2. OnPath
    BY DEF IInv, Shape
  <2>3. stack' # <<>> => stack'[1].node = Root(nodes')
    <3>1. stack' # <<>> => 1 \in 1..(Len(stack) - 1)
      BY <2>1
    <3>. QED
      BY <1>2, <2>1, <2>2, <3>1 DEF OnPath
  <2>4. ASSUME NEW k \in 1..(Len(stack) - 1)
        PROVE  /\ stack'[k].pc = "walk_right" => nodes'[stack'[k].node].type \in BinaryTypes
               /\ k + 1 \in 1..(Len(stack) - 1) =>
                    /\ stack'[k + 1].node \in Children(nodes'[stack'[k].node])
                    /\ stack'[k].pc = "walk_right" => stack'[k + 1].node = nodes'[stack'[k].node].left
    <3>1. k \in 1..Len(stack)
      BY <1>1
    <3>. QED
      BY <2>1, <2>2, <3>1 DEF OnPath
  <2>5. \A k \in 1..(Len(stack') - 1) :
          k \in 1..(Len(stack) - 1) /\ k + 1 \in 1..(Len(stack) - 1)
    BY <2>1
  <2>. QED
    BY <2>1, <2>3, <2>4, <2>5 DEF OnPath
<1>6. Shape'
  <2>1. IsTree(T)' /\ Acyclic(nodes')
    BY DEF Keeps
  <2>2. \A k \in 1..Len(stack') : stack'[k].node \in T
    <3>1. \A k \in 1..Len(stack') : k \in 1..(Len(stack) - 1) /\ k \in 1..Len(stack)
      BY <1>1, <1>3
    <3>. QED
      BY <1>3, <3>1 DEF Keeps
  <2>. QED
    BY <1>4, <1>5, <2>1, <2>2 DEF Shape
<1>7. ASSUME NEW k \in 1..Len(stack'), NEW m \in DoneWith(k)'
      PROVE  Optimized(m)'
  <2>1. k \in 1..(Len(stack) - 1) /\ stack'[k] = stack[k] /\ nodes'[stack[k].node] = nodes[stack[k].node]
    BY <1>3 DEF Keeps
  <2>2. k < Len(stack') => stack'[k + 1] = stack[k + 1]
    BY <1>1, <1>3
  <2>3. m \in DoneWith(k) \/ m = n
    <3>1. k < Len(stack') => m \in DoneWith(k)
      BY <1>1, <1>3, <1>7, <2>1, <2>2 DEF DoneWith
    <3>2. k = Len(stack) - 1 => stack[k + 1].node = n
      BY <1>1 DEF Top
    <3>3. k = Len(stack) - 1 => m \in DoneWith(k) \/ m = n
      BY <1>1, <1>3, <1>7, <2>1, <3>2 DEF DoneWith
    <3>. QED
      BY <1>1, <1>3, <2>1, <3>1, <3>3
  <2>. QED
    BY <2>1, <2>3 DEF Keeps
<1>8. stack' = <<>> => n = Root(nodes')
  <2>1. stack' = <<>> => Len(stack) = 1
    BY <1>1, <1>3
  <2>. QED
    BY <1>2, <2>1 DEF Top, IInv, Shape, OnPath
<1>9. StaysOptimized'
  BY <1>7, <1>8 DEF StaysOptimized
<1>. QED
  BY <1>6, <1>9 DEF IInv, TrapIsOverflow

\* The call goes round its loop, or goes on to the node itself.
LEMMA StayKeeps ==
  ASSUME IInv, stack # <<>>, ~trapped, NEW T, Keeps(T),
         NEW n, Top.node = n, \A m \in Children(nodes'[n]) : Optimized(m)',
         stack' = Append(Callers, Frame("optimize", n)), trapped' = trapped
  PROVE  IInv'
<1>1. /\ Callers \in Seq(FrameRecord) /\ Len(Callers) = Len(stack) - 1
      /\ \A k \in 1..(Len(stack) - 1) : Callers[k] = stack[k]
      /\ Len(stack) \in Nat /\ Len(stack) >= 1 /\ n \in Nodes
  BY CallersAre, TopIs DEF IInv, Shape
<1>2. FrameRecord' = FrameRecord /\ Root(nodes') = Root(nodes)
  <2>1. Len(nodes') = Len(nodes)
    BY NodesAre DEF IInv, Shape, Keeps, Nodes
  <2>. QED
    BY <2>1 DEF FrameRecord, Keeps, Root
<1>3. /\ stack' \in Seq(FrameRecord) /\ Len(stack') = Len(stack)
      /\ \A k \in 1..(Len(stack) - 1) : stack'[k] = stack[k]
      /\ stack'[Len(stack)] = Frame("optimize", n)
  <2>1. Frame("optimize", n) \in FrameRecord
    BY <1>1 DEF Frame, FrameRecord
  <2>2. stack' \in Seq(FrameRecord)
    BY <1>1, <2>1
  <2>. QED
    BY <1>1, <2>2, LastIs
<1>4. /\ Frame("optimize", n).pc = "optimize" /\ Frame("optimize", n).node = n
      /\ stack[Len(stack)].node = n
  BY DEF Frame, Top
<1>5. Types'
  BY <1>2, <1>3 DEF Types, Keeps, IInv, Shape
<1>6. /\ \A k \in 1..Len(stack) : stack'[k].node = stack[k].node
      /\ \A k \in 1..(Len(stack) - 1) :
           stack'[k] = stack[k] /\ nodes'[stack[k].node] = nodes[stack[k].node]
  <2>1. \A k \in 1..Len(stack) : k = Len(stack) \/ k \in 1..(Len(stack) - 1)
    BY <1>1
  <2>2. \A k \in 1..(Len(stack) - 1) : nodes'[stack[k].node] = nodes[stack[k].node]
    BY DEF Keeps
  <2>. QED
    BY <1>1, <1>3, <1>4, <2>1, <2>2
<1>7. OnPath'
  <2>1. OnPath
    BY DEF IInv, Shape
  <2>2. stack'[1].node = Root(nodes')
    <3>1. 1 \in 1..Len(stack)
      BY <1>1
    <3>. QED
      BY <1>2, <1>6, <2>1, <3>1 DEF OnPath
  <2>3. ASSUME NEW k \in 1..(Len(stack) - 1)
        PROVE  /\ stack'[k].pc = "walk_right" => nodes'[stack'[k].node].type \in BinaryTypes
               /\ stack'[k + 1].node \in Children(nodes'[stack'[k].node])
               /\ stack'[k].pc = "walk_right" => stack'[k + 1].node = nodes'[stack'[k].node].left
    <3>1. k \in 1..Len(stack) /\ k + 1 \in 1..Len(stack)
      BY <1>1
    <3>. QED
      BY <1>6, <2>1, <3>1 DEF OnPath
  <2>4. \A k \in 1..Len(stack) : k = Len(stack) \/ k \in 1..(Len(stack) - 1)
    BY <1>1
  <2>. QED
    BY <1>3, <1>4, <2>2, <2>3, <2>4 DEF OnPath
<1>8. Shape'
  <2>1. IsTree(T)' /\ Acyclic(nodes') /\ \A k \in 1..Len(stack) : stack[k].node \in T
    BY DEF Keeps
  <2>. QED
    BY <1>3, <1>5, <1>6, <1>7, <2>1 DEF Shape
<1>9. ASSUME NEW k \in 1..Len(stack'), NEW m \in DoneWith(k)'
      PROVE  Optimized(m)'
  <2>1. CASE k = Len(stack)
    <3>1. m \in Children(nodes'[n])
      BY <1>3, <1>4, <1>9, <2>1 DEF DoneWith
    <3>. QED
      BY <3>1
  <2>2. CASE k # Len(stack)
    <3>1. k \in 1..(Len(stack) - 1) /\ k + 1 \in 1..Len(stack)
      BY <1>1, <1>3, <2>2
    <3>2. m \in DoneWith(k)
      BY <1>3, <1>6, <1>9, <3>1 DEF DoneWith
    <3>. QED
      BY <3>1, <3>2 DEF Keeps
  <2>. QED
    BY <2>1, <2>2
<1>10. stack' # <<>>
  BY <1>1, <1>3
<1>11. StaysOptimized'
  BY <1>9, <1>10 DEF StaysOptimized
<1>. QED
  BY <1>8, <1>11 DEF IInv, TrapIsOverflow

\* Node n is left in state p for a call in state q for its child c.
Calls(p, n, q, c) ==
  /\ p \in {"walk_right", "optimize"} /\ q \in {"walk", "optimize"}
  /\ p = "walk_right" => (nodes'[n].type \in BinaryTypes /\ c = nodes'[n].left)
  /\ p = "optimize" => \A m \in Children(nodes'[n]) \ {c} : Optimized(m)'
  /\ q = "optimize" => \A m \in Children(nodes'[c]) : Optimized(m)'
  /\ stack' = Callers \o <<Frame(p, n), Frame(q, c)>>

\* The call calls another one, for a child of its node.
LEMMA CallKeeps ==
  ASSUME IInv, stack # <<>>, ~trapped, NEW T, Keeps(T),
         NEW n, Top.node = n, NEW c, c \in Children(nodes'[n]), c \in T,
         NEW p, NEW q, Calls(p, n, q, c), trapped' = trapped
  PROVE  IInv'
<1>1. /\ p \in {"walk_right", "optimize"} /\ q \in {"walk", "optimize"}
      /\ p = "walk_right" => (nodes'[n].type \in BinaryTypes /\ c = nodes'[n].left)
      /\ p = "optimize" => \A m \in Children(nodes'[n]) \ {c} : Optimized(m)'
      /\ q = "optimize" => \A m \in Children(nodes'[c]) : Optimized(m)'
  BY Zenon DEF Calls
<1>2. /\ Len(stack) \in Nat /\ Len(stack) >= 1 /\ n \in Nodes /\ c \in Nodes
      /\ stack \in Seq(FrameRecord) /\ stack[Len(stack)].node = n
  <2>1. c \in Nodes
    BY DEF Keeps, IsTree, Closed, Nodes
  <2>. QED
    BY <2>1, TopIs DEF IInv, Shape, Types, Top
<1>3. FrameRecord' = FrameRecord /\ Root(nodes') = Root(nodes)
  <2>1. Len(nodes') = Len(nodes)
    BY NodesAre DEF IInv, Shape, Keeps, Nodes
  <2>. QED
    BY <2>1 DEF FrameRecord, Keeps, Root
<1>4. /\ stack' \in Seq(FrameRecord) /\ Len(stack') = Len(stack) + 1
      /\ \A k \in 1..(Len(stack) - 1) : stack'[k] = stack[k]
      /\ stack'[Len(stack)] = Frame(p, n) /\ stack'[Len(stack) + 1] = Frame(q, c)
  <2>1. Frame(p, n) \in FrameRecord /\ Frame(q, c) \in FrameRecord
    BY <1>1, <1>2 DEF Frame, FrameRecord
  <2>2. PICK two : two = <<Frame(p, n), Frame(q, c)>>
    OBVIOUS
  <2>3. two \in Seq(FrameRecord) /\ Len(two) = 2 /\ two[1] = Frame(p, n) /\ two[2] = Frame(q, c)
    BY <2>1, <2>2
  <2>4. stack' = SubSeq(stack, 1, Len(stack) - 1) \o two
    BY <2>2 DEF Calls, Callers
  <2> DEFINE pushed == SubSeq(stack, 1, Len(stack) - 1) \o two
  <2>5. pushed \in Seq(FrameRecord) /\ Len(pushed) = Len(stack) + 1
    BY <1>2, <2>3, PushIs
  <2>6. pushed[Len(stack)] = two[1] /\ pushed[Len(stack) + 1] = two[2]
    BY <1>2, <2>3, PushIs
  <2>7. \A k \in 1..(Len(stack) - 1) : pushed[k] = stack[k]
    BY <1>2, <2>3, PushIs
  <2>8. stack' = pushed
    BY <2>4
  <2> HIDE DEF pushed
  <2>. QED
    BY <2>3, <2>5, <2>6, <2>7, <2>8
<1>5. /\ Frame(p, n).pc = p /\ Frame(p, n).node = n
      /\ Frame(q, c).pc = q /\ Frame(q, c).node = c
  BY DEF Frame
<1>6. Types'
  BY <1>3, <1>4 DEF Types, Keeps, IInv, Shape
<1>7. /\ \A k \in 1..Len(stack) : stack'[k].node = stack[k].node
      /\ \A k \in 1..(Len(stack) - 1) :
           stack'[k] = stack[k] /\ nodes'[stack[k].node] = nodes[stack[k].node]
  <2>1. \A k \in 1..Len(stack) : k = Len(stack) \/ k \in 1..(Len(stack) - 1)
    BY <1>2
  <2>2. \A k \in 1..(Len(stack) - 1) : nodes'[stack[k].node] = nodes[stack[k].node]
    BY DEF Keeps
  <2>. QED
    BY <1>2, <1>4, <1>5, <2>1, <2>2
<1>8. \A k \in 1..Len(stack') :
        k = Len(stack) + 1 \/ k = Len(stack) \/ (k \in 1..(Len(stack) - 1) /\ k + 1 \in 1..Len(stack))
  BY <1>2, <1>4
<1>9. OnPath'
  <2>1. OnPath
    BY DEF IInv, Shape
  <2>2. stack'[1].node = Root(nodes')
    <3>1. 1 \in 1..Len(stack)
      BY <1>2
    <3>. QED
      BY <1>3, <1>7, <2>1, <3>1 DEF OnPath
  <2>3. ASSUME NEW k \in 1..(Len(stack) - 1)
        PROVE  /\ stack'[k].pc = "walk_right" => nodes'[stack'[k].node].type \in BinaryTypes
               /\ stack'[k + 1].node \in Children(nodes'[stack'[k].node])
               /\ stack'[k].pc = "walk_right" => stack'[k + 1].node = nodes'[stack'[k].node].left
    <3>1. k \in 1..Len(stack) /\ k + 1 \in 1..Len(stack)
      BY <1>2
    <3>2. /\ stack'[k] = stack[k] /\ stack'[k + 1].node = stack[k + 1].node
          /\ nodes'[stack[k].node] = nodes[stack[k].node]
      BY <1>7, <3>1
    <3>. QED
      BY <2>1, <3>1, <3>2 DEF OnPath
  <2>4. \A k \in 1..(Len(stack') - 1) : k = Len(stack) \/ k \in 1..(Len(stack) - 1)
    BY <1>2, <1>4
  <2>5. ASSUME NEW k \in 1..Len(stack'), stack'[k].pc = "walk_right"
        PROVE  nodes'[stack'[k].node].type \in BinaryTypes
    <3>1. stack'[Len(stack) + 1].pc # "walk_right"
      BY <1>1, <1>4, <1>5
    <3>2. CASE k = Len(stack)
      BY <1>1, <1>4, <1>5, <2>5, <3>2
    <3>3. CASE k \in 1..(Len(stack) - 1)
      BY <2>3, <2>5, <3>3
    <3>. QED
      BY <1>8, <2>5, <3>1, <3>2, <3>3
  <2>6. \A k \in 1..(Len(stack') - 1) :
          stack'[k + 1].node \in Children(nodes'[stack'[k].node])
    BY <1>4, <1>5, <2>3, <2>4
  <2>7. ASSUME NEW k \in 1..(Len(stack') - 1), stack'[k].pc = "walk_right"
        PROVE  stack'[k + 1].node = nodes'[stack'[k].node].left
    <3>1. CASE k = Len(stack)
      BY <1>1, <1>4, <1>5, <2>7, <3>1
    <3>2. CASE k \in 1..(Len(stack) - 1)
      BY <2>3, <2>7, <3>2
    <3>. QED
      BY <2>4, <3>1, <3>2
  <2>. QED
    BY <2>2, <2>5, <2>6, <2>7 DEF OnPath
<1>10. Shape'
  <2>1. IsTree(T)' /\ Acyclic(nodes') /\ \A k \in 1..Len(stack) : stack[k].node \in T
    BY DEF Keeps
  <2>2. \A k \in 1..Len(stack') : stack'[k].node \in T
    <3>1. \A k \in 1..Len(stack') : k = Len(stack) + 1 \/ k \in 1..Len(stack)
      BY <1>2, <1>4
    <3>. QED
      BY <1>4, <1>5, <1>7, <2>1, <3>1
  <2>. QED
    BY <1>6, <1>9, <2>1, <2>2 DEF Shape
<1>11. ASSUME NEW k \in 1..Len(stack'), NEW m \in DoneWith(k)'
       PROVE  Optimized(m)'
  <2>1. CASE k = Len(stack) + 1
    <3>1. ~(k < Len(stack')) /\ stack'[k] = Frame(q, c)
      BY <1>2, <1>4, <2>1
    <3>2. q = "optimize" /\ m \in Children(nodes'[c])
      BY <1>5, <1>11, <1>1, <3>1 DEF DoneWith
    <3>. QED
      BY <1>1, <3>2
  <2>2. CASE k = Len(stack)
    <3>1. k < Len(stack') /\ stack'[k] = Frame(p, n) /\ stack'[k + 1] = Frame(q, c)
      BY <1>2, <1>4, <2>2
    <3>2. p = "optimize" /\ m \in Children(nodes'[n]) \ {c}
      BY <1>5, <1>11, <1>1, <3>1 DEF DoneWith
    <3>. QED
      BY <1>1, <3>2
  <2>3. CASE k \in 1..(Len(stack) - 1) /\ k + 1 \in 1..Len(stack)
    <3>1. k < Len(stack) /\ k < Len(stack')
      BY <1>2, <1>4, <2>3
    <3>2. m \in DoneWith(k)
      BY <1>7, <1>11, <2>3, <3>1 DEF DoneWith
    <3>. QED
      BY <2>3, <3>2 DEF Keeps
  <2>. QED
    BY <1>8, <2>1, <2>2, <2>3
<1>12. stack' # <<>>
  BY <1>2, <1>4
<1>13. StaysOptimized'
  BY <1>11, <1>12 DEF StaysOptimized
<1>. QED
  BY <1>10, <1>13 DEF IInv, TrapIsOverflow

\* A step that rewrites nothing.
LEMMA StandingKeeps ==
  ASSUME IInv, nodes' = nodes
  PROVE  /\ \E T : Keeps(T) /\ (stack # <<>> => Closed(nodes, T) /\ Top.node \in T)
         /\ \A m : Optimized(m) => Optimized(m)'
<1>1. Types /\ Nodes' = Nodes /\ Closed(nodes, Nodes)
  BY NodesAre DEF IInv, Shape, Nodes, Closed
<1>2. ASSUME NEW m, Optimized(m)
      PROVE  Optimized(m)'
  <2>1. m \in Nodes
    BY <1>2, OptimizedIsNode
  <2>2. \A x \in Nodes : nodes'[x] = nodes[x]
    OBVIOUS
  <2>. QED
    BY <1>1, <1>2, <2>1, <2>2, StillOptimized
<1>3. PICK T : IsTree(T) /\ \A k \in 1..Len(stack) : stack[k].node \in T
  BY DEF IInv, Shape
<1>4. IsTree(T)'
  BY <1>3 DEF IsTree
<1>5. Len(stack) \in Nat
  BY <1>1, SeqIs DEF Types
<1>6. \A k \in 1..(Len(stack) - 1) : \A m \in DoneWith(k) : Optimized(m)'
  <2>1. \A k \in 1..(Len(stack) - 1) : k \in 1..Len(stack)
    BY <1>5
  <2>2. \A k \in 1..(Len(stack) - 1) : \A m \in DoneWith(k) : Optimized(m)
    BY <2>1 DEF IInv, StaysOptimized
  <2>. QED
    BY <1>2, <2>2
<1>7. nodes \in Seq(NodeRecord) /\ nodes # <<>> /\ IsAst(nodes, ArgCount) /\ Acyclic(nodes)
  BY DEF IInv, Shape, Types
<1>8. Keeps(T)
  BY <1>1, <1>3, <1>4, <1>6, <1>7 DEF Keeps
<1>9. stack # <<>> => Closed(nodes, T) /\ Top.node \in T
  <2>1. stack # <<>> => Len(stack) \in 1..Len(stack)
    BY TopIs DEF IInv
  <2>. QED
    BY <1>3, <2>1 DEF IsTree, Top
<1>. QED
  BY <1>2, <1>8, <1>9

\* A step that rewrites the node and one of its children.
LEMMA RewritingKeeps ==
  ASSUME IInv, NEW n, Running("optimize", n), NEW c, NEW X, NEW a, NEW b,
         Rearranges(n, c, X, a, b)
  PROVE  /\ n \in Nodes /\ c \in Nodes /\ n # c
         /\ nodes'[n] = a /\ nodes'[c] = b /\ Nodes' = Nodes
         /\ \E T : Keeps(T) /\ (c \notin X => c \in T)
         /\ \A m \in Owned(n, c, X) \ {c} : Optimized(m)'
<1>1. /\ Types /\ Acyclic(nodes) /\ stack # <<>> /\ Top.node = n /\ Top.pc = "optimize"
      /\ Len(stack) \in Nat /\ Len(stack) >= 1 /\ stack[Len(stack)] = Top
  BY TopIs DEF IInv, Shape, Running, Frame, Top
<1>2. PICK T : IsTree(T) /\ \A k \in 1..Len(stack) : stack[k].node \in T
  BY DEF IInv, Shape
<1>3. n \in T /\ T \subseteq Nodes
  <2>1. Len(stack) \in 1..Len(stack)
    BY <1>1
  <2>. QED
    BY <1>1, <1>2, <2>1 DEF IsTree, Closed, Nodes
<1>4. c \in T /\ n # c /\ n \notin X /\ Acyclic(nodes') /\ IsTree(T \ X)'
  <2>. Types /\ Acyclic(nodes) /\ IsTree(T) /\ n \in T /\ Rearranges(n, c, X, a, b)
    BY <1>1, <1>2, <1>3
  <2>1. c \in T /\ n # c /\ n \notin X
    BY RewriteKeepsTree, ZenonT(30)
  <2>2. Acyclic(nodes')
    BY RewriteKeepsTree, ZenonT(30)
  <2>3. IsTree(T \ X)'
    BY RewriteKeepsTree, ZenonT(30)
  <2>. QED
    BY <2>1, <2>2, <2>3
<1>5. PICK F : Closed(nodes, F) /\ n \notin F /\ c \notin F /\ Owned(n, c, X) \subseteq F \cup {c}
  <2>. Types /\ Acyclic(nodes) /\ IsTree(T) /\ n \in T /\ Rearranges(n, c, X, a, b)
    BY <1>1, <1>2, <1>3
  <2>1. Spares(n, c, X)
    BY RewriteKeepsTree, ZenonT(30)
  <2>. QED
    BY <2>1 DEF Spares
<1>6. /\ nodes' \in Seq(NodeRecord) /\ nodes' # <<>> /\ IsAst(nodes', ArgCount)
      /\ Nodes' = Nodes /\ nodes'[n] = a /\ nodes'[c] = b
      /\ \A i \in Nodes \ {n, c} : nodes'[i] = nodes[i]
  <2>1. n \in Nodes /\ c \in Nodes
    BY <1>3, <1>4
  <2>2. /\ IsNode(a, Len(nodes), ArgCount) /\ IsNode(b, Len(nodes), ArgCount)
        /\ nodes' = [nodes EXCEPT ![n] = a, ![c] = b]
    BY DEF Rearranges
  <2>3. nodes' \in Seq(NodeRecord) /\ nodes' # <<>> /\ IsAst(nodes', ArgCount)
    BY <1>1, <1>4, <2>1, <2>2, RewriteIs
  <2>4. Nodes' = Nodes
    BY <1>1, <1>4, <2>1, <2>2, RewriteIs
  <2>5. nodes'[n] = a /\ nodes'[c] = b
    BY <1>1, <1>4, <2>1, <2>2, RewriteIs
  <2>6. \A i \in Nodes \ {n, c} : nodes'[i] = nodes[i]
    BY <1>1, <1>4, <2>1, <2>2, RewriteIs
  <2>. QED
    BY <2>3, <2>4, <2>5, <2>6
\* What is not touched stays optimized.
<1>7. ASSUME NEW G, Closed(nodes, G), n \notin G, c \notin G, NEW m \in G, Optimized(m)
      PROVE  Optimized(m)'
  <2>1. \A x \in G : nodes'[x] = nodes[x]
    BY <1>6, <1>7 DEF Closed, Nodes
  <2>. QED
    BY <1>1, <1>6, <1>7, <2>1, StillOptimized
<1>8. \A m \in Children(nodes[n]) : Optimized(m)
  <2>1. Len(stack) \in 1..Len(stack) /\ DoneWith(Len(stack)) = Children(nodes[n])
    BY <1>1 DEF DoneWith
  <2>. QED
    BY <2>1 DEF IInv, StaysOptimized
<1>9. \A m \in Owned(n, c, X) : Optimized(m)
  BY <1>8, OptimizedIsNode DEF Owned, Rearranges
<1>10. \A m \in Owned(n, c, X) \ {c} : Optimized(m)'
  BY <1>5, <1>7, <1>9
<1>11. \A k \in 1..(Len(stack) - 1) : /\ k \in 1..Len(stack) /\ k < Len(stack)
                                      /\ stack[k].node # n /\ stack[k].node # c
                                      /\ stack[k].node \notin X /\ stack[k].node \in Nodes
  <2>1. SUFFICES ASSUME NEW k \in 1..(Len(stack) - 1)
                 PROVE  /\ k \in 1..Len(stack) /\ k < Len(stack)
                        /\ stack[k].node # n /\ stack[k].node # c
                        /\ stack[k].node \notin X /\ stack[k].node \in Nodes
    OBVIOUS
  <2>2. k \in 1..Len(stack) /\ k < Len(stack)
    BY <1>1
  <2>3. stack[k].node # n /\ stack[k].node \notin Children(nodes[n])
    BY <1>1, CallersAreAbove DEF IInv
  <2>. QED
    BY <1>2, <1>3, <2>2, <2>3 DEF Rearranges
<1>12. ASSUME NEW k \in 1..(Len(stack) - 1), NEW m \in DoneWith(k)
       PROVE  Optimized(m)'
  <2>1. Optimized(m) /\ m # stack[k + 1].node
    BY <1>11 DEF IInv, StaysOptimized, DoneWith
  <2>2. m \in Children(nodes[stack[k].node])
    <3>1. stack[k].pc = "walk_right" => nodes[stack[k].node].type \in BinaryTypes
      BY <1>11 DEF IInv, Shape, OnPath
    <3>. QED
      BY <1>12, <3>1 DEF DoneWith, Children
  <2>3. c \in Children(nodes[Top.node])
    BY <1>1 DEF Rearranges
  <2>4. PICK G : Closed(nodes, G) /\ m \in G /\ Top.node \notin G /\ c \notin G
    BY <2>1, <2>2, <2>3, BesideThePath DEF IInv
  <2>. QED
    BY <1>1, <1>7, <2>1, <2>4
<1>13. \A k \in 1..Len(stack) : stack[k].node \in T \ X
  <2>1. \A k \in 1..Len(stack) : k = Len(stack) \/ k \in 1..(Len(stack) - 1)
    BY <1>1
  <2>. QED
    BY <1>1, <1>2, <1>4, <1>11, <2>1
<1>14. Keeps(T \ X)
  <2>1. \A k \in 1..(Len(stack) - 1) : nodes'[stack[k].node] = nodes[stack[k].node]
    BY <1>6, <1>11
  <2>. QED
    BY <1>4, <1>6, <1>12, <1>13, <2>1 DEF Keeps
<1>. QED
  BY <1>3, <1>4, <1>6, <1>10, <1>14

\* A stack with its top taken off and put back.
LEMMA TopPutBack ==
  ASSUME NEW S, NEW s \in Seq(S), s # <<>>, NEW x \in S
  PROVE  /\ Append(SubSeq(s, 1, Len(s) - 1), s[Len(s)]) = s
         /\ SubSeq(s, 1, Len(s) - 1) \o <<s[Len(s)], x>> = Append(s, x)
<1>1. Len(s) \in Nat /\ Len(s) >= 1 /\ Len(s) - 1 \in 0..Len(s) /\ s[Len(s)] \in S
  OBVIOUS
<1>2. PICK front : front = SubSeq(s, 1, Len(s) - 1)
  OBVIOUS
<1>3. /\ front \in Seq(S) /\ Len(front) = Len(s) - 1
      /\ \A k \in 1..(Len(s) - 1) : front[k] = s[k]
  BY <1>1, <1>2, FrontIs
<1>4. Append(front, s[Len(s)]) = s
  <2>1. PICK t : t = Append(front, s[Len(s)])
    OBVIOUS
  <2>2. t \in Seq(S)
    BY <1>1, <1>3, <2>1
  <2>3. Len(t) = Len(s) /\ t[Len(s)] = s[Len(s)] /\ \A k \in 1..(Len(s) - 1) : t[k] = s[k]
    BY <1>1, <1>3, <2>1, LastIs
  <2>4. \A k \in 1..Len(s) : t[k] = s[k]
    <3>1. \A k \in 1..Len(s) : k = Len(s) \/ k \in 1..(Len(s) - 1)
      BY <1>1
    <3>. QED
      BY <2>3, <3>1
  <2>5. t = s
    BY <2>2, <2>3, <2>4, SeqEqual
  <2>. QED
    BY <2>1, <2>5
<1>5. front \o <<s[Len(s)], x>> = Append(Append(front, s[Len(s)]), x)
  BY <1>1, <1>3
<1>. QED
  BY <1>2, <1>4, <1>5

\* What the end of a call does to its frame.
LEMMA FramesAre ==
  ASSUME IInv, NEW n, Running("optimize", n)
  PROVE  /\ stack # <<>> /\ ~trapped /\ Top.node = n /\ n \in Nodes
         /\ stack = Append(Callers, Frame("optimize", n))
         /\ \A c \in Nodes :
              Append(stack, Frame("optimize", c))
                = Callers \o <<Frame("optimize", n), Frame("optimize", c)>>
<1>1. /\ stack # <<>> /\ ~trapped /\ Top = Frame("optimize", n) /\ Top.node = n
      /\ stack \in Seq(FrameRecord) /\ Top = stack[Len(stack)]
  BY DEF Running, Frame, IInv, Shape, Types, Top
<1>2. n \in Nodes
  BY <1>1, TopIs DEF IInv
<1>3. \A c \in Nodes : Frame("optimize", c) \in FrameRecord
  BY DEF Frame, FrameRecord
<1>4. stack = Append(Callers, Frame("optimize", n))
  BY <1>1, <1>2, <1>3, TopPutBack DEF Callers
<1>5. ASSUME NEW c \in Nodes
      PROVE  Append(stack, Frame("optimize", c))
                = Callers \o <<Frame("optimize", n), Frame("optimize", c)>>
  <2>1. PICK f : f = Frame("optimize", c)
    OBVIOUS
  <2>2. f \in FrameRecord
    BY <1>3, <2>1
  <2>3. SubSeq(stack, 1, Len(stack) - 1) \o <<stack[Len(stack)], f>> = Append(stack, f)
    BY <1>1, <2>2, TopPutBack
  <2>. QED
    BY <1>1, <2>1, <2>3 DEF Callers
<1>. QED
  BY <1>1, <1>2, <1>4, <1>5

LEMMA RewriteReturns ==
  ASSUME IInv, NEW n, Running("optimize", n), NEW c, NEW X, NEW a, NEW b,
         Rearranges(n, c, X, a, b), Optimized(n)', Return, UNCHANGED trapped
  PROVE  IInv'
<1>1. PICK T : Keeps(T)
  BY RewritingKeeps
<1>2. stack # <<>> /\ ~trapped /\ Top.node = n /\ stack' = Callers /\ trapped' = trapped
  BY FramesAre DEF Return
<1>. QED
  BY <1>1, <1>2, ReturnKeeps

LEMMA RewriteContinues ==
  ASSUME IInv, NEW n, Running("optimize", n), NEW c, NEW X, NEW a, NEW b,
         Rearranges(n, c, X, a, b), c \in Children(a) => Optimized(c)',
         Continue, UNCHANGED trapped
  PROVE  IInv'
<1>1. PICK T : Keeps(T)
  BY RewritingKeeps
<1>2. nodes'[n] = a /\ \A m \in Owned(n, c, X) \ {c} : Optimized(m)'
  BY RewritingKeeps
<1>3. \A m \in Children(nodes'[n]) : Optimized(m)'
  BY <1>2 DEF Rearranges
<1>4. /\ stack # <<>> /\ ~trapped /\ Top.node = n /\ trapped' = trapped
      /\ stack' = Append(Callers, Frame("optimize", n))
  BY FramesAre DEF Continue
<1>. QED
  BY <1>1, <1>3, <1>4, StayKeeps

LEMMA RewriteCalls ==
  ASSUME IInv, NEW n, Running("optimize", n), NEW c, NEW X, NEW a, NEW b,
         Rearranges(n, c, X, a, b), c \in Children(a), c \notin X,
         Redo(c), UNCHANGED trapped
  PROVE  IInv'
<1>1. PICK T : Keeps(T) /\ (c \notin X => c \in T)
  BY RewritingKeeps
<1>2. /\ nodes'[n] = a /\ nodes'[c] = b /\ c \in Nodes
      /\ \A m \in Owned(n, c, X) \ {c} : Optimized(m)'
  BY RewritingKeeps
<1>3. c \in Children(nodes'[n]) /\ c \in T
  BY <1>1, <1>2
<1>4. /\ \A m \in Children(nodes'[n]) \ {c} : Optimized(m)'
      /\ \A m \in Children(nodes'[c]) : Optimized(m)'
  BY <1>2 DEF Rearranges
<1>5. stack # <<>> /\ ~trapped /\ Top.node = n /\ trapped' = trapped
  BY FramesAre
<1>6. stack' = Callers \o <<Frame("optimize", n), Frame("optimize", c)>>
  BY <1>2, FramesAre DEF Redo
<1>7. Calls("optimize", n, "optimize", c)
  BY <1>4, <1>6, Zenon DEF Calls
<1>. QED
  BY <1>1, <1>3, <1>5, <1>7, CallKeeps

-----------------------------------------------------------------------------
(***************************************************************************)
(* What sums and products come to when their operands move                 *)
(***************************************************************************)
Wrapping == {"ADD", "SUB", "MUL"}

\* The operation on the integers.
Plain(t, a, b) == IF t = "ADD" THEN a + b ELSE IF t = "SUB" THEN a - b ELSE a * b

LEMMA PlainIs ==
  ASSUME NEW t \in Wrapping, NEW a \in Int, NEW b \in Int
  PROVE  /\ Plain(t, a, b) \in Int
         /\ Binary(t, a, b) = Wrap(Plain(t, a, b)) /\ Binary(t, a, b) \in Long
         /\ Wrap(a) \in Int /\ Wrap(b) \in Int
         /\ Wrap(Plain(t, a, Wrap(b))) = Wrap(Plain(t, a, b))
         /\ Wrap(Plain(t, Wrap(a), b)) = Wrap(Plain(t, a, b))
<1>1. Plain(t, a, b) \in Int
  BY DEF Plain
<1>2. Binary(t, a, b) = Wrap(Plain(t, a, b))
  BY DEF Plain, Binary, Wrapping
<1>3. Wrap(Plain(t, a, b)) \in Long
  BY <1>1, WrapIsLong
<1>4. Wrap(a) \in Int /\ Wrap(b) \in Int
  BY WrapInside
<1>5. Wrap(Plain(t, a, Wrap(b))) = Wrap(Plain(t, a, b))
  BY WrapInside DEF Plain
<1>6. Wrap(Plain(t, Wrap(a), b)) = Wrap(Plain(t, a, b))
  BY WrapInside DEF Plain
<1>. QED
  BY <1>1, <1>2, <1>3, <1>4, <1>5, <1>6

LEMMA NestedIs ==
  ASSUME NEW t \in Wrapping, NEW u \in Wrapping, NEW a \in Int, NEW b \in Int, NEW c \in Int
  PROVE  /\ Binary(t, a, Binary(u, b, c)) = Wrap(Plain(t, a, Plain(u, b, c)))
         /\ Binary(t, Binary(u, a, b), c) = Wrap(Plain(t, Plain(u, a, b), c))
<1>1. PICK m \in Int : m = Plain(u, b, c)
  BY PlainIs
<1>2. Binary(t, a, Binary(u, b, c)) = Wrap(Plain(t, a, m))
  <2>1. PICK w \in Int : w = Wrap(m)
    BY <1>1, PlainIs
  <2>2. Binary(u, b, c) = w
    BY <1>1, <2>1, PlainIs
  <2>3. Binary(t, a, w) = Wrap(Plain(t, a, w))
    BY PlainIs
  <2>4. Wrap(Plain(t, a, w)) = Wrap(Plain(t, a, m))
    BY <2>1, PlainIs
  <2>. QED
    BY <2>2, <2>3, <2>4
<1>3. PICK n \in Int : n = Plain(u, a, b)
  BY PlainIs
<1>4. Binary(t, Binary(u, a, b), c) = Wrap(Plain(t, n, c))
  <2>1. PICK w \in Int : w = Wrap(n)
    BY <1>3, PlainIs
  <2>2. Binary(u, a, b) = w
    BY <1>3, <2>1, PlainIs
  <2>3. Binary(t, w, c) = Wrap(Plain(t, w, c))
    BY PlainIs
  <2>4. Wrap(Plain(t, w, c)) = Wrap(Plain(t, n, c))
    BY <2>1, PlainIs
  <2>. QED
    BY <2>2, <2>3, <2>4
<1>. QED
  BY <1>1, <1>2, <1>3, <1>4

\* a +/- (b +/- c)
LEMMA SumOnTheRight ==
  ASSUME NEW t \in AddSub, NEW u \in AddSub, NEW a \in Int, NEW b \in Int, NEW c \in Int
  PROVE  /\ Binary(t, a, Binary(u, b, c)) = Binary(SignProduct(t, u), Binary(t, a, b), c)
         /\ Binary(t, a, Binary(u, b, c)) = Binary(t, Binary(SignProduct(t, u), a, c), b)
<1>1. PICK s : s = SignProduct(t, u)
  OBVIOUS
<1>2. s \in AddSub /\ AddSub \subseteq Wrapping
  BY <1>1 DEF SignProduct, AddSub, Wrapping
<1>3. /\ Plain(t, a, Plain(u, b, c)) = Plain(s, Plain(t, a, b), c)
      /\ Plain(t, a, Plain(u, b, c)) = Plain(t, Plain(s, a, c), b)
  BY <1>1 DEF SignProduct, Plain, AddSub
<1>4. Binary(t, a, Binary(u, b, c)) = Wrap(Plain(t, a, Plain(u, b, c)))
  BY <1>2, NestedIs
<1>5. Binary(s, Binary(t, a, b), c) = Wrap(Plain(s, Plain(t, a, b), c))
  BY <1>2, NestedIs
<1>6. Binary(t, Binary(s, a, c), b) = Wrap(Plain(t, Plain(s, a, c), b))
  BY <1>2, NestedIs
<1>. QED
  BY <1>1, <1>3, <1>4, <1>5, <1>6

\* (a +/- b) +/- c
LEMMA SumOnTheLeft ==
  ASSUME NEW t \in AddSub, NEW u \in AddSub, NEW a \in Int, NEW b \in Int, NEW c \in Int
  PROVE  /\ Binary(t, Binary(u, a, b), c) = Binary(u, Binary(t, a, c), b)
         /\ u = "ADD" => Binary(t, Binary(u, a, b), c) = Binary("ADD", a, Binary(t, b, c))
         /\ u = "SUB" => Binary(t, Binary(u, a, b), c) = Binary("ADD", a, Binary(t, Negate(b), c))
         /\ u = "ADD" => Binary(t, Binary(u, a, b), c) = Binary("ADD", Binary(t, b, c), a)
<1>1. AddSub \subseteq Wrapping /\ "ADD" \in Wrapping /\ -b \in Int /\ Negate(b) = Wrap(-b)
  BY DEF AddSub, Wrapping, Negate
<1>2. /\ Plain(t, Plain(u, a, b), c) = Plain(u, Plain(t, a, c), b)
      /\ u = "ADD" => Plain(t, Plain(u, a, b), c) = Plain("ADD", a, Plain(t, b, c))
      /\ u = "SUB" => Plain(t, Plain(u, a, b), c) = Plain("ADD", a, Plain(t, -b, c))
      /\ u = "ADD" => Plain(t, Plain(u, a, b), c) = Plain("ADD", Plain(t, b, c), a)
  BY DEF Plain, AddSub
<1>3. Binary(t, Binary(u, a, b), c) = Wrap(Plain(t, Plain(u, a, b), c))
  BY <1>1, NestedIs
<1>4. Binary(u, Binary(t, a, c), b) = Wrap(Plain(u, Plain(t, a, c), b))
  BY <1>1, NestedIs
<1>5. Binary("ADD", a, Binary(t, b, c)) = Wrap(Plain("ADD", a, Plain(t, b, c)))
  BY <1>1, NestedIs
<1>6. Binary("ADD", Binary(t, b, c), a) = Wrap(Plain("ADD", Plain(t, b, c), a))
  BY <1>1, NestedIs
<1>7. Binary("ADD", a, Binary(t, Negate(b), c)) = Wrap(Plain("ADD", a, Plain(t, -b, c)))
  <2>1. PICK m \in Int : m = -b
    BY <1>1
  <2>2. PICK w \in Int : w = Wrap(m)
    BY PlainIs, <1>1
  <2>3. Binary(t, w, c) = Wrap(Plain(t, w, c)) /\ Wrap(Plain(t, w, c)) = Wrap(Plain(t, m, c))
    BY <1>1, <2>2, PlainIs
  <2>4. Binary(t, m, c) = Wrap(Plain(t, m, c))
    BY <1>1, PlainIs
  <2>5. Binary("ADD", a, Binary(t, m, c)) = Wrap(Plain("ADD", a, Plain(t, m, c)))
    BY <1>1, NestedIs
  <2>. QED
    BY <1>1, <2>1, <2>2, <2>3, <2>4, <2>5
<1>. QED
  BY <1>2, <1>3, <1>4, <1>5, <1>6, <1>7

LEMMA ProductsMove ==
  ASSUME NEW a \in Int, NEW b \in Int, NEW c \in Int
  PROVE  /\ Binary("MUL", a, b) = Binary("MUL", b, a)
         /\ Binary("MUL", a, Binary("MUL", b, c)) = Binary("MUL", Binary("MUL", a, b), c)
<1>1. "MUL" \in Wrapping
  BY DEF Wrapping
<1>2. Plain("MUL", a, b) = Plain("MUL", b, a)
  BY DEF Plain
<1>3. Plain("MUL", a, Plain("MUL", b, c)) = Plain("MUL", Plain("MUL", a, b), c)
  BY DEF Plain
<1>4. Binary("MUL", a, b) = Wrap(Plain("MUL", a, b))
  BY <1>1, PlainIs
<1>5. Binary("MUL", b, a) = Wrap(Plain("MUL", b, a))
  BY <1>1, PlainIs
<1>6. Binary("MUL", a, Binary("MUL", b, c)) = Wrap(Plain("MUL", a, Plain("MUL", b, c)))
  BY <1>1, NestedIs
<1>7. Binary("MUL", Binary("MUL", a, b), c) = Wrap(Plain("MUL", Plain("MUL", a, b), c))
  BY <1>1, NestedIs
<1>. QED
  BY <1>2, <1>3, <1>4, <1>5, <1>6, <1>7

\* The same where an operand may not have returned.
LEMMA StrictIs ==
  /\ \A a \in Long : a \in Value /\ a \in Int /\ a # TRAP /\ StrictNegate(a) = Negate(a)
  /\ \A t, a, b : a = TRAP \/ b = TRAP => StrictBinary(t, a, b) = TRAP
  /\ \A t, a, b : a # TRAP /\ b # TRAP => StrictBinary(t, a, b) = Binary(t, a, b)
  /\ \A a \in Value : a = TRAP \/ a \in Long
BY LongIs DEF StrictNegate, StrictBinary, Value

LEMMA StrictSumOnTheRight ==
  ASSUME NEW t \in AddSub, NEW u \in AddSub, NEW a \in Value, NEW b \in Value, NEW c \in Value
  PROVE  /\ StrictBinary(t, a, StrictBinary(u, b, c))
              = StrictBinary(SignProduct(t, u), StrictBinary(t, a, b), c)
         /\ StrictBinary(t, a, StrictBinary(u, b, c))
              = StrictBinary(t, StrictBinary(SignProduct(t, u), a, c), b)
<1>1. CASE a = TRAP \/ b = TRAP \/ c = TRAP
  BY <1>1, StrictIs
<1>2. CASE a \in Long /\ b \in Long /\ c \in Long
  <2>1. SignProduct(t, u) \in AddSub /\ \A s \in AddSub : s \in BinaryTypes /\ s # "DIV"
    BY DEF SignProduct, BinaryTypes, AddSub
  <2>2. \A s \in AddSub, x, y \in Long : StrictBinary(s, x, y) = Binary(s, x, y)
                                         /\ Binary(s, x, y) \in Long
    BY <2>1, StrictIs, BinaryIsValue
  <2>3. a \in Int /\ b \in Int /\ c \in Int
    BY <1>2, StrictIs
  <2>4. PICK s \in AddSub : s = SignProduct(t, u)
    BY <2>1
  <2>5. /\ Binary(t, a, Binary(u, b, c)) = Binary(s, Binary(t, a, b), c)
        /\ Binary(t, a, Binary(u, b, c)) = Binary(t, Binary(s, a, c), b)
    BY <2>3, <2>4, SumOnTheRight
  <2>6. StrictBinary(t, a, StrictBinary(u, b, c)) = Binary(t, a, Binary(u, b, c))
    BY <1>2, <2>2
  <2>7. StrictBinary(s, StrictBinary(t, a, b), c) = Binary(s, Binary(t, a, b), c)
    BY <1>2, <2>2
  <2>8. StrictBinary(t, StrictBinary(s, a, c), b) = Binary(t, Binary(s, a, c), b)
    BY <1>2, <2>2
  <2>. QED
    BY <2>4, <2>5, <2>6, <2>7, <2>8
<1>. QED
  BY <1>1, <1>2, StrictIs

LEMMA StrictSumOnTheLeft ==
  ASSUME NEW t \in AddSub, NEW u \in AddSub, NEW a \in Value, NEW b \in Value, NEW c \in Value
  PROVE  LET sum == StrictBinary(t, StrictBinary(u, a, b), c)
         IN  /\ sum = StrictBinary(u, StrictBinary(t, a, c), b)
             /\ u = "ADD" => sum = StrictBinary("ADD", a, StrictBinary(t, b, c))
             /\ u = "SUB" => sum = StrictBinary("ADD", a, StrictBinary(t, StrictNegate(b), c))
             /\ u = "ADD" => sum = StrictBinary("ADD", StrictBinary(t, b, c), a)
<1>1. CASE a = TRAP \/ b = TRAP \/ c = TRAP
  BY <1>1, StrictIs DEF StrictNegate
<1>2. CASE a \in Long /\ b \in Long /\ c \in Long
  <2>1. "ADD" \in AddSub /\ \A s \in AddSub : s \in BinaryTypes /\ s # "DIV"
    BY DEF BinaryTypes, AddSub
  <2>2. \A s \in AddSub, x, y \in Long : StrictBinary(s, x, y) = Binary(s, x, y)
                                         /\ Binary(s, x, y) \in Long
    BY <2>1, StrictIs, BinaryIsValue
  <2>3. a \in Int /\ b \in Int /\ c \in Int /\ StrictNegate(b) = Negate(b) /\ Negate(b) \in Long
    BY <1>2, StrictIs, NegateIsLong
  <2>4. PICK m \in Long : m = Negate(b)
    BY <2>3
  <2>5. /\ Binary(t, Binary(u, a, b), c) = Binary(u, Binary(t, a, c), b)
        /\ u = "ADD" => Binary(t, Binary(u, a, b), c) = Binary("ADD", a, Binary(t, b, c))
        /\ u = "SUB" => Binary(t, Binary(u, a, b), c) = Binary("ADD", a, Binary(t, m, c))
        /\ u = "ADD" => Binary(t, Binary(u, a, b), c) = Binary("ADD", Binary(t, b, c), a)
    BY <2>3, <2>4, SumOnTheLeft
  <2>6. StrictBinary(t, StrictBinary(u, a, b), c) = Binary(t, Binary(u, a, b), c)
    BY <1>2, <2>2
  <2>7. StrictBinary(u, StrictBinary(t, a, c), b) = Binary(u, Binary(t, a, c), b)
    BY <1>2, <2>2
  <2>8. StrictBinary("ADD", a, StrictBinary(t, b, c)) = Binary("ADD", a, Binary(t, b, c))
    BY <1>2, <2>1, <2>2
  <2>9. StrictBinary("ADD", a, StrictBinary(t, m, c)) = Binary("ADD", a, Binary(t, m, c))
    BY <1>2, <2>1, <2>2
  <2>10. StrictBinary("ADD", StrictBinary(t, b, c), a) = Binary("ADD", Binary(t, b, c), a)
    BY <1>2, <2>1, <2>2
  <2>. QED
    BY <2>3, <2>4, <2>5, <2>6, <2>7, <2>8, <2>9, <2>10
<1>. QED
  BY <1>1, <1>2, StrictIs

LEMMA StrictProductsMove ==
  ASSUME NEW a \in Value, NEW b \in Value, NEW c \in Value
  PROVE  /\ StrictBinary("MUL", a, b) = StrictBinary("MUL", b, a)
         /\ StrictBinary("MUL", a, StrictBinary("MUL", b, c))
              = StrictBinary("MUL", StrictBinary("MUL", a, b), c)
<1>1. PICK t : t = "MUL"
  OBVIOUS
<1>2. StrictBinary(t, a, b) = StrictBinary(t, b, a)
  <2>1. a \in Long /\ b \in Long => Binary(t, a, b) = Binary(t, b, a)
    BY <1>1, ProductsMove, StrictIs
  <2>. QED
    BY <2>1, StrictIs
<1>3. StrictBinary(t, a, StrictBinary(t, b, c)) = StrictBinary(t, StrictBinary(t, a, b), c)
  <2>1. CASE a = TRAP \/ b = TRAP \/ c = TRAP
    BY <2>1, StrictIs
  <2>2. CASE a \in Long /\ b \in Long /\ c \in Long
    <3>1. t \in BinaryTypes /\ t # "DIV"
      BY <1>1 DEF BinaryTypes, MulDiv
    <3>2. \A x, y \in Long : StrictBinary(t, x, y) = Binary(t, x, y) /\ Binary(t, x, y) \in Long
      BY <3>1, StrictIs, BinaryIsValue
    <3>3. Binary(t, a, Binary(t, b, c)) = Binary(t, Binary(t, a, b), c)
      BY <1>1, <2>2, ProductsMove, StrictIs
    <3>. QED
      BY <2>2, <3>2, <3>3
  <2>. QED
    BY <2>1, <2>2, StrictIs
<1>. QED
  BY <1>1, <1>2, <1>3

\* Operands that tell the result.
LEMMA NeutralOperands ==
  ASSUME NEW a \in Value
  PROVE  /\ StrictBinary("ADD", a, 0) = a /\ StrictBinary("SUB", a, 0) = a
         /\ StrictBinary("ADD", 0, a) = a /\ StrictBinary("SUB", 0, a) = StrictNegate(a)
         /\ StrictBinary("MUL", a, 1) = a /\ StrictBinary("MUL", 1, a) = a
<1>1. 0 \in Long /\ 1 \in Long
  BY LongIs
<1>2. CASE a = TRAP
  BY <1>2, StrictIs DEF StrictNegate
<1>3. CASE a \in Long
  <2>1. /\ a + 0 = a /\ a - 0 = a /\ 0 + a = a /\ 0 - a = -a /\ a * 1 = a /\ 1 * a = a
    BY <1>3, StrictIs
  <2>2. /\ Binary("ADD", a, 0) = a /\ Binary("SUB", a, 0) = a
        /\ Binary("ADD", 0, a) = a /\ Binary("SUB", 0, a) = Negate(a)
        /\ Binary("MUL", a, 1) = a /\ Binary("MUL", 1, a) = a
    BY <1>3, <2>1, WrapOfLong DEF Binary, Negate
  <2>. QED
    BY <1>1, <1>3, <2>2, StrictIs
<1>. QED
  BY <1>2, <1>3, StrictIs

LEMMA FixedResults ==
  ASSUME NEW a \in Value
  PROVE  /\ FailsOrAgrees(StrictBinary("MUL", a, 0), 0)
         /\ FailsOrAgrees(StrictBinary("MUL", 0, a), 0)
         /\ FailsOrAgrees(StrictBinary("DIV", 0, a), 0)
         /\ FailsOrAgrees(StrictBinary("SUB", a, a), 0)
         /\ FailsOrAgrees(StrictBinary("DIV", a, a), 1)
<1>1. 0 \in Long
  BY LongIs
<1>2. CASE a = TRAP
  BY <1>2, StrictIs DEF FailsOrAgrees
<1>3. CASE a \in Long
  <2>1. a \in Int /\ a * 0 = 0 /\ 0 * a = 0 /\ a - a = 0
    BY <1>3, StrictIs
  <2>2. Binary("MUL", a, 0) = 0 /\ Binary("MUL", 0, a) = 0 /\ Binary("SUB", a, a) = 0
    BY <1>1, <2>1, WrapOfLong DEF Binary
  <2>3. a # 0 => Quotient(0, a) = 0 /\ Quotient(a, a) = 1
    <3>1. ASSUME a # 0
          PROVE  Abs(a) \in Nat /\ Abs(a) > 0
      BY <2>1, <3>1 DEF Abs
    <3>2. \A d \in Nat : d > 0 => 0 \div d = 0 /\ d \div d = 1
      BY Z3
    <3>3. Abs(0) = 0
      BY DEF Abs
    <3>4. a # 0 => Abs(0) \div Abs(a) = 0 /\ Abs(a) \div Abs(a) = 1
      BY <3>1, <3>2, <3>3
    <3>. QED
      BY <3>4 DEF Quotient
  <2>4. FailsOrAgrees(Binary("DIV", 0, a), 0) /\ FailsOrAgrees(Binary("DIV", a, a), 1)
    BY <2>3 DEF Binary, Divide, FailsOrAgrees
  <2>. QED
    BY <1>1, <1>3, <2>2, <2>4, StrictIs DEF FailsOrAgrees
<1>. QED
  BY <1>2, <1>3, StrictIs

-----------------------------------------------------------------------------
(***************************************************************************)
(* The nodes a step finds, and those it makes                              *)
(***************************************************************************)
LEMMA NewNodes ==
  ASSUME Types
  PROVE  /\ \A t \in BinaryTypes, x, y \in Nodes :
              /\ IsNode(BinaryNode(t, x, y), Len(nodes), ArgCount)
              /\ Children(BinaryNode(t, x, y)) = {x, y}
              /\ BinaryNode(t, x, y).type = t
              /\ BinaryNode(t, x, y).left = x /\ BinaryNode(t, x, y).right = y
         /\ \A x \in Nodes :
              /\ IsNode(InvNode(x), Len(nodes), ArgCount)
              /\ Children(InvNode(x)) = {x} /\ InvNode(x).type = "INV"
         /\ \A v \in Long :
              /\ IsNode(IntNode(v), Len(nodes), ArgCount)
              /\ Children(IntNode(v)) = {} /\ IntNode(v).type = "INT"
<1>1. Nodes = 1..Len(nodes)
  BY NodesAre
<1>2. ASSUME NEW t \in BinaryTypes, NEW x \in Nodes, NEW y \in Nodes
      PROVE  /\ IsNode(BinaryNode(t, x, y), Len(nodes), ArgCount)
             /\ Children(BinaryNode(t, x, y)) = {x, y}
             /\ BinaryNode(t, x, y).type = t
             /\ BinaryNode(t, x, y).left = x /\ BinaryNode(t, x, y).right = y
  <2>1. PICK node : node = BinaryNode(t, x, y)
    OBVIOUS
  <2>2. node.type = t /\ node.left = x /\ node.right = y
    BY <2>1 DEF BinaryNode
  <2>3. Children(node) = {x, y}
    BY <2>2 DEF Children, BinaryTypes, AddSub, MulDiv
  <2>4. IsNode(node, Len(nodes), ArgCount)
    BY <1>1, <2>1, <2>2 DEF IsNode
  <2>. QED
    BY <2>1, <2>2, <2>3, <2>4
<1>3. ASSUME NEW x \in Nodes
      PROVE  /\ IsNode(InvNode(x), Len(nodes), ArgCount)
             /\ Children(InvNode(x)) = {x} /\ InvNode(x).type = "INV"
  BY <1>1 DEF IsNode, InvNode, Children, BinaryTypes, AddSub, MulDiv
<1>4. ASSUME NEW v \in Long
      PROVE  /\ IsNode(IntNode(v), Len(nodes), ArgCount)
             /\ Children(IntNode(v)) = {} /\ IntNode(v).type = "INT"
  BY DEF IsNode, IntNode, Children, BinaryTypes, AddSub, MulDiv
<1>. QED
  BY <1>2, <1>3, <1>4

\* Nodes that hang from nodes of the tree.
LEMMA NodeIsInTree ==
  ASSUME Types, Acyclic(nodes), NEW T, IsTree(T), NEW x \in T
  PROVE  /\ x \in Nodes /\ x \notin Children(nodes[x]) /\ Children(nodes[x]) \subseteq T
         /\ IsNode(nodes[x], Len(nodes), ArgCount) /\ nodes[x].type \in NodeTypes
         /\ nodes[x].type \in BinaryTypes =>
              /\ nodes[x].left \in Nodes /\ nodes[x].right \in Nodes
              /\ nodes[x].left \in T /\ nodes[x].right \in T
              /\ Children(nodes[x]) = {nodes[x].left, nodes[x].right}
              /\ nodes[x].left # nodes[x].right
         /\ nodes[x].type = "INV" =>
              /\ nodes[x].left \in Nodes /\ nodes[x].left \in T
              /\ Children(nodes[x]) = {nodes[x].left}
         /\ nodes[x].type = "INT" => nodes[x].num \in Long
<1>1. x \in Nodes /\ T \subseteq Nodes /\ Children(nodes[x]) \subseteq T
  BY DEF IsTree, Closed, Nodes
<1>2. IsNode(nodes[x], Len(nodes), ArgCount) /\ nodes[x].type \in NodeTypes
  BY <1>1, NodesAre
<1>3. x \notin Children(nodes[x])
  <2>1. {x} \in SUBSET DOMAIN nodes /\ {x} # {}
    BY <1>1 DEF Nodes
  <2>2. \E i \in {x} : Children(nodes[i]) \cap {x} = {}
    BY <2>1 DEF Acyclic
  <2>. QED
    BY <2>2
<1>4. nodes[x].type \in BinaryTypes =>
        Children(nodes[x]) = {nodes[x].left, nodes[x].right}
  BY <1>2, NodeIs
<1>5. nodes[x].type = "INV" => Children(nodes[x]) = {nodes[x].left}
  BY <1>2, NodeIs
<1>6. nodes[x].type = "INT" => nodes[x].num \in Long
  BY <1>2, NodeIs
<1>7. nodes[x].type \in BinaryTypes => nodes[x].left # nodes[x].right
  BY DEF IsTree
<1>. QED
  BY <1>1, <1>2, <1>3, <1>4, <1>5, <1>6, <1>7

\* The children of the node of the running call.
LEMMA ChildrenAre ==
  ASSUME IInv, NEW n, Running("optimize", n)
  PROVE  /\ Types /\ Acyclic(nodes)
         /\ \A x \in Children(nodes[n]) : Optimized(x)
         /\ \E T : IsTree(T) /\ n \in T
<1>1. Types /\ Acyclic(nodes)
  BY DEF IInv, Shape
<1>2. PICK T : IsTree(T) /\ \A k \in 1..Len(stack) : stack[k].node \in T
  BY DEF IInv, Shape
<1>3. /\ Len(stack) \in 1..Len(stack) /\ stack[Len(stack)].node = n
      /\ stack[Len(stack)].pc = "optimize"
  BY TopIs DEF IInv, Running, Frame, Top
<1>4. DoneWith(Len(stack)) = Children(nodes[n])
  BY <1>3, TopIs DEF DoneWith
<1>5. \A x \in Children(nodes[n]) : Optimized(x)
  BY <1>3, <1>4 DEF IInv, StaysOptimized
<1>. QED
  BY <1>1, <1>2, <1>3, <1>5

\* The fields of the nodes.
LEMMA FieldsAre ==
  ASSUME IInv, NEW n, Running("optimize", n)
  PROVE  /\ n \in Nodes
         /\ \A x \in Nodes :
              /\ nodes[x].type \in NodeTypes
              /\ nodes[x].type \in BinaryTypes =>
                   /\ nodes[x].left \in Nodes /\ nodes[x].right \in Nodes
                   /\ Children(nodes[x]) = {nodes[x].left, nodes[x].right}
              /\ nodes[x].type = "INV" =>
                   nodes[x].left \in Nodes /\ Children(nodes[x]) = {nodes[x].left}
              /\ nodes[x].type = "INT" => nodes[x].num \in Long
         /\ \A x \in Children(nodes[n]) \cup {n} :
              nodes[x].type \in BinaryTypes => nodes[x].left # nodes[x].right
<1>1. Types /\ Acyclic(nodes)
  BY ChildrenAre
<1>2. PICK T : IsTree(T) /\ n \in T
  BY ChildrenAre
<1>3. n \in Nodes /\ Children(nodes[n]) \subseteq T
  BY <1>2 DEF IsTree, Closed, Nodes
<1>4. \A x \in Children(nodes[n]) \cup {n} :
        nodes[x].type \in BinaryTypes => nodes[x].left # nodes[x].right
  BY <1>2, <1>3 DEF IsTree
<1>5. ASSUME NEW x \in Nodes
      PROVE  /\ nodes[x].type \in NodeTypes
             /\ nodes[x].type \in BinaryTypes =>
                   /\ nodes[x].left \in Nodes /\ nodes[x].right \in Nodes
                   /\ Children(nodes[x]) = {nodes[x].left, nodes[x].right}
             /\ nodes[x].type = "INV" =>
                   nodes[x].left \in Nodes /\ Children(nodes[x]) = {nodes[x].left}
             /\ nodes[x].type = "INT" => nodes[x].num \in Long
  <2>1. IsNode(nodes[x], Len(nodes), ArgCount) /\ Nodes = 1..Len(nodes)
    BY <1>1, NodesAre
  <2>. QED
    BY <2>1, NodeIs
<1>. QED
  BY <1>3, <1>4, <1>5

LEMMA ReplaceIs ==
  ASSUME Types, NEW n \in Nodes, NEW c \in Nodes, n # c, NEW a, Replace(n, a)
  PROVE  nodes' = [nodes EXCEPT ![n] = a, ![c] = nodes[c]]
BY DEF Replace, Types, Nodes

-----------------------------------------------------------------------------
(***************************************************************************)
(* The value of the program before and after a rewriting                   *)
(***************************************************************************)

\* n, made of what is owned, computes as a what it computed, when c is b.
Agrees(n, c, a, b) ==
  \A args \in ArgValues :
    LET f == NodeEval(nodes, args)
    IN  FailsOrAgrees(f[n], NodeValue(a, args, [f EXCEPT ![c] = NodeValue(b, args, f)]))

LEMMA OldValues ==
  ASSUME Types, Acyclic(nodes), NEW args \in ArgValues
  PROVE  Solves(nodes, args, NodeEval(nodes, args))
<1>1. args \in [1..ArgCount -> Long]
  BY InputsAssumption
<1>. QED
  BY <1>1, NodeEvalIs DEF Types, Solves

LEMMA RewriteAgrees ==
  ASSUME IInv, NEW n, Running("optimize", n), NEW c, NEW X, NEW a, NEW b,
         Rearranges(n, c, X, a, b), Agrees(n, c, a, b)
  PROVE  SameValues
<1>1. Types /\ Acyclic(nodes)
  BY ChildrenAre
<1>2. PICK T : IsTree(T) /\ n \in T
  BY ChildrenAre
<1>3. /\ n \in Nodes /\ c \in Nodes /\ n # c
      /\ nodes'[n] = a /\ nodes'[c] = b /\ Nodes' = Nodes
  BY RewritingKeeps
<1>4. PICK K : Keeps(K)
  BY RewritingKeeps
<1>5. \A i \in Nodes \ {n, c} : nodes'[i] = nodes[i]
  <2>1. nodes' = [nodes EXCEPT ![n] = a, ![c] = b]
    BY DEF Rearranges
  <2>. QED
    BY <1>1, <1>3, <2>1 DEF Types, Nodes
<1>6. c \in T /\ c \notin Children(nodes[c])
  <2>1. c \in T
    BY <1>1, <1>2, NodeIsInTree DEF Rearranges
  <2>. QED
    BY <1>1, <1>2, <2>1, NodeIsInTree
<1>7. PICK F : Closed(nodes, F) /\ n \notin F /\ c \notin F /\ Owned(n, c, X) \subseteq F \cup {c}
  <2>1. Spares(n, c, X)
    <3>. Types /\ Acyclic(nodes) /\ IsTree(T) /\ n \in T /\ Rearranges(n, c, X, a, b)
      BY <1>1, <1>2
    <3>. QED
      BY RewriteKeepsTree, ZenonT(30)
  <2>. QED
    BY <2>1 DEF Spares
<1>8. PICK new : new = nodes'
  OBVIOUS
<1>9. /\ new \in Seq(NodeRecord) /\ IsAst(new, ArgCount) /\ Acyclic(new)
      /\ DOMAIN new = Nodes /\ new[n] = a /\ new[c] = b
      /\ \A i \in Nodes \ {n, c} : new[i] = nodes[i]
  BY <1>3, <1>4, <1>5, <1>8 DEF Keeps, Nodes
<1>10. PICK root : root = Root(nodes)
  OBVIOUS
<1>11. root = Root(new) /\ root \in T /\ root # c
  <2>1. root \in T /\ \A i \in T : root \notin Children(nodes[i])
    BY <1>2, <1>10 DEF IsTree
  <2>2. c \in Children(nodes[n])
    BY DEF Rearranges
  <2>3. Len(nodes') = Len(nodes)
    BY <1>1, <1>3, <1>8, <1>9 DEF Types, Nodes
  <2>. QED
    BY <1>2, <1>8, <1>10, <2>1, <2>2, <2>3 DEF Root
<1>12. SUFFICES ASSUME NEW args \in ArgValues
                PROVE  FailsOrAgrees(AstEval(nodes, args), AstEval(new, args))
  BY <1>8 DEF SameValues, FailsOrAgrees
<1>13. PICK f, g : f = NodeEval(nodes, args) /\ g = NodeEval(new, args)
  OBVIOUS
<1>14. Solves(nodes, args, f)
  BY <1>1, <1>13, OldValues
<1>15. Solves(new, args, g)
  <2>1. args \in [1..ArgCount -> Long]
    BY InputsAssumption
  <2>. QED
    BY <1>9, <1>13, <2>1, NodeEvalIs DEF Solves
<1>16. \A i \in F : f[i] = g[i]
  <2>1. \A i \in F : i \in DOMAIN new /\ new[i] = nodes[i]
    BY <1>7, <1>9 DEF Closed, Nodes
  <2>2. IsAst(nodes, ArgCount)
    BY <1>1 DEF Types
  <2>. QED
    BY <1>1, <1>7, <1>14, <1>15, <2>1, <2>2, UntouchedKeepValues
<1>17. g[c] = NodeValue(b, args, f)
  <2>1. Children(b) \subseteq F
    <3>1. Children(b) \subseteq Owned(n, c, X) \ {c}
      BY <1>6 DEF Rearranges, Owned
    <3>. QED
      BY <1>7, <3>1
  <2>2. IsNode(b, Len(nodes), ArgCount)
    BY DEF Rearranges
  <2>3. NodeValue(b, args, f) = NodeValue(b, args, g)
    BY <1>16, <2>1, <2>2, SameNodeValue
  <2>. QED
    BY <1>3, <1>9, <1>15, <2>3 DEF Solves
<1>18. PICK h : h = [f EXCEPT ![c] = NodeValue(b, args, f)]
  OBVIOUS
<1>19. g[n] = NodeValue(a, args, h)
  <2>1. DOMAIN f = Nodes
    BY <1>14 DEF Solves, Nodes
  <2>2. \A i \in F \cup {c} : g[i] = h[i]
    BY <1>3, <1>7, <1>16, <1>17, <1>18, <2>1 DEF Closed, Nodes
  <2>3. Children(a) \subseteq F \cup {c} /\ IsNode(a, Len(nodes), ArgCount)
    BY <1>7 DEF Rearranges
  <2>4. NodeValue(a, args, g) = NodeValue(a, args, h)
    BY <2>2, <2>3, SameNodeValue
  <2>. QED
    BY <1>3, <1>9, <1>15, <2>4 DEF Solves
<1>20. FailsOrAgrees(f[n], g[n])
  BY <1>13, <1>18, <1>19 DEF Agrees
<1>21. \A i \in T \ {c} : FailsOrAgrees(f[i], g[i])
  <2>1. \A i \in T \ {n, c} : i \in DOMAIN new /\ new[i] = nodes[i] /\ c \notin Children(nodes[i])
    <3>1. T \subseteq Nodes
      BY <1>2 DEF IsTree, Closed, Nodes
    <3>2. \A i \in T \ {n, c} : c \notin Children(nodes[i])
      BY <1>2 DEF IsTree, Rearranges
    <3>. QED
      BY <1>9, <3>1, <3>2
  <2>2. IsAst(nodes, ArgCount) /\ Closed(nodes, T)
    BY <1>1, <1>2 DEF Types, IsTree
  <2>. QED
    BY <1>1, <1>14, <1>15, <1>20, <2>1, <2>2, OthersFailOrAgree
<1>. QED
  BY <1>10, <1>11, <1>13, <1>21 DEF AstEval

\* What the nodes compute.
LEMMA ValuesAre ==
  ASSUME IInv, NEW n, Running("optimize", n), NEW args \in ArgValues,
         NEW f, f = NodeEval(nodes, args)
  PROVE  /\ \A x \in Nodes :
              /\ f[x] \in Value
              /\ nodes[x].type \in BinaryTypes =>
                   f[x] = StrictBinary(nodes[x].type, f[nodes[x].left], f[nodes[x].right])
              /\ nodes[x].type = "INV" => f[x] = StrictNegate(f[nodes[x].left])
              /\ nodes[x].type = "INT" => f[x] = nodes[x].num
              /\ nodes[x].type = "VAR" => f[x] = args[nodes[x].num]
<1>1. Solves(nodes, args, f)
  BY ChildrenAre, OldValues
<1>2. SUFFICES ASSUME NEW x \in Nodes
               PROVE  /\ f[x] \in Value
                      /\ nodes[x].type \in BinaryTypes =>
                           f[x] = StrictBinary(nodes[x].type, f[nodes[x].left], f[nodes[x].right])
                      /\ nodes[x].type = "INV" => f[x] = StrictNegate(f[nodes[x].left])
                      /\ nodes[x].type = "INT" => f[x] = nodes[x].num
                      /\ nodes[x].type = "VAR" => f[x] = args[nodes[x].num]
  OBVIOUS
<1>3. f[x] \in Value /\ f[x] = NodeValue(nodes[x], args, f)
  BY <1>1 DEF Solves, Nodes
<1>4. CASE nodes[x].type \in BinaryTypes
  BY <1>3, <1>4 DEF NodeValue, BinaryTypes, AddSub, MulDiv
<1>5. CASE nodes[x].type \notin BinaryTypes
  BY <1>3, <1>5 DEF NodeValue
<1>. QED
  BY <1>4, <1>5

LEMMA ConstantIs == \A v, args, h : NodeValue(IntNode(v), args, h) = v
<1>1. \A v : IntNode(v).type = "INT" /\ IntNode(v).num = v
  BY DEF IntNode
<1>2. \A node, args, h : node.type = "INT" => NodeValue(node, args, h) = node.num
  BY DEF NodeValue, BinaryTypes, AddSub, MulDiv
<1>. QED
  BY <1>1, <1>2

\* When a node made of two others computes what was computed.
LEMMA BinaryAgrees ==
  ASSUME Types, Acyclic(nodes), NEW n, NEW c \in Nodes, NEW y \in Nodes, y # c,
         NEW b, NEW t \in BinaryTypes
  PROVE  /\ (\A args \in ArgValues :
                LET f == NodeEval(nodes, args)
                IN  FailsOrAgrees(f[n], StrictBinary(t, NodeValue(b, args, f), f[y])))
           => Agrees(n, c, BinaryNode(t, c, y), b)
         /\ (\A args \in ArgValues :
                LET f == NodeEval(nodes, args)
                IN  FailsOrAgrees(f[n], StrictBinary(t, f[y], NodeValue(b, args, f))))
           => Agrees(n, c, BinaryNode(t, y, c), b)
<1>1. ASSUME NEW args, NEW h, NEW x, NEW z
      PROVE  NodeValue(BinaryNode(t, x, z), args, h) = StrictBinary(t, h[x], h[z])
  <2>1. PICK node : node = BinaryNode(t, x, z)
    OBVIOUS
  <2>2. node.type = t /\ node.left = x /\ node.right = z
    BY <2>1 DEF BinaryNode
  <2>. QED
    BY <2>1, <2>2 DEF NodeValue, BinaryTypes, AddSub, MulDiv
<1>2. ASSUME NEW args \in ArgValues, NEW f, f = NodeEval(nodes, args),
             NEW h, h = [f EXCEPT ![c] = NodeValue(b, args, f)]
      PROVE  h[c] = NodeValue(b, args, f) /\ h[y] = f[y]
  <2>1. DOMAIN f = Nodes
    BY <1>2, OldValues DEF Solves, Nodes
  <2>. QED
    BY <1>2, <2>1
<1>. QED
  BY <1>1, <1>2 DEF Agrees

LEMMA MergeAgrees ==
  ASSUME Types, Acyclic(nodes), NEW n, NEW c \in Nodes, NEW y \in Nodes, y # c,
         NEW t \in BinaryTypes, NEW v
  PROVE  /\ (\A args \in ArgValues :
                NodeEval(nodes, args)[n] = StrictBinary(t, v, NodeEval(nodes, args)[y]))
           => Agrees(n, c, BinaryNode(t, c, y), IntNode(v))
         /\ (\A args \in ArgValues :
                NodeEval(nodes, args)[n] = StrictBinary(t, NodeEval(nodes, args)[y], v))
           => Agrees(n, c, BinaryNode(t, y, c), IntNode(v))
BY BinaryAgrees, ConstantIs DEF FailsOrAgrees

LEMMA MoveAgrees ==
  ASSUME Types, Acyclic(nodes), NEW n, NEW c \in Nodes, NEW y \in Nodes, y # c,
         NEW t \in BinaryTypes, NEW u \in BinaryTypes, NEW p, NEW q,
         \A args \in ArgValues :
           NodeEval(nodes, args)[n]
             = StrictBinary(t, StrictBinary(u, NodeEval(nodes, args)[p], NodeEval(nodes, args)[q]),
                            NodeEval(nodes, args)[y])
  PROVE  Agrees(n, c, BinaryNode(t, c, y), BinaryNode(u, p, q))
<1>1. ASSUME NEW args, NEW h
      PROVE  NodeValue(BinaryNode(u, p, q), args, h) = StrictBinary(u, h[p], h[q])
  <2>1. PICK node : node = BinaryNode(u, p, q)
    OBVIOUS
  <2>2. node.type = u /\ node.left = p /\ node.right = q
    BY <2>1 DEF BinaryNode
  <2>. QED
    BY <2>1, <2>2 DEF NodeValue, BinaryTypes, AddSub, MulDiv
<1>. QED
  BY <1>1, BinaryAgrees DEF FailsOrAgrees

-----------------------------------------------------------------------------
(***************************************************************************)
(* The steps                                                               *)
(***************************************************************************)

\* The node becomes a copy of one of its children.
LEMMA CopyRearranges ==
  ASSUME IInv, NEW n, Running("optimize", n), NEW x \in Children(nodes[n]),
         Replace(n, nodes[x])
  PROVE  Rearranges(n, x, {x}, nodes[x], nodes[x])
<1>1. Types /\ Acyclic(nodes)
  BY ChildrenAre
<1>2. PICK T : IsTree(T) /\ n \in T
  BY ChildrenAre
<1>3. n \in Nodes /\ n \notin Children(nodes[n]) /\ Children(nodes[n]) \subseteq T
  BY <1>1, <1>2, NodeIsInTree
<1>4. x \in T /\ x # n
  BY <1>3
<1>5. /\ x \in Nodes /\ x \notin Children(nodes[x]) /\ IsNode(nodes[x], Len(nodes), ArgCount)
      /\ nodes[x].type \in BinaryTypes => nodes[x].left # nodes[x].right
  BY <1>1, <1>2, <1>4, NodeIsInTree
<1>6. nodes' = [nodes EXCEPT ![n] = nodes[x], ![x] = nodes[x]]
  BY <1>1, <1>3, <1>4, <1>5, ReplaceIs
<1>. QED
  BY <1>5, <1>6 DEF Rearranges, Owned

LEMMA CopyKeeps ==
  ASSUME IInv, NEW n, Running("optimize", n), NEW x \in Children(nodes[n]),
         Replace(n, nodes[x]), Return, UNCHANGED trapped
  PROVE  IInv'
<1>1. Types /\ Acyclic(nodes) /\ Optimized(x)
  BY ChildrenAre
<1>2. Rearranges(n, x, {x}, nodes[x], nodes[x])
  BY CopyRearranges
<1>3. n \in Nodes
  BY FieldsAre
<1>4. Optimized(n)'
  BY <1>1, <1>3, CopyIsOptimized DEF Replace
<1>. QED
  BY <1>2, <1>4, RewriteReturns

\* It computes the same if the child did.
LEMMA CopyAgrees ==
  ASSUME IInv, NEW n, Running("optimize", n), NEW x \in Children(nodes[n]),
         Replace(n, nodes[x]),
         \A args \in ArgValues :
           FailsOrAgrees(NodeEval(nodes, args)[n], NodeEval(nodes, args)[x])
  PROVE  SameValues
<1>1. Rearranges(n, x, {x}, nodes[x], nodes[x])
  BY CopyRearranges
<1>2. Types /\ Acyclic(nodes)
  BY ChildrenAre
<1>3. PICK T : IsTree(T) /\ n \in T
  BY ChildrenAre
<1>4. x \in T
  BY <1>2, <1>3, NodeIsInTree
<1>5. x \in Nodes /\ x \notin Children(nodes[x]) /\ IsNode(nodes[x], Len(nodes), ArgCount)
  BY <1>2, <1>3, <1>4, NodeIsInTree
<1>6. SUFFICES ASSUME NEW args \in ArgValues, NEW f, f = NodeEval(nodes, args),
                      NEW h, h = [f EXCEPT ![x] = NodeValue(nodes[x], args, f)]
               PROVE  FailsOrAgrees(f[n], NodeValue(nodes[x], args, h))
  BY <1>1, RewriteAgrees DEF Agrees
<1>7. Solves(nodes, args, f)
  BY <1>2, <1>6, OldValues
<1>8. \A j \in Children(nodes[x]) : h[j] = f[j]
  BY <1>5, <1>6
<1>9. NodeValue(nodes[x], args, h) = NodeValue(nodes[x], args, f)
  BY <1>5, <1>8, SameNodeValue
<1>10. NodeValue(nodes[x], args, f) = f[x]
  BY <1>5, <1>7 DEF Solves, Nodes
<1>. QED
  BY <1>6, <1>9, <1>10

\* The node becomes a constant, which is what it computed.
LEMMA ConstantKeeps ==
  ASSUME IInv, NEW n, Running("optimize", n), NEW x \in Children(nodes[n]), NEW v \in Long,
         Replace(n, IntNode(v)), Return, UNCHANGED trapped,
         \A args \in ArgValues : FailsOrAgrees(NodeEval(nodes, args)[n], v)
  PROVE  IInv' /\ SameValues
<1>1. Types /\ Acyclic(nodes)
  BY ChildrenAre
<1>2. PICK T : IsTree(T) /\ n \in T
  BY ChildrenAre
<1>3. n \in Nodes /\ n \notin Children(nodes[n]) /\ Children(nodes[n]) \subseteq T
  BY <1>1, <1>2, NodeIsInTree
<1>4. x \in T /\ x # n
  BY <1>3
<1>5. /\ x \in Nodes /\ x \notin Children(nodes[x]) /\ IsNode(nodes[x], Len(nodes), ArgCount)
      /\ nodes[x].type \in BinaryTypes => nodes[x].left # nodes[x].right
  BY <1>1, <1>2, <1>4, NodeIsInTree
<1>6. nodes' = [nodes EXCEPT ![n] = IntNode(v), ![x] = nodes[x]]
  BY <1>1, <1>3, <1>4, <1>5, ReplaceIs
<1>7. /\ IsNode(IntNode(v), Len(nodes), ArgCount)
      /\ Children(IntNode(v)) = {} /\ IntNode(v).type = "INT"
  BY <1>1, NewNodes
<1>8. Rearranges(n, x, {}, IntNode(v), nodes[x])
  BY <1>5, <1>6, <1>7 DEF Rearranges, Owned, BinaryTypes, AddSub, MulDiv
<1>9. Optimized(n)'
  <2>1. nodes'[n] = IntNode(v) /\ Nodes' = Nodes
    BY <1>8, RewritingKeeps
  <2>. QED
    BY <1>3, <2>1, ConstantIsOptimized
<1>10. Agrees(n, x, IntNode(v), nodes[x])
  <2>1. \A args, h : NodeValue(IntNode(v), args, h) = v
    BY ConstantIs
  <2>. QED
    BY <2>1 DEF Agrees
<1>11. IInv'
  BY <1>8, <1>9, RewriteReturns
<1>12. SameValues
  BY <1>8, <1>10, RewriteAgrees
<1>. QED
  BY <1>11, <1>12

\* The two children of a node, and theirs.
LEMMA PairIs ==
  ASSUME IInv, NEW n, Running("optimize", n),
         NEW c \in Children(nodes[n]), NEW d \in Children(nodes[n]), c # d
  PROVE  /\ n \in Nodes /\ c \in Nodes /\ d \in Nodes /\ n # c /\ n # d
         /\ Children(nodes[c]) \subseteq Nodes /\ Children(nodes[d]) \subseteq Nodes
         /\ c \notin Children(nodes[c]) /\ d \notin Children(nodes[d])
         /\ c \notin Children(nodes[d]) /\ d \notin Children(nodes[c])
<1>1. Types /\ Acyclic(nodes)
  BY ChildrenAre
<1>2. PICK T : IsTree(T) /\ n \in T
  BY ChildrenAre
<1>3. n \in Nodes /\ n \notin Children(nodes[n]) /\ Children(nodes[n]) \subseteq T
  BY <1>1, <1>2, NodeIsInTree
<1>4. c \in T /\ d \in T /\ c # n /\ d # n
  BY <1>3
<1>5. c \in Nodes /\ c \notin Children(nodes[c]) /\ Children(nodes[c]) \subseteq T
  BY <1>1, <1>2, <1>4, NodeIsInTree
<1>6. d \in Nodes /\ d \notin Children(nodes[d]) /\ Children(nodes[d]) \subseteq T
  BY <1>1, <1>2, <1>4, NodeIsInTree
<1>7. T \subseteq Nodes
  BY <1>2 DEF IsTree, Closed, Nodes
<1>8. c \notin Children(nodes[d]) /\ d \notin Children(nodes[c])
  BY <1>2, <1>4 DEF IsTree
<1>. QED
  BY <1>3, <1>4, <1>5, <1>6, <1>7, <1>8

\* Two constants become one: c holds it, and d, which was the parent of the
\* other one and of y, drops out.
LEMMA MergeKeeps ==
  ASSUME IInv, NEW n, Running("optimize", n),
         NEW c \in Children(nodes[n]), NEW d \in Children(nodes[n]), c # d,
         NEW y \in Children(nodes[d]), NEW t \in BinaryTypes,
         NEW a \in {BinaryNode(t, c, y), BinaryNode(t, y, c)}, NEW v \in Long,
         ReplaceBoth(n, a, c, IntNode(v)), Continue, UNCHANGED trapped,
         Agrees(n, c, a, IntNode(v))
  PROVE  IInv' /\ SameValues
<1>1. /\ n \in Nodes /\ c \in Nodes /\ d \in Nodes /\ n # c /\ n # d /\ y \in Nodes
      /\ d \notin Children(nodes[d]) /\ c \notin Children(nodes[d])
  BY PairIs
<1>2. /\ IsNode(a, Len(nodes), ArgCount) /\ Children(a) = {c, y}
      /\ a.type \in BinaryTypes => a.left # a.right
  <2>1. Types
    BY ChildrenAre
  <2>. QED
    BY <1>1, <2>1, NewNodes
<1>3. /\ IsNode(IntNode(v), Len(nodes), ArgCount)
      /\ Children(IntNode(v)) = {} /\ IntNode(v).type = "INT"
  BY ChildrenAre, NewNodes
<1>4. IntNode(v).type \notin BinaryTypes
  BY <1>3 DEF BinaryTypes, AddSub, MulDiv
<1>5. c \in Owned(n, c, {d}) /\ y \in Owned(n, c, {d})
  BY DEF Owned
<1>6. nodes' = [nodes EXCEPT ![n] = a, ![c] = IntNode(v)]
  BY DEF ReplaceBoth
<1>7. Rearranges(n, c, {d}, a, IntNode(v))
  BY <1>1, <1>2, <1>3, <1>4, <1>5, <1>6 DEF Rearranges
<1>8. Optimized(c)'
  <2>1. nodes'[c] = IntNode(v) /\ Nodes' = Nodes
    BY <1>7, RewritingKeeps
  <2>. QED
    BY <1>1, <2>1, ConstantIsOptimized
<1>9. IInv'
  BY <1>7, <1>8, RewriteContinues
<1>10. SameValues
  BY <1>7, RewriteAgrees
<1>. QED
  BY <1>9, <1>10

\* The child c exchanges its child y for the other child d of the node.
LEMMA MoveKeeps ==
  ASSUME IInv, NEW n, Running("optimize", n),
         NEW c \in Children(nodes[n]), NEW d \in Children(nodes[n]), c # d,
         NEW x \in Children(nodes[c]), NEW y \in Children(nodes[c]), x # y,
         NEW t \in BinaryTypes, NEW a \in {BinaryNode(t, c, y), BinaryNode(t, y, c)},
         NEW u \in BinaryTypes, NEW b \in {BinaryNode(u, x, d), BinaryNode(u, d, x)},
         ReplaceBoth(n, a, c, b), Redo(c), UNCHANGED trapped, Agrees(n, c, a, b)
  PROVE  IInv' /\ SameValues
<1>1. /\ n \in Nodes /\ c \in Nodes /\ d \in Nodes /\ n # c /\ n # d
      /\ x \in Nodes /\ y \in Nodes
      /\ c \notin Children(nodes[c]) /\ d \notin Children(nodes[c])
  BY PairIs
<1>2. Types
  BY ChildrenAre
<1>3. /\ IsNode(a, Len(nodes), ArgCount) /\ Children(a) = {c, y}
      /\ a.type \in BinaryTypes => a.left # a.right
  BY <1>1, <1>2, NewNodes
<1>4. /\ IsNode(b, Len(nodes), ArgCount) /\ Children(b) = {x, d}
      /\ b.type \in BinaryTypes => b.left # b.right
  BY <1>1, <1>2, NewNodes
<1>5. {c, d, x, y} \subseteq Owned(n, c, {})
  BY DEF Owned
<1>6. nodes' = [nodes EXCEPT ![n] = a, ![c] = b]
  BY DEF ReplaceBoth
<1>7. Rearranges(n, c, {}, a, b)
  BY <1>1, <1>3, <1>4, <1>5, <1>6 DEF Rearranges
<1>8. c \in Children(a)
  BY <1>3
<1>9. IInv'
  BY <1>7, <1>8, RewriteCalls
<1>10. SameValues
  BY <1>7, RewriteAgrees
<1>. QED
  BY <1>9, <1>10

\* Nothing is rewritten, and no call begins or ends.
LEMMA NothingMoves ==
  ASSUME IInv, nodes' = nodes, stack' = stack, trapped' \in BOOLEAN
  PROVE  Shape' /\ StaysOptimized'
<1>1. Types'
  <2>1. FrameRecord' = FrameRecord
    BY DEF FrameRecord, Nodes
  <2>. QED
    BY <2>1 DEF IInv, Shape, Types
<1>2. OnPath'
  BY DEF IInv, Shape, OnPath
<1>3. \E T : IsTree(T)' /\ \A k \in 1..Len(stack') : stack'[k].node \in T
  <2>1. PICK T : IsTree(T) /\ \A k \in 1..Len(stack) : stack[k].node \in T
    BY DEF IInv, Shape
  <2>2. IsTree(T)'
    BY <2>1 DEF IsTree
  <2>. QED
    BY <2>1, <2>2
<1>4. Shape'
  BY <1>1, <1>2, <1>3 DEF IInv, Shape
<1>5. \A m : Optimized(m) => Optimized(m)'
  BY StandingKeeps
<1>6. ASSUME NEW k \in 1..Len(stack'), NEW m \in DoneWith(k)'
      PROVE  Optimized(m)'
  <2>1. k \in 1..Len(stack) /\ m \in DoneWith(k)
    BY DEF DoneWith
  <2>. QED
    BY <1>5, <2>1 DEF IInv, StaysOptimized
<1>7. PICK root : root = Root(nodes)
  OBVIOUS
<1>8. (stack' = <<>> => Optimized(root)') /\ root = Root(nodes')
  BY <1>5, <1>7 DEF IInv, StaysOptimized
<1>9. StaysOptimized'
  BY <1>6, <1>8 DEF StaysOptimized
<1>. QED
  BY <1>4, <1>9

LEMMA WalkKeeps ==
  ASSUME IInv, NEW n, Walk(n)
  PROVE  IInv'
<1>1. /\ stack # <<>> /\ ~trapped /\ Top = Frame("walk", n) /\ Top.node = n
      /\ nodes' = nodes /\ trapped' = trapped
  BY DEF Walk, Running, Frame
<1>2. PICK T : Keeps(T) /\ (stack # <<>> => Closed(nodes, T) /\ Top.node \in T)
  BY <1>1, StandingKeeps
<1>3. n \in Nodes /\ Children(nodes[n]) \subseteq T
  BY <1>1, <1>2 DEF Closed, Nodes
<1>4. PICK l : l = nodes[n].left
  OBVIOUS
<1>5. /\ nodes[n].type \in NodeTypes
      /\ nodes[n].type \in BinaryTypes \cup {"INV"} => l \in Children(nodes[n])
      /\ nodes[n].type = "INV" => Children(nodes[n]) = {l}
      /\ nodes[n].type \in {"INT", "VAR"} => Children(nodes[n]) = {}
  BY <1>3, <1>4, NodesAre DEF IInv, Shape, Children, BinaryTypes, AddSub, MulDiv
<1>6. CASE nodes[n].type \in BinaryTypes
  <2>1. stack' = Callers \o <<Frame("walk_right", n), Frame("walk", l)>>
    BY <1>4, <1>6 DEF Walk, BinaryTypes, AddSub, MulDiv
  <2>2. Calls("walk_right", n, "walk", l)
    BY <1>1, <1>4, <1>6, <2>1 DEF Calls
  <2>3. l \in Children(nodes'[n]) /\ l \in T
    BY <1>1, <1>3, <1>5, <1>6
  <2>. QED
    BY <1>1, <1>2, <2>2, <2>3, CallKeeps
<1>7. CASE nodes[n].type = "INV"
  <2>1. stack' = Callers \o <<Frame("optimize", n), Frame("walk", l)>>
    BY <1>4, <1>7 DEF Walk, BinaryTypes, AddSub, MulDiv
  <2>2. Calls("optimize", n, "walk", l)
    BY <1>1, <1>5, <1>7, <2>1 DEF Calls
  <2>3. l \in Children(nodes'[n]) /\ l \in T
    BY <1>1, <1>3, <1>5, <1>7
  <2>. QED
    BY <1>1, <1>2, <2>2, <2>3, CallKeeps
<1>8. CASE nodes[n].type \in {"INT", "VAR"}
  <2>1. stack' = Append(Callers, Frame("optimize", n))
    BY <1>8 DEF Walk, BinaryTypes, AddSub, MulDiv
  <2>2. \A m \in Children(nodes'[n]) : Optimized(m)'
    BY <1>1, <1>5, <1>8
  <2>. QED
    BY <1>1, <1>2, <2>1, <2>2, StayKeeps
<1>. QED
  BY <1>5, <1>6, <1>7, <1>8 DEF NodeTypes

LEMMA WalkRightKeeps ==
  ASSUME IInv, NEW n, WalkRight(n)
  PROVE  IInv'
<1>1. /\ stack # <<>> /\ ~trapped /\ Top = Frame("walk_right", n) /\ Top.node = n
      /\ Top.pc = "walk_right" /\ nodes' = nodes /\ trapped' = trapped
  BY DEF WalkRight, Running, Frame
<1>2. PICK T : Keeps(T) /\ (stack # <<>> => Closed(nodes, T) /\ Top.node \in T)
  BY <1>1, StandingKeeps
<1>3. n \in Nodes /\ Children(nodes[n]) \subseteq T
  BY <1>1, <1>2 DEF Closed, Nodes
<1>4. PICK r : r = nodes[n].right
  OBVIOUS
<1>5. Len(stack) \in 1..Len(stack) /\ stack[Len(stack)] = Top /\ ~(Len(stack) < Len(stack))
  BY <1>1, TopIs DEF IInv, Top
<1>6. nodes[n].type \in BinaryTypes
  BY <1>1, <1>5 DEF IInv, Shape, OnPath
<1>7. Children(nodes[n]) = {nodes[n].left, r}
  BY <1>4, <1>6 DEF Children, BinaryTypes, AddSub, MulDiv
<1>8. Optimized(nodes[n].left)
  <2>1. DoneWith(Len(stack)) = {nodes[n].left}
    BY <1>1, <1>5 DEF DoneWith
  <2>. QED
    BY <1>5, <2>1 DEF IInv, StaysOptimized
<1>9. \A m \in Children(nodes'[n]) \ {r} : Optimized(m)'
  BY <1>1, <1>7, <1>8, StandingKeeps
<1>10. stack' = Callers \o <<Frame("optimize", n), Frame("walk", r)>>
  BY <1>4 DEF WalkRight
<1>11. Calls("optimize", n, "walk", r)
  BY <1>9, <1>10, Zenon DEF Calls
<1>12. r \in Children(nodes'[n]) /\ r \in T
  BY <1>1, <1>3, <1>7
<1>. QED
  BY <1>1, <1>2, <1>11, <1>12, CallKeeps

LEMMA FinishKeeps ==
  ASSUME IInv, NEW n, Finish(n)
  PROVE  IInv'
<1>1. /\ Running("optimize", n) /\ Rule(n) = "done" /\ nodes' = nodes /\ trapped' = trapped
      /\ stack' = Callers
  BY DEF Finish, Takes, Return
<1>2. stack # <<>> /\ ~trapped /\ Top.node = n /\ n \in Nodes
  BY <1>1, FramesAre
<1>3. PICK T : Keeps(T)
  BY <1>1, StandingKeeps
<1>4. Optimized(n)
  BY <1>1, <1>2, ChildrenAre, ParentIsOptimized
<1>5. Optimized(n)'
  BY <1>1, <1>4, StandingKeeps
<1>. QED
  BY <1>1, <1>2, <1>3, <1>5, ReturnKeeps

\* What the branches that are taken tell about the node.
LEMMA SumRuleTells ==
  ASSUME NEW n, nodes[n].type \in AddSub
  PROVE  /\ Rule(n) = SumRule(n)
         /\ Rule(n) = "fold" => IsInt(nodes[n].left) /\ IsInt(nodes[n].right)
         /\ Rule(n) = "merge_left" =>
              IsInt(nodes[n].left) /\ Right(n).type \in AddSub /\ HasInt(Right(n))
         /\ Rule(n) = "merge_right" =>
              IsInt(nodes[n].right) /\ Left(n).type \in AddSub /\ HasInt(Left(n))
         /\ Rule(n) = "rotate" => Right(n).type \in AddSub
         /\ Rule(n) = "lift" =>
              /\ Left(n).type \in AddSub
              /\ IsInt(Left(n).left) /\ ~IsInt(Left(n).right) => Left(n).type = "ADD"
              /\ IsInt(Left(n).left) \/ IsInt(Left(n).right)
         /\ Rule(n) = "zero_left" => IsIntOf(nodes[n].left, 0)
         /\ Rule(n) = "take_left" => IsIntOf(nodes[n].right, 0)
         /\ Rule(n) = "x_minus_x" => nodes[n].type = "SUB" /\ SameVars(n)
         /\ Rule(n) \notin {"zero", "x_by_x", "take_right"}
<1>1. Rule(n) = SumRule(n)
  BY DEF Rule, AddSub, MulDiv
<1>2. SumRule(n) = "fold" => IsInt(nodes[n].left) /\ IsInt(nodes[n].right)
  BY DEF SumRule
<1>3. SumRule(n) = "merge_left" =>
        IsInt(nodes[n].left) /\ Right(n).type \in AddSub /\ HasInt(Right(n))
  BY DEF SumRule
<1>4. SumRule(n) = "merge_right" =>
        IsInt(nodes[n].right) /\ Left(n).type \in AddSub /\ HasInt(Left(n))
  BY DEF SumRule
<1>5. SumRule(n) = "rotate" => Right(n).type \in AddSub
  BY DEF SumRule
<1>6. SumRule(n) = "lift" =>
        /\ Left(n).type \in AddSub
        /\ IsInt(Left(n).left) /\ ~IsInt(Left(n).right) => Left(n).type = "ADD"
        /\ IsInt(Left(n).left) \/ IsInt(Left(n).right)
  BY DEF SumRule
<1>7. SumRule(n) = "zero_left" => IsIntOf(nodes[n].left, 0)
  BY DEF SumRule
<1>8. SumRule(n) = "take_left" => IsIntOf(nodes[n].right, 0)
  BY DEF SumRule
<1>9. SumRule(n) = "x_minus_x" => nodes[n].type = "SUB" /\ SameVars(n)
  BY DEF SumRule
<1>10. SumRule(n) \notin {"zero", "x_by_x", "take_right"}
  BY DEF SumRule
<1>. QED
  BY <1>1, <1>2, <1>3, <1>4, <1>5, <1>6, <1>7, <1>8, <1>9, <1>10

LEMMA ProductRuleTells ==
  ASSUME NEW n, nodes[n].type \in MulDiv
  PROVE  /\ Rule(n) = ProductRule(n)
         /\ Rule(n) = "fold" => FoldsProduct(n)
         /\ Rule(n) = "merge_left" =>
              IsInt(nodes[n].left) /\ Right(n).type = "MUL" /\ HasInt(Right(n))
         /\ Rule(n) = "merge_right" =>
              IsInt(nodes[n].right) /\ Left(n).type = "MUL" /\ HasInt(Left(n))
         /\ Rule(n) = "rotate" => Right(n).type = "MUL"
         /\ Rule(n) = "lift" => Left(n).type = "MUL" /\ HasInt(Left(n))
         /\ Rule(n) = "zero" =>
              \/ IsIntOf(nodes[n].left, 0)
              \/ nodes[n].type = "MUL" /\ IsIntOf(nodes[n].right, 0)
         /\ Rule(n) = "take_left" => nodes[n].type = "MUL" /\ IsIntOf(nodes[n].right, 1)
         /\ Rule(n) = "take_right" => nodes[n].type = "MUL" /\ IsIntOf(nodes[n].left, 1)
         /\ Rule(n) = "x_by_x" => nodes[n].type = "DIV" /\ SameVars(n)
         /\ Rule(n) \notin {"zero_left", "x_minus_x"}
<1>1. Rule(n) = ProductRule(n)
  BY DEF Rule, AddSub, MulDiv
<1>2. nodes[n].type # "MUL" => nodes[n].type = "DIV"
  BY DEF MulDiv
<1>3. /\ ProductRule(n) = "fold" => FoldsProduct(n)
      /\ ProductRule(n) = "merge_left" =>
           IsInt(nodes[n].left) /\ Right(n).type = "MUL" /\ HasInt(Right(n))
      /\ ProductRule(n) = "merge_right" =>
           IsInt(nodes[n].right) /\ Left(n).type = "MUL" /\ HasInt(Left(n))
      /\ ProductRule(n) = "rotate" => Right(n).type = "MUL"
      /\ ProductRule(n) = "lift" => Left(n).type = "MUL" /\ HasInt(Left(n))
  BY DEF ProductRule
<1>4. /\ ProductRule(n) = "zero" =>
           \/ IsIntOf(nodes[n].left, 0)
           \/ nodes[n].type = "MUL" /\ IsIntOf(nodes[n].right, 0)
      /\ ProductRule(n) = "take_left" => nodes[n].type = "MUL" /\ IsIntOf(nodes[n].right, 1)
      /\ ProductRule(n) = "take_right" => nodes[n].type = "MUL" /\ IsIntOf(nodes[n].left, 1)
      /\ ProductRule(n) = "x_by_x" => nodes[n].type = "DIV" /\ SameVars(n)
      /\ ProductRule(n) \notin {"zero_left", "x_minus_x"}
  BY <1>2 DEF ProductRule
<1>. QED
  BY <1>1, <1>3, <1>4

LEMMA FoldBinaryKeeps ==
  ASSUME IInv, NEW n, FoldBinary(n)
  PROVE  IInv' /\ (nodes' = nodes \/ SameValues)
<1>1. Running("optimize", n) /\ nodes[n].type \in BinaryTypes /\ Rule(n) = "fold"
  BY DEF FoldBinary, Takes
<1>2. /\ IsInt(nodes[n].left) /\ IsInt(nodes[n].right)
      /\ nodes[n].type = "DIV" => Right(n).num # 0
  BY <1>1, SumRuleTells, ProductRuleTells DEF BinaryTypes, FoldsProduct, AddSub, MulDiv
<1>3. /\ n \in Nodes /\ nodes[n].left \in Nodes /\ nodes[n].right \in Nodes
      /\ nodes[n].left \in Children(nodes[n])
      /\ Left(n).num \in Long /\ Right(n).num \in Long
  BY <1>1, <1>2, FieldsAre DEF IsInt, Left, Right
<1>4. PICK l, value : /\ l = nodes[n].left
                      /\ value = Binary(nodes[n].type, Left(n).num, Right(n).num)
  OBVIOUS
<1>5. CASE value = TRAP
  <2>1. nodes' = nodes /\ stack' = stack /\ trapped' = TRUE
    BY <1>4, <1>5 DEF FoldBinary
  <2>2. Shape' /\ StaysOptimized'
    BY <2>1, NothingMoves
  <2>3. nodes[n].type = "DIV" /\ Left(n).num = LONG_MIN /\ Right(n).num = -1
    <3>1. TRAP \notin Long
      BY LongIs
    <3>2. nodes[n].type = "DIV"
      BY <1>1, <1>3, <1>4, <1>5, <3>1, BinaryIsValue
    <3>3. Binary("DIV", Left(n).num, Right(n).num) = Divide(Left(n).num, Right(n).num)
      BY DEF Binary
    <3>4. Divide(Left(n).num, Right(n).num) \in Long
            \/ (Left(n).num = LONG_MIN /\ Right(n).num = -1)
      BY <1>2, <1>3, <3>2, QuotientIsLong DEF Divide
    <3>. QED
      BY <1>4, <1>5, <3>1, <3>2, <3>3, <3>4
  <2>4. stack # <<>> /\ Top.node = n
    BY <1>1, FramesAre
  <2>5. TrapIsOverflow'
    BY <2>1, <2>3, <2>4 DEF TrapIsOverflow, Top, Left, Right
  <2>. QED
    BY <2>1, <2>2, <2>5 DEF IInv
<1>6. CASE value # TRAP
  <2>1. Replace(n, IntNode(value)) /\ Return /\ UNCHANGED trapped
    BY <1>4, <1>6 DEF FoldBinary
  <2>2. value \in Long
    BY <1>1, <1>3, <1>4, <1>6, BinaryIsValue DEF Value
  <2>3. ASSUME NEW args \in ArgValues, NEW f, f = NodeEval(nodes, args)
        PROVE  FailsOrAgrees(f[n], value)
    <3>1. f[nodes[n].left] = Left(n).num /\ f[nodes[n].right] = Right(n).num
      BY <1>1, <1>2, <1>3, <2>3, ValuesAre DEF IsInt, Left, Right
    <3>2. f[n] = StrictBinary(nodes[n].type, Left(n).num, Right(n).num)
      BY <1>1, <1>3, <2>3, <3>1, ValuesAre
    <3>. QED
      BY <1>3, <1>4, <3>2, StrictIs DEF FailsOrAgrees
  <2>. QED
    BY <1>1, <1>3, <2>1, <2>2, <2>3, ConstantKeeps
<1>. QED
  BY <1>5, <1>6

LEMMA CopyingKeeps ==
  ASSUME IInv, NEW n,
         CollapseDoubleInv(n) \/ TakeLeft(n) \/ ZeroPlus(n) \/ OneTimes(n)
  PROVE  IInv'
<1>1. PICK l, r : l = nodes[n].left /\ r = nodes[n].right
  OBVIOUS
<1>2. CASE CollapseDoubleInv(n) \/ TakeLeft(n)
  <2>1. /\ Running("optimize", n) /\ nodes[n].type \in BinaryTypes \cup {"INV"}
        /\ Replace(n, nodes[l]) /\ Return /\ UNCHANGED trapped
    BY <1>1, <1>2 DEF CollapseDoubleInv, TakeLeft, Takes, Left
  <2>2. l \in Children(nodes[n])
    BY <1>1, <2>1, FieldsAre
  <2>. QED
    BY <2>1, <2>2, CopyKeeps
<1>3. CASE ZeroPlus(n) \/ OneTimes(n)
  <2>1. /\ Running("optimize", n) /\ nodes[n].type \in BinaryTypes
        /\ Replace(n, nodes[r]) /\ Return /\ UNCHANGED trapped
    BY <1>1, <1>3 DEF ZeroPlus, OneTimes, Takes, Right, BinaryTypes, AddSub, MulDiv
  <2>2. r \in Children(nodes[n])
    BY <1>1, <2>1, FieldsAre
  <2>. QED
    BY <2>1, <2>2, CopyKeeps
<1>. QED
  BY <1>2, <1>3

LEMMA CopyingAgrees ==
  ASSUME IInv, NEW n, TakeLeft(n) \/ ZeroPlus(n) \/ OneTimes(n)
  PROVE  SameValues
<1>1. PICK l, r : l = nodes[n].left /\ r = nodes[n].right
  OBVIOUS
<1>2. /\ Running("optimize", n) /\ nodes[n].type \in BinaryTypes
      /\ Rule(n) \in {"take_left", "zero_left", "take_right"}
  BY DEF TakeLeft, ZeroPlus, OneTimes, Takes, BinaryTypes, AddSub, MulDiv
<1>3. /\ n \in Nodes /\ l \in Nodes /\ r \in Nodes
      /\ l \in Children(nodes[n]) /\ r \in Children(nodes[n])
  BY <1>1, <1>2, FieldsAre
<1>4. ASSUME NEW args \in ArgValues, NEW f, f = NodeEval(nodes, args)
      PROVE  /\ f[n] = StrictBinary(nodes[n].type, f[l], f[r]) /\ f[l] \in Value /\ f[r] \in Value
             /\ (IsIntOf(l, 0) => f[l] = 0) /\ (IsIntOf(l, 1) => f[l] = 1)
             /\ (IsIntOf(r, 0) => f[r] = 0) /\ (IsIntOf(r, 1) => f[r] = 1)
  BY <1>1, <1>2, <1>3, <1>4, ValuesAre DEF IsIntOf, IsInt
<1>5. CASE TakeLeft(n)
  <2>1. Replace(n, nodes[l]) /\ Rule(n) = "take_left"
    BY <1>1, <1>5 DEF TakeLeft, Takes, Left
  <2>2. \/ nodes[n].type = "ADD" /\ IsIntOf(r, 0)
        \/ nodes[n].type = "SUB" /\ IsIntOf(r, 0)
        \/ nodes[n].type = "MUL" /\ IsIntOf(r, 1)
    <3>1. CASE nodes[n].type \in AddSub
      BY <1>1, <2>1, <3>1, SumRuleTells DEF AddSub
    <3>2. CASE nodes[n].type \in MulDiv
      BY <1>1, <2>1, <3>2, ProductRuleTells
    <3>. QED
      BY <1>2, <3>1, <3>2 DEF BinaryTypes
  <2>3. \A args \in ArgValues : FailsOrAgrees(NodeEval(nodes, args)[n], NodeEval(nodes, args)[l])
    <3>1. SUFFICES ASSUME NEW args \in ArgValues, NEW f, f = NodeEval(nodes, args)
                   PROVE  f[n] = f[l]
      BY DEF FailsOrAgrees
    <3>2. /\ f[n] = StrictBinary(nodes[n].type, f[l], f[r]) /\ f[l] \in Value
          /\ (IsIntOf(r, 0) => f[r] = 0) /\ (IsIntOf(r, 1) => f[r] = 1)
      BY <1>4, <3>1
    <3>. QED
      BY <2>2, <3>2, NeutralOperands
  <2>. QED
    BY <1>2, <1>3, <2>1, <2>3, CopyAgrees
<1>6. CASE ZeroPlus(n) \/ OneTimes(n)
  <2>1. Replace(n, nodes[r])
    BY <1>1, <1>6 DEF ZeroPlus, OneTimes, Right
  <2>2. \/ nodes[n].type = "ADD" /\ IsIntOf(l, 0)
        \/ nodes[n].type = "MUL" /\ IsIntOf(l, 1)
    <3>1. CASE ZeroPlus(n)
      BY <1>1, <3>1, SumRuleTells DEF ZeroPlus, Takes, AddSub
    <3>2. CASE OneTimes(n)
      BY <1>1, <3>2, ProductRuleTells DEF OneTimes, Takes, MulDiv
    <3>. QED
      BY <1>6, <3>1, <3>2
  <2>3. \A args \in ArgValues : FailsOrAgrees(NodeEval(nodes, args)[n], NodeEval(nodes, args)[r])
    <3>1. SUFFICES ASSUME NEW args \in ArgValues, NEW f, f = NodeEval(nodes, args)
                   PROVE  f[n] = f[r]
      BY DEF FailsOrAgrees
    <3>2. /\ f[n] = StrictBinary(nodes[n].type, f[l], f[r]) /\ f[r] \in Value
          /\ (IsIntOf(l, 0) => f[l] = 0) /\ (IsIntOf(l, 1) => f[l] = 1)
      BY <1>4, <3>1
    <3>. QED
      BY <2>2, <3>2, NeutralOperands
  <2>. QED
    BY <1>2, <1>3, <2>1, <2>3, CopyAgrees
<1>. QED
  BY <1>5, <1>6

LEMMA ConstantsKeep ==
  ASSUME IInv, NEW n, FoldInv(n) \/ TakeConstant(n)
  PROVE  IInv' /\ SameValues
<1>1. PICK l : l = nodes[n].left
  OBVIOUS
<1>2. CASE FoldInv(n)
  <2>1. /\ Running("optimize", n) /\ nodes[n].type = "INV" /\ Rule(n) = "fold"
    BY <1>2 DEF FoldInv, Takes
  <2>2. Left(n).type = "INT"
    BY <2>1 DEF Rule, InvRule, AddSub, MulDiv
  <2>3. l \in Children(nodes[n]) /\ l \in Nodes /\ n \in Nodes
    BY <1>1, <2>1, FieldsAre
  <2>4. Left(n).num \in Long
    BY <1>1, <2>1, <2>2, <2>3, FieldsAre DEF Left
  <2>5. PICK v : v = Negate(Left(n).num)
    OBVIOUS
  <2>6. v \in Long
    BY <2>4, <2>5, NegateIsLong
  <2>7. Replace(n, IntNode(v)) /\ Return /\ UNCHANGED trapped
    BY <1>2, <2>5 DEF FoldInv
  <2>8. \A args \in ArgValues : FailsOrAgrees(NodeEval(nodes, args)[n], v)
    <3>1. SUFFICES ASSUME NEW args \in ArgValues, NEW f, f = NodeEval(nodes, args)
                   PROVE  f[n] = v
      BY DEF FailsOrAgrees
    <3>2. f[n] = StrictNegate(f[l]) /\ f[l] = Left(n).num
      BY <1>1, <2>1, <2>2, <2>3, <3>1, ValuesAre DEF Left
    <3>. QED
      BY <2>4, <2>5, <3>2, StrictIs
  <2>. QED
    BY <2>1, <2>3, <2>6, <2>7, <2>8, ConstantKeeps
<1>3. CASE TakeConstant(n)
  <2>1. PICK v : /\ Replace(n, IntNode(v)) /\ Rule(n) \in {"x_minus_x", "zero", "x_by_x"}
                 /\ v = IF Rule(n) = "x_by_x" THEN 1 ELSE 0
    BY <1>3 DEF TakeConstant, Takes
  <2>2. /\ Running("optimize", n) /\ nodes[n].type \in BinaryTypes
        /\ Return /\ UNCHANGED trapped
    BY <1>3 DEF TakeConstant, Takes
  <2>3. PICK r : r = nodes[n].right
    OBVIOUS
  <2>4. n \in Nodes /\ l \in Nodes /\ r \in Nodes /\ l \in Children(nodes[n])
    BY <1>1, <2>2, <2>3, FieldsAre
  <2>5. v \in Long
    BY <2>1, LongIs
  <2>6. \/ nodes[n].type = "SUB" /\ SameVars(n) /\ v = 0
        \/ nodes[n].type \in MulDiv /\ IsIntOf(l, 0) /\ v = 0
        \/ nodes[n].type = "MUL" /\ IsIntOf(r, 0) /\ v = 0
        \/ nodes[n].type = "DIV" /\ SameVars(n) /\ v = 1
    <3>1. CASE nodes[n].type \in AddSub
      BY <2>1, <3>1, SumRuleTells
    <3>2. CASE nodes[n].type \in MulDiv
      BY <1>1, <2>1, <2>3, <3>2, ProductRuleTells
    <3>. QED
      BY <2>2, <3>1, <3>2 DEF BinaryTypes
  <2>7. \A args \in ArgValues : FailsOrAgrees(NodeEval(nodes, args)[n], v)
    <3>1. SUFFICES ASSUME NEW args \in ArgValues, NEW f, f = NodeEval(nodes, args)
                   PROVE  FailsOrAgrees(f[n], v)
      OBVIOUS
    <3>2. f[n] = StrictBinary(nodes[n].type, f[l], f[r]) /\ f[l] \in Value /\ f[r] \in Value
      BY <1>1, <2>2, <2>3, <2>4, <3>1, ValuesAre
    <3>3. SameVars(n) => f[l] = f[r]
      BY <1>1, <2>2, <2>3, <2>4, <3>1, ValuesAre DEF SameVars, Left, Right
    <3>4. (IsIntOf(l, 0) => f[l] = 0) /\ (IsIntOf(r, 0) => f[r] = 0)
      BY <2>2, <2>4, <3>1, ValuesAre DEF IsIntOf, IsInt
    <3>. QED
      BY <2>6, <3>2, <3>3, <3>4, FixedResults DEF MulDiv
  <2>. QED
    BY <2>1, <2>2, <2>4, <2>5, <2>7, ConstantKeeps
<1>. QED
  BY <1>2, <1>3

LEMMA ZeroMinusKeeps ==
  ASSUME IInv, NEW n, ZeroMinus(n)
  PROVE  IInv' /\ SameValues
<1>1. /\ Running("optimize", n) /\ nodes[n].type \in BinaryTypes
      /\ Continue /\ UNCHANGED trapped
  BY DEF ZeroMinus, Takes, BinaryTypes, AddSub
<1>2. PICK l, r : l = nodes[n].left /\ r = nodes[n].right
  OBVIOUS
<1>3. Replace(n, InvNode(r))
  BY <1>2 DEF ZeroMinus
<1>4. /\ n \in Nodes /\ l \in Nodes /\ r \in Nodes /\ l # r /\ Children(nodes[n]) = {l, r}
      /\ nodes[l].type \in BinaryTypes => nodes[l].left # nodes[l].right
  BY <1>1, <1>2, FieldsAre, SMTT(30)
<1>5. /\ n # l /\ l \notin Children(nodes[l]) /\ r \notin Children(nodes[l])
  BY <1>1, <1>4, PairIs
<1>6. Types
  BY <1>1, ChildrenAre
<1>7. /\ IsNode(InvNode(r), Len(nodes), ArgCount) /\ Children(InvNode(r)) = {r}
      /\ InvNode(r).type \notin BinaryTypes /\ IsNode(nodes[l], Len(nodes), ArgCount)
  BY <1>4, <1>6, NewNodes, NodesAre DEF BinaryTypes, AddSub, MulDiv
<1>8. nodes' = [nodes EXCEPT ![n] = InvNode(r), ![l] = nodes[l]]
  BY <1>3, <1>4, <1>5, <1>6, ReplaceIs
<1>9. Rearranges(n, l, {}, InvNode(r), nodes[l])
  BY <1>4, <1>5, <1>7, <1>8 DEF Rearranges, Owned
<1>10. l \notin Children(InvNode(r))
  BY <1>4, <1>7
<1>11. IInv'
  BY <1>1, <1>9, <1>10, RewriteContinues
<1>12. Agrees(n, l, InvNode(r), nodes[l])
  <2>1. SUFFICES ASSUME NEW args \in ArgValues, NEW f, f = NodeEval(nodes, args),
                        NEW h, h = [f EXCEPT ![l] = NodeValue(nodes[l], args, f)]
                 PROVE  f[n] = NodeValue(InvNode(r), args, h)
    BY DEF Agrees, FailsOrAgrees
  <2>2. h[r] = f[r]
    BY <1>4, <2>1
  <2>3. InvNode(r).type = "INV" /\ InvNode(r).left = r
    BY DEF InvNode
  <2>4. NodeValue(InvNode(r), args, h) = StrictNegate(f[r])
    BY <2>2, <2>3 DEF NodeValue, BinaryTypes, AddSub, MulDiv
  <2>5. nodes[n].type = "SUB" /\ Rule(n) = "zero_left"
    BY DEF ZeroMinus, Takes
  <2>6. IsIntOf(l, 0)
    BY <1>2, <2>5, SumRuleTells DEF AddSub
  <2>7. f[n] = StrictBinary("SUB", f[l], f[r]) /\ f[l] = 0 /\ f[r] \in Value
    BY <1>1, <1>2, <1>4, <2>1, <2>5, <2>6, ValuesAre DEF IsIntOf, IsInt
  <2>. QED
    BY <2>4, <2>7, NeutralOperands
<1>13. SameValues
  BY <1>1, <1>9, <1>12, RewriteAgrees
<1>. QED
  BY <1>11, <1>13

\* The branches that move constants together.
LEMMA MergeSumKeeps ==
  ASSUME IInv, NEW n, MergeLeftSum(n) \/ MergeRightSum(n)
  PROVE  IInv' /\ SameValues
<1>1. /\ Running("optimize", n) /\ nodes[n].type \in AddSub /\ nodes[n].type \in BinaryTypes
  BY DEF MergeLeftSum, MergeRightSum, Takes, BinaryTypes
<1>2. PICK l, r : l = nodes[n].left /\ r = nodes[n].right
  OBVIOUS
<1>3. l \in Children(nodes[n]) /\ r \in Children(nodes[n]) /\ l # r /\ l \in Nodes /\ r \in Nodes
  BY <1>1, <1>2, FieldsAre
<1>4. \A x \in {l, r} : nodes[x].type \in AddSub =>
        /\ nodes[x].left \in Children(nodes[x]) /\ nodes[x].right \in Children(nodes[x])
        /\ nodes[x].left \in Nodes /\ nodes[x].right \in Nodes
  BY <1>1, <1>3, FieldsAre DEF BinaryTypes
<1>5. \A x \in Nodes : IsInt(x) => nodes[x].num \in Long
  BY <1>1, FieldsAre DEF IsInt
<1>6. ASSUME NEW args \in ArgValues, NEW f, f = NodeEval(nodes, args)
      PROVE  /\ f[n] = StrictBinary(nodes[n].type, f[l], f[r])
             /\ \A x \in {l, r} : nodes[x].type \in AddSub =>
                  f[x] = StrictBinary(nodes[x].type, f[nodes[x].left], f[nodes[x].right])
             /\ \A x \in Nodes : f[x] \in Value /\ (IsInt(x) => f[x] = nodes[x].num)
  BY <1>1, <1>2, <1>3, <1>6, ValuesAre, FieldsAre DEF IsInt, BinaryTypes
<1>7. /\ \A y \in Children(nodes[r]) : y # l
      /\ \A x \in Children(nodes[l]) : x # r
  BY <1>1, <1>3, PairIs
<1>8. Types /\ Acyclic(nodes) /\ \A v \in Long : v \in Value
  BY <1>1, ChildrenAre DEF Value
<1>9. CASE MergeLeftSum(n)
  <2>1. Rule(n) = "merge_left" /\ Continue /\ UNCHANGED trapped
    BY <1>9 DEF MergeLeftSum, Takes
  <2>2. IsInt(l) /\ nodes[r].type \in AddSub /\ HasInt(nodes[r])
    BY <1>1, <1>2, <2>1, SumRuleTells DEF Right
  <2>3. PICK x, y, sign : /\ x = nodes[r].left /\ y = nodes[r].right
                          /\ sign = SignProduct(nodes[n].type, nodes[r].type)
    OBVIOUS
  <2>4. x \in Children(nodes[r]) /\ y \in Children(nodes[r]) /\ x \in Nodes /\ y \in Nodes
    BY <1>4, <2>2, <2>3
  <2>5. sign \in BinaryTypes
    BY <2>3 DEF SignProduct, BinaryTypes, AddSub
  <2>6. CASE IsInt(x)
    <3>1. PICK v : v = Binary(nodes[n].type, nodes[l].num, nodes[x].num)
      OBVIOUS
    <3>2. v \in Long
      BY <1>1, <1>3, <1>5, <2>2, <2>4, <2>6, <3>1, BinaryIsValue DEF AddSub
    <3>3. ReplaceBoth(n, BinaryNode(sign, l, y), l, IntNode(v))
      BY <1>2, <1>9, <2>3, <2>6, <3>1 DEF MergeLeftSum, Left, Right
    <3>4. ASSUME NEW args \in ArgValues, NEW f, f = NodeEval(nodes, args)
          PROVE  f[n] = StrictBinary(sign, v, f[y])
      <4>1. f[n] = StrictBinary(nodes[n].type, f[l], StrictBinary(nodes[r].type, f[x], f[y]))
        BY <1>6, <2>2, <2>3, <3>4
      <4>2. f[l] \in Value /\ f[x] \in Value /\ f[y] \in Value
        BY <1>3, <1>6, <2>4, <3>4
      <4>3. f[n] = StrictBinary(sign, StrictBinary(nodes[n].type, f[l], f[x]), f[y])
        BY <1>1, <2>2, <2>3, <4>1, <4>2, StrictSumOnTheRight
      <4>4. f[l] = nodes[l].num /\ f[x] = nodes[x].num /\ f[l] \in Long /\ f[x] \in Long
        BY <1>3, <1>5, <1>6, <2>2, <2>4, <2>6, <3>4
      <4>. QED
        BY <3>1, <4>3, <4>4, StrictIs
    <3>5. Agrees(n, l, BinaryNode(sign, l, y), IntNode(v))
      BY <1>3, <1>7, <1>8, <2>4, <2>5, <3>4, MergeAgrees
    <3>. QED
      BY <1>1, <1>3, <2>1, <2>4, <2>5, <3>2, <3>3, <3>5, MergeKeeps
  <2>7. CASE ~IsInt(x)
    <3>1. PICK v, t : /\ t = nodes[n].type
                      /\ v = Binary(sign, nodes[l].num, nodes[y].num)
      OBVIOUS
    <3>2. v \in Long
      <4>1. IsInt(y) /\ sign # "DIV"
        BY <2>2, <2>3, <2>7 DEF HasInt, SignProduct
      <4>. QED
        BY <1>3, <1>5, <2>2, <2>4, <2>5, <3>1, <4>1, BinaryIsValue
    <3>3. ReplaceBoth(n, BinaryNode(t, l, x), l, IntNode(v))
      BY <1>2, <1>9, <2>3, <2>7, <3>1 DEF MergeLeftSum, Left, Right
    <3>4. ASSUME NEW args \in ArgValues, NEW f, f = NodeEval(nodes, args)
          PROVE  f[n] = StrictBinary(t, v, f[x])
      <4>1. f[n] = StrictBinary(t, f[l], StrictBinary(nodes[r].type, f[x], f[y]))
        BY <1>6, <2>2, <2>3, <3>1, <3>4
      <4>2. f[l] \in Value /\ f[x] \in Value /\ f[y] \in Value
        BY <1>3, <1>6, <2>4, <3>4
      <4>3. f[n] = StrictBinary(t, StrictBinary(sign, f[l], f[y]), f[x])
        BY <1>1, <2>2, <2>3, <3>1, <4>1, <4>2, StrictSumOnTheRight
      <4>4. f[l] = nodes[l].num /\ f[y] = nodes[y].num /\ f[l] \in Long /\ f[y] \in Long
        <5>1. IsInt(y)
          BY <2>2, <2>3, <2>7 DEF HasInt
        <5>. QED
          BY <1>3, <1>5, <1>6, <2>2, <2>4, <3>4, <5>1
      <4>. QED
        BY <3>1, <4>3, <4>4, StrictIs
    <3>5. Agrees(n, l, BinaryNode(t, l, x), IntNode(v))
      BY <1>1, <1>3, <1>7, <1>8, <2>4, <3>1, <3>4, MergeAgrees
    <3>. QED
      BY <1>1, <1>3, <2>1, <2>4, <3>1, <3>2, <3>3, <3>5, MergeKeeps
  <2>. QED
    BY <2>6, <2>7
<1>10. CASE MergeRightSum(n)
  <2>1. Rule(n) = "merge_right" /\ Continue /\ UNCHANGED trapped
    BY <1>10 DEF MergeRightSum, Takes
  <2>2. IsInt(r) /\ nodes[l].type \in AddSub /\ HasInt(nodes[l])
    BY <1>1, <1>2, <2>1, SumRuleTells DEF Left
  <2>3. PICK x, y : x = nodes[l].left /\ y = nodes[l].right
    OBVIOUS
  <2>4. x \in Children(nodes[l]) /\ y \in Children(nodes[l]) /\ x \in Nodes /\ y \in Nodes
    BY <1>4, <2>2, <2>3
  <2>5. CASE IsInt(y)
    <3>1. PICK v, signed : /\ signed = IF nodes[l].type = "SUB" THEN Negate(nodes[y].num) ELSE nodes[y].num
                           /\ v = Binary(nodes[n].type, signed, nodes[r].num)
      OBVIOUS
    <3>2. signed \in Long
      BY <1>5, <2>4, <2>5, <3>1, NegateIsLong
    <3>3. v \in Long
      BY <1>1, <1>3, <1>5, <2>2, <3>1, <3>2, BinaryIsValue DEF AddSub
    <3>4. ReplaceBoth(n, BinaryNode("ADD", x, r), r, IntNode(v))
      BY <1>2, <1>10, <2>3, <2>5, <3>1 DEF MergeRightSum, Left, Right
    <3>5. "ADD" \in BinaryTypes
      BY DEF BinaryTypes, AddSub
    <3>6. ASSUME NEW args \in ArgValues, NEW f, f = NodeEval(nodes, args)
          PROVE  f[n] = StrictBinary("ADD", f[x], v)
      <4>1. f[n] = StrictBinary(nodes[n].type, StrictBinary(nodes[l].type, f[x], f[y]), f[r])
        BY <1>6, <2>2, <2>3, <3>6
      <4>2. f[r] \in Value /\ f[x] \in Value /\ f[y] \in Value
        BY <1>3, <1>6, <2>4, <3>6
      <4>3. PICK w : w = IF nodes[l].type = "SUB" THEN StrictNegate(f[y]) ELSE f[y]
        OBVIOUS
      <4>4. f[n] = StrictBinary("ADD", f[x], StrictBinary(nodes[n].type, w, f[r]))
        BY <1>1, <2>2, <4>1, <4>2, <4>3, StrictSumOnTheLeft DEF AddSub
      <4>5. f[r] = nodes[r].num /\ f[y] = nodes[y].num /\ f[r] \in Long /\ f[y] \in Long
        BY <1>3, <1>5, <1>6, <2>2, <2>4, <2>5, <3>6
      <4>6. w = signed
        BY <3>1, <4>3, <4>5, StrictIs
      <4>. QED
        BY <3>1, <3>2, <4>4, <4>5, <4>6, StrictIs
    <3>7. Agrees(n, r, BinaryNode("ADD", x, r), IntNode(v))
      BY <1>3, <1>7, <1>8, <2>4, <3>5, <3>6, MergeAgrees
    <3>. QED
      BY <1>1, <1>3, <2>1, <2>4, <3>3, <3>4, <3>5, <3>7, MergeKeeps
  <2>6. CASE ~IsInt(y)
    <3>1. PICK v, t : /\ t = nodes[l].type
                      /\ v = Binary(nodes[n].type, nodes[x].num, nodes[r].num)
      OBVIOUS
    <3>2. v \in Long
      <4>1. IsInt(x)
        BY <2>2, <2>3, <2>6 DEF HasInt
      <4>. QED
        BY <1>1, <1>3, <1>5, <2>2, <2>4, <3>1, <4>1, BinaryIsValue DEF AddSub
    <3>3. ReplaceBoth(n, BinaryNode(t, r, y), r, IntNode(v))
      BY <1>2, <1>10, <2>3, <2>6, <3>1 DEF MergeRightSum, Left, Right
    <3>4. t \in BinaryTypes
      BY <2>2, <3>1 DEF BinaryTypes
    <3>5. ASSUME NEW args \in ArgValues, NEW f, f = NodeEval(nodes, args)
          PROVE  f[n] = StrictBinary(t, v, f[y])
      <4>1. f[n] = StrictBinary(nodes[n].type, StrictBinary(t, f[x], f[y]), f[r])
        BY <1>6, <2>2, <2>3, <3>1, <3>5
      <4>2. f[r] \in Value /\ f[x] \in Value /\ f[y] \in Value
        BY <1>3, <1>6, <2>4, <3>5
      <4>3. f[n] = StrictBinary(t, StrictBinary(nodes[n].type, f[x], f[r]), f[y])
        BY <1>1, <2>2, <3>1, <4>1, <4>2, StrictSumOnTheLeft
      <4>4. f[r] = nodes[r].num /\ f[x] = nodes[x].num /\ f[r] \in Long /\ f[x] \in Long
        <5>1. IsInt(x)
          BY <2>2, <2>3, <2>6 DEF HasInt
        <5>. QED
          BY <1>3, <1>5, <1>6, <2>2, <2>4, <3>5, <5>1
      <4>. QED
        BY <3>1, <4>3, <4>4, StrictIs
    <3>6. Agrees(n, r, BinaryNode(t, r, y), IntNode(v))
      BY <1>3, <1>7, <1>8, <2>4, <3>4, <3>5, MergeAgrees
    <3>. QED
      BY <1>1, <1>3, <2>1, <2>4, <3>2, <3>3, <3>4, <3>6, MergeKeeps
  <2>. QED
    BY <2>5, <2>6
<1>. QED
  BY <1>9, <1>10

LEMMA MoveSumKeeps ==
  ASSUME IInv, NEW n, RotateSum(n) \/ LiftSum(n)
  PROVE  IInv' /\ SameValues
<1>1. /\ Running("optimize", n) /\ nodes[n].type \in AddSub /\ nodes[n].type \in BinaryTypes
  BY DEF RotateSum, LiftSum, Takes, BinaryTypes
<1>2. PICK l, r, type : l = nodes[n].left /\ r = nodes[n].right /\ type = nodes[n].type
  OBVIOUS
<1>3. l \in Children(nodes[n]) /\ r \in Children(nodes[n]) /\ l # r /\ l \in Nodes /\ r \in Nodes
  BY <1>1, <1>2, FieldsAre
<1>4. \A c \in {l, r} : nodes[c].type \in AddSub =>
        /\ nodes[c].left \in Children(nodes[c]) /\ nodes[c].right \in Children(nodes[c])
        /\ nodes[c].left # nodes[c].right
  BY <1>1, <1>3, FieldsAre DEF BinaryTypes
<1>5. ASSUME NEW args \in ArgValues, NEW f, f = NodeEval(nodes, args)
      PROVE  /\ f[n] = StrictBinary(nodes[n].type, f[l], f[r])
             /\ \A x \in {l, r} : nodes[x].type \in AddSub =>
                  f[x] = StrictBinary(nodes[x].type, f[nodes[x].left], f[nodes[x].right])
             /\ \A x \in Nodes : f[x] \in Value /\ (IsInt(x) => f[x] = nodes[x].num)
  BY <1>1, <1>2, <1>3, <1>5, ValuesAre, FieldsAre DEF IsInt, BinaryTypes
<1>6. /\ \A y \in Children(nodes[r]) : y # r /\ y \in Nodes
      /\ \A y \in Children(nodes[l]) : y # l /\ y \in Nodes
  BY <1>1, <1>3, PairIs
<1>7. Types /\ Acyclic(nodes) /\ Optimized(l)
  BY <1>1, <1>3, ChildrenAre
<1>8. CASE RotateSum(n)
  <2>1. Rule(n) = "rotate" /\ Redo(r) /\ UNCHANGED trapped
    BY <1>2, <1>8 DEF RotateSum, Takes
  <2>2. nodes[r].type \in AddSub
    BY <1>1, <1>2, <2>1, SumRuleTells DEF Right
  <2>3. PICK x, y, sign :
          /\ x = nodes[r].left /\ y = nodes[r].right
          /\ sign = IF type = "ADD" THEN nodes[r].type ELSE Opposite(nodes[r].type)
    OBVIOUS
  <2>4. x \in Children(nodes[r]) /\ y \in Children(nodes[r]) /\ x # y
    BY <1>4, <2>2, <2>3
  <2>5. sign \in BinaryTypes
    BY <2>2, <2>3 DEF Opposite, BinaryTypes, AddSub
  <2>6. ReplaceBoth(n, BinaryNode(sign, r, y), r, BinaryNode(type, l, x))
    BY <1>2, <1>8, <2>3 DEF RotateSum, Right
  <2>7. ASSUME NEW args \in ArgValues, NEW f, f = NodeEval(nodes, args)
        PROVE  f[n] = StrictBinary(sign, StrictBinary(type, f[l], f[x]), f[y])
    <3>1. f[n] = StrictBinary(type, f[l], StrictBinary(nodes[r].type, f[x], f[y]))
      BY <1>2, <1>5, <2>2, <2>3, <2>7
    <3>2. f[l] \in Value /\ f[x] \in Value /\ f[y] \in Value
      BY <1>3, <1>5, <1>6, <2>4, <2>7
    <3>3. sign = SignProduct(type, nodes[r].type)
      BY <1>1, <1>2, <2>2, <2>3 DEF SignProduct, Opposite, AddSub
    <3>. QED
      BY <1>1, <1>2, <2>2, <3>1, <3>2, <3>3, StrictSumOnTheRight
  <2>8. Agrees(n, r, BinaryNode(sign, r, y), BinaryNode(type, l, x))
    BY <1>1, <1>2, <1>3, <1>6, <1>7, <2>4, <2>5, <2>7, MoveAgrees
  <2>. QED
    BY <1>1, <1>2, <1>3, <2>1, <2>4, <2>5, <2>6, <2>8, MoveKeeps
<1>9. CASE LiftSum(n)
  <2>1. Rule(n) = "lift" /\ Redo(l) /\ UNCHANGED trapped
    BY <1>2, <1>9 DEF LiftSum, Takes
  <2>2. nodes[l].type \in AddSub
    BY <1>1, <1>2, <2>1, SumRuleTells DEF Left
  <2>3. PICK x, y, t : x = nodes[l].left /\ y = nodes[l].right /\ t = nodes[l].type
    OBVIOUS
  <2>4. x \in Children(nodes[l]) /\ y \in Children(nodes[l]) /\ x # y
    BY <1>4, <2>2, <2>3
  <2>5. t \in BinaryTypes /\ "ADD" \in BinaryTypes
    BY <2>2, <2>3 DEF BinaryTypes, AddSub
  <2>6. ASSUME NEW args \in ArgValues, NEW f, f = NodeEval(nodes, args)
        PROVE  /\ f[n] = StrictBinary(type, StrictBinary(t, f[x], f[y]), f[r])
               /\ f[r] \in Value /\ f[x] \in Value /\ f[y] \in Value
    <3>1. f[n] = StrictBinary(type, StrictBinary(t, f[x], f[y]), f[r])
      BY <1>2, <1>5, <2>2, <2>3, <2>6
    <3>2. f[r] \in Value /\ f[x] \in Value /\ f[y] \in Value
      BY <1>3, <1>5, <1>6, <2>4, <2>6
    <3>. QED
      BY <3>1, <3>2
  <2>7. CASE IsInt(x)
    <3>1. ReplaceBoth(n, BinaryNode("ADD", l, x), l, BinaryNode(type, y, r))
      BY <1>2, <1>9, <2>3, <2>7 DEF LiftSum, Left
    <3>2. t = "ADD"
      <4>1. Rule(l) = "done"
        BY <1>7, OptimizedIsNode
      <4>2. Rule(l) = SumRule(l)
        BY <2>2, SumRuleTells
      <4>3. ~IsInt(y)
        BY <2>3, <2>7, <4>1, <4>2 DEF SumRule
      <4>. QED
        BY <1>1, <1>2, <2>1, <2>3, <2>7, <4>3, SumRuleTells DEF Left
    <3>3. ASSUME NEW args \in ArgValues, NEW f, f = NodeEval(nodes, args)
          PROVE  f[n] = StrictBinary("ADD", StrictBinary(type, f[y], f[r]), f[x])
      BY <1>1, <1>2, <2>6, <3>2, <3>3, StrictSumOnTheLeft DEF AddSub
    <3>4. Agrees(n, l, BinaryNode("ADD", l, x), BinaryNode(type, y, r))
      BY <1>1, <1>2, <1>3, <1>6, <1>7, <2>4, <2>5, <3>3, MoveAgrees
    <3>. QED
      BY <1>1, <1>2, <1>3, <2>1, <2>4, <2>5, <3>1, <3>4, MoveKeeps
  <2>8. CASE ~IsInt(x)
    <3>1. ReplaceBoth(n, BinaryNode(t, l, y), l, BinaryNode(type, x, r))
      BY <1>2, <1>9, <2>3, <2>8 DEF LiftSum, Left
    <3>2. ASSUME NEW args \in ArgValues, NEW f, f = NodeEval(nodes, args)
          PROVE  f[n] = StrictBinary(t, StrictBinary(type, f[x], f[r]), f[y])
      BY <1>1, <1>2, <2>2, <2>3, <2>6, <3>2, StrictSumOnTheLeft
    <3>3. Agrees(n, l, BinaryNode(t, l, y), BinaryNode(type, x, r))
      BY <1>1, <1>2, <1>3, <1>6, <1>7, <2>4, <2>5, <3>2, MoveAgrees
    <3>. QED
      BY <1>1, <1>2, <1>3, <2>1, <2>4, <2>5, <3>1, <3>3, MoveKeeps
  <2>. QED
    BY <2>7, <2>8
<1>. QED
  BY <1>8, <1>9

LEMMA MergeProductKeeps ==
  ASSUME IInv, NEW n, MergeLeftProduct(n) \/ MergeRightProduct(n)
  PROVE  IInv' /\ SameValues
<1>1. /\ Running("optimize", n) /\ nodes[n].type = "MUL" /\ nodes[n].type \in BinaryTypes
      /\ nodes[n].type \in MulDiv /\ "MUL" \in BinaryTypes
  BY DEF MergeLeftProduct, MergeRightProduct, Takes, BinaryTypes, MulDiv
<1>2. PICK l, r : l = nodes[n].left /\ r = nodes[n].right
  OBVIOUS
<1>3. l \in Children(nodes[n]) /\ r \in Children(nodes[n]) /\ l # r /\ l \in Nodes /\ r \in Nodes
  BY <1>1, <1>2, FieldsAre
<1>4. \A x \in {l, r} : nodes[x].type = "MUL" =>
        /\ nodes[x].left \in Children(nodes[x]) /\ nodes[x].right \in Children(nodes[x])
        /\ nodes[x].left \in Nodes /\ nodes[x].right \in Nodes
  BY <1>1, <1>3, FieldsAre
<1>5. \A x \in Nodes : IsInt(x) => nodes[x].num \in Long
  BY <1>1, FieldsAre DEF IsInt
<1>6. ASSUME NEW args \in ArgValues, NEW f, f = NodeEval(nodes, args)
      PROVE  /\ f[n] = StrictBinary(nodes[n].type, f[l], f[r])
             /\ \A x \in {l, r} : nodes[x].type = "MUL" =>
                  f[x] = StrictBinary(nodes[x].type, f[nodes[x].left], f[nodes[x].right])
             /\ \A x \in Nodes : f[x] \in Value /\ (IsInt(x) => f[x] = nodes[x].num)
  BY <1>1, <1>2, <1>3, <1>6, ValuesAre, FieldsAre DEF IsInt, BinaryTypes
<1>7. /\ \A y \in Children(nodes[r]) : y # l /\ y \in Nodes
      /\ \A x \in Children(nodes[l]) : x # r /\ x \in Nodes
  BY <1>1, <1>3, PairIs
<1>8. Types /\ Acyclic(nodes)
  BY <1>1, ChildrenAre
<1>9. CASE MergeLeftProduct(n)
  <2>1. Rule(n) = "merge_left" /\ Continue /\ UNCHANGED trapped
    BY <1>9 DEF MergeLeftProduct, Takes
  <2>2. IsInt(l) /\ nodes[r].type = "MUL" /\ HasInt(nodes[r])
    BY <1>1, <1>2, <2>1, ProductRuleTells DEF Right
  <2>3. PICK number, other :
          /\ number = IF IsInt(nodes[r].left) THEN nodes[r].left ELSE nodes[r].right
          /\ other = IF IsInt(nodes[r].left) THEN nodes[r].right ELSE nodes[r].left
    OBVIOUS
  <2>4. other \in Children(nodes[r]) /\ number \in Nodes /\ IsInt(number)
    BY <1>4, <2>2, <2>3 DEF HasInt
  <2>5. PICK v : v = Binary("MUL", nodes[l].num, nodes[number].num)
    OBVIOUS
  <2>6. v \in Long
    BY <1>1, <1>3, <1>5, <2>2, <2>4, <2>5, BinaryIsValue
  <2>7. ReplaceBoth(n, BinaryNode("MUL", l, other), l, IntNode(v))
    BY <1>2, <1>9, <2>3, <2>5 DEF MergeLeftProduct, Left, Right
  <2>8. ASSUME NEW args \in ArgValues, NEW f, f = NodeEval(nodes, args)
        PROVE  f[n] = StrictBinary("MUL", v, f[other])
    <3>1. f[l] \in Value /\ f[number] \in Value /\ f[other] \in Value
      BY <1>3, <1>6, <1>7, <2>4, <2>8
    <3>2. f[r] = StrictBinary("MUL", f[number], f[other])
      BY <1>6, <2>2, <2>3, <2>8, <3>1, StrictProductsMove
    <3>3. f[n] = StrictBinary("MUL", StrictBinary("MUL", f[l], f[number]), f[other])
      BY <1>1, <1>6, <2>8, <3>1, <3>2, StrictProductsMove
    <3>4. f[l] = nodes[l].num /\ f[number] = nodes[number].num /\ f[l] \in Long /\ f[number] \in Long
      BY <1>3, <1>5, <1>6, <2>2, <2>4, <2>8
    <3>. QED
      BY <2>5, <3>3, <3>4, StrictIs
  <2>9. Agrees(n, l, BinaryNode("MUL", l, other), IntNode(v))
    BY <1>1, <1>3, <1>7, <1>8, <2>4, <2>8, MergeAgrees
  <2>. QED
    BY <1>1, <1>3, <2>1, <2>4, <2>6, <2>7, <2>9, MergeKeeps
<1>10. CASE MergeRightProduct(n)
  <2>1. Rule(n) = "merge_right" /\ Continue /\ UNCHANGED trapped
    BY <1>10 DEF MergeRightProduct, Takes
  <2>2. IsInt(r) /\ nodes[l].type = "MUL" /\ HasInt(nodes[l])
    BY <1>1, <1>2, <2>1, ProductRuleTells DEF Left
  <2>3. PICK number, other :
          /\ number = IF IsInt(nodes[l].right) THEN nodes[l].right ELSE nodes[l].left
          /\ other = IF IsInt(nodes[l].right) THEN nodes[l].left ELSE nodes[l].right
    OBVIOUS
  <2>4. other \in Children(nodes[l]) /\ number \in Nodes /\ IsInt(number)
    BY <1>4, <2>2, <2>3 DEF HasInt
  <2>5. PICK v : v = Binary("MUL", nodes[number].num, nodes[r].num)
    OBVIOUS
  <2>6. v \in Long
    BY <1>1, <1>3, <1>5, <2>2, <2>4, <2>5, BinaryIsValue
  <2>7. ReplaceBoth(n, BinaryNode("MUL", other, r), r, IntNode(v))
    BY <1>2, <1>10, <2>3, <2>5 DEF MergeRightProduct, Left, Right
  <2>8. ASSUME NEW args \in ArgValues, NEW f, f = NodeEval(nodes, args)
        PROVE  f[n] = StrictBinary("MUL", f[other], v)
    <3>1. f[r] \in Value /\ f[number] \in Value /\ f[other] \in Value
      BY <1>3, <1>6, <1>7, <2>4, <2>8
    <3>2. f[l] = StrictBinary("MUL", f[other], f[number])
      BY <1>6, <2>2, <2>3, <2>8, <3>1, StrictProductsMove
    <3>3. f[n] = StrictBinary("MUL", f[other], StrictBinary("MUL", f[number], f[r]))
      BY <1>1, <1>6, <2>8, <3>1, <3>2, StrictProductsMove
    <3>4. f[r] = nodes[r].num /\ f[number] = nodes[number].num /\ f[r] \in Long /\ f[number] \in Long
      BY <1>3, <1>5, <1>6, <2>2, <2>4, <2>8
    <3>. QED
      BY <2>5, <3>3, <3>4, StrictIs
  <2>9. Agrees(n, r, BinaryNode("MUL", other, r), IntNode(v))
    BY <1>1, <1>3, <1>7, <1>8, <2>4, <2>8, MergeAgrees
  <2>. QED
    BY <1>1, <1>3, <2>1, <2>4, <2>6, <2>7, <2>9, MergeKeeps
<1>. QED
  BY <1>9, <1>10

LEMMA MoveProductKeeps ==
  ASSUME IInv, NEW n, RotateProduct(n) \/ LiftProduct(n)
  PROVE  IInv' /\ SameValues
<1>1. /\ Running("optimize", n) /\ nodes[n].type = "MUL" /\ nodes[n].type \in BinaryTypes
      /\ nodes[n].type \in MulDiv /\ "MUL" \in BinaryTypes
  BY DEF RotateProduct, LiftProduct, Takes, BinaryTypes, MulDiv
<1>2. PICK l, r : l = nodes[n].left /\ r = nodes[n].right
  OBVIOUS
<1>3. l \in Children(nodes[n]) /\ r \in Children(nodes[n]) /\ l # r /\ l \in Nodes /\ r \in Nodes
  BY <1>1, <1>2, FieldsAre
<1>4. \A c \in {l, r} : nodes[c].type = "MUL" =>
        /\ nodes[c].left \in Children(nodes[c]) /\ nodes[c].right \in Children(nodes[c])
        /\ nodes[c].left # nodes[c].right
  BY <1>1, <1>3, FieldsAre
<1>5. ASSUME NEW args \in ArgValues, NEW f, f = NodeEval(nodes, args)
      PROVE  /\ f[n] = StrictBinary(nodes[n].type, f[l], f[r])
             /\ \A x \in {l, r} : nodes[x].type = "MUL" =>
                  f[x] = StrictBinary(nodes[x].type, f[nodes[x].left], f[nodes[x].right])
             /\ \A x \in Nodes : f[x] \in Value /\ (IsInt(x) => f[x] = nodes[x].num)
  BY <1>1, <1>2, <1>3, <1>5, ValuesAre, FieldsAre DEF IsInt, BinaryTypes
<1>6. /\ \A y \in Children(nodes[r]) : y # r /\ y \in Nodes
      /\ \A y \in Children(nodes[l]) : y # l /\ y \in Nodes
  BY <1>1, <1>3, PairIs
<1>7. Types /\ Acyclic(nodes)
  BY <1>1, ChildrenAre
<1>8. CASE RotateProduct(n)
  <2>1. Rule(n) = "rotate" /\ Redo(r) /\ UNCHANGED trapped
    BY <1>2, <1>8 DEF RotateProduct, Takes
  <2>2. nodes[r].type = "MUL"
    BY <1>1, <1>2, <2>1, ProductRuleTells DEF Right
  <2>3. PICK x, y : x = nodes[r].left /\ y = nodes[r].right
    OBVIOUS
  <2>4. x \in Children(nodes[r]) /\ y \in Children(nodes[r]) /\ x # y
    BY <1>4, <2>2, <2>3
  <2>5. ReplaceBoth(n, BinaryNode("MUL", r, y), r, BinaryNode("MUL", l, x))
    BY <1>2, <1>8, <2>3 DEF RotateProduct, Right
  <2>6. ASSUME NEW args \in ArgValues, NEW f, f = NodeEval(nodes, args)
        PROVE  f[n] = StrictBinary("MUL", StrictBinary("MUL", f[l], f[x]), f[y])
    <3>1. f[l] \in Value /\ f[x] \in Value /\ f[y] \in Value
      BY <1>3, <1>5, <1>6, <2>4, <2>6
    <3>2. f[n] = StrictBinary("MUL", f[l], StrictBinary("MUL", f[x], f[y]))
      BY <1>1, <1>5, <2>2, <2>3, <2>6
    <3>. QED
      BY <3>1, <3>2, StrictProductsMove
  <2>7. Agrees(n, r, BinaryNode("MUL", r, y), BinaryNode("MUL", l, x))
    BY <1>1, <1>3, <1>6, <1>7, <2>4, <2>6, MoveAgrees
  <2>. QED
    BY <1>1, <1>3, <2>1, <2>4, <2>5, <2>7, MoveKeeps
<1>9. CASE LiftProduct(n)
  <2>1. Rule(n) = "lift" /\ Redo(l) /\ UNCHANGED trapped
    BY <1>2, <1>9 DEF LiftProduct, Takes
  <2>2. nodes[l].type = "MUL"
    BY <1>1, <1>2, <2>1, ProductRuleTells DEF Left
  <2>3. PICK number, other :
          /\ number = IF IsInt(nodes[l].left) THEN nodes[l].left ELSE nodes[l].right
          /\ other = IF IsInt(nodes[l].left) THEN nodes[l].right ELSE nodes[l].left
    OBVIOUS
  <2>4. number \in Children(nodes[l]) /\ other \in Children(nodes[l]) /\ number # other
    BY <1>4, <2>2, <2>3
  <2>5. ReplaceBoth(n, BinaryNode("MUL", l, number), l, BinaryNode("MUL", other, r))
    BY <1>2, <1>9, <2>3 DEF LiftProduct, Left
  <2>6. ASSUME NEW args \in ArgValues, NEW f, f = NodeEval(nodes, args)
        PROVE  f[n] = StrictBinary("MUL", StrictBinary("MUL", f[other], f[r]), f[number])
    <3>1. f[r] \in Value /\ f[number] \in Value /\ f[other] \in Value
      BY <1>3, <1>5, <1>6, <2>4, <2>6
    <3>2. f[l] = StrictBinary("MUL", f[number], f[other])
      BY <1>5, <2>2, <2>3, <2>6, <3>1, StrictProductsMove
    <3>3. f[n] = StrictBinary("MUL", f[number], StrictBinary("MUL", f[other], f[r]))
      BY <1>1, <1>5, <2>6, <3>1, <3>2, StrictProductsMove
    <3>4. StrictBinary("MUL", f[other], f[r]) \in Value
      BY <1>1, <3>1, StrictIsValue
    <3>. QED
      BY <3>1, <3>3, <3>4, StrictProductsMove
  <2>7. Agrees(n, l, BinaryNode("MUL", l, number), BinaryNode("MUL", other, r))
    BY <1>1, <1>3, <1>6, <1>7, <2>4, <2>6, MoveAgrees
  <2>. QED
    BY <1>1, <1>3, <2>1, <2>4, <2>5, <2>7, MoveKeeps
<1>. QED
  BY <1>8, <1>9

-----------------------------------------------------------------------------
(***************************************************************************)
(* The theorems                                                            *)
(***************************************************************************)
LEMMA InitIsFine == Init => IInv
<1>1. SUFFICES ASSUME Init
               PROVE  IInv
  OBVIOUS
<1>2. /\ nodes \in Seq(NodeRecord) /\ IsAst(nodes, ArgCount) /\ nodes # <<>>
      /\ ChildBeforeParent(nodes) /\ OneParent(nodes)
  BY <1>1, InputsAssumption DEF Init, ParsedShape
<1>3. Acyclic(nodes) /\ Closed(nodes, Nodes)
  BY <1>2, ParsedIsAcyclic DEF Nodes
<1>4. /\ Nodes = 1..Len(nodes) /\ Len(nodes) \in Nat /\ Root(nodes) \in Nodes
      /\ Root(nodes) = Len(nodes)
  BY <1>2 DEF Nodes, Root
<1>5. IsTree(Nodes)
  <2>1. \A i \in Nodes : Root(nodes) \notin Children(nodes[i])
    <3>1. \A i \in Nodes : Children(nodes[i]) \subseteq 1..(i - 1)
      BY <1>2 DEF ChildBeforeParent, Nodes
    <3>2. \A i \in Nodes : Root(nodes) \notin 1..(i - 1)
      BY <1>4
    <3>. QED
      BY <3>1, <3>2
  <2>. QED
    BY <1>2, <1>3, <1>4, <2>1 DEF IsTree, OneParent, Nodes
<1>6. PICK f : f = Frame("walk", Root(nodes))
  OBVIOUS
<1>7. f \in FrameRecord /\ f.pc = "walk" /\ f.node = Root(nodes)
  BY <1>4, <1>6 DEF Frame, FrameRecord
<1>8. /\ stack \in Seq(FrameRecord) /\ Len(stack) = 1 /\ stack[1] = f /\ stack # <<>>
      /\ trapped = FALSE
  BY <1>1, <1>6, <1>7 DEF Init
<1>9. \A k \in 1..Len(stack) : k = 1
  BY <1>8
<1>10. Types
  BY <1>2, <1>8 DEF Types
<1>11. OnPath
  <2>1. 1..(Len(stack) - 1) = {}
    BY <1>8
  <2>. QED
    BY <1>7, <1>8, <1>9, <2>1 DEF OnPath
<1>12. Shape
  BY <1>3, <1>4, <1>5, <1>7, <1>8, <1>9, <1>10, <1>11 DEF Shape
<1>13. StaysOptimized
  BY <1>7, <1>8, <1>9 DEF StaysOptimized, DoneWith
<1>. QED
  BY <1>8, <1>12, <1>13 DEF IInv, TrapIsOverflow

LEMMA StepIsFine == IInv /\ [Next]_vars => IInv'
<1>1. SUFFICES ASSUME IInv, [Next]_vars
               PROVE  IInv'
  OBVIOUS
<1>2. ASSUME UNCHANGED vars
      PROVE  IInv'
  <2>1. nodes' = nodes /\ stack' = stack /\ trapped' = trapped /\ trapped \in BOOLEAN
    BY <1>1, <1>2 DEF vars, IInv, Shape, Types
  <2>2. Shape' /\ StaysOptimized'
    BY <1>1, <2>1, NothingMoves
  <2>3. TrapIsOverflow'
    BY <1>1, <2>1 DEF IInv, TrapIsOverflow, Top, Left, Right
  <2>. QED
    BY <2>2, <2>3 DEF IInv
<1>3. ASSUME NEW n \in DOMAIN nodes, Walk(n) \/ WalkRight(n) \/ Optimize(n)
      PROVE  IInv'
  <2>1. CASE Walk(n)
    BY <1>1, <2>1, WalkKeeps
  <2>2. CASE WalkRight(n)
    BY <1>1, <2>2, WalkRightKeeps
  <2>3. CASE Finish(n)
    BY <1>1, <2>3, FinishKeeps
  <2>4. CASE FoldBinary(n)
    BY <1>1, <2>4, FoldBinaryKeeps
  <2>5. CASE FoldInv(n) \/ TakeConstant(n)
    BY <1>1, <2>5, ConstantsKeep
  <2>6. CASE CollapseDoubleInv(n) \/ TakeLeft(n) \/ ZeroPlus(n) \/ OneTimes(n)
    BY <1>1, <2>6, CopyingKeeps
  <2>7. CASE ZeroMinus(n)
    BY <1>1, <2>7, ZeroMinusKeeps
  <2>8. CASE MergeLeftSum(n) \/ MergeRightSum(n)
    BY <1>1, <2>8, MergeSumKeeps
  <2>9. CASE RotateSum(n) \/ LiftSum(n)
    BY <1>1, <2>9, MoveSumKeeps
  <2>10. CASE MergeLeftProduct(n) \/ MergeRightProduct(n)
    BY <1>1, <2>10, MergeProductKeeps
  <2>11. CASE RotateProduct(n) \/ LiftProduct(n)
    BY <1>1, <2>11, MoveProductKeeps
  <2>. QED
    BY <1>3, <2>1, <2>2, <2>3, <2>4, <2>5, <2>6, <2>7, <2>8, <2>9, <2>10, <2>11 DEF Optimize
<1>. QED
  BY <1>1, <1>2, <1>3 DEF Next, Terminated

\* At every step of optimize(), the tree is a tree, the calls stand on a path
\* of it, and what they are done with is optimized.
THEOREM IInvHolds == Spec => []IInv
<1>. QED
  BY InitIsFine, StepIsFine, PTL DEF Spec

\* The nodes stay well formed, every call stands on a node of the array.
THEOREM TypesHold == Spec => []TypeOK
<1>1. IInv => TypeOK
  <2>1. SUFFICES ASSUME IInv
                 PROVE  TypeOK
    OBVIOUS
  <2>2. /\ IsAst(nodes, ArgCount) /\ trapped \in BOOLEAN
        /\ stack \in Seq([pc : {"walk", "walk_right", "optimize"}, node : DOMAIN nodes])
    BY <2>1 DEF IInv, Shape, Types, FrameRecord, Nodes
  <2>3. \A k \in DOMAIN stack :
          stack[k] \in [pc : {"walk", "walk_right", "optimize"}, node : DOMAIN nodes]
    <3>1. PICK R : R = [pc : {"walk", "walk_right", "optimize"}, node : DOMAIN nodes]
      OBVIOUS
    <3>2. stack \in Seq(R)
      BY <2>2, <3>1
    <3>3. DOMAIN stack = 1..Len(stack) /\ \A k \in 1..Len(stack) : stack[k] \in R
      BY <3>2
    <3>. QED
      BY <3>1, <3>3
  <2>. QED
    BY <2>2, <2>3 DEF TypeOK
<1>. QED
  BY <1>1, IInvHolds, PTL

\* However the branches rewrite it (optimizer.c), what hangs from the root is
\* a tree: no two nodes share a child.
THEOREM StaysATree == Spec => []TreeShaped
<1>1. IInv => TreeShaped
  <2>1. SUFFICES ASSUME IInv
                 PROVE  TreeShaped
    OBVIOUS
  <2>2. PICK T : IsTree(T)
    BY <2>1 DEF IInv, Shape
  <2>3. Live \subseteq T
    <3>1. nodes \in Seq(NodeRecord) /\ Closed(nodes, T) /\ Root(nodes) \in T
      BY <2>1, <2>2 DEF IInv, Shape, Types, IsTree
    <3>. QED
      BY <3>1, SubtreeIsInside DEF Live
  <2>. QED
    BY <2>2, <2>3 DEF TreeShaped, IsTree
<1>. QED
  BY <1>1, IInvHolds, PTL

\* Whenever the loop of node_optimize looks at a node, no branch applies to
\* any node below it, as optimizer.c:54-57 says.
THEOREM SubtreesAreOptimized == Spec => []SubtreesStayOptimized
<1>1. IInv => SubtreesStayOptimized
  <2>1. SUFFICES ASSUME IInv, stack # <<>>, Top.pc = "optimize"
                 PROVE  \A i \in Subtree(nodes, Top.node) \ {Top.node} : Rule(i) = "done"
    BY DEF SubtreesStayOptimized
  <2>2. /\ Len(stack) \in 1..Len(stack) /\ stack[Len(stack)] = Top /\ Top.node \in Nodes
        /\ ~(Len(stack) < Len(stack)) /\ nodes \in Seq(NodeRecord)
    BY <2>1, TopIs DEF IInv, Top, Shape, Types
  <2>3. DoneWith(Len(stack)) = Children(nodes[Top.node])
    BY <2>1, <2>2 DEF DoneWith
  <2>4. \A m \in Children(nodes[Top.node]) : Optimized(m)
    BY <2>1, <2>2, <2>3 DEF IInv, StaysOptimized
  <2> DEFINE U == UNION {B \in SUBSET Nodes : Closed(nodes, B) /\ \A i \in B : Rule(i) = "done"}
  <2>5. Children(nodes[Top.node]) \subseteq U
    BY <2>4 DEF Optimized, Closed, Nodes
  <2>6. Closed(nodes, U \cup {Top.node}) /\ \A i \in U : Rule(i) = "done"
    BY <2>2, <2>5 DEF Closed, Nodes
  <2> HIDE DEF U
  <2>7. Subtree(nodes, Top.node) \subseteq U \cup {Top.node}
    BY <2>2, <2>6, SubtreeIsInside
  <2>. QED
    BY <2>6, <2>7
<1>. QED
  BY <1>1, IInvHolds, PTL

LEMMA OptimizedAtEnd == IInv => ResultIsOptimized
<1>1. SUFFICES ASSUME IInv, Done
               PROVE  \A i \in Live : Rule(i) = "done"
  BY DEF ResultIsOptimized
<1>2. Optimized(Root(nodes)) /\ nodes \in Seq(NodeRecord)
  BY <1>1 DEF IInv, StaysOptimized, Done, Shape, Types
<1>3. PICK B : Closed(nodes, B) /\ Root(nodes) \in B /\ \A i \in B : Rule(i) = "done"
  BY <1>2 DEF Optimized
<1>4. Live \subseteq B
  BY <1>2, <1>3, SubtreeIsInside DEF Live
<1>. QED
  BY <1>3, <1>4

\* When optimize() returns, no branch applies anywhere in the tree.
THEOREM ResultsAreOptimized == Spec => []ResultIsOptimized
BY OptimizedAtEnd, IInvHolds, PTL

\* "No division by zero happens in the optimizer" (optimizer.c:360-361): a
\* constant division that kills the process is LONG_MIN / -1.
THEOREM NeverDividesByZero == Spec => []NoDivisionByZero
<1>1. IInv => NoDivisionByZero
  BY DEF IInv, TrapIsOverflow, NoDivisionByZero
<1>. QED
  BY <1>1, IInvHolds, PTL

\* Every step leaves the program's results alone, the collapse of a double
\* negation apart.
LEMMA NodeStepAgrees ==
  ASSUME IInv, NEW n \in DOMAIN nodes, Walk(n) \/ WalkRight(n) \/ Optimize(n)
  PROVE  nodes' = nodes \/ CollapseDoubleInv(n) \/ SameValues
<1>1. CASE Walk(n) \/ WalkRight(n) \/ Finish(n)
  BY <1>1 DEF Walk, WalkRight, Finish
<1>2. CASE FoldBinary(n)
  BY <1>2, FoldBinaryKeeps
<1>3. CASE FoldInv(n) \/ TakeConstant(n)
  BY <1>3, ConstantsKeep
<1>4. CASE TakeLeft(n) \/ ZeroPlus(n) \/ OneTimes(n)
  BY <1>4, CopyingAgrees
<1>5. CASE ZeroMinus(n)
  BY <1>5, ZeroMinusKeeps
<1>6. CASE MergeLeftSum(n) \/ MergeRightSum(n)
  BY <1>6, MergeSumKeeps
<1>7. CASE RotateSum(n) \/ LiftSum(n)
  BY <1>7, MoveSumKeeps
<1>8. CASE MergeLeftProduct(n) \/ MergeRightProduct(n)
  BY <1>8, MergeProductKeeps
<1>9. CASE RotateProduct(n) \/ LiftProduct(n)
  BY <1>9, MoveProductKeeps
<1>. QED
  BY <1>1, <1>2, <1>3, <1>4, <1>5, <1>6, <1>7, <1>8, <1>9 DEF Optimize

LEMMA StepAgrees ==
  ASSUME IInv, [Next]_vars
  PROVE  [(\E n \in DOMAIN nodes : CollapseDoubleInv(n)) \/ SameValues]_nodes
<1>1. CASE UNCHANGED vars \/ Terminated
  BY <1>1 DEF Terminated, vars
<1>. QED
  BY <1>1, NodeStepAgrees DEF Next

\* A call that is in progress is below the root, and so are the divisions
\* that it makes.
LEMMA TrapsOnPath ==
  ASSUME IInv, NEW args \in ArgValues, NEW f, f = NodeEval(nodes, args),
         stack # <<>>, f[Top.node] = TRAP
  PROVE  f[Root(nodes)] = TRAP
<1> DEFINE S == {k \in 1..Len(stack) : f[stack[k].node] = TRAP}
<1>1. Shape /\ Types /\ Acyclic(nodes)
  BY DEF IInv, Shape
<1>2. S \subseteq Nat /\ Len(stack) \in S
  BY <1>1, TopIs DEF Top
<1>3. PICK k \in S : \A m \in S : k <= m
  BY <1>2, LeastNumber
<1>4. CASE k = 1
  BY <1>3, <1>4 DEF IInv, Shape, OnPath
<1>5. CASE k # 1
  <2>1. k \in Nat /\ k - 1 \in 1..(Len(stack) - 1) /\ k - 1 \in 1..Len(stack) /\ (k - 1) + 1 = k
    BY <1>1, <1>5, TopIs
  <2>2. PICK n, c : n = stack[k - 1].node /\ c = stack[k].node
    OBVIOUS
  <2>3. c \in Children(nodes[n]) /\ n \in Nodes /\ f[c] = TRAP
    BY <1>1, <2>1, <2>2, TopIs DEF Shape, OnPath
  <2>4. f[n] = NodeValue(nodes[n], args, f)
    BY <1>1, <2>3, OldValues DEF Solves, Nodes
  <2>5. NodeValue(nodes[n], args, f) = TRAP
    <3>1. CASE nodes[n].type \in BinaryTypes
      BY <2>3, <3>1 DEF NodeValue, StrictBinary, Children, BinaryTypes, AddSub, MulDiv
    <3>2. CASE nodes[n].type = "INV"
      BY <2>3, <3>2 DEF NodeValue, StrictNegate, Children, BinaryTypes, AddSub, MulDiv
    <3>. QED
      BY <2>3, <3>1, <3>2 DEF Children
  <2>6. k - 1 \in S
    BY <2>1, <2>2, <2>4, <2>5
  <2>. QED
    BY <1>3, <2>1, <2>6
<1>. QED
  BY <1>4, <1>5

\* The optimizer is killed only by a division that kills the program anyway.
LEMMA TrapsLikeTheProgram ==
  ASSUME IInv, NEW n, Walk(n) \/ WalkRight(n) \/ Optimize(n), ~trapped, trapped',
         NEW args \in ArgValues
  PROVE  nodes' = nodes /\ AstEval(nodes, args) = TRAP
<1>1. FoldBinary(n)
  BY DEF Walk, WalkRight, Optimize, Finish, FoldInv, CollapseDoubleInv, TakeLeft, ZeroPlus,
         OneTimes, ZeroMinus, TakeConstant, MergeLeftSum, MergeRightSum, RotateSum, LiftSum,
         MergeLeftProduct, MergeRightProduct, RotateProduct, LiftProduct
<1>2. /\ Running("optimize", n) /\ nodes[n].type \in BinaryTypes /\ Rule(n) = "fold"
      /\ Binary(nodes[n].type, Left(n).num, Right(n).num) = TRAP /\ nodes' = nodes
  BY <1>1 DEF FoldBinary, Takes
<1>3. IsInt(nodes[n].left) /\ IsInt(nodes[n].right)
  BY <1>2, SumRuleTells, ProductRuleTells DEF BinaryTypes, FoldsProduct, AddSub, MulDiv
<1>4. /\ n \in Nodes /\ nodes[n].left \in Nodes /\ nodes[n].right \in Nodes
      /\ Left(n).num \in Long /\ Right(n).num \in Long
  BY <1>2, <1>3, FieldsAre DEF IsInt, Left, Right
<1>5. PICK f : f = NodeEval(nodes, args)
  OBVIOUS
<1>6. f[nodes[n].left] = Left(n).num /\ f[nodes[n].right] = Right(n).num
  BY <1>2, <1>3, <1>4, <1>5, ValuesAre DEF IsInt, Left, Right
<1>7. f[n] = StrictBinary(nodes[n].type, Left(n).num, Right(n).num)
  BY <1>2, <1>4, <1>5, <1>6, ValuesAre
<1>8. f[n] = TRAP
  BY <1>2, <1>7 DEF StrictBinary
<1>9. stack # <<>> /\ Top.node = n
  BY <1>2, FramesAre
<1>. QED
  BY <1>2, <1>5, <1>8, <1>9, TrapsOnPath DEF AstEval

\* The branches of optimizer.c change no result that the program has, for any
\* arguments (optimizer.c:40-44): all but the one that rewrites -(-X), which
\* keeps -X where X is meant.
THEOREM KeepsTheValue == Spec => ValuePreserved
<1>1. IInv /\ [Next]_vars => [(\E n \in DOMAIN nodes : CollapseDoubleInv(n)) \/ SameValues]_nodes
  BY StepAgrees
<1>. QED
  BY <1>1, IInvHolds, PTL DEF Spec, ValuePreserved
=============================================================================
