------------------------------- MODULE Storage -------------------------------
(***************************************************************************)
(* The two arrays that grow while the program works: struct Buffer         *)
(* (buffer.c), which holds the name of an identifier in the parser and the *)
(* words of the bytecode, and the nodes of struct Ast (ast_append_node).   *)
(* size_t arithmetic wraps around at SIZE_MAX + 1.  Where a buffer is      *)
(* written over its end, what follows in C is undefined; here used and     *)
(* capacity go on as the code computes them.                               *)
(***************************************************************************)
EXTENDS Integers

CONSTANTS
  SIZE_MAX,       \* the largest size_t
  BUFSIZ,         \* the first capacity of a buffer
  FirstNodes,     \* the first capacity of a node array: 64
  NodeSize,       \* sizeof(struct AstNode)
  MaxAppend       \* bound: the largest size a caller appends at once

ASSUME StorageAssumption ==
  /\ SIZE_MAX \in Nat /\ BUFSIZ \in Nat /\ FirstNodes \in Nat /\ NodeSize \in Nat
  /\ MaxAppend \in Nat
  /\ MaxAppend <= SIZE_MAX /\ 1 <= BUFSIZ /\ BUFSIZ <= SIZE_MAX
  /\ 1 <= FirstNodes /\ 1 <= NodeSize /\ FirstNodes * NodeSize <= SIZE_MAX

VARIABLES
  buffer,    \* used and capacity
  appended,  \* (history) the bytes appended since the buffer was empty
  longest,   \* (history) the largest size there was in one call
  array,     \* nodes_used and nodes_capacity
  bytes      \* the size of the block that array->nodes points to

storageVars == <<buffer, appended, longest, array, bytes>>

SizeT == 0..SIZE_MAX
Size(n) == n % (SIZE_MAX + 1)

Empty == [used |-> 0, capacity |-> 0]

\* BUFFER_INIT and AST_INIT
StorageInit ==
  /\ buffer = Empty /\ appended = 0 /\ longest = 0
  /\ array = Empty /\ bytes = 0

-----------------------------------------------------------------------------
(***************************************************************************)
(* buffer_append and buffer_append_byte                                    *)
(***************************************************************************)

\* used + size can be computed: the first guard.
AnySum(size) == TRUE   \* (mutation)
SumFits(size) == buffer.used <= SIZE_MAX - size

\* memcpy() and used += size, into a buffer of this capacity.
Write(size, capacity) ==
  /\ buffer' = [used |-> Size(buffer.used + size), capacity |-> capacity]
  /\ appended' = appended + size
  /\ longest' = IF size > longest THEN size ELSE longest
  /\ UNCHANGED <<array, bytes>>

HasRoom(size) == Size(buffer.used + size) <= buffer.capacity

BufferAppend(size) ==
  /\ SumFits(size) /\ HasRoom(size)
  /\ Write(size, buffer.capacity)

\* There is no room: the capacity is doubled once.
MayDouble == buffer.capacity < SIZE_MAX \div 2
GrownCapacity ==
  IF buffer.capacity = 0 THEN BUFSIZ ELSE Size(buffer.capacity * 2)

BufferGrow(size) ==
  /\ SumFits(size) /\ ~HasRoom(size) /\ MayDouble
  /\ Write(size, GrownCapacity)

\* Too large a sum or capacity, or no memory: false is returned and nothing
\* has changed.
BufferFails(size) ==
  /\ ~SumFits(size) \/ ~HasRoom(size)
  /\ UNCHANGED storageVars

\* buffer_clear keeps the memory, buffer_destroy does not.
BufferClear ==
  /\ buffer' = [buffer EXCEPT !.used = 0]
  /\ appended' = 0
  /\ UNCHANGED <<longest, array, bytes>>

BufferDestroy ==
  /\ buffer' = Empty
  /\ appended' = 0
  /\ UNCHANGED <<longest, array, bytes>>

-----------------------------------------------------------------------------
(***************************************************************************)
(* ast_append_node and ast_destroy                                         *)
(***************************************************************************)
IsFull == array.used = array.capacity

NodeAppend ==
  /\ ~IsFull
  /\ array' = [array EXCEPT !.used = Size(@ + 1)]
  /\ UNCHANGED <<buffer, appended, longest, bytes>>

\* The size in bytes of twice the nodes can be computed.
MayDoubleCount == array.capacity <= SIZE_MAX \div NodeSize   \* (mutation)
MayDoubleNodes == array.capacity <= (SIZE_MAX \div 2) \div NodeSize

NodeGrow ==
  LET grown == IF array.capacity = 0 THEN FirstNodes ELSE Size(array.capacity * 2)
  IN  /\ IsFull /\ MayDoubleNodes
      /\ array' = [used |-> Size(array.used + 1), capacity |-> grown]
      /\ bytes' = Size(grown * NodeSize)
      /\ UNCHANGED <<buffer, appended, longest>>

NodeFails == IsFull /\ UNCHANGED storageVars

NodesDestroy ==
  /\ array' = Empty
  /\ bytes' = 0
  /\ UNCHANGED <<buffer, appended, longest>>

-----------------------------------------------------------------------------
StorageNext ==
  \/ \E size \in 1..MaxAppend :
       BufferAppend(size) \/ BufferGrow(size) \/ BufferFails(size)
  \/ BufferClear \/ BufferDestroy
  \/ NodeAppend \/ NodeGrow \/ NodeFails \/ NodesDestroy

StorageSpec == StorageInit /\ [][StorageNext]_storageVars

-----------------------------------------------------------------------------
TypeOK ==
  /\ buffer \in [used : SizeT, capacity : SizeT]
  /\ appended \in Nat /\ longest \in 0..MaxAppend
  /\ array \in [used : SizeT, capacity : SizeT]
  /\ bytes \in SizeT

\* Everything that was appended to a buffer lies within its memory, up to the
\* largest buffer there can be, unless more than the first capacity was ever
\* appended at once: then one doubling is enough, and neither it nor a sum
\* wraps around.  The words of the bytecode are appended in pieces of 8 bytes.
HoldsAll == appended <= buffer.capacity
BufferHoldsAll == buffer.used = appended /\ (longest <= BUFSIZ => HoldsAll)

\* The nodes lie within the block that was allocated for them: no number of
\* bytes wraps around.
NodesFit == array.used <= array.capacity /\ array.capacity * NodeSize = bytes
=============================================================================
