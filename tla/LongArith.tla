----------------------------- MODULE LongArith -----------------------------
(***************************************************************************)
(* The C type `long' as the interpreters of this program use it.           *)
(*                                                                         *)
(* Addition, subtraction, multiplication and negation wrap around in two's *)
(* complement: the comment at optimizer.c:45-47 relies on it and the code  *)
(* that gcc emits for ast.c, bytecode.c and optimizer.c does it.  Division *)
(* truncates towards zero; a division by zero and LONG_MIN / -1 raise      *)
(* SIGFPE on x86, which is the value TRAP here.                            *)
(***************************************************************************)
EXTENDS Integers

CONSTANTS
  LONG_MAX,   \* the largest long (limits.h); 2^63 - 1 in the build
  TRAP        \* the "result" of a division that kills the process

ASSUME LongAssumption ==
  /\ LONG_MAX \in Nat
  /\ LONG_MAX >= 1
  /\ TRAP \notin Int

LONG_MIN == -LONG_MAX - 1

Long == LONG_MIN .. LONG_MAX

\* The long that has the same low-order bits as the integer n.
Wrap(n) == LONG_MIN + ((n - LONG_MIN) % (2 * (LONG_MAX + 1)))

Abs(n) == IF n < 0 THEN -n ELSE n

\* C's integer quotient, for a divisor other than 0.
Quotient(a, b) ==
  LET q == Abs(a) \div Abs(b)
  IN  IF (a < 0) = (b < 0) THEN q ELSE -q

Divide(a, b) ==
  IF b = 0 \/ (a = LONG_MIN /\ b = -1) THEN TRAP ELSE Quotient(a, b)

\* The binary operator `type' of a node or an opcode, applied to two longs.
Binary(type, a, b) ==
  CASE type = "ADD" -> Wrap(a + b)
    [] type = "SUB" -> Wrap(a - b)
    [] type = "MUL" -> Wrap(a * b)
    [] type = "DIV" -> Divide(a, b)

Negate(a) == Wrap(-a)

\* The same for operands whose own evaluation may not have returned.
StrictBinary(type, a, b) ==
  IF a = TRAP \/ b = TRAP THEN TRAP ELSE Binary(type, a, b)

StrictNegate(a) == IF a = TRAP THEN TRAP ELSE Negate(a)
=============================================================================
