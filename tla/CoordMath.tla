----------------------------- MODULE CoordMath -----------------------------
(***************************************************************************)
(* The integer helpers of platform/Math.hpp that turn a block's position   *)
(* in the world into the position of its chunk and its own in the chunk.   *)
(***************************************************************************)
EXTENDS Integers

\* C++'s quotient and remainder, which round toward zero.
Quotient(x, y) == IF x < 0 THEN -((-x) \div y) ELSE x \div y
Remainder(x, y) == x - y * Quotient(x, y)

RMod(x, y) ==
  LET ret == Remainder(x, y) IN IF ret < 0 THEN y + ret ELSE ret

DivRd(x, y) == IF x < 0 THEN Quotient(x + 1, y) - 1 ELSE Quotient(x, y)
=============================================================================
