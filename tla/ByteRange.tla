----------------------------- MODULE ByteRange ------------------------------
(***************************************************************************)
(* Runs of bytes, named by their positions in a body, and the arithmetic   *)
(* of ranges.                                                              *)
(***************************************************************************)
EXTENDS Naturals

AtMost(a, b) == IF a < b THEN a ELSE b

\* u64::saturating_sub
Minus(a, b) == IF a < b THEN 0 ELSE a - b

\* The n bytes from a position on.
Bytes(from, n) == [i \in 1..n |-> from + i - 1]
=============================================================================
