---------------------------- MODULE MCAllocator ----------------------------
(* The pool with two size classes of 2 and 4 bytes and bins of 4 bytes, so  *)
(* two blocks and one, and sizes up to one byte too many.                   *)
EXTENDS Allocator

MCNumClasses == 2
MCOffset == 1
MCRoundSize == [c \in 0 .. MCNumClasses - 1 |-> 2 ^ (MCOffset + c)]
MCSize == {2, 3, 5}

\* size_to_size_class as the code computes it, against the least class that is
\* large enough: on the instance, and at both sides of every power of two of
\* the real pool (sixteen classes from 2^12 up).
BitWidth(n) == CHOOSE w \in 0 .. 30 : n < 2 ^ w /\ (w > 0 => 2 ^ (w - 1) <= n)
ASSUME \A s \in MCSize : TooLarge(s) \/ BitWidth(s - 1) - MCOffset = SizeClass(s)
ASSUME
  \A k \in 12 .. 27, d \in {-1, 0, 1} :
    LET s == 2 ^ k + d IN
    s \in 2 ^ 12 .. 2 ^ 27 =>
      BitWidth(s - 1) - 12 =
        CHOOSE c \in 0 .. 15 : s <= 2 ^ (12 + c) /\ \A e \in 0 .. c - 1 : 2 ^ (12 + e) < s
=============================================================================
