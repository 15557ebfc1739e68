----------------------------- MODULE MCPathway -----------------------------
(* A pathway of two steps over two sources, with a function of one source   *)
(* and one of two.  What follows once an instance was left behind is not    *)
(* explored for its frames: which steps are used again, and for what, does  *)
(* not depend on it.                                                        *)
EXTENDS Pathway

CONSTANTS a, b, unary, binary

MCArity == [h \in Func |-> IF h = binary THEN 2 ELSE 1]
NotStale == ~stale
=============================================================================
