----------------------------- MODULE MCReaction -----------------------------
(* Reaction on two small systems:                                           *)
(*   MCReactionGraph.cfg   a filter that reads a source twice, so that its  *)
(*                         frame is posted twice, and one that mixes both   *)
(*   MCReactionLinear.cfg  a filter with a thread-initialisation lock over  *)
(*                         a linear, single-threaded source, asked twice    *)
(*                         for one frame and once for another               *)
EXTENDS Reaction, TLC

CONSTANTS src, flt, mix, r1, r2, r3

GraphDeps == [k \in Key |->
  CASE k[1] = src -> <<>>
    [] k[1] = flt -> <<<<src, k[2]>>, <<src, k[2]>>>>
    [] k[1] = mix -> <<<<src, k[2]>>, <<flt, k[2]>>>>]
GraphKeyOf == (r1 :> <<mix, 0>>) @@ (r2 :> <<flt, 0>>)

LinearDeps == [k \in Key |-> IF k[1] = src THEN <<>> ELSE <<<<src, k[2]>>>>]
LinearKeyOf == (r1 :> <<flt, 0>>) @@ (r2 :> <<flt, 1>>) @@ (r3 :> <<flt, 0>>)
=============================================================================
