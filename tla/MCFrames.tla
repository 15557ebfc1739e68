------------------------------ MODULE MCFrames ------------------------------
(* Two threads, with two references and one, and one product; memory for    *)
(* three frames and planes, two tables and two numbers.                     *)
EXTENDS Frames

MCRef == {<<1, 1>>, <<1, 2>>, <<2, 1>>}

\* Objects are told apart by what refers to them, not by where they lie in
\* memory; what freed memory holds is written before it is read.
Same(part(_)) == [h \in Holder |-> IF holds[h] = None THEN {} ELSE
  {g \in Holder : holds[g] # None /\ part(holds[g]) = part(holds[h])}]
PlaneOf(f) == frame[f].plane
PropsOf(f) == frame[f].props
NumberOf(f) == entry[frame[f].props]
FrameOf(f) == f

Contents(o) ==
  CASE o \in Plane -> <<count[o], bytes[o]>>
    [] o \in Number -> <<count[o], number[o]>>
    [] OTHER -> <<>>

MCView ==
  <<mutable, pc, ref, crashed,
    Same(FrameOf), Same(PlaneOf), Same(PropsOf), Same(NumberOf),
    [h \in Holder |-> IF holds[h] = None THEN <<>> ELSE
       LET f == holds[h] IN
       <<count[f], Contents(PlaneOf(f)), count[PropsOf(f)],
         Contents(NumberOf(f))>>],
    [t \in Thread |->
       CASE copy[t] \in Plane -> Contents(copy[t])
         [] copy[t] \in Table -> Contents(entry[copy[t]])
         [] OTHER -> <<>>],
    [t \in Thread |-> copy[t] \in Table /\ ref[t] # None
                        /\ entry[copy[t]] = NumberOf(holds[ref[t]])],
    [K \in {Frame, Plane, Table, Number} |-> Cardinality(FreeIn(K))]>>
=============================================================================
