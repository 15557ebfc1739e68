-------------------------------- MODULE Heap --------------------------------
(***************************************************************************)
(* What a caller of alloc and dealloc relies on: a block handed out is     *)
(* large enough, and shares no byte with a block another caller holds.     *)
(***************************************************************************)
EXTENDS Integers

CONSTANTS
  Address,      \* the bytes of memory
  Size          \* the sizes that are asked for

VARIABLES
  extent        \* extent[a]: the bytes of the block handed out at a

Init == extent = [a \in {} |-> {}]

\* A block of bytes nobody holds.
Get(a, bytes) ==
  /\ a \notin DOMAIN extent
  /\ a \in bytes
  /\ \A b \in DOMAIN extent : extent[b] \cap bytes = {}
  /\ extent' = [b \in DOMAIN extent \cup {a} |->
                  IF b = a THEN bytes ELSE extent[b]]

Put(a) ==
  /\ a \in DOMAIN extent
  /\ extent' = [b \in DOMAIN extent \ {a} |-> extent[b]]

Next ==
  \E a \in Address :
    \/ Put(a)
    \/ \E bytes \in {a .. a + s - 1 : s \in Size} : Get(a, bytes)

Spec == Init /\ [][Next]_extent
=============================================================================
