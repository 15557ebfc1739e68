---------------------------- MODULE FrameValues ----------------------------
(***************************************************************************)
(* What the users of frames rely on: every holder of a frame sees a value  *)
(* of its own.  Making a frame from others copies their values, writing    *)
(* through a holder changes what that holder sees and nothing else, and a  *)
(* frame that was handed on never changes again.                           *)
(***************************************************************************)
CONSTANTS
  Holder,       \* the places a frame can be held at
  Plane,        \* the contents a plane can have
  Props,        \* the contents the properties can have
  None          \* nothing is held

VARIABLES
  value,        \* value[h]: what the holder of h sees, or None
  mutable       \* the holders that may write

Value == [plane : Plane, props : Props]
Held == {h \in Holder : value[h] # None}

Init ==
  /\ value = [h \in Holder |-> None]
  /\ mutable = {}

\* A new frame, to be written to, whose parts are new or another frame's.
Make(h, v) ==
  /\ value[h] = None
  /\ value' = [value EXCEPT ![h] = v]
  /\ mutable' = mutable \cup {h}

Write(h, v) ==
  /\ h \in mutable
  /\ value' = [value EXCEPT ![h] = v]
  /\ UNCHANGED mutable

\* Another holder of a frame that is final.
Share(h, g) ==
  /\ value[h] = None /\ g \in Held \ mutable
  /\ value' = [value EXCEPT ![h] = value[g]]
  /\ UNCHANGED mutable

\* A frame is handed on, and final from then on.
HandOn(h, g) ==
  /\ value[h] = None /\ g \in Held
  /\ value' = [value EXCEPT ![h] = value[g], ![g] = None]
  /\ mutable' = mutable \ {g}

Drop(h) ==
  /\ h \in Held
  /\ value' = [value EXCEPT ![h] = None]
  /\ mutable' = mutable \ {h}

Next ==
  \E h \in Holder :
    \/ \E v \in Value : Make(h, v) \/ Write(h, v)
    \/ \E g \in Holder : Share(h, g) \/ HandOn(h, g)
    \/ Drop(h)

Spec == Init /\ [][Next]_<<value, mutable>>
=============================================================================
