---------------------------- MODULE FrameService ----------------------------
(***************************************************************************)
(* What the frame scheduler promises a client of IOutput::get_frame: the   *)
(* callback of every request is invoked, once, with the frame or with an   *)
(* error, and with an error only if some filter the frame depends on can   *)
(* fail.  There is one exception, and it is in the promise because it is   *)
(* in the code: a request may be superseded, its callback never invoked,   *)
(* by another one for the same frame that is pending at the same time.     *)
(***************************************************************************)
CONSTANTS
  Request,      \* the calls of get_frame
  KeyOf,        \* the frame each one asks for
  Fallible      \* the frames whose computation can fail

VARIABLE answer

States == {"unasked", "waiting", "frame", "error", "superseded"}

Init == answer = [r \in Request |-> "unasked"]

Ask(r) ==
  /\ answer[r] = "unasked"
  /\ answer' = [answer EXCEPT ![r] = "waiting"]

Deliver(r) ==
  /\ answer[r] = "waiting"
  /\ \/ answer' = [answer EXCEPT ![r] = "frame"]
     \/ /\ KeyOf[r] \in Fallible
        /\ answer' = [answer EXCEPT ![r] = "error"]

Supersede(r) ==
  /\ answer[r] = "waiting"
  /\ \E q \in Request \ {r} : KeyOf[q] = KeyOf[r] /\ answer[q] = "waiting"
  /\ answer' = [answer EXCEPT ![r] = "superseded"]

Settle(r) == Deliver(r) \/ Supersede(r)

Next == \E r \in Request : Ask(r) \/ Settle(r)

Spec ==
  /\ Init /\ [][Next]_answer
  /\ \A r \in Request : WF_answer(Settle(r))
=============================================================================
