----------------------------- MODULE FifoQueue -----------------------------
(***************************************************************************)
(* What SCQueue promises its users (the maintainer, the callback thread    *)
(* and the log thread): one first-in first-out queue that many threads put *)
(* into and one consumer takes from.  The consumer either streams (each    *)
(* message is waited for) or drains (a message is waited for, then all     *)
(* that follow are taken until the queue is found empty).                  *)
(***************************************************************************)
EXTENDS Sequences

CONSTANTS
  Message,        \* what can be put
  IsStop(_)       \* the request to stop is a message too

VARIABLES
  drains,         \* TRUE for a consumer that drains, FALSE for one that streams
  queue,          \* put and not yet taken
  mode            \* "waiting", "draining", or "over" once the consumer stopped

vars == <<drains, queue, mode>>

Init ==
  /\ drains \in BOOLEAN
  /\ queue = <<>>
  /\ mode = "waiting"

Put(m) ==
  /\ queue' = Append(queue, m)
  /\ UNCHANGED <<drains, mode>>

\* A stop that is waited for ends the consumer; one that is met while draining
\* only ends the drain.
Take ==
  /\ mode # "over"
  /\ queue # <<>>
  /\ queue' = Tail(queue)
  /\ mode' = CASE IsStop(Head(queue)) /\ mode = "waiting"  -> "over"
               [] IsStop(Head(queue)) /\ mode = "draining" -> "waiting"
               [] OTHER -> IF drains THEN "draining" ELSE "waiting"
  /\ UNCHANGED drains

\* A drain ends when there is nothing left to take, and not before.
FoundEmpty ==
  /\ mode = "draining"
  /\ queue = <<>>
  /\ mode' = "waiting"
  /\ UNCHANGED <<drains, queue>>

Next == (\E m \in Message : Put(m)) \/ Take \/ FoundEmpty

Spec == Init /\ [][Next]_vars
=============================================================================
