------------------------------ MODULE SCQueue ------------------------------
(***************************************************************************)
(* SCQueue of CatSyn/src/queue.h: a linked list that many producers push   *)
(* to with one exchange of `head` and one store of `next`, that a single   *)
(* consumer pops from the `tail` side, freeing nodes as it goes, and a     *)
(* flag, `sem`, on which the consumer sleeps.                              *)
(*                                                                         *)
(* One action is one atomic access to shared memory.  A node is named by   *)
(* the place of its exchange in the order of exchanges, so the node before *)
(* it is one less and the nodes freed are those before `tail`.  The        *)
(* accesses are interleaved one at a time: the acquire and release orders  *)
(* of the code are taken to give what they are there for.                  *)
(***************************************************************************)
EXTENDS Integers, Sequences, FiniteSets

CONSTANTS
  Producer,     \* the threads that push
  MaxPush       \* bound on the number of pushes

ASSUME ProducerAssumption == IsFiniteSet(Producer)
ASSUME MaxPushAssumption == MaxPush \in Nat

VARIABLES
  drains,       \* TRUE: the consumer uses consume_all; FALSE: it uses stream
  head,         \* the last node exchanged in
  tail,         \* the consumer's node: its value is gone, its next comes next
  linked,       \* the nodes whose `next` has been stored
  value,        \* value[n]: what node n carried, a task or the nullopt of a stop
  sem,          \* the flag: TRUE is set, and a set flag puts the consumer to sleep
  ppc,          \* where each producer stands in push
  node,         \* the node each producer is pushing
  cpc,          \* where the consumer stands in pop
  waits,        \* TRUE in pop<true>, FALSE in pop<false>
  swallowed     \* a pop<false> met the stop and threw it away

producerVars == <<ppc, node>>
consumerVars == <<drains, cpc, waits, swallowed>>
vars == <<head, tail, linked, value, sem, producerVars, consumerVars>>

Stub == 1
Node == Stub .. MaxPush + 1

Init ==
  /\ drains \in BOOLEAN
  /\ head = Stub /\ tail = Stub
  /\ linked = {}
  /\ value = <<"stub">>
  /\ sem = FALSE
  /\ ppc = [p \in Producer |-> "idle"]
  /\ node = [p \in Producer |-> Stub]
  /\ cpc = "load" /\ waits = TRUE /\ swallowed = FALSE

StopPushed == \E n \in 1 .. head : value[n] = "stop"

PGoto(p, to) == ppc' = [ppc EXCEPT ![p] = to]
CGoto(to) == cpc' = to

-----------------------------------------------------------------------------
(* push and request_stop *)

\* head.exchange(new_node): from here on the message is in the queue, though
\* the consumer cannot reach it yet.
Exchange(p, v) ==
  /\ ppc[p] = "idle"
  /\ head <= MaxPush
  /\ v = "stop" => ~StopPushed
  /\ head' = head + 1
  /\ value' = Append(value, v)
  /\ node' = [node EXCEPT ![p] = head + 1]
  /\ PGoto(p, "link")
  /\ UNCHANGED <<tail, linked, sem, consumerVars>>

\* prev->next.store(new_node)
Link(p) ==
  /\ ppc[p] = "link"
  /\ linked' = linked \cup {node[p] - 1}
  /\ PGoto(p, "clear")
  /\ UNCHANGED <<head, tail, value, sem, node, consumerVars>>

\* Mutant: the flag is left as it is.
ClearSem_Skip(p) ==
  /\ ppc[p] = "clear"
  /\ PGoto(p, "notify")
  /\ UNCHANGED <<head, tail, linked, value, sem, node, consumerVars>>

\* sem.clear
ClearSem(p) ==
  /\ ppc[p] = "clear"
  /\ sem' = FALSE
  /\ PGoto(p, "notify")
  /\ UNCHANGED <<head, tail, linked, value, node, consumerVars>>

\* sem.notify_one: a sleeping consumer goes back to look at the flag.
NotifyOne(p) ==
  /\ ppc[p] = "notify"
  /\ cpc' = IF cpc = "asleep" THEN "look" ELSE cpc
  /\ PGoto(p, "idle")
  /\ UNCHANGED <<head, tail, linked, value, sem, node, drains, waits, swallowed>>

-----------------------------------------------------------------------------
(* pop, and the loops of stream and consume_all around it *)

\* The next pop after a message was handled, and after a drain ended.
AfterTask == waits' = ~drains
NextBatch == waits' = TRUE

\* Mutant: the consumer frees up to head, as if every exchange were a link.
TakeNext_Head ==
  /\ cpc = "load"
  /\ tail \in linked
  /\ tail' = head
  /\ IF value[head] = "task"
       THEN CGoto("load") /\ AfterTask /\ UNCHANGED swallowed
       ELSE /\ CGoto(IF waits THEN "over" ELSE "load")
            /\ swallowed' = ~waits
            /\ NextBatch
  /\ UNCHANGED <<head, linked, value, sem, drains, producerVars>>

\* Mutant: pop<true> does not throw on a nullopt.
TakeNext_NoThrow ==
  /\ cpc = "load"
  /\ tail \in linked
  /\ tail' = tail + 1
  /\ IF value[tail + 1] = "task"
       THEN AfterTask /\ UNCHANGED swallowed
       ELSE NextBatch /\ swallowed' = ~waits
  /\ UNCHANGED <<head, linked, value, sem, drains, cpc, producerVars>>

\* t->next is there: step to it, delete t, take the value.  A task is handled;
\* a stop throws StopRequested out of pop<true>, while pop<false> returns it as
\* nullopt, which consume_all takes for an empty queue.
TakeNext ==
  /\ cpc = "load"
  /\ tail \in linked
  /\ tail' = tail + 1
  /\ IF value[tail + 1] = "task"
       THEN CGoto("load") /\ AfterTask /\ UNCHANGED swallowed
       ELSE /\ CGoto(IF waits THEN "over" ELSE "load")
            /\ swallowed' = ~waits
            /\ NextBatch
  /\ UNCHANGED <<head, linked, value, sem, drains, producerVars>>

\* t->next is null: compare with head.
NoNext ==
  /\ cpc = "load"
  /\ tail \notin linked
  /\ CGoto("compare")
  /\ UNCHANGED <<head, tail, linked, value, sem, drains, waits, swallowed, producerVars>>

\* Mutant: a null next is taken for an empty queue.
CompareHead_Trust ==
  /\ cpc = "compare"
  /\ IF waits
       THEN CGoto("gate") /\ UNCHANGED waits
       ELSE CGoto("load") /\ NextBatch
  /\ UNCHANGED <<head, tail, linked, value, sem, drains, swallowed, producerVars>>

\* head == t: the queue is empty; pop<false> says so, pop<true> goes to the
\* flag.  Otherwise some producer is about to link: look again.
CompareHead ==
  /\ cpc = "compare"
  /\ IF head # tail
       THEN CGoto("load") /\ UNCHANGED waits
       ELSE IF waits
              THEN CGoto("gate") /\ UNCHANGED waits
              ELSE CGoto("load") /\ NextBatch
  /\ UNCHANGED <<head, tail, linked, value, sem, drains, swallowed, producerVars>>

\* sem.test_and_set: whoever finds it clear reloads.
TestAndSet ==
  /\ cpc = "gate"
  /\ CGoto(IF sem THEN "look" ELSE "load")
  /\ sem' = TRUE
  /\ UNCHANGED <<head, tail, linked, value, drains, waits, swallowed, producerVars>>

\* sem.wait(true): returns at once unless the flag is set.
Look ==
  /\ cpc = "look"
  /\ CGoto(IF sem THEN "asleep" ELSE "gate")
  /\ UNCHANGED <<head, tail, linked, value, sem, drains, waits, swallowed, producerVars>>

-----------------------------------------------------------------------------
Pushing(p) == Link(p) \/ ClearSem(p) \/ NotifyOne(p)
Consumer == TakeNext \/ NoNext \/ CompareHead \/ TestAndSet \/ Look

Next ==
  \/ \E p \in Producer : (\E v \in {"task", "stop"} : Exchange(p, v)) \/ Pushing(p)
  \/ Consumer

\* A thread that has begun a push ends it, and the consumer thread runs; nobody
\* is obliged to push.
Spec ==
  /\ Init /\ [][Next]_vars
  /\ \A p \in Producer : WF_vars(Pushing(p))
  /\ WF_vars(Consumer)

-----------------------------------------------------------------------------
\* A producer that is about to store prev->next never stores it in a node the
\* consumer has already deleted (line 54 against line 31).
NoUseAfterFree ==
  \A p \in Producer : ppc[p] = "link" => node[p] - 1 >= tail

\* The list behaves as a first-in first-out queue whose pushes take effect at
\* their exchange, and in which pop<false> reports emptiness only of an empty
\* queue.
Fifo == INSTANCE FifoQueue WITH
  Message <- {"task", "stop"},
  IsStop <- LAMBDA m : m = "stop",
  queue <- SubSeq(value, tail + 1, head),
  mode <- IF cpc = "over" THEN "over" ELSE IF waits THEN "waiting" ELSE "draining"
ImplementsFifo == Fifo!Spec

\* Every message pushed is taken in the end, unless the consumer was stopped.
MessagesTaken ==
  \A n \in Node : head >= n ~> tail >= n \/ cpc = "over"

\* A stop ends the consumer.  The exception is the maintainer's consume_all,
\* which loses a stop that arrives behind a task of the same batch.
StopServed ==
  StopPushed ~> cpc = "over" \/ (drains /\ swallowed)
=============================================================================
