--------------------------- MODULE PriorityQueue ---------------------------
(***************************************************************************)
(* PriorityQueue of CatSyn/src/queue.h, the work queue: a heap behind a    *)
(* spin lock, a flag `sem` on which idle consumers sleep, and a flag       *)
(* `stopped`.  Any number of producers (the maintainer, and workers that   *)
(* repost) and of consumers (the workers), and one thread that stops it.   *)
(*                                                                         *)
(* One action is one atomic access outside the lock, and one look at or    *)
(* change of the heap under it; the release of the lock belongs to the     *)
(* last of those.                                                          *)
(***************************************************************************)
EXTENDS Integers, FiniteSets

CONSTANTS
  Producer,     \* the threads that push
  Consumer,     \* the threads that pop
  Stopper,      \* the thread that calls request_stop
  Item,         \* numbers; the least is on top of the heap.  Each is pushed once
  Nobody        \* not a thread: the lock is free

Thread == Producer \cup Consumer \cup {Stopper}

ASSUME ThreadAssumption ==
  /\ Producer \cap Consumer = {}
  /\ Stopper \notin Producer \cup Consumer
  /\ Nobody \notin Thread
ASSUME ItemAssumption == Item \subseteq Nat

VARIABLES
  pq,           \* the items in the heap
  lock,         \* who holds the spin lock
  sem,          \* TRUE is set, and a set flag puts consumers to sleep
  stopped,
  pc,           \* where each thread stands
  carries,      \* the items a producer is pushing
  taken         \* the items popped

vars == <<pq, lock, sem, stopped, pc, carries, taken>>

Init ==
  /\ pq = {}
  /\ lock = Nobody
  /\ sem = FALSE /\ stopped = FALSE
  /\ pc = [t \in Thread |-> IF t \in Consumer THEN "reload" ELSE "idle"]
  /\ carries = [p \in Producer |-> {}]
  /\ taken = {}

Goto(t, to) == pc' = [pc EXCEPT ![t] = to]

-----------------------------------------------------------------------------
(* SpinLock *)

\* Mutant: acquire ends when the flag is already set.
Acquire_Any(t) == lock' = t

\* acquire ends with the test_and_set that finds the flag clear; the turns of
\* the loop before that change nothing.
Acquire(t) == lock = Nobody /\ lock' = t

Release(t) == lock' = Nobody

-----------------------------------------------------------------------------
(* push *)

PushAcquire(p, i) ==
  /\ pc[p] = "idle"
  /\ i \notin pq \cup taken \cup UNION {carries[q] : q \in Producer}
  /\ Acquire(p)
  /\ carries' = [carries EXCEPT ![p] = {i}]
  /\ Goto(p, "insert")
  /\ UNCHANGED <<pq, sem, stopped, taken>>

\* pq.push, lock.release
Insert(p) ==
  /\ pc[p] = "insert"
  /\ pq' = pq \cup carries[p]
  /\ carries' = [carries EXCEPT ![p] = {}]
  /\ Release(p)
  /\ Goto(p, "clear")
  /\ UNCHANGED <<sem, stopped, taken>>

\* Mutant: the flag is left as it is.
ClearSem_Skip(t) ==
  /\ pc[t] = "clear"
  /\ Goto(t, "notify")
  /\ UNCHANGED <<pq, lock, sem, stopped, carries, taken>>

\* sem.clear, of push and of request_stop
ClearSem(t) ==
  /\ pc[t] = "clear"
  /\ sem' = FALSE
  /\ Goto(t, "notify")
  /\ UNCHANGED <<pq, lock, stopped, carries, taken>>

Asleep == {c \in Consumer : pc[c] = "asleep"}

\* sem.notify_one: one of the sleeping consumers, any, looks at the flag again.
NotifyOne(p) ==
  /\ pc[p] = "notify"
  /\ IF Asleep = {}
       THEN Goto(p, "idle")
       ELSE \E c \in Asleep : pc' = [pc EXCEPT ![p] = "idle", ![c] = "look"]
  /\ UNCHANGED <<pq, lock, sem, stopped, carries, taken>>

-----------------------------------------------------------------------------
(* pop<true>, around which stream loops *)

PopAcquire(c) ==
  /\ pc[c] = "reload"
  /\ Acquire(c)
  /\ Goto(c, "test")
  /\ UNCHANGED <<pq, sem, stopped, carries, taken>>

\* pq.empty: an empty heap releases the lock.
TestEmpty(c) ==
  /\ pc[c] = "test"
  /\ IF pq = {}
       THEN Release(c) /\ Goto(c, "check")
       ELSE UNCHANGED lock /\ Goto(c, "take")
  /\ UNCHANGED <<pq, sem, stopped, carries, taken>>

\* pq.top, pq.pop, lock.release; then the caller works on the item.
Take(c) ==
  /\ pc[c] = "take"
  /\ \E i \in pq :
       /\ \A j \in pq : i <= j
       /\ pq' = pq \ {i}
       /\ taken' = taken \cup {i}
  /\ Release(c)
  /\ Goto(c, "work")
  /\ UNCHANGED <<sem, stopped, carries>>

Worked(c) ==
  /\ pc[c] = "work"
  /\ Goto(c, "reload")
  /\ UNCHANGED <<pq, lock, sem, stopped, carries, taken>>

\* stopped.test: a stopped queue throws StopRequested.
CheckStopped(c) ==
  /\ pc[c] = "check"
  /\ Goto(c, IF stopped THEN "over" ELSE "gate")
  /\ UNCHANGED <<pq, lock, sem, stopped, carries, taken>>

\* Mutant: whoever finds the flag set reloads.
TestAndSet_Inverted(c) ==
  /\ pc[c] = "gate"
  /\ sem' = TRUE
  /\ Goto(c, IF sem THEN "reload" ELSE "look")
  /\ UNCHANGED <<pq, lock, stopped, carries, taken>>

\* sem.test_and_set: whoever finds the flag clear reloads.
TestAndSet(c) ==
  /\ pc[c] = "gate"
  /\ sem' = TRUE
  /\ Goto(c, IF sem THEN "look" ELSE "reload")
  /\ UNCHANGED <<pq, lock, stopped, carries, taken>>

\* sem.wait(true) returns at once unless the flag is set.
Look(c) ==
  /\ pc[c] = "look"
  /\ Goto(c, IF sem THEN "asleep" ELSE "check")
  /\ UNCHANGED <<pq, lock, sem, stopped, carries, taken>>

-----------------------------------------------------------------------------
(* request_stop: `stopped`, then sem.clear as above, then sem.notify_all *)

RequestStop ==
  /\ pc[Stopper] = "idle"
  /\ ~stopped
  /\ stopped' = TRUE
  /\ Goto(Stopper, "clear")
  /\ UNCHANGED <<pq, lock, sem, carries, taken>>

\* Mutant: the stop wakes nobody.
NotifyAll_None ==
  /\ pc[Stopper] = "notify"
  /\ pc' = [pc EXCEPT ![Stopper] = "idle"]
  /\ UNCHANGED <<pq, lock, sem, stopped, carries, taken>>

NotifyAll ==
  /\ pc[Stopper] = "notify"
  /\ pc' = [t \in Thread |-> IF t \in Asleep THEN "look"
                             ELSE IF t = Stopper THEN "idle" ELSE pc[t]]
  /\ UNCHANGED <<pq, lock, sem, stopped, carries, taken>>

-----------------------------------------------------------------------------
Pushing(p) == Insert(p) \/ ClearSem(p) \/ NotifyOne(p)
Popping(c) ==
  \/ PopAcquire(c) \/ TestEmpty(c) \/ Take(c) \/ Worked(c)
  \/ CheckStopped(c) \/ TestAndSet(c) \/ Look(c)
Stopping == ClearSem(Stopper) \/ NotifyAll

Next ==
  \/ \E p \in Producer : Pushing(p) \/ \E i \in Item : PushAcquire(p, i)
  \/ \E c \in Consumer : Popping(c)
  \/ RequestStop \/ Stopping

\* Every thread that has begun an operation goes on with it; nobody is obliged
\* to push or to stop.
Spec ==
  /\ Init /\ [][Next]_vars
  /\ \A p \in Producer : WF_vars(Pushing(p))
  /\ \A c \in Consumer : WF_vars(Popping(c))
  /\ WF_vars(Stopping)

-----------------------------------------------------------------------------
\* Between a worker's pq.empty() and its pq.top() nobody else is at the heap,
\* so no worker ever takes from an empty one.
HeapExclusive ==
  /\ \A t, u \in Thread :
       pc[t] \in {"insert", "test", "take"} /\ pc[u] \in {"insert", "test", "take"} => t = u
  /\ \A c \in Consumer : pc[c] = "take" => pq # {}

\* The consumers that will look into the heap before they next sleep.
Active == {c \in Consumer : pc[c] \in {"reload", "test", "take", "work"}}

\* No item is left lying while all the workers sleep: when there is one, a
\* worker is on its way to the heap, or the flag is clear, or it is about to
\* be cleared.  And a clear flag never goes unnoticed: some worker is awake to
\* see it, or is about to be woken.
NoStrandedItem ==
  /\ pq # {} /\ sem /\ Active = {} =>
       \E t \in Producer \cup {Stopper} : pc[t] = "clear"
  /\ ~stopped /\ ~sem /\ Asleep = Consumer /\ Consumer # {} =>
       \E p \in Producer : pc[p] = "notify"

\* Every item pushed is popped by some worker, unless the queue is stopped.
ItemsTaken == \A i \in Item : i \in pq ~> i \in taken \/ stopped

\* A stop ends at least one worker; with one worker that is all of them.  (With
\* more, a worker that looked at `stopped` too early may set the flag again
\* before those woken by notify_all look at it, and these sleep on.)
StopServed == stopped ~> \E c \in Consumer : pc[c] = "over"
=============================================================================
