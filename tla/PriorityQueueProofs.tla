------------------------ MODULE PriorityQueueProofs ------------------------
(***************************************************************************)
(* The invariants of PriorityQueue, for any sets of producers, consumers   *)
(* and items.                                                              *)
(***************************************************************************)
EXTENDS PriorityQueue, TLAPS

USE ThreadAssumption

Places ==
  {"idle", "insert", "clear", "notify",
   "reload", "test", "take", "work", "check", "gate", "look", "asleep", "over"}
AtHeap == {"insert", "test", "take"}

Typed == pc \in [Thread -> Places]

\* The spin lock is held by the thread at the heap, and by nobody else.
LockHeld == \A t \in Thread : pc[t] \in AtHeap <=> lock = t

\* Who found an item holds the lock, so that it is still there.
TakeFinds == \A c \in Consumer : pc[c] = "take" => pq # {}

\* A consumer clears no flag, and the thread that stops has said so first.
Cleared ==
  /\ \A c \in Consumer : pc[c] \notin {"clear", "notify"}
  /\ pc[Stopper] \in {"clear", "notify"} => stopped

IInv == Typed /\ LockHeld /\ TakeFinds /\ Cleared /\ NoStrandedItem

-----------------------------------------------------------------------------
LEMMA InitIInv == Init => IInv
<1> SUFFICES ASSUME Init PROVE IInv
  OBVIOUS
<1>1. pc \in [Thread -> {"reload", "idle"}] /\ \A c \in Consumer : pc[c] = "reload"
  BY DEF Init, Thread
<1>2. pc[Stopper] = "idle"
  BY DEF Init, Thread
<1>3. LockHeld
  BY <1>1 DEF Init, LockHeld, AtHeap
<1>4. NoStrandedItem
  BY <1>1 DEF Init, NoStrandedItem, Asleep
<1> QED
  BY <1>1, <1>2, <1>3, <1>4 DEF IInv, Typed, Places, TakeFinds, Cleared, Thread

\* A thread moves away from the heap, or stays away from it, and the lock is not its own.
LEMMA LockKept ==
  ASSUME Typed, LockHeld, lock' = lock, NEW t \in Thread, NEW to \in Places, Goto(t, to),
         pc[t] \in AtHeap <=> to \in AtHeap
  PROVE  LockHeld'
BY DEF Typed, LockHeld, Goto

LEMMA LockTaken ==
  ASSUME Typed, LockHeld, NEW t \in Thread, NEW to \in AtHeap, Acquire(t), Goto(t, to)
  PROVE  LockHeld'
BY DEF Typed, LockHeld, Goto, Acquire, AtHeap

LEMMA LockGivenBack ==
  ASSUME Typed, LockHeld, NEW t \in Thread, pc[t] \in AtHeap, NEW to, to \notin AtHeap,
         Release(t), Goto(t, to)
  PROVE  LockHeld'
BY DEF Typed, LockHeld, Goto, Release, AtHeap

LEMMA NextIInv == IInv /\ [Next]_vars => IInv'
<1> SUFFICES ASSUME IInv, [Next]_vars PROVE IInv'
  OBVIOUS
<1>ok. Typed /\ LockHeld /\ TakeFinds /\ Cleared /\ NoStrandedItem
  BY DEF IInv
<1> USE DEF Goto, Typed, Places, Thread, Cleared
<1>1. ASSUME NEW p \in Producer, NEW i \in Item, PushAcquire(p, i) PROVE IInv'
  <2>1. LockHeld'
    BY <1>ok, <1>1, LockTaken DEF PushAcquire, AtHeap
  <2>2. TakeFinds'
    BY <1>ok, <1>1 DEF PushAcquire, TakeFinds
  <2>3. NoStrandedItem'
    BY <1>ok, <1>1 DEF PushAcquire, NoStrandedItem, Active, Asleep
  <2> QED
    BY <1>ok, <1>1, <2>1, <2>2, <2>3 DEF IInv, PushAcquire
<1>2. ASSUME NEW p \in Producer, Insert(p) PROVE IInv'
  <2>1. LockHeld'
    BY <1>ok, <1>2, LockGivenBack DEF Insert, AtHeap
  <2>2. TakeFinds'
    BY <1>ok, <1>2 DEF Insert, TakeFinds
  <2>3. NoStrandedItem'
    BY <1>ok, <1>2 DEF Insert, NoStrandedItem, Active, Asleep
  <2> QED
    BY <1>ok, <1>2, <2>1, <2>2, <2>3 DEF IInv, Insert
<1>3. ASSUME NEW t \in Producer \cup {Stopper}, ClearSem(t) PROVE IInv'
  <2>1. LockHeld'
    BY <1>ok, <1>3, LockKept DEF ClearSem, AtHeap
  <2>2. TakeFinds'
    BY <1>ok, <1>3 DEF ClearSem, TakeFinds
  <2>3. NoStrandedItem'
    BY <1>ok, <1>3 DEF ClearSem, NoStrandedItem, Active, Asleep
  <2> QED
    BY <1>ok, <1>3, <2>1, <2>2, <2>3 DEF IInv, ClearSem
<1>4. ASSUME NEW p \in Producer, NotifyOne(p) PROVE IInv'
  <2>1. LockHeld'
    BY <1>ok, <1>4 DEF NotifyOne, LockHeld, AtHeap, Asleep
  <2>2. TakeFinds'
    BY <1>ok, <1>4 DEF NotifyOne, TakeFinds, Asleep
  <2>3. NoStrandedItem'
    BY <1>ok, <1>4 DEF NotifyOne, NoStrandedItem, Active, Asleep
  <2> QED
    BY <1>ok, <1>4, <2>1, <2>2, <2>3 DEF IInv, NotifyOne, Asleep
<1>5. ASSUME NEW c \in Consumer, PopAcquire(c) PROVE IInv'
  <2>1. LockHeld'
    BY <1>ok, <1>5, LockTaken DEF PopAcquire, AtHeap
  <2>2. TakeFinds'
    BY <1>ok, <1>5 DEF PopAcquire, TakeFinds
  <2>3. NoStrandedItem'
    BY <1>ok, <1>5 DEF PopAcquire, NoStrandedItem, Active, Asleep
  <2> QED
    BY <1>ok, <1>5, <2>1, <2>2, <2>3 DEF IInv, PopAcquire
<1>6. ASSUME NEW c \in Consumer, TestEmpty(c) PROVE IInv'
  <2>1. LockHeld'
    BY <1>ok, <1>6, LockGivenBack, LockKept DEF TestEmpty, AtHeap
  <2>2. TakeFinds'
    BY <1>ok, <1>6 DEF TestEmpty, TakeFinds
  <2>3. NoStrandedItem'
    BY <1>ok, <1>6 DEF TestEmpty, NoStrandedItem, Active, Asleep
  <2> QED
    BY <1>ok, <1>6, <2>1, <2>2, <2>3 DEF IInv, TestEmpty
<1>7. ASSUME NEW c \in Consumer, Take(c) PROVE IInv'
  <2>1. LockHeld'
    BY <1>ok, <1>7, LockGivenBack DEF Take, AtHeap
  <2>2. TakeFinds'
    BY <1>ok, <1>7 DEF Take, TakeFinds, LockHeld, AtHeap
  <2>3. NoStrandedItem'
    BY <1>ok, <1>7 DEF Take, NoStrandedItem, Active, Asleep
  <2> QED
    BY <1>ok, <1>7, <2>1, <2>2, <2>3 DEF IInv, Take
<1>8. ASSUME NEW c \in Consumer, Worked(c) \/ CheckStopped(c) \/ TestAndSet(c) \/ Look(c)
      PROVE  IInv'
  <2> USE DEF Worked, CheckStopped, TestAndSet, Look
  <2>1. LockHeld'
    BY <1>ok, <1>8, LockKept DEF AtHeap
  <2>2. TakeFinds'
    BY <1>ok, <1>8 DEF TakeFinds
  <2>3. NoStrandedItem'
    BY <1>ok, <1>8 DEF NoStrandedItem, Active, Asleep
  <2> QED
    BY <1>ok, <1>8, <2>1, <2>2, <2>3 DEF IInv
<1>9. ASSUME RequestStop \/ NotifyAll PROVE IInv'
  <2> USE DEF RequestStop, NotifyAll
  <2>1. LockHeld'
    BY <1>ok, <1>9 DEF LockHeld, AtHeap, Asleep
  <2>2. TakeFinds'
    BY <1>ok, <1>9 DEF TakeFinds, Asleep
  <2>3. NoStrandedItem'
    BY <1>ok, <1>9 DEF NoStrandedItem, Active, Asleep
  <2> QED
    BY <1>ok, <1>9, <2>1, <2>2, <2>3 DEF IInv, Asleep
<1>10. CASE UNCHANGED vars
  BY <1>ok, <1>10 DEF IInv, vars, LockHeld, TakeFinds, NoStrandedItem, Active, Asleep
<1> QED
  BY <1>1, <1>2, <1>3, <1>4, <1>5, <1>6, <1>7, <1>8, <1>9, <1>10 DEF Next, Pushing, Popping, Stopping

LEMMA Inductive == Spec => []IInv
<1>1. Init => IInv
  BY InitIInv
<1>2. IInv /\ [Next]_vars => IInv'
  BY NextIInv
<1> QED
  BY <1>1, <1>2, PTL DEF Spec

\* One thread at a time is at the heap, and no worker takes from an empty one
\* (queue.h, line 158), for any number of threads.
THEOREM OneAtTheHeap == Spec => []HeapExclusive
<1>1. IInv => HeapExclusive
  BY DEF IInv, LockHeld, TakeFinds, AtHeap, HeapExclusive, Thread
<1> QED
  BY <1>1, Inductive, PTL

\* No item is left in the heap while all workers sleep, whatever the order in which
\* workers set the flag and look at it, and producers clear it and notify.
THEOREM NothingStranded == Spec => []NoStrandedItem
<1>1. IInv => NoStrandedItem
  BY DEF IInv
<1> QED
  BY <1>1, Inductive, PTL
=============================================================================
