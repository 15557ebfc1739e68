--------------------------- MODULE ReactionProofs ---------------------------
(***************************************************************************)
(* Proofs about Reaction, in two parts: what each of its threads has at    *)
(* hand, and what becomes of its instances.                                *)
(*                                                                         *)
(* The threads: the reaction is well typed, and each of its threads has    *)
(* what its place asks for (Typed), one lemma for each action.  On the     *)
(* way, the lemmas on what a step does to the calls of construct, to an    *)
(* instance and to a worker, which the other proofs use.                   *)
(*                                                                         *)
(* The thread-initialisation locks: LocksHeld and HoldersApart.            *)
(*                                                                         *)
(* A single-threaded filter computes one frame at a time.  The invariant is *)
(* Orderly: its heart is OneOut, that what a neck has let out is one entry of *)
(* the work queue, or one worker, or one report, and that nothing is out   *)
(* unless the neck is busy.  The other parts make it inductive: the mark of a *)
(* single-threaded instance is only lost with its product there, so that no *)
(* output is posted past its neck, and an open call makes an instance that *)
(* nothing in circulation points to.                                       *)
(***************************************************************************)
EXTENDS Reaction, SequenceTheorems, TLAPS

-----------------------------------------------------------------------------
(* The invariants of Reaction that hold its theorems up: what the threads  *)
(* hold at each place they stand at, which pointers can be in circulation, *)
(* and what stands for the one frame that a neck has let out.              *)

\* Each thread has at hand what its place asks for.
CallsPlaced ==
  /\ mpc = "construct" => stack # <<>>
  /\ \A i \in 1 .. Len(stack) :
       /\ stack[i].open => stack[i].gen \in Generation
       /\ i > 1 => stack[i].open /\ stack[i].deps # <<>>
CurrentPlaced == mpc = "outputs" => current \in Pointer /\ Alive(current)
WorkersPlaced ==
  \A w \in Worker :
    /\ ~WorkerAt(w, "idle") => At(w) \in Pointer
    /\ WorkerAt(w, "taken") => SubstrateOf(At(w)) \in Guarded
Typed == TypeOK /\ CallsPlaced /\ CurrentPlaced /\ WorkersPlaced

\* A worker holds the lock of a guarded filter exactly from the attempt that
\* succeeds to the unlock, and nobody holds it beside an exclusive holder.
Outside == {"idle", "popped", "taken", "repost"}
LocksHeld ==
  \A w \in Worker :
    worker[w].mode # "none" <=> worker[w].pc \notin Outside /\ SubstrateOf(At(w)) \in Guarded
HoldersApart ==
  \A v, w \in Worker :
    v # w /\ worker[v].mode = "exclusive" /\ worker[w].mode # "none" =>
      SubstrateOf(At(v)) # SubstrateOf(At(w))

\* The pointers that a thread may still follow to an instance.
Reports(i, p) == tasks[i].kind = "notify" /\ tasks[i].inst = p
Circulating(p) ==
  \/ Alive(p)
  \/ work[p] > 0
  \/ \E s \in Substrate : p \in waiting[s]
  \/ \E w \in Worker : At(w) = p
  \/ \E i \in 1 .. Len(tasks) : Reports(i, p)

\* The instance that an open call is making is not among them yet: its number
\* is the last one given out, and no other open call has it.
OpenCallsFresh ==
  /\ \A i \in 1 .. Len(stack) : stack[i].open =>
       /\ stack[i].gen <= made[stack[i].key]
       /\ ~Circulating(PointerOf(stack[i]))
  /\ \A i, j \in 1 .. Len(stack) :
       stack[i].open /\ stack[j].open /\ PointerOf(stack[i]) = PointerOf(stack[j]) => i = j
  /\ \A p \in Pointer : Circulating(p) => p.gen <= made[p.key]

\* A frame reported as done has its product, and a frame of a single-threaded
\* filter is marked as such until it is done with.
StoredFirst ==
  /\ \A w \in Worker : WorkerAt(w, "stored") /\ Alive(At(w)) => inst[At(w).key].product
  /\ \A i \in 1 .. Len(tasks) : \A p \in Pointer :
       tasks[i] = Notify(p, FALSE) /\ Alive(p) => inst[p.key].product
SingleMarked ==
  \A k \in Key : Exists(k) /\ k[1] \in Single =>
    inst[k].single \/ inst[k].product \/ (mpc = "kill" /\ todo = <<PointerTo(k)>>)
NecksOwn == \A s \in Substrate : \A p \in waiting[s] : SubstrateOf(p) = s

\* What stands for a frame of s that its neck has let out: an entry of the work
\* queue, a worker, or a report that the maintainer has yet to read.
Queued(s) == {p \in Pointer : SubstrateOf(p) = s /\ work[p] > 0}
Holding(s) ==
  {w \in Worker : worker[w].pc \in {"popped", "taken", "repost", "run", "stored"}
                    /\ SubstrateOf(At(w)) = s}
Reported(s) ==
  {i \in 1 .. Len(tasks) : tasks[i].kind = "notify" /\ SubstrateOf(tasks[i].inst) = s}

\* There is at most one such thing, and none unless the neck is busy.
OneOut(s) ==
  /\ s \notin busy => Queued(s) = {} /\ Holding(s) = {} /\ Reported(s) = {}
  /\ Queued(s) = {} \/ (Holding(s) = {} /\ Reported(s) = {})
  /\ Holding(s) = {} \/ Reported(s) = {}
  /\ \A p, q \in Queued(s) : p = q /\ work[p] = 1
  /\ \A v, w \in Holding(s) : v = w
  /\ \A i, j \in Reported(s) : i = j
NecksHold == \A s \in Single : OneOut(s)

Orderly == OpenCallsFresh /\ StoredFirst /\ SingleMarked /\ NecksOwn /\ NecksHold

-----------------------------------------------------------------------------
(* The lemmas.                                                             *)

\* A frame is a filter and a number.
LEMMA KeyParts ==
  ASSUME NEW k \in Key
  PROVE  k[1] \in Substrate /\ k[2] \in Frame /\ k = <<k[1], k[2]>>
BY DEF Key

\* The instance of a frame, and the pointer to it.
LEMMA InstanceParts ==
  ASSUME TypeOK, NEW k \in Key, Exists(k)
  PROVE  inst[k] \in Instance /\ PointerTo(k) \in Pointer /\ Alive(PointerTo(k))
<1>1. inst[k] \in Instance
  BY DEF TypeOK, Exists
<1>2. inst[k].gen \in Generation
  BY <1>1 DEF Instance
<1> QED
  BY <1>1, <1>2 DEF PointerTo, Pointer, Alive, Exists

\* A live pointer is the pointer to the instance of its frame.
LEMMA AlivePointer ==
  ASSUME TypeOK, NEW p \in Pointer, Alive(p)
  PROVE  /\ p.key \in Key /\ Exists(p.key) /\ inst[p.key] \in Instance
         /\ p = PointerTo(p.key)
<1>1. p.key \in Key /\ Exists(p.key) /\ inst[p.key].gen = p.gen
  BY DEF Pointer, Alive
<1> QED
  BY <1>1, InstanceParts DEF Pointer, PointerTo

\* A call that is just made.
LEMMA CallType ==
  ASSUME NEW k \in Key, NEW r \in Request \cup {None}, NEW m \in BOOLEAN
  PROVE  Call(k, r, m) \in Calls
BY DEF Call, Calls

\* A sequence without its first element.
LEMMA TailShape ==
  ASSUME NEW S, NEW s \in Seq(S), s # <<>>
  PROVE  /\ Head(s) = s[1] /\ Head(s) \in S
         /\ Tail(s) \in Seq(S) /\ Len(Tail(s)) = Len(s) - 1 /\ Len(s) \in Nat \ {0}
         /\ \A i \in 1 .. Len(s) - 1 : Tail(s)[i] = s[i + 1]
  OBVIOUS

\* A sequence with an element put before it.
LEMMA ConsShape ==
  ASSUME NEW S, NEW s \in Seq(S), NEW e \in S
  PROVE  /\ <<e>> \o s \in Seq(S) /\ Len(<<e>> \o s) = Len(s) + 1
         /\ (<<e>> \o s)[1] = e
         /\ \A i \in 1 .. Len(s) : (<<e>> \o s)[i + 1] = s[i]
  OBVIOUS

\* construct goes on to the next dependency: at most one call is pushed, and
\* it has no instance yet.
LEMMA DescendShape ==
  ASSUME NEW st \in Seq(Calls), st # <<>>
  PROVE  /\ Descend(st) \in Seq(Calls)
         /\ \E d \in {0, 1} :
              /\ Len(Descend(st)) = Len(st) + d
              /\ \A j \in 1 .. Len(st) : Descend(st)[j + d] = st[j]
              /\ d = 1 => ~Descend(st)[1].open /\ Head(st).deps # <<>>
<1>1. Head(st) \in Calls /\ Head(st).deps \in Seq(Key) /\ Head(st).missed \in BOOLEAN
  <2>1. Head(st) \in Calls
    BY TailShape
  <2> QED
    BY <2>1 DEF Calls
<1>2. CASE Head(st).deps = <<>>
  <2>1. Descend(st) = st
    BY <1>2 DEF Descend
  <2> QED
    BY <2>1
<1>3. CASE Head(st).deps # <<>>
  <2> DEFINE c == Call(Head(Head(st).deps), None, Head(st).missed)
  <2>1. Head(Head(st).deps) \in Key
    BY <1>1, <1>3, TailShape
  <2>2. c \in Calls /\ ~c.open
    BY <2>1, <1>1, CallType DEF Call
  <2>3. Descend(st) = <<c>> \o st
    BY <1>3 DEF Descend
  <2> HIDE DEF c
  <2>4. /\ <<c>> \o st \in Seq(Calls)
        /\ Len(<<c>> \o st) = Len(st) + 1
        /\ (<<c>> \o st)[1] = c
        /\ \A j \in 1 .. Len(st) : (<<c>> \o st)[j + 1] = st[j]
    BY <2>2, ConsShape
  <2> QED
    <3>1. /\ Descend(st) \in Seq(Calls)
          /\ Len(Descend(st)) = Len(st) + 1
          /\ \A j \in 1 .. Len(st) : Descend(st)[j + 1] = st[j]
          /\ ~Descend(st)[1].open
      BY <2>2, <2>3, <2>4
    <3> QED
      BY <3>1, <1>3
<1> QED
  BY <1>2, <1>3

\* construct returns: the innermost call is popped, the others keep what they
\* are making, and at most one call is pushed for the next dependency.
LEMMA ReturnShape ==
  ASSUME Typed, mpc = "construct", NEW p \in Pointer, Return(p)
  PROVE  /\ stack' \in Seq(Calls)
         /\ mpc' \in {"construct", "neck"}
         /\ mpc' = "construct" => stack' # <<>>
         /\ \E d \in {0, 1} :
              /\ Len(stack') = Len(stack) - 1 + d
              /\ \A j \in 1 .. Len(stack) - 1 :
                   /\ stack'[j + d].key = stack[j + 1].key
                   /\ stack'[j + d].gen = stack[j + 1].gen
                   /\ stack'[j + d].open = stack[j + 1].open
                   /\ j + d > 1 => stack'[j + d].deps # <<>>
              /\ d = 1 => ~stack'[1].open
<1> DEFINE t == Tail(stack)
<1>1. /\ stack \in Seq(Calls) /\ stack # <<>>
      /\ t \in Seq(Calls) /\ Len(t) = Len(stack) - 1 /\ Len(stack) \in Nat \ {0}
      /\ \A i \in 1 .. Len(stack) - 1 : t[i] = stack[i + 1]
  <2>1. stack \in Seq(Calls) /\ stack # <<>>
    BY DEF Typed, TypeOK, CallsPlaced
  <2> QED
    BY <2>1, TailShape
<1> HIDE DEF t
<1>2. CASE t = <<>>
  <2>1. stack' = <<>> /\ mpc' = "neck"
    BY <1>2 DEF Return, t
  <2>2. Len(stack) = 1 /\ Len(stack') = 0
    BY <1>1, <1>2, <2>1
  <2>3. stack' \in Seq(Calls)
    BY <2>1
  <2> QED
    BY <2>1, <2>2, <2>3
<1>3. CASE t # <<>>
  <2> DEFINE caller == Head(t)
             again  == [caller EXCEPT !.inputs = @ \cup {p}, !.deps = Tail(@)]
             st     == <<again>> \o Tail(t)
  <2>1. stack' = Descend(st) /\ mpc' = "construct"
    BY <1>3 DEF Return, t
  <2>2. /\ caller = t[1] /\ caller \in Calls
        /\ Tail(t) \in Seq(Calls) /\ Len(Tail(t)) = Len(t) - 1 /\ Len(t) \in Nat \ {0}
        /\ \A i \in 1 .. Len(t) - 1 : Tail(t)[i] = t[i + 1]
    BY <1>1, <1>3, TailShape
  <2>3. caller.deps \in Seq(Key) /\ Tail(caller.deps) \in Seq(Key)
    <3>1. caller = stack[2] /\ 2 \in 1 .. Len(stack)
      BY <1>1, <2>2
    <3>2. caller.deps \in Seq(Key) /\ caller.deps # <<>>
      BY <2>2, <3>1 DEF Calls, Typed, CallsPlaced
    <3> QED
      BY <3>2, TailShape
  <2>4. /\ again \in Calls /\ again.key = caller.key
        /\ again.gen = caller.gen /\ again.open = caller.open
    BY <2>2, <2>3 DEF Calls
  <2>5. /\ st \in Seq(Calls) /\ Len(st) = Len(t) /\ st # <<>>
        /\ st[1] = again /\ \A i \in 1 .. Len(t) - 1 : st[i + 1] = t[i + 1]
    BY <2>2, <2>4, ConsShape
  <2>9. \A j \in 2 .. Len(t) : st[j].deps # <<>>
    <3> TAKE j \in 2 .. Len(t)
    <3>1. /\ j - 1 \in 1 .. Len(t) - 1 /\ (j - 1) + 1 = j
          /\ j \in 1 .. Len(stack) - 1 /\ j + 1 \in 1 .. Len(stack) /\ j + 1 > 1
      BY <2>2, <1>1
    <3>2. st[j] = stack[j + 1]
      BY <3>1, <2>5, <1>1
    <3> QED
      BY <3>1, <3>2 DEF Typed, CallsPlaced
  <2> HIDE DEF st, again, caller
  <2>6. \A j \in 1 .. Len(t) :
          st[j].key = t[j].key /\ st[j].gen = t[j].gen /\ st[j].open = t[j].open
    <3> TAKE j \in 1 .. Len(t)
    <3>1. CASE j = 1
      BY <3>1, <2>2, <2>4, <2>5
    <3>2. CASE j # 1
      <4>1. j - 1 \in 1 .. Len(t) - 1 /\ (j - 1) + 1 = j
        BY <3>2, <2>2
      <4> QED
        BY <4>1, <2>5
    <3> QED
      BY <3>1, <3>2
  <2>7. /\ Descend(st) \in Seq(Calls)
        /\ \E d \in {0, 1} :
              /\ Len(Descend(st)) = Len(st) + d
              /\ \A j \in 1 .. Len(st) : Descend(st)[j + d] = st[j]
              /\ d = 1 => ~Descend(st)[1].open /\ st[1].deps # <<>>
    BY <2>5, DescendShape, TailShape
  <2>8. stack' # <<>>
    BY <2>1, <2>5, <2>7
  <2>10. PICK d \in {0, 1} :
          /\ Len(Descend(st)) = Len(st) + d
          /\ \A j \in 1 .. Len(st) : Descend(st)[j + d] = st[j]
          /\ d = 1 => ~Descend(st)[1].open /\ st[1].deps # <<>>
    BY <2>7
  <2>11. \A j \in 1 .. Len(t) : j + d > 1 => st[j].deps # <<>>
    <3> TAKE j \in 1 .. Len(t)
    <3>1. CASE j = 1
      BY <3>1, <2>10
    <3>2. CASE j # 1
      BY <3>2, <2>9, <2>2
    <3> QED
      BY <3>1, <3>2
  <2> QED
    BY <1>1, <2>1, <2>5, <2>6, <2>7, <2>8, <2>10, <2>11
<1> QED
  BY <1>2, <1>3

\* After a return every outer call still has its instance's number and a
\* dependency that it waits for.
LEMMA ReturnPlaced ==
  ASSUME Typed, mpc = "construct", NEW p \in Pointer, Return(p)
  PROVE  CallsPlaced'
<1>1. PICK d \in {0, 1} :
        /\ Len(stack') = Len(stack) - 1 + d
        /\ \A j \in 1 .. Len(stack) - 1 :
             /\ stack'[j + d].key = stack[j + 1].key
             /\ stack'[j + d].gen = stack[j + 1].gen
             /\ stack'[j + d].open = stack[j + 1].open
             /\ j + d > 1 => stack'[j + d].deps # <<>>
        /\ d = 1 => ~stack'[1].open
  BY ReturnShape
<1>2. mpc' = "construct" => stack' # <<>>
  BY ReturnShape
<1>3. Len(stack) \in Nat
  BY DEF Typed, TypeOK
<1>4. ASSUME NEW i \in 1 .. Len(stack')
      PROVE  /\ stack'[i].open => stack'[i].gen \in Generation
             /\ i > 1 => stack'[i].open /\ stack'[i].deps # <<>>
  <2>1. CASE i <= d
    BY <2>1, <1>1
  <2>2. CASE i > d
    <3>1. i - d \in 1 .. Len(stack) - 1 /\ (i - d) + d = i /\ (i - d) + 1 \in 2 .. Len(stack)
      BY <2>2, <1>1, <1>3
    <3>2. stack[(i - d) + 1].open /\ stack[(i - d) + 1].gen \in Generation
      BY <3>1, <1>3 DEF Typed, CallsPlaced
    <3> QED
      BY <3>1, <3>2, <1>1
  <2> QED
    BY <2>1, <2>2, <1>1, <1>3
<1> QED
  BY <1>2, <1>4 DEF CallsPlaced

-----------------------------------------------------------------------------
(* the clients, the callback thread and the workers *)

\* The indulgence of a new instance is a number.
LEMMA DivNat ==
  ASSUME NEW m \in Nat, NEW n \in Nat \ {0}
  PROVE  m \div n \in Nat
  OBVIOUS

\* An instance is changed in place: no pointer comes to life or dies.
LEMMA Renew ==
  ASSUME TypeOK, NEW p \in Pointer, Alive(p), NEW new \in Instance,
         new.gen = inst[p.key].gen, inst' = [inst EXCEPT ![p.key] = new]
  PROVE  /\ inst' \in [Key -> Instance \cup {None}]
         /\ inst'[p.key] = new
         /\ \A k \in Key : k # p.key => inst'[k] = inst[k]
         /\ \A k \in Key : Exists(k)' <=> Exists(k)
         /\ \A q \in Pointer : Alive(q)' <=> Alive(q)
<1>1. p.key \in Key /\ inst[p.key] # None /\ new # None
  BY AlivePointer, NoneAssumption DEF Exists
<1>2. inst' \in [Key -> Instance \cup {None}]
  BY <1>1 DEF TypeOK
<1>3. inst'[p.key] = new /\ \A k \in Key : k # p.key => inst'[k] = inst[k]
  BY <1>1 DEF TypeOK
<1>4. \A k \in Key : Exists(k)' <=> Exists(k)
  BY <1>1, <1>3 DEF Exists
<1>5. ASSUME NEW q \in Pointer PROVE Alive(q)' <=> Alive(q)
  <2>1. q.key \in Key
    BY DEF Pointer
  <2> QED
    BY <2>1, <1>1, <1>3, <1>4 DEF Alive
<1> QED
  BY <1>2, <1>3, <1>4, <1>5

\* A worker moves on with the instance it has.
LEMMA GotoShape ==
  ASSUME TypeOK, NEW w \in Worker, NEW to \in WorkerStates, WorkerGoto(w, to)
  PROVE  /\ worker' \in [Worker -> [pc : WorkerStates, at : Pointer \cup {None}, mode : Modes]]
         /\ worker'[w].pc = to /\ worker'[w].at = worker[w].at /\ worker'[w].mode = worker[w].mode
         /\ \A v \in Worker : v # w => worker'[v] = worker[v]
<1>1. worker \in [Worker -> [pc : WorkerStates, at : Pointer \cup {None}, mode : Modes]]
  BY DEF TypeOK
<1>2. worker' = [worker EXCEPT ![w].pc = to]
  BY DEF WorkerGoto
<1> QED
  BY <1>1, <1>2

\* A worker goes back for the next frame.
LEMMA RestShape ==
  ASSUME TypeOK, NEW w \in Worker, WorkerRest(w)
  PROVE  /\ worker' \in [Worker -> [pc : WorkerStates, at : Pointer \cup {None}, mode : Modes]]
         /\ worker'[w].pc = "idle" /\ worker'[w].at = None /\ worker'[w].mode = "none"
         /\ \A v \in Worker : v # w => worker'[v] = worker[v]
<1>1. worker \in [Worker -> [pc : WorkerStates, at : Pointer \cup {None}, mode : Modes]]
  BY DEF TypeOK
<1>2. [pc |-> "idle", at |-> None, mode |-> "none"] \in [pc : WorkerStates, at : Pointer \cup {None}, mode : Modes]
  BY DEF WorkerStates, Modes
<1>3. worker' = [worker EXCEPT ![w] = [pc |-> "idle", at |-> None, mode |-> "none"]]
  BY DEF WorkerRest
<1> QED
  BY <1>1, <1>2, <1>3

\* The invariant holds at the start,
LEMMA TypedInit == Init => Typed
<1> SUFFICES ASSUME Init PROVE Typed
  OBVIOUS
<1>1. TypeOK
  <2>1. /\ inst \in [Key -> Instance \cup {None}]
        /\ made \in [Key -> Generation \cup {0}]
        /\ history \in SUBSET Key
        /\ miss \in [Substrate -> Nat]
        /\ busy \in SUBSET Single
        /\ waiting \in [Substrate -> SUBSET Pointer]
    BY DEF Init
  <2>2. /\ mpc \in {"waiting", "batch", "construct", "outputs", "kill", "neck"}
        /\ stack \in Seq(Calls)
        /\ current \in Pointer \cup {None}
        /\ todo \in Seq(Pointer)
        /\ constructed \in BOOLEAN
        /\ tasks \in Seq(Tasks)
        /\ callbacks \in Seq([request : Request, result : {"frame", "error"}])
    BY EmptySeq DEF Init
  <2>3. /\ work \in [Pointer -> Nat]
        /\ worker \in [Worker -> [pc : WorkerStates, at : Pointer \cup {None}, mode : Modes]]
        /\ inited \in [Worker -> SUBSET Guarded]
        /\ answer \in [Request -> {"unasked", "waiting", "frame", "error", "superseded"}]
    BY DEF Init, Modes, WorkerStates
  <2> QED
    BY <2>1, <2>2, <2>3 DEF TypeOK
<1>2. CallsPlaced /\ CurrentPlaced
  BY DEF Init, CallsPlaced, CurrentPlaced
<1>3. WorkersPlaced
  BY DEF Init, WorkersPlaced, WorkerAt, At
<1> QED
  BY <1>1, <1>2, <1>3 DEF Typed

\* after get_frame,
LEMMA TypedGetFrame ==
  ASSUME Typed, NEW r \in Request, GetFrame(r)
  PROVE  Typed'
<1>1. Construct(r) \in Tasks
  BY DEF Construct, Tasks
<1>2. TypeOK'
  BY <1>1 DEF Typed, TypeOK, GetFrame, maintainerVars, workerVars
<1> QED
  BY <1>2 DEF Typed, CallsPlaced, CurrentPlaced, WorkersPlaced, Alive, Exists, WorkerAt, At, GetFrame, maintainerVars, workerVars

\* and after a callback.
LEMMA TypedCallback ==
  ASSUME Typed, InvokeCallback
  PROVE  Typed'
<1>1. /\ Head(callbacks) \in [request : Request, result : {"frame", "error"}]
      /\ Tail(callbacks) \in Seq([request : Request, result : {"frame", "error"}])
  BY TailShape DEF InvokeCallback, Typed, TypeOK
<1>2. TypeOK'
  BY <1>1 DEF Typed, TypeOK, InvokeCallback, maintainerVars, workerVars
<1> QED
  BY <1>2 DEF Typed, CallsPlaced, CurrentPlaced, WorkersPlaced, Alive, Exists, WorkerAt, At, InvokeCallback, maintainerVars, workerVars

\* What a step of a worker must keep to.
LEMMA TypedWorker ==
  ASSUME Typed, NEW w \in Worker,
         worker' \in [Worker -> [pc : WorkerStates, at : Pointer \cup {None}, mode : Modes]],
         \A v \in Worker : v # w => worker'[v] = worker[v],
         worker'[w].pc # "idle" => worker'[w].at \in Pointer,
         worker'[w].pc = "taken" => SubstrateOf(worker'[w].at) \in Guarded,
         inst' \in [Key -> Instance \cup {None}],
         \A q \in Pointer : Alive(q)' <=> Alive(q),
         tasks' \in Seq(Tasks), work' \in [Pointer -> Nat],
         inited' \in [Worker -> SUBSET Guarded],
         UNCHANGED <<made, history, miss, busy, waiting, mpc, stack, current, todo,
                     constructed, callbacks, answer>>
  PROVE  Typed'
<1>1. TypeOK'
  BY DEF Typed, TypeOK
<1>2. WorkersPlaced'
  BY DEF Typed, WorkersPlaced, WorkerAt, At, SubstrateOf
<1>3. CallsPlaced' /\ CurrentPlaced'
  BY DEF Typed, CallsPlaced, CurrentPlaced
<1> QED
  BY <1>1, <1>2, <1>3 DEF Typed

\* A step that leaves the instances alone.
LEMMA SameInstances ==
  ASSUME TypeOK, UNCHANGED inst
  PROVE  /\ inst' \in [Key -> Instance \cup {None}]
         /\ \A q : Alive(q)' <=> Alive(q)
BY DEF TypeOK, Alive, Exists

\* A worker that is not idle is at an instance.
LEMMA WorkerPointer ==
  ASSUME Typed, NEW w \in Worker, ~WorkerAt(w, "idle")
  PROVE  At(w) \in Pointer /\ At(w) = worker[w].at /\ TypeOK
BY DEF Typed, WorkersPlaced, At

\* The steps of a worker, one by one.
LEMMA TypedPop ==
  ASSUME Typed, NEW w \in Worker, NEW p \in Pointer, Pop(w, p)
  PROVE  Typed'
<1> DEFINE popped == [pc |-> "popped", at |-> p, mode |-> "none"]
<1>1. worker' = [worker EXCEPT ![w] = popped]
      /\ worker \in [Worker -> [pc : WorkerStates, at : Pointer \cup {None}, mode : Modes]]
  BY DEF Pop, Typed, TypeOK
<1>2. popped \in [pc : WorkerStates, at : Pointer \cup {None}, mode : Modes]
      /\ popped.pc = "popped" /\ popped.at = p
  BY DEF WorkerStates, Modes
<1> HIDE DEF popped
<1>3. /\ worker' \in [Worker -> [pc : WorkerStates, at : Pointer \cup {None}, mode : Modes]]
      /\ worker'[w] = popped
      /\ \A v \in Worker : v # w => worker'[v] = worker[v]
  BY <1>1, <1>2
<1>4. work' \in [Pointer -> Nat]
  BY DEF Pop, Typed, TypeOK
<1>5. tasks' \in Seq(Tasks) /\ inited' \in [Worker -> SUBSET Guarded] /\ UNCHANGED inst
  BY DEF Pop, Typed, TypeOK, maintainerVars
<1>6. UNCHANGED <<made, history, miss, busy, waiting, mpc, stack, current, todo,
                  constructed, callbacks, answer>>
  BY DEF Pop, maintainerVars
<1> QED
  BY <1>2, <1>3, <1>4, <1>5, <1>6, SameInstances, TypedWorker DEF Typed

\* taken.test_and_set.
LEMMA TypedTestTaken ==
  ASSUME Typed, NEW w \in Worker, TestTaken(w)
  PROVE  Typed'
<1>1. At(w) \in Pointer /\ At(w) = worker[w].at /\ TypeOK
  BY WorkerPointer DEF TestTaken, WorkerAt
<1>2. /\ tasks' \in Seq(Tasks) /\ work' \in [Pointer -> Nat] /\ inited' \in [Worker -> SUBSET Guarded]
      /\ UNCHANGED <<made, history, miss, busy, waiting, mpc, stack, current, todo,
                     constructed, callbacks, answer>>
  BY <1>1 DEF TestTaken, TypeOK
<1>3. CASE Alive(At(w)) /\ ~inst[At(w).key].taken
  <2> DEFINE new == [inst[At(w).key] EXCEPT !.taken = TRUE]
             to == IF SubstrateOf(At(w)) \in Guarded THEN "taken" ELSE "run"
  <2>1. inst' = [inst EXCEPT ![At(w).key] = new] /\ WorkerGoto(w, to)
    BY <1>3 DEF TestTaken
  <2>2. new \in Instance /\ new.gen = inst[At(w).key].gen
    BY <1>1, <1>3, AlivePointer DEF Instance
  <2>3. /\ inst' \in [Key -> Instance \cup {None}]
        /\ \A q \in Pointer : Alive(q)' <=> Alive(q)
    BY <1>1, <1>3, <2>1, <2>2, Renew
  <2>4. to \in WorkerStates
    BY DEF WorkerStates
  <2>5. /\ worker' \in [Worker -> [pc : WorkerStates, at : Pointer \cup {None}, mode : Modes]]
        /\ worker'[w].pc = to /\ worker'[w].at = worker[w].at
        /\ \A v \in Worker : v # w => worker'[v] = worker[v]
    BY <1>1, <2>1, <2>4, GotoShape
  <2>6. to = "taken" => SubstrateOf(At(w)) \in Guarded
    OBVIOUS
  <2> HIDE DEF to, new
  <2> QED
    BY <1>1, <1>2, <2>3, <2>5, <2>6, TypedWorker
<1>4. CASE ~(Alive(At(w)) /\ ~inst[At(w).key].taken)
  <2>1. inst' = inst /\ WorkerRest(w)
    BY <1>4 DEF TestTaken
  <2>2. /\ worker' \in [Worker -> [pc : WorkerStates, at : Pointer \cup {None}, mode : Modes]]
        /\ worker'[w].pc = "idle"
        /\ \A v \in Worker : v # w => worker'[v] = worker[v]
    BY <1>1, <2>1, RestShape
  <2> QED
    BY <1>1, <1>2, <2>1, <2>2, SameInstances, TypedWorker
<1> QED
  BY <1>3, <1>4

\* The attempt on the lock succeeds,
LEMMA TypedTryLock ==
  ASSUME Typed, NEW w \in Worker, TryLock(w)
  PROVE  Typed'
<1> DEFINE s == SubstrateOf(At(w))
           m == IF s \in inited[w] THEN "shared" ELSE "exclusive"
<1>1. At(w) \in Pointer /\ At(w) = worker[w].at /\ TypeOK /\ s \in Guarded
  BY WorkerPointer DEF TryLock, WorkerAt, Typed, WorkersPlaced
<1>2. /\ tasks' \in Seq(Tasks) /\ work' \in [Pointer -> Nat] /\ UNCHANGED inst
      /\ UNCHANGED <<made, history, miss, busy, waiting, mpc, stack, current, todo,
                     constructed, callbacks, answer>>
  BY <1>1 DEF TryLock, TypeOK, maintainerVars
<1>3. inited' \in [Worker -> SUBSET Guarded]
  <2>1. inited \in [Worker -> SUBSET Guarded]
    BY <1>1 DEF TypeOK
  <2>2. inited' = inited \/ inited' = [inited EXCEPT ![w] = inited[w] \cup {s}]
    BY DEF TryLock
  <2>3. inited[w] \cup {s} \in SUBSET Guarded
    BY <2>1, <1>1
  <2> HIDE DEF s
  <2> QED
    BY <2>1, <2>2, <2>3
<1>4. worker' = [worker EXCEPT ![w].pc = "run", ![w].mode = m]
  BY DEF TryLock
<1>5. worker \in [Worker -> [pc : WorkerStates, at : Pointer \cup {None}, mode : Modes]]
      /\ m \in Modes /\ "run" \in WorkerStates
  BY <1>1 DEF TypeOK, Modes, WorkerStates
<1> HIDE DEF m
<1>6. /\ worker' \in [Worker -> [pc : WorkerStates, at : Pointer \cup {None}, mode : Modes]]
      /\ worker'[w].pc = "run" /\ worker'[w].at = worker[w].at
      /\ \A v \in Worker : v # w => worker'[v] = worker[v]
  BY <1>4, <1>5
<1> QED
  BY <1>1, <1>2, <1>3, <1>6, SameInstances, TypedWorker

\* or fails.
LEMMA TypedLockBusy ==
  ASSUME Typed, NEW w \in Worker, LockBusy(w)
  PROVE  Typed'
<1>1. At(w) \in Pointer /\ At(w) = worker[w].at /\ TypeOK
  BY WorkerPointer DEF LockBusy, WorkerAt
<1>2. /\ tasks' \in Seq(Tasks) /\ work' \in [Pointer -> Nat] /\ inited' \in [Worker -> SUBSET Guarded]
      /\ UNCHANGED <<made, history, miss, busy, waiting, mpc, stack, current, todo,
                     constructed, callbacks, answer>>
  BY <1>1 DEF LockBusy, TypeOK
<1>3. /\ worker' \in [Worker -> [pc : WorkerStates, at : Pointer \cup {None}, mode : Modes]]
      /\ worker'[w].pc = "repost" /\ worker'[w].at = worker[w].at
      /\ \A v \in Worker : v # w => worker'[v] = worker[v]
  BY <1>1, GotoShape DEF LockBusy, WorkerStates
<1>4. /\ inst' \in [Key -> Instance \cup {None}]
      /\ \A q \in Pointer : Alive(q)' <=> Alive(q)
  <2>1. CASE Alive(At(w))
    <3> DEFINE new == [inst[At(w).key] EXCEPT !.taken = FALSE]
    <3>1. inst' = [inst EXCEPT ![At(w).key] = new]
      BY <2>1 DEF LockBusy
    <3>2. new \in Instance /\ new.gen = inst[At(w).key].gen
      BY <1>1, <2>1, AlivePointer DEF Instance
    <3> QED
      BY <1>1, <2>1, <3>1, <3>2, Renew
  <2>2. CASE ~Alive(At(w))
    BY <1>1, <2>2, SameInstances DEF LockBusy
  <2> QED
    BY <2>1, <2>2
<1> QED
  BY <1>1, <1>2, <1>3, <1>4, TypedWorker

\* The frame is queued again.
LEMMA TypedRepost ==
  ASSUME Typed, NEW w \in Worker, Repost(w)
  PROVE  Typed'
<1>1. At(w) \in Pointer /\ At(w) = worker[w].at /\ TypeOK
  BY WorkerPointer DEF Repost, WorkerAt
<1>2. /\ tasks' \in Seq(Tasks) /\ inited' \in [Worker -> SUBSET Guarded] /\ UNCHANGED inst
      /\ UNCHANGED <<made, history, miss, busy, waiting, mpc, stack, current, todo,
                     constructed, callbacks, answer>>
  BY <1>1 DEF Repost, TypeOK, maintainerVars
<1>3. work' \in [Pointer -> Nat]
  BY <1>1 DEF Repost, TypeOK
<1> QED
  BY <1>1, <1>2, <1>3, RestShape, SameInstances, TypedWorker DEF Repost

\* A Notify, of a product or of an exception.
LEMMA TypedAnnounce ==
  ASSUME Typed, NEW w \in Worker, ~WorkerAt(w, "idle"), NEW exc \in BOOLEAN, Announce(w, exc),
         UNCHANGED <<maintainerVars, callbacks, work, inited, answer>>
  PROVE  Typed'
<1>1. At(w) \in Pointer /\ At(w) = worker[w].at /\ TypeOK
  BY WorkerPointer
<1>2. /\ work' \in [Pointer -> Nat] /\ inited' \in [Worker -> SUBSET Guarded] /\ UNCHANGED inst
      /\ UNCHANGED <<made, history, miss, busy, waiting, mpc, stack, current, todo,
                     constructed, callbacks, answer>>
  BY <1>1 DEF TypeOK, maintainerVars
<1>3. Notify(At(w), exc) \in Tasks
  BY <1>1 DEF Notify, Tasks
<1>4. tasks' \in Seq(Tasks)
  BY <1>1, <1>3 DEF TypeOK, Announce
<1>5. /\ worker' \in [Worker -> [pc : WorkerStates, at : Pointer \cup {None}, mode : Modes]]
      /\ \A v \in Worker : v # w => worker'[v] = worker[v]
      /\ worker'[w].pc # "idle" => worker'[w].at = worker[w].at
      /\ worker'[w].pc # "taken"
  <2>1. CASE worker[w].mode = "none"
    BY <1>1, <2>1, RestShape DEF Announce
  <2>2. CASE worker[w].mode # "none"
    BY <1>1, <2>2, GotoShape DEF Announce, WorkerStates
  <2> QED
    BY <2>1, <2>2
<1> QED
  BY <1>1, <1>2, <1>4, <1>5, SameInstances, TypedWorker

\* The product is stored.
LEMMA TypedStoreProduct ==
  ASSUME Typed, NEW w \in Worker, StoreProduct(w)
  PROVE  Typed'
<1>1. At(w) \in Pointer /\ At(w) = worker[w].at /\ TypeOK
  BY WorkerPointer DEF StoreProduct, WorkerAt
<1>2. /\ tasks' \in Seq(Tasks) /\ work' \in [Pointer -> Nat] /\ inited' \in [Worker -> SUBSET Guarded]
      /\ UNCHANGED <<made, history, miss, busy, waiting, mpc, stack, current, todo,
                     constructed, callbacks, answer>>
  BY <1>1 DEF StoreProduct, TypeOK
<1>3. /\ worker' \in [Worker -> [pc : WorkerStates, at : Pointer \cup {None}, mode : Modes]]
      /\ worker'[w].pc = "stored" /\ worker'[w].at = worker[w].at
      /\ \A v \in Worker : v # w => worker'[v] = worker[v]
  BY <1>1, GotoShape DEF StoreProduct, WorkerStates
<1>4. /\ inst' \in [Key -> Instance \cup {None}]
      /\ \A q \in Pointer : Alive(q)' <=> Alive(q)
  <2>1. CASE Alive(At(w))
    <3> DEFINE new == [inst[At(w).key] EXCEPT !.product = TRUE]
    <3>1. inst' = [inst EXCEPT ![At(w).key] = new]
      BY <2>1 DEF StoreProduct
    <3>2. new \in Instance /\ new.gen = inst[At(w).key].gen
      BY <1>1, <2>1, AlivePointer DEF Instance
    <3> QED
      BY <1>1, <2>1, <3>1, <3>2, Renew
  <2>2. CASE ~Alive(At(w))
    BY <1>1, <2>2, SameInstances DEF StoreProduct
  <2> QED
    BY <2>1, <2>2
<1> QED
  BY <1>1, <1>2, <1>3, <1>4, TypedWorker

\* The lock is given back.
LEMMA TypedUnlock ==
  ASSUME Typed, NEW w \in Worker, Unlock(w)
  PROVE  Typed'
<1>1. TypeOK /\ /\ tasks' \in Seq(Tasks) /\ work' \in [Pointer -> Nat]
      /\ inited' \in [Worker -> SUBSET Guarded] /\ UNCHANGED inst
      /\ UNCHANGED <<made, history, miss, busy, waiting, mpc, stack, current, todo,
                     constructed, callbacks, answer>>
  BY DEF Typed, Unlock, TypeOK, maintainerVars
<1> QED
  BY <1>1, RestShape, SameInstances, TypedWorker DEF Unlock

\* Whatever a worker does.
LEMMA TypedWorkerStep ==
  ASSUME Typed, NEW w \in Worker, WorkerStep(w)
  PROVE  Typed'
<1>1. ASSUME NEW p \in Pointer, Pop(w, p) PROVE Typed'
  BY <1>1, TypedPop
<1>2. CASE TestTaken(w)
  BY <1>2, TypedTestTaken
<1>3. CASE TryLock(w)
  BY <1>3, TypedTryLock
<1>4. CASE LockBusy(w)
  BY <1>4, TypedLockBusy
<1>5. CASE Repost(w)
  BY <1>5, TypedRepost
<1>6. CASE Fail(w)
  BY <1>6, TypedAnnounce DEF Fail, WorkerAt
<1>7. CASE StoreProduct(w)
  BY <1>7, TypedStoreProduct
<1>8. CASE Succeed(w)
  BY <1>8, TypedAnnounce DEF Succeed, WorkerAt
<1>9. CASE Unlock(w)
  BY <1>9, TypedUnlock
<1> QED
  BY <1>1, <1>2, <1>3, <1>4, <1>5, <1>6, <1>7, <1>8, <1>9 DEF WorkerStep

-----------------------------------------------------------------------------
(* the maintainer *)

\* A step of the maintainer leaves the workers where they are.
LEMMA WorkersStay ==
  ASSUME Typed, UNCHANGED workerVars
  PROVE  WorkersPlaced'
BY DEF Typed, WorkersPlaced, WorkerAt, At, workerVars

\* post_work, to the queue or to a neck.
LEMMA PostWorkType ==
  ASSUME TypeOK, NEW p \in Pointer, NEW single, PostWork(p, single)
  PROVE  work' \in [Pointer -> Nat] /\ waiting' \in [Substrate -> SUBSET Pointer]
<1>1. work \in [Pointer -> Nat] /\ waiting \in [Substrate -> SUBSET Pointer]
  BY DEF TypeOK
<1>2. SubstrateOf(p) \in Substrate
  BY KeyParts DEF SubstrateOf, Pointer
<1>3. CASE single
  <2>1. waiting' = [waiting EXCEPT ![SubstrateOf(p)] = waiting[SubstrateOf(p)] \cup {p}] /\ work' = work
    BY <1>3 DEF PostWork
  <2> QED
    BY <2>1, <1>1, <1>2
<1>4. CASE ~single
  <2>1. work' = [work EXCEPT ![p] = work[p] + 1] /\ waiting' = waiting
    BY <1>4 DEF PostWork
  <2> QED
    BY <2>1, <1>1
<1> QED
  BY <1>3, <1>4

\* What the callback queue holds.
Answers == [request : Request, result : {"frame", "error"}]

\* post_callback.
LEMMA PostType ==
  ASSUME TypeOK, NEW r \in Request \cup {None}, NEW res \in {"frame", "error"}, Post(r, res)
  PROVE  callbacks' \in Seq(Answers)
<1>1. callbacks \in Seq(Answers)
  BY DEF TypeOK, Answers
<1>2. CASE r = None
  BY <1>1, <1>2 DEF Post
<1>3. CASE r # None
  <2>1. [request |-> r, result |-> res] \in Answers
    BY <1>3 DEF Answers
  <2> QED
    BY <1>1, <1>3, <2>1 DEF Post
<1> QED
  BY <1>2, <1>3

\* The task that consume_all hands over.
LEMMA NextTaskType ==
  ASSUME TypeOK, NextTask
  PROVE  /\ tasks' \in Seq(Tasks) /\ Head(tasks) = tasks[1] /\ 1 \in 1 .. Len(tasks)
         /\ Head(tasks).kind = "construct" => Head(tasks).request \in Request
         /\ Head(tasks).kind = "notify" =>
              Head(tasks).inst \in Pointer /\ Head(tasks).exc \in BOOLEAN
<1>1. tasks \in Seq(Tasks) /\ tasks # <<>> /\ tasks' = Tail(tasks)
  BY DEF TypeOK, NextTask
<1>2. Head(tasks) = tasks[1] /\ Head(tasks) \in Tasks /\ tasks' \in Seq(Tasks) /\ 1 \in 1 .. Len(tasks)
  BY <1>1, TailShape
<1> QED
  BY <1>2 DEF Tasks

\* Steps of the maintainer that leave construct's stack empty-handed.
LEMMA TypedTakeConstruct ==
  ASSUME Typed, TakeConstruct
  PROVE  Typed'
<1> DEFINE r == Head(tasks).request
           c == Call(KeyOf[r], r, FALSE)
<1>1. TypeOK /\ r \in Request /\ tasks' \in Seq(Tasks)
  BY NextTaskType DEF TakeConstruct, Typed
<1>2. c \in Calls /\ c.open = FALSE
  BY <1>1, CallType, RequestAssumption DEF Call
<1>3. stack' = <<c>>
  BY DEF TakeConstruct
<1> HIDE DEF c, r
<1>4. stack' \in Seq(Calls) /\ Len(stack') = 1 /\ stack'[1] = c
  BY <1>2, <1>3
<1>5. TypeOK'
  BY <1>1, <1>4 DEF TypeOK, TakeConstruct, workerVars
<1>6. CallsPlaced'
  BY <1>2, <1>3, <1>4 DEF CallsPlaced
<1>7. CurrentPlaced'
  BY DEF CurrentPlaced, TakeConstruct
<1> QED
  BY <1>5, <1>6, <1>7, WorkersStay DEF Typed, TakeConstruct

\* A Notify that is dropped.
LEMMA TypedTakeStaleNotify ==
  ASSUME Typed, TakeStaleNotify
  PROVE  Typed'
<1>1. TypeOK /\ tasks' \in Seq(Tasks)
  BY NextTaskType DEF TakeStaleNotify, Typed
<1>2. TypeOK'
  BY <1>1 DEF TypeOK, TakeStaleNotify, workerVars
<1> QED
  BY <1>2, WorkersStay DEF Typed, TakeStaleNotify, CallsPlaced, CurrentPlaced

\* A Notify of an instance that is alive: it is the current one from here on.
LEMMA TypedTakeNotify ==
  ASSUME Typed, TakeNotify
  PROVE  Typed'
<1> DEFINE p == Head(tasks).inst
           new == [inst[p.key] EXCEPT !.single = FALSE]
<1>1. TypeOK /\ tasks' \in Seq(Tasks) /\ p \in Pointer /\ Alive(p)
  BY NextTaskType DEF TakeNotify, Typed
<1>2. p.key \in Key /\ inst[p.key] \in Instance
  BY <1>1, AlivePointer
<1>3. new \in Instance /\ new.gen = inst[p.key].gen
  BY <1>2 DEF Instance
<1>4. inst' = [inst EXCEPT ![p.key] = new]
  BY DEF TakeNotify
<1>5. /\ inst' \in [Key -> Instance \cup {None}]
      /\ \A q \in Pointer : Alive(q)' <=> Alive(q)
  BY <1>1, <1>3, <1>4, Renew
<1>6. SubstrateOf(p) \in Substrate
  BY <1>1, KeyParts DEF SubstrateOf, Pointer
<1>7. busy' \in SUBSET Single /\ waiting' \in [Substrate -> SUBSET Pointer]
  <2>1. ReleaseNeck(p)
    BY DEF TakeNotify
  <2> HIDE DEF p, new
  <2>2. busy \in SUBSET Single /\ waiting \in [Substrate -> SUBSET Pointer]
    BY <1>1 DEF TypeOK
  <2>3. CASE inst[p.key].single
    BY <1>6, <2>1, <2>2, <2>3 DEF ReleaseNeck
  <2>4. CASE ~inst[p.key].single
    BY <2>1, <2>2, <2>4 DEF ReleaseNeck
  <2> QED
    BY <2>3, <2>4
<1>8. current' = p
  BY DEF TakeNotify
<1>9. mpc' \in {"kill", "outputs"} /\ todo' \in Seq(Pointer)
  <2>1. <<p>> \in Seq(Pointer) /\ inst[p.key].outputs \in Seq(Pointer)
    BY <1>1, <1>2 DEF Instance
  <2> QED
    BY <2>1 DEF TakeNotify
<1>10. UNCHANGED <<made, history, miss, stack, constructed, callbacks, work, workerVars, answer>>
  BY DEF TakeNotify
<1> HIDE DEF p, new
<1>11. TypeOK'
  BY <1>1, <1>5, <1>7, <1>8, <1>9, <1>10 DEF TypeOK, workerVars
<1>12. CurrentPlaced'
  BY <1>1, <1>5, <1>8 DEF CurrentPlaced
<1> QED
  BY <1>9, <1>10, <1>11, <1>12, WorkersStay DEF Typed, CallsPlaced

\* An output is looked at.
LEMMA TypedLookAtOutput ==
  ASSUME Typed, LookAtOutput
  PROVE  Typed'
<1> DEFINE p == Head(todo)
<1>1. TypeOK /\ todo \in Seq(Pointer) /\ todo # <<>>
  BY DEF LookAtOutput, Typed, TypeOK
<1>2. p \in Pointer /\ todo' \in Seq(Pointer)
  BY <1>1, TailShape DEF LookAtOutput
<1>3. PostWork(p, inst[p.key].single) \/ UNCHANGED <<work, waiting>>
  BY DEF LookAtOutput
<1> HIDE DEF p
<1>4. work' \in [Pointer -> Nat] /\ waiting' \in [Substrate -> SUBSET Pointer]
  BY <1>1, <1>2, <1>3, PostWorkType DEF TypeOK
<1>5. TypeOK'
  BY <1>1, <1>2, <1>4 DEF TypeOK, LookAtOutput, workerVars
<1> QED
  BY <1>5, WorkersStay DEF Typed, LookAtOutput, CallsPlaced, CurrentPlaced, Alive, Exists

\* The current instance is alive until its callback is answered.
LEMMA TypedAnswerCallback ==
  ASSUME Typed, AnswerCallback
  PROVE  Typed'
<1> DEFINE new == [inst[current.key] EXCEPT !.callback = None]
<1>1. TypeOK /\ current \in Pointer /\ Alive(current)
  BY DEF AnswerCallback, Typed, CurrentPlaced
<1>2. current.key \in Key /\ inst[current.key] \in Instance
  BY <1>1, AlivePointer
<1>3. new \in Instance /\ new.gen = inst[current.key].gen
  BY <1>2 DEF Instance
<1>4. inst' = [inst EXCEPT ![current.key] = new]
  BY DEF AnswerCallback
<1> HIDE DEF new
<1>5. inst' \in [Key -> Instance \cup {None}]
  BY <1>1, <1>3, <1>4, Renew
<1>6. callbacks' \in Seq(Answers)
  <2>1. inst[current.key].callback \in Request \cup {None}
    BY <1>2 DEF Instance
  <2> QED
    BY <1>1, <2>1, PostType DEF AnswerCallback
<1>7. TypeOK'
  BY <1>1, <1>5, <1>6 DEF TypeOK, AnswerCallback, workerVars, Answers
<1> QED
  BY <1>7, WorkersStay DEF Typed, AnswerCallback, CallsPlaced, CurrentPlaced

\* An instance is killed, and its outputs are next.
LEMMA TypedKillNext ==
  ASSUME Typed, KillNext
  PROVE  Typed'
<1> DEFINE p == Head(todo)
<1>1. TypeOK /\ todo \in Seq(Pointer) /\ todo # <<>>
  BY DEF KillNext, Typed, TypeOK
<1>2. p \in Pointer /\ Tail(todo) \in Seq(Pointer)
  BY <1>1, TailShape
<1>3. inst' \in [Key -> Instance \cup {None}] /\ todo' \in Seq(Pointer) /\ callbacks' \in Seq(Answers)
  <2>1. CASE Alive(p)
    <3>1. /\ inst' = [inst EXCEPT ![p.key] = None]
          /\ todo' = inst[p.key].outputs \o Tail(todo)
          /\ Post(inst[p.key].callback, "error")
      BY <2>1 DEF KillNext
    <3>2. /\ inst[p.key].callback \in Request \cup {None}
          /\ inst[p.key].outputs \in Seq(Pointer)
      BY <1>1, <1>2, <2>1, AlivePointer DEF Instance
    <3>3. callbacks' \in Seq(Answers)
      BY <1>1, <3>1, <3>2, PostType
    <3> HIDE DEF p
    <3>4. inst' \in [Key -> Instance \cup {None}]
      BY <1>1, <3>1 DEF TypeOK
    <3>5. todo' \in Seq(Pointer)
      BY <1>2, <3>1, <3>2
    <3> QED
      BY <3>3, <3>4, <3>5
  <2>2. CASE ~Alive(p)
    BY <1>1, <1>2, <2>2 DEF KillNext, TypeOK, Answers
  <2> QED
    BY <2>1, <2>2
<1>4. TypeOK'
  BY <1>1, <1>3 DEF TypeOK, KillNext, workerVars, Answers
<1> QED
  BY <1>4, WorkersStay DEF Typed, KillNext, CallsPlaced, CurrentPlaced

\* Nothing is left to kill.
LEMMA TypedEndKill ==
  ASSUME Typed, EndKill
  PROVE  Typed'
<1>1. TypeOK'
  BY DEF EndKill, Typed, TypeOK, workerVars
<1> QED
  BY <1>1, WorkersStay DEF Typed, EndKill, CallsPlaced, CurrentPlaced

\* A neck posts a frame.
LEMMA TypedPostFromNeck ==
  ASSUME Typed, NEW s \in Single, NEW p \in waiting[s], PostFromNeck(s, p)
  PROVE  Typed'
<1>1. TypeOK /\ s \in Substrate
  BY GraphAssumption DEF Typed
<1>2. p \in Pointer
  BY <1>1 DEF TypeOK
<1>3. work' \in [Pointer -> Nat]
  BY <1>1, <1>2 DEF TypeOK, PostFromNeck
<1>4. waiting' \in [Substrate -> SUBSET Pointer] /\ busy' \in SUBSET Single
  BY <1>1, <1>2 DEF TypeOK, PostFromNeck
<1>5. TypeOK'
  BY <1>1, <1>3, <1>4 DEF PostFromNeck, TypeOK, workerVars
<1> QED
  BY <1>5, WorkersStay DEF Typed, PostFromNeck, CallsPlaced, CurrentPlaced

\* No neck can go on.
LEMMA TypedEndTask ==
  ASSUME Typed, EndTask
  PROVE  Typed'
<1>1. TypeOK'
  BY DEF EndTask, Typed, TypeOK, workerVars
<1> QED
  BY <1>1, WorkersStay DEF Typed, EndTask, CallsPlaced, CurrentPlaced

\* The sweep.
LEMMA TypedEndBatch ==
  ASSUME Typed, EndBatch
  PROVE  Typed'
<1>1. inst' \in [Key -> Instance \cup {None}]
  <2>1. CASE constructed
    <3>1. ASSUME NEW k \in Key, Evictable(k), inst[k].indulgence > 0
          PROVE  [inst[k] EXCEPT !.indulgence = @ - 1] \in Instance
      <4>1. inst[k] \in Instance
        BY <3>1, InstanceParts DEF Evictable, Typed
      <4>2. inst[k].indulgence - 1 \in Nat
        BY <4>1, <3>1 DEF Instance
      <4> QED
        BY <4>1, <4>2 DEF Instance
    <3>2. inst \in [Key -> Instance \cup {None}]
      BY DEF Typed, TypeOK
    <3>3. inst' = [k \in Key |->
             IF ~Evictable(k) THEN inst[k]
             ELSE IF inst[k].indulgence > 0 THEN [inst[k] EXCEPT !.indulgence = @ - 1]
             ELSE None]
      BY <2>1 DEF EndBatch
    <3> QED
      BY <3>1, <3>2, <3>3
  <2>2. CASE ~constructed
    BY <2>2 DEF EndBatch, Typed, TypeOK
  <2> QED
    BY <2>1, <2>2
<1>2. history' \in SUBSET Key
  BY DEF EndBatch, Typed, TypeOK
<1>3. TypeOK'
  BY <1>1, <1>2 DEF EndBatch, Typed, TypeOK, workerVars
<1> QED
  BY <1>3, WorkersStay DEF Typed, EndBatch, CallsPlaced, CurrentPlaced

-----------------------------------------------------------------------------
(* construct *)

\* The innermost call, and what it names.
LEMMA CallParts ==
  ASSUME Typed, mpc = "construct"
  PROVE  /\ stack \in Seq(Calls) /\ stack # <<>> /\ Len(stack) \in Nat \ {0}
         /\ Head(stack) = stack[1] /\ Head(stack) \in Calls
         /\ Head(stack).key \in Key /\ Head(stack).callback \in Request \cup {None}
         /\ Head(stack).open => PointerOf(Head(stack)) \in Pointer
<1>1. stack \in Seq(Calls) /\ stack # <<>>
  BY DEF Typed, TypeOK, CallsPlaced
<1>2. Head(stack) = stack[1] /\ Head(stack) \in Calls /\ Len(stack) \in Nat \ {0}
  BY <1>1, TailShape
<1>3. Head(stack).open => Head(stack).gen \in Generation
  BY <1>2 DEF Typed, CallsPlaced
<1> QED
  BY <1>1, <1>2, <1>3 DEF Calls, PointerOf, Pointer

\* The output that the innermost call leaves with the instance it returns.
LEMMA CallerType ==
  ASSUME Typed, mpc = "construct"
  PROVE  Caller \in Seq(Pointer)
<1>1. CASE Tail(stack) = <<>>
  BY <1>1, EmptySeq DEF Caller
<1>2. CASE Tail(stack) # <<>>
  <2> DEFINE c == Head(Tail(stack))
  <2>1. /\ Tail(stack) \in Seq(Calls) /\ Len(Tail(stack)) = Len(stack) - 1
        /\ \A i \in 1 .. Len(stack) - 1 : Tail(stack)[i] = stack[i + 1]
    BY CallParts, TailShape
  <2>2. c = Tail(stack)[1] /\ c \in Calls /\ Len(Tail(stack)) \in Nat \ {0}
    BY <1>2, <2>1, TailShape
  <2>3. c = stack[2] /\ 2 \in 1 .. Len(stack)
    BY <2>1, <2>2, CallParts
  <2>4. c.gen \in Generation
    BY <2>3 DEF Typed, CallsPlaced
  <2>5. PointerOf(c) \in Pointer
    BY <2>2, <2>4 DEF PointerOf, Pointer, Calls
  <2> QED
    BY <1>2, <2>5 DEF Caller
<1> QED
  BY <1>1, <1>2

\* A call whose frame has an instance.
LEMMA TypedReuseInstance ==
  ASSUME Typed, ReuseInstance
  PROVE  Typed'
<1> DEFINE call == Head(stack)
           old  == inst[call.key].callback
           keep == call.callback # None /\ ~inst[call.key].product
           new  == [inst[call.key] EXCEPT !.callback = IF keep THEN call.callback ELSE @,
                                          !.outputs = @ \o Caller]
           p    == PointerTo(call.key)
<1>1. TypeOK /\ mpc = "construct" /\ Exists(call.key)
  BY DEF Typed, ReuseInstance
<1>2. call.key \in Key /\ call.callback \in Request \cup {None}
  BY <1>1, CallParts
<1>3. inst[call.key] \in Instance /\ p \in Pointer /\ Alive(p) /\ p.key = call.key
  BY <1>1, <1>2, InstanceParts DEF PointerTo
<1>4. inst[call.key].outputs \in Seq(Pointer) /\ old \in Request \cup {None}
  BY <1>3 DEF Instance
<1>5. inst[call.key].outputs \o Caller \in Seq(Pointer)
  BY <1>1, <1>4, CallerType
<1>6. new \in Instance /\ new.gen = inst[p.key].gen
  BY <1>2, <1>3, <1>4, <1>5 DEF Instance
<1>7. inst' = [inst EXCEPT ![p.key] = new]
  BY <1>3 DEF ReuseInstance
<1>8. Return(p)
  BY DEF ReuseInstance
<1>9. callbacks' \in Seq(Answers)
  <2>1. (IF keep THEN None ELSE call.callback) \in Request \cup {None}
    BY <1>2
  <2> QED
    BY <1>1, <2>1, PostType DEF ReuseInstance
<1>10. answer' \in [Request -> {"unasked", "waiting", "frame", "error", "superseded"}]
  <2>1. CASE keep /\ old # None
    <3>1. old \in Request /\ answer' = [answer EXCEPT ![old] = "superseded"]
      BY <1>4, <2>1 DEF ReuseInstance
    <3> HIDE DEF old
    <3> QED
      BY <1>1, <3>1 DEF TypeOK
  <2>2. CASE ~(keep /\ old # None)
    <3>1. answer' = answer
      BY <2>2 DEF ReuseInstance
    <3> QED
      BY <1>1, <3>1 DEF TypeOK
  <2> QED
    BY <2>1, <2>2
<1>11. UNCHANGED <<made, history, miss, busy, waiting, current, todo, constructed,
                   tasks, work, workerVars>>
  BY DEF ReuseInstance
<1> HIDE DEF call, old, keep, new, p
<1>12. inst' \in [Key -> Instance \cup {None}]
  BY <1>1, <1>3, <1>6, <1>7, Renew
<1>13. stack' \in Seq(Calls) /\ mpc' \in {"construct", "neck"}
  BY <1>1, <1>3, <1>8, ReturnShape
<1>14. TypeOK'
  BY <1>1, <1>9, <1>10, <1>11, <1>12, <1>13 DEF TypeOK, Answers, workerVars
<1>15. CallsPlaced'
  BY <1>1, <1>3, <1>8, ReturnPlaced
<1>16. CurrentPlaced'
  BY <1>13 DEF CurrentPlaced
<1> QED
  BY <1>11, <1>14, <1>15, <1>16, WorkersStay DEF Typed

\* The number of the next instance of a frame.
LEMMA NextGeneration ==
  ASSUME NEW g \in Generation \cup {0}, g + 1 <= MaxGeneration
  PROVE  g + 1 \in Generation
BY LimitAssumption DEF Generation

\* A call opens: it takes the next number of its frame, and at most one call is
\* pushed for its first dependency.
LEMMA OpenShape ==
  ASSUME Typed, OpenInstance
  PROVE  /\ stack' \in Seq(Calls)
         /\ \E d \in {0, 1} :
              /\ Len(stack') = Len(stack) + d
              /\ stack'[1 + d].key = stack[1].key
              /\ stack'[1 + d].gen = made[stack[1].key] + 1
              /\ stack'[1 + d].open
              /\ \A j \in 2 .. Len(stack) : stack'[j + d] = stack[j]
              /\ d = 1 => ~stack'[1].open /\ stack'[2].deps # <<>>
<1> DEFINE call  == Head(stack)
           again == call.key \in history /\ ~call.missed
           gen   == made[call.key] + 1
           new   == [call EXCEPT !.missed = @ \/ again, !.open = TRUE,
                                 !.gen = gen, !.deps = Deps[call.key]]
           st    == <<new>> \o Tail(stack)
<1>1. TypeOK /\ mpc = "construct" /\ gen <= MaxGeneration /\ stack' = Descend(st)
  BY DEF OpenInstance, Typed
<1>2. call = stack[1] /\ call \in Calls /\ call.key \in Key /\ Len(stack) \in Nat \ {0}
  BY <1>1, CallParts
<1>3. /\ Tail(stack) \in Seq(Calls) /\ Len(Tail(stack)) = Len(stack) - 1
      /\ \A i \in 1 .. Len(stack) - 1 : Tail(stack)[i] = stack[i + 1]
  BY <1>1, CallParts, TailShape
<1>4. gen \in Generation
  <2>1. made[call.key] \in Generation \cup {0}
    BY <1>1, <1>2 DEF TypeOK
  <2> QED
    BY <1>1, <2>1, NextGeneration
<1>5. Deps[call.key] \in Seq(Key)
  BY <1>2, GraphAssumption
<1>6. new \in Calls /\ new.key = call.key /\ new.gen = gen /\ new.open
  <2>1. (call.missed \/ again) \in BOOLEAN
    OBVIOUS
  <2> HIDE DEF again, gen
  <2> QED
    BY <1>2, <1>4, <1>5, <2>1 DEF Calls
<1> HIDE DEF new
<1>7. /\ st \in Seq(Calls) /\ Len(st) = Len(stack) /\ st # <<>> /\ st[1] = new
      /\ \A i \in 1 .. Len(stack) - 1 : st[i + 1] = stack[i + 1]
  BY <1>2, <1>3, <1>6, ConsShape
<1>8. \A j \in 2 .. Len(stack) : st[j] = stack[j]
  <2> TAKE j \in 2 .. Len(stack)
  <2>1. j - 1 \in 1 .. Len(stack) - 1 /\ (j - 1) + 1 = j
    BY <1>2
  <2> QED
    BY <2>1, <1>7
<1> HIDE DEF st, call
<1>9. PICK d \in {0, 1} :
        /\ Len(Descend(st)) = Len(st) + d
        /\ \A j \in 1 .. Len(st) : Descend(st)[j + d] = st[j]
        /\ d = 1 => ~Descend(st)[1].open /\ Head(st).deps # <<>>
  BY <1>7, DescendShape
<1>10. Head(st) = st[1]
  BY <1>7, TailShape
<1>11. stack' \in Seq(Calls)
  BY <1>1, <1>7, DescendShape
<1>12. /\ Len(stack') = Len(stack) + d
       /\ stack'[1 + d].key = stack[1].key
       /\ stack'[1 + d].gen = made[stack[1].key] + 1
       /\ stack'[1 + d].open
  BY <1>1, <1>2, <1>6, <1>7, <1>9 DEF call
<1>13. \A j \in 2 .. Len(stack) : stack'[j + d] = stack[j]
  BY <1>1, <1>2, <1>7, <1>8, <1>9
<1>14. d = 1 => ~stack'[1].open /\ stack'[2].deps # <<>>
  <2>1. SUFFICES ASSUME d = 1 PROVE stack'[2] = st[1]
    BY <1>1, <1>9, <1>10
  <2> QED
    BY <2>1, <1>1, <1>2, <1>7, <1>9
<1> QED
  BY <1>11, <1>12, <1>13, <1>14

\* A call whose frame has none.
LEMMA TypedOpenInstance ==
  ASSUME Typed, OpenInstance
  PROVE  Typed'
<1> DEFINE k == Head(stack).key
<1>1. TypeOK /\ mpc = "construct" /\ made[k] + 1 <= MaxGeneration /\ mpc' = mpc
  BY DEF OpenInstance, Typed
<1>2. k \in Key /\ k[1] \in Substrate /\ k = stack[1].key /\ Len(stack) \in Nat \ {0}
  BY <1>1, CallParts, KeyParts
<1>3. made' = [made EXCEPT ![k] = made[k] + 1] /\ history' = history \cup {k}
  BY DEF OpenInstance
<1>4. miss' = [miss EXCEPT ![k[1]] = miss[k[1]] + 1] \/ miss' = miss
  BY DEF OpenInstance
<1>5. UNCHANGED <<inst, busy, waiting, mpc, current, todo, constructed,
                  tasks, callbacks, work, workerVars, answer>>
  BY DEF OpenInstance
<1> HIDE DEF k
<1>6. made[k] + 1 \in Generation
  <2>1. made[k] \in Generation \cup {0}
    BY <1>1, <1>2 DEF TypeOK
  <2> QED
    BY <1>1, <2>1, NextGeneration
<1>7. /\ made' \in [Key -> Generation \cup {0}]
      /\ history' \in SUBSET Key /\ miss' \in [Substrate -> Nat]
  <2>1. made \in [Key -> Generation \cup {0}] /\ history \in SUBSET Key /\ miss \in [Substrate -> Nat]
    BY <1>1 DEF TypeOK
  <2>2. made' \in [Key -> Generation \cup {0}] /\ history' \in SUBSET Key
    BY <1>2, <1>3, <1>6, <2>1
  <2>3. miss' \in [Substrate -> Nat]
    BY <1>2, <1>4, <2>1
  <2> QED
    BY <2>2, <2>3
<1>8. stack' \in Seq(Calls)
  BY OpenShape
<1>9. TypeOK'
  BY <1>1, <1>5, <1>7, <1>8 DEF TypeOK, workerVars
<1>10. PICK d \in {0, 1} :
         /\ Len(stack') = Len(stack) + d
         /\ stack'[1 + d].key = stack[1].key
         /\ stack'[1 + d].gen = made[stack[1].key] + 1
         /\ stack'[1 + d].open
         /\ \A j \in 2 .. Len(stack) : stack'[j + d] = stack[j]
         /\ d = 1 => ~stack'[1].open /\ stack'[2].deps # <<>>
  BY OpenShape
<1>11. ASSUME NEW i \in 1 .. Len(stack')
       PROVE  /\ stack'[i].open => stack'[i].gen \in Generation
              /\ i > 1 => stack'[i].open /\ stack'[i].deps # <<>>
  <2>1. CASE i = 1 /\ d = 1
    BY <2>1, <1>10
  <2>2. CASE i = 1 + d
    BY <2>2, <1>2, <1>6, <1>10
  <2>3. CASE i > 1 + d
    <3>1. i - d \in 2 .. Len(stack) /\ (i - d) + d = i /\ i - d \in 1 .. Len(stack) /\ i - d > 1
      BY <2>3, <1>2, <1>10
    <3>2. stack'[i] = stack[i - d]
      BY <3>1, <1>10
    <3> QED
      BY <3>1, <3>2 DEF Typed, CallsPlaced
  <2> QED
    BY <2>1, <2>2, <2>3, <1>2, <1>10
<1>12. CallsPlaced'
  <2>1. stack' # <<>>
    BY <1>2, <1>10
  <2> QED
    BY <1>11, <2>1 DEF CallsPlaced
<1>13. CurrentPlaced'
  BY <1>1, <1>5 DEF CurrentPlaced
<1> QED
  BY <1>5, <1>9, <1>12, <1>13, WorkersStay DEF Typed

\* What CloseInstance does to the instances: the new one is there, and the
\* others keep what they are.
LEMMA CloseShape ==
  ASSUME Typed, CloseInstance
  PROVE  LET call == Head(stack) IN
         /\ inst' \in [Key -> Instance \cup {None}]
         /\ inst'[call.key] \in Instance
         /\ inst'[call.key].gen = call.gen
         /\ ~inst'[call.key].product
         /\ inst'[call.key].single <=> call.key[1] \in Single
         /\ \A k \in Key : k # call.key =>
              /\ Exists(k)' <=> Exists(k)
              /\ Exists(k) => /\ inst'[k].gen = inst[k].gen
                              /\ inst'[k].product = inst[k].product
                              /\ inst'[k].single = inst[k].single
<1> DEFINE call   == Head(stack)
           p      == PointerOf(call)
           single == call.key[1] \in Single
           inputs == call.inputs \cup {PointerTo(j) : j \in Previous(call.key)}
           fresh(k) == [gen |-> call.gen, product |-> FALSE, callback |-> call.callback,
                        inputs |-> inputs, outputs |-> Caller, taken |-> FALSE, single |-> single,
                        indulgence |-> miss[k[1]] \div MissPerIndulgence]
           longer(k) == [inst[k] EXCEPT !.outputs = Append(@, p)]
<1>1. TypeOK /\ mpc = "construct" /\ call.open
  BY DEF CloseInstance, Typed
<1>2. /\ call \in Calls /\ call.key \in Key /\ call.callback \in Request \cup {None}
      /\ p \in Pointer /\ call.inputs \in SUBSET Pointer
  BY <1>1, CallParts DEF Calls
<1>3. call.gen \in Generation
  BY <1>2 DEF PointerOf, Pointer
<1>4. inst' = [k \in Key |-> IF k = call.key THEN fresh(k)
                             ELSE IF k \in Previous(call.key) THEN longer(k) ELSE inst[k]]
  BY DEF CloseInstance
<1>5. inputs \in SUBSET Pointer
  <2>1. ASSUME NEW j \in Previous(call.key) PROVE PointerTo(j) \in Pointer
    BY <1>1, InstanceParts DEF Previous
  <2> QED
    BY <1>2, <2>1
<1>6. Caller \in Seq(Pointer)
  BY <1>1, CallerType
<1>7. ASSUME NEW k \in Key PROVE miss[k[1]] \div MissPerIndulgence \in Nat
  <2>1. miss[k[1]] \in Nat
    BY <1>1, KeyParts DEF TypeOK
  <2> QED
    BY <2>1, DivNat, LimitAssumption
<1>8. ASSUME NEW k \in Key PROVE fresh(k) \in Instance
  <2> HIDE DEF call, p, inputs, single
  <2>1. single \in BOOLEAN
    BY DEF single
  <2> QED
    BY <1>2, <1>3, <1>5, <1>6, <1>7, <2>1 DEF Instance
<1>9. ASSUME NEW k \in Previous(call.key)
      PROVE  /\ inst[k] \in Instance /\ longer(k) \in Instance /\ longer(k).gen = inst[k].gen
             /\ longer(k).product = inst[k].product /\ longer(k).single = inst[k].single
  <2>1. inst[k] \in Instance
    BY <1>1, InstanceParts DEF Previous
  <2>2. inst[k].outputs \in Seq(Pointer)
    BY <2>1 DEF Instance
  <2>3. Append(inst[k].outputs, p) \in Seq(Pointer)
    BY <1>2, <2>2
  <2> HIDE DEF p
  <2> QED
    BY <2>1, <2>3 DEF Instance
<1>10. /\ fresh(call.key).gen = call.gen /\ ~fresh(call.key).product
       /\ fresh(call.key).single <=> single
  OBVIOUS
<1>11. \A k \in Key : k # call.key =>
              /\ Exists(k)' <=> Exists(k)
              /\ Exists(k) => /\ inst'[k].gen = inst[k].gen
                              /\ inst'[k].product = inst[k].product
                              /\ inst'[k].single = inst[k].single
  <2> SUFFICES ASSUME NEW k \in Key, k # call.key
               PROVE  /\ Exists(k)' <=> Exists(k)
                      /\ Exists(k) => /\ inst'[k].gen = inst[k].gen
                                      /\ inst'[k].product = inst[k].product
                                      /\ inst'[k].single = inst[k].single
    OBVIOUS
  <2> HIDE DEF fresh, longer, call
  <2>1. CASE k \in Previous(call.key)
    <3>1. inst'[k] = longer(k) /\ Exists(k)
      BY <1>4, <2>1 DEF Previous
    <3> QED
      BY <3>1, <2>1, <1>9, NoneAssumption DEF Exists
  <2>2. CASE k \notin Previous(call.key)
    <3>1. inst'[k] = inst[k]
      BY <1>4, <2>2
    <3> QED
      BY <3>1 DEF Exists
  <2> QED
    BY <2>1, <2>2
<1>12. inst' \in [Key -> Instance \cup {None}]
  <2> HIDE DEF fresh, longer, call
  <2>1. ASSUME NEW k \in Key PROVE inst[k] \in Instance \cup {None}
    BY <1>1 DEF TypeOK
  <2> QED
    BY <1>4, <1>8, <1>9, <2>1
<1>13. inst'[call.key] = fresh(call.key)
  BY <1>2, <1>4
<1> QED
  <2> HIDE DEF fresh, longer
  <2> QED
    BY <1>2, <1>8, <1>10, <1>11, <1>12, <1>13

\* A call whose dependencies are all there.
LEMMA TypedCloseInstance ==
  ASSUME Typed, CloseInstance
  PROVE  Typed'
<1> DEFINE p == PointerOf(Head(stack))
<1>1. TypeOK /\ mpc = "construct" /\ p \in Pointer
  BY CallParts DEF CloseInstance, Typed
<1>2. inst' \in [Key -> Instance \cup {None}]
  BY CloseShape
<1>3. (PostWork(p, Head(stack).key[1] \in Single) \/ UNCHANGED <<work, waiting>>) /\ Return(p)
  BY DEF CloseInstance
<1>4. UNCHANGED <<made, history, miss, busy, current, todo, constructed,
                  tasks, callbacks, workerVars, answer>>
  BY DEF CloseInstance
<1> HIDE DEF p
<1>5. work' \in [Pointer -> Nat] /\ waiting' \in [Substrate -> SUBSET Pointer]
  BY <1>1, <1>3, PostWorkType DEF TypeOK
<1>6. stack' \in Seq(Calls) /\ mpc' \in {"construct", "neck"}
  BY <1>1, <1>3, ReturnShape
<1>7. TypeOK'
  BY <1>1, <1>2, <1>4, <1>5, <1>6 DEF TypeOK, workerVars
<1>8. CallsPlaced'
  BY <1>1, <1>3, ReturnPlaced
<1>9. CurrentPlaced'
  BY <1>6 DEF CurrentPlaced
<1> QED
  BY <1>4, <1>7, <1>8, <1>9, WorkersStay DEF Typed

\* Whatever anyone does.
LEMMA TypedNext == Typed /\ [Next]_vars => Typed'
<1> SUFFICES ASSUME Typed, [Next]_vars PROVE Typed'
  OBVIOUS
<1>1. ASSUME NEW r \in Request, GetFrame(r) PROVE Typed'
  BY <1>1, TypedGetFrame
<1>2. CASE TakeConstruct
  BY <1>2, TypedTakeConstruct
<1>3. CASE TakeStaleNotify
  BY <1>3, TypedTakeStaleNotify
<1>4. CASE TakeNotify
  BY <1>4, TypedTakeNotify
<1>5. CASE ReuseInstance
  BY <1>5, TypedReuseInstance
<1>6. CASE OpenInstance
  BY <1>6, TypedOpenInstance
<1>7. CASE CloseInstance
  BY <1>7, TypedCloseInstance
<1>8. CASE LookAtOutput
  BY <1>8, TypedLookAtOutput
<1>9. CASE AnswerCallback
  BY <1>9, TypedAnswerCallback
<1>10. CASE KillNext
  BY <1>10, TypedKillNext
<1>11. CASE EndKill
  BY <1>11, TypedEndKill
<1>12. ASSUME NEW s \in Single, NEW p \in waiting[s], PostFromNeck(s, p) PROVE Typed'
  BY <1>12, TypedPostFromNeck
<1>13. CASE EndTask
  BY <1>13, TypedEndTask
<1>14. CASE EndBatch
  BY <1>14, TypedEndBatch
<1>15. ASSUME NEW w \in Worker, WorkerStep(w) PROVE Typed'
  BY <1>15, TypedWorkerStep
<1>16. CASE InvokeCallback
  BY <1>16, TypedCallback
<1>17. CASE UNCHANGED vars
  BY <1>17 DEF Typed, TypeOK, CallsPlaced, CurrentPlaced, WorkersPlaced, Alive, Exists, WorkerAt, At,
     vars, maintainerVars, workerVars
<1> QED
  BY <1>1, <1>2, <1>3, <1>4, <1>5, <1>6, <1>7, <1>8, <1>9, <1>10, <1>11, <1>12, <1>13,
     <1>14, <1>15, <1>16, <1>17 DEF Next, Maintainer

\* The invariant of every run.
LEMMA TypedAlways == Spec => []Typed
BY TypedInit, TypedNext, PTL DEF Spec

\* Every pointer, queue and table of the reaction holds what its declaration in
\* substrate.cpp says, for every graph of filters and any number of workers.
THEOREM TypeCorrect == Spec => []TypeOK
BY TypedAlways, PTL DEF Typed

-----------------------------------------------------------------------------
(* the thread-initialisation locks *)

\* A step after which w holds no more than before.
LEMMA HoldersKeep ==
  ASSUME HoldersApart, NEW w \in Worker,
         \A v \in Worker : v # w => worker'[v] = worker[v],
         worker'[w].mode # "none" =>
           worker'[w].mode = worker[w].mode /\ worker'[w].at = worker[w].at
  PROVE  HoldersApart'
BY DEF HoldersApart, At, SubstrateOf

\* A step after which w holds a lock exactly where it should.
LEMMA LocksKeep ==
  ASSUME LocksHeld, NEW w \in Worker,
         \A v \in Worker : v # w => worker'[v] = worker[v],
         worker'[w].mode # "none" <=>
           worker'[w].pc \notin Outside /\ SubstrateOf(worker'[w].at) \in Guarded
  PROVE  LocksHeld'
BY DEF LocksHeld, At, SubstrateOf

\* A step in which no worker moves.
LEMMA LocksStay ==
  ASSUME LocksHeld, HoldersApart, UNCHANGED worker
  PROVE  LocksHeld' /\ HoldersApart'
BY DEF LocksHeld, HoldersApart, At

\* A step of a worker.
LEMMA LocksWorkerStep ==
  ASSUME Typed, LocksHeld, HoldersApart, NEW w \in Worker, WorkerStep(w)
  PROVE  LocksHeld' /\ HoldersApart'
<1> USE DEF Typed
<1>1. worker \in [Worker -> [pc : WorkerStates, at : Pointer \cup {None}, mode : Modes]]
  BY DEF TypeOK
<1>2. ASSUME NEW p \in Pointer, Pop(w, p) PROVE LocksHeld' /\ HoldersApart'
  <2>1. worker' = [worker EXCEPT ![w] = [pc |-> "popped", at |-> p, mode |-> "none"]]
    BY <1>2 DEF Pop
  <2>2. /\ worker'[w].pc = "popped" /\ worker'[w].mode = "none"
        /\ \A v \in Worker : v # w => worker'[v] = worker[v]
    BY <1>1, <2>1
  <2> QED
    BY <2>2, HoldersKeep, LocksKeep DEF Outside
<1>3. CASE TestTaken(w)
  <2>1. worker[w].mode = "none"
    BY <1>3 DEF TestTaken, WorkerAt, LocksHeld, Outside
  <2>2. CASE Alive(At(w)) /\ ~inst[At(w).key].taken
    <3> DEFINE to == IF SubstrateOf(At(w)) \in Guarded THEN "taken" ELSE "run"
    <3>1. WorkerGoto(w, to) /\ to \in WorkerStates
      BY <1>3, <2>2 DEF TestTaken, WorkerStates
    <3>2. SubstrateOf(At(w)) \in Guarded => to \in Outside
      BY DEF Outside
    <3> HIDE DEF to
    <3>3. /\ worker'[w].pc = to /\ worker'[w].at = At(w) /\ worker'[w].mode = "none"
          /\ \A v \in Worker : v # w => worker'[v] = worker[v]
      BY <2>1, <3>1, GotoShape DEF At
    <3> QED
      BY <3>2, <3>3, HoldersKeep, LocksKeep
  <2>3. CASE ~(Alive(At(w)) /\ ~inst[At(w).key].taken)
    <3>1. WorkerRest(w)
      BY <1>3, <2>3 DEF TestTaken
    <3> QED
      BY <3>1, RestShape, HoldersKeep, LocksKeep DEF Outside
  <2> QED
    BY <2>2, <2>3
<1>4. CASE TryLock(w)
  <2> DEFINE s == SubstrateOf(At(w))
             m == IF s \in inited[w] THEN "shared" ELSE "exclusive"
  <2>1. s \in Guarded
    BY <1>4 DEF TryLock, WorkersPlaced
  <2>2. worker' = [worker EXCEPT ![w].pc = "run", ![w].mode = m]
    BY <1>4 DEF TryLock
  <2>3. m = "shared" \/ (m = "exclusive" /\ Holders(w, s, {"shared", "exclusive"}) = {})
    BY <1>4 DEF TryLock
  <2>4. Holders(w, s, {"exclusive"}) = {}
    BY <1>4 DEF TryLock, Holders
  <2> HIDE DEF m, s
  <2>5. /\ worker'[w].pc = "run" /\ worker'[w].at = worker[w].at /\ worker'[w].mode = m
        /\ \A v \in Worker : v # w => worker'[v] = worker[v]
    BY <1>1, <2>2
  <2>6. LocksHeld'
    BY <2>1, <2>3, <2>5, LocksKeep DEF s, At, Outside
  <2>7. ASSUME NEW v \in Worker, v # w, worker[v].mode = "exclusive"
        PROVE  SubstrateOf(At(v)) # s
    BY <2>4, <2>7 DEF Holders
  <2>8. ASSUME NEW v \in Worker, v # w, worker[v].mode # "none", m = "exclusive"
        PROVE  SubstrateOf(At(v)) # s
    <3>1. worker[v].mode \in {"shared", "exclusive"}
      BY <1>1, <2>8 DEF Modes
    <3> QED
      BY <2>3, <2>8, <3>1 DEF Holders
  <2>9. HoldersApart'
    BY <2>5, <2>7, <2>8 DEF HoldersApart, At, s, SubstrateOf
  <2> QED
    BY <2>6, <2>9
<1>5. CASE LockBusy(w)
  <2>1. worker[w].mode = "none"
    BY <1>5 DEF LockBusy, WorkerAt, LocksHeld, Outside
  <2>2. /\ worker'[w].pc = "repost" /\ worker'[w].mode = "none"
        /\ \A v \in Worker : v # w => worker'[v] = worker[v]
    BY <1>5, <2>1, GotoShape DEF LockBusy, WorkerStates
  <2> QED
    BY <2>2, HoldersKeep, LocksKeep DEF Outside
<1>6. CASE Repost(w) \/ Unlock(w)
  <2>1. WorkerRest(w)
    BY <1>6 DEF Repost, Unlock
  <2> QED
    BY <2>1, RestShape, HoldersKeep, LocksKeep DEF Outside
<1>7. CASE Fail(w) \/ Succeed(w)
  <2>1. CASE worker[w].mode = "none"
    <3>1. WorkerRest(w)
      BY <1>7, <2>1 DEF Fail, Succeed, Announce
    <3> QED
      BY <3>1, RestShape, HoldersKeep, LocksKeep DEF Outside
  <2>2. CASE worker[w].mode # "none"
    <3>1. WorkerGoto(w, "unlock")
      BY <1>7, <2>2 DEF Fail, Succeed, Announce
    <3>2. /\ worker'[w].pc = "unlock" /\ worker'[w].at = worker[w].at
          /\ worker'[w].mode = worker[w].mode
          /\ \A v \in Worker : v # w => worker'[v] = worker[v]
      BY <3>1, GotoShape DEF WorkerStates
    <3>3. SubstrateOf(worker[w].at) \in Guarded
      BY <2>2 DEF LocksHeld, At
    <3> QED
      BY <2>2, <3>2, <3>3, HoldersKeep, LocksKeep DEF Outside
  <2> QED
    BY <2>1, <2>2
<1>8. CASE StoreProduct(w)
  <2>1. /\ worker'[w].pc = "stored" /\ worker'[w].at = worker[w].at
        /\ worker'[w].mode = worker[w].mode
        /\ \A v \in Worker : v # w => worker'[v] = worker[v]
    BY <1>8, GotoShape DEF StoreProduct, WorkerStates
  <2>2. worker[w].mode # "none" <=> SubstrateOf(worker[w].at) \in Guarded
    BY <1>8 DEF StoreProduct, WorkerAt, LocksHeld, Outside, At
  <2> QED
    BY <2>1, <2>2, HoldersKeep, LocksKeep DEF Outside
<1> QED
  BY <1>2, <1>3, <1>4, <1>5, <1>6, <1>7, <1>8 DEF WorkerStep

\* Whatever anyone does.
LEMMA LocksNext ==
  Typed /\ LocksHeld /\ HoldersApart /\ [Next]_vars => LocksHeld' /\ HoldersApart'
<1> SUFFICES ASSUME Typed, LocksHeld, HoldersApart, [Next]_vars
             PROVE  LocksHeld' /\ HoldersApart'
  OBVIOUS
<1>1. ASSUME NEW w \in Worker, WorkerStep(w) PROVE LocksHeld' /\ HoldersApart'
  BY <1>1, LocksWorkerStep
<1>2. ASSUME NEW r \in Request, GetFrame(r) PROVE UNCHANGED worker
  BY <1>2 DEF GetFrame, workerVars
<1>3. ASSUME Maintainer PROVE UNCHANGED worker
  BY <1>3 DEF Maintainer, TakeConstruct, TakeStaleNotify, TakeNotify, ReuseInstance, OpenInstance,
     CloseInstance, LookAtOutput, AnswerCallback, KillNext, EndKill, PostFromNeck, EndTask, EndBatch,
     workerVars
<1>4. ASSUME InvokeCallback PROVE UNCHANGED worker
  BY <1>4 DEF InvokeCallback, workerVars
<1>5. ASSUME UNCHANGED vars PROVE UNCHANGED worker
  BY <1>5 DEF vars, workerVars
<1> QED
  BY <1>1, <1>2, <1>3, <1>4, <1>5, LocksStay DEF Next

\* Nobody starts with a lock.
LEMMA LocksInit == Init => LocksHeld /\ HoldersApart
BY DEF Init, LocksHeld, HoldersApart, Outside

\* Two workers in a guarded filter both hold its lock, so neither of them holds
\* it exclusively.
LEMMA AloneFromLocks ==
  ASSUME LocksHeld, HoldersApart
  PROVE  InitialisesAlone
<1> SUFFICES ASSUME NEW v \in Worker, NEW w \in Worker, Running(v), Running(w), v # w,
                    SubstrateOf(At(v)) = SubstrateOf(At(w)), worker[v].mode = "exclusive"
             PROVE  FALSE
  BY DEF InitialisesAlone
<1>1. SubstrateOf(At(v)) \in Guarded
  BY DEF LocksHeld
<1>2. worker[w].mode # "none"
  BY <1>1 DEF LocksHeld, Running, WorkerAt, Outside
<1> QED
  BY <1>2 DEF HoldersApart

\* A worker that initialises itself for a filter (substrate.cpp lines 106-115)
\* is alone in it, for any graph of filters and any number of workers.
THEOREM Exclusion == Spec => []InitialisesAlone
<1>1. Init => Typed /\ LocksHeld /\ HoldersApart
  BY TypedInit, LocksInit
<1>2. Typed /\ LocksHeld /\ HoldersApart /\ [Next]_vars => (Typed /\ LocksHeld /\ HoldersApart)'
  BY TypedNext, LocksNext
<1>3. Typed /\ LocksHeld /\ HoldersApart => InitialisesAlone
  BY AloneFromLocks
<1> QED
  BY <1>1, <1>2, <1>3, PTL DEF Spec

-----------------------------------------------------------------------------
(* the necks: what a step may leave as it was *)

\* Every instance that is there was there before, and is no less finished.
InstancesKept ==
  \A k \in Key : Exists(k)' =>
    /\ Exists(k) /\ inst'[k].gen = inst[k].gen /\ inst'[k].single = inst[k].single
    /\ inst[k].product => inst'[k].product

\* Then whatever is alive was alive before.
LEMMA KeptAlive ==
  ASSUME InstancesKept, NEW p \in Pointer, Alive(p)'
  PROVE  Alive(p)
BY DEF InstancesKept, Alive, Pointer

\* Reading and adding a task.
LEMMA TaskRead ==
  ASSUME TypeOK, NextTask
  PROVE  \A i \in 1 .. Len(tasks') : i + 1 \in 1 .. Len(tasks) /\ tasks'[i] = tasks[i + 1]
<1>1. tasks \in Seq(Tasks) /\ tasks # <<>> /\ tasks' = Tail(tasks)
  BY DEF TypeOK, NextTask
<1> QED
  BY <1>1, TailShape

\* A task is added at the end.
LEMMA TaskAdded ==
  ASSUME TypeOK, NEW t \in Tasks, tasks' = Append(tasks, t)
  PROVE  /\ Len(tasks) \in Nat /\ Len(tasks') = Len(tasks) + 1
         /\ tasks'[Len(tasks) + 1] = t
         /\ \A i \in 1 .. Len(tasks) : tasks'[i] = tasks[i]
BY DEF TypeOK

\* A task is one of the two kinds.
LEMMA TaskTypes ==
  ASSUME TypeOK, NEW i \in 1 .. Len(tasks)
  PROVE  tasks[i] \in Tasks
BY DEF TypeOK

\* The pointers in open calls.
LEMMA OpenPointer ==
  ASSUME Typed, NEW i \in 1 .. Len(stack), stack[i].open
  PROVE  PointerOf(stack[i]) \in Pointer
<1>1. stack[i] \in Calls /\ stack[i].gen \in Generation
  BY DEF Typed, TypeOK, CallsPlaced
<1> QED
  BY <1>1 DEF Calls, PointerOf, Pointer

\* No call is made and nothing comes into circulation: the numbers of the open
\* calls are as fresh as before.
LEMMA FreshKeep ==
  ASSUME Typed, OpenCallsFresh, UNCHANGED <<stack, made>>,
         \A p \in Pointer : Circulating(p)' => Circulating(p)
  PROVE  OpenCallsFresh'
<1>1. ASSUME NEW i \in 1 .. Len(stack), stack[i].open
      PROVE  stack[i].gen <= made[stack[i].key] /\ ~Circulating(PointerOf(stack[i]))'
  BY <1>1, OpenPointer DEF OpenCallsFresh, PointerOf
<1> QED
  BY <1>1 DEF OpenCallsFresh, PointerOf

\* A report is added only for a product that is stored.
LEMMA StoredKeep ==
  ASSUME StoredFirst, Typed, InstancesKept,
         \A w \in Worker : worker'[w].pc = "stored" =>
           \/ worker[w].pc = "stored" /\ worker'[w].at = worker[w].at
           \/ (Alive(At(w)) => inst[At(w).key].product)',
         \A p \in Pointer : \A i \in 1 .. Len(tasks') : tasks'[i] = Notify(p, FALSE) =>
           \/ \E j \in 1 .. Len(tasks) : tasks[j] = Notify(p, FALSE)
           \/ \E w \in Worker : worker[w].pc = "stored" /\ worker[w].at = p
  PROVE  StoredFirst'
<1>1. ASSUME NEW w \in Worker, WorkerAt(w, "stored")', Alive(At(w))'
      PROVE  inst'[At(w)'.key].product
  <2>1. At(w)' = worker'[w].at /\ worker'[w].pc = "stored"
    BY <1>1 DEF At, WorkerAt
  <2>2. CASE worker[w].pc = "stored" /\ worker'[w].at = worker[w].at
    <3>1. At(w) \in Pointer /\ At(w) = At(w)'
      BY <2>1, <2>2 DEF Typed, WorkersPlaced, WorkerAt, At
    <3>2. Alive(At(w))
      BY <1>1, <3>1, KeptAlive DEF Alive, Exists
    <3>3. inst[At(w).key].product
      BY <2>2, <3>2 DEF StoredFirst, WorkerAt
    <3>4. At(w).key \in Key /\ Exists(At(w).key)'
      BY <1>1, <3>1 DEF Pointer, Alive, Exists
    <3> QED
      BY <3>1, <3>3, <3>4 DEF InstancesKept
  <2>3. CASE (Alive(At(w)) => inst[At(w).key].product)'
    BY <1>1, <2>3
  <2> QED
    BY <2>1, <2>2, <2>3
<1>2. ASSUME NEW p \in Pointer, NEW i \in 1 .. Len(tasks'), tasks'[i] = Notify(p, FALSE), Alive(p)'
      PROVE  inst'[p.key].product
  <2>1. Alive(p) /\ p.key \in Key /\ Exists(p.key)'
    BY <1>2, KeptAlive DEF Pointer, Alive
  <2>2. inst[p.key].product
    <3>1. CASE \E j \in 1 .. Len(tasks) : tasks[j] = Notify(p, FALSE)
      BY <2>1, <3>1 DEF StoredFirst
    <3>2. CASE \E w \in Worker : worker[w].pc = "stored" /\ worker[w].at = p
      BY <2>1, <3>2 DEF StoredFirst, WorkerAt, At
    <3> QED
      BY <1>2, <3>1, <3>2
  <2> QED
    BY <2>1, <2>2 DEF InstancesKept
<1>3. \A p : Notify(p, FALSE)' = Notify(p, FALSE)
  BY DEF Notify
<1> QED
  BY <1>1, <1>2, <1>3 DEF StoredFirst

\* The marks of single-threaded filters stay.
LEMMA MarkedKeep ==
  ASSUME SingleMarked, InstancesKept, mpc # "kill" \/ UNCHANGED <<mpc, todo>>
  PROVE  SingleMarked'
<1> SUFFICES ASSUME NEW k \in Key, Exists(k)', k[1] \in Single
             PROVE  inst'[k].single \/ inst'[k].product \/ (mpc' = "kill" /\ todo' = <<PointerTo(k)'>>)
  BY DEF SingleMarked
<1>1. Exists(k) /\ inst'[k].gen = inst[k].gen /\ inst'[k].single = inst[k].single
      /\ (inst[k].product => inst'[k].product)
  BY DEF InstancesKept
<1>2. PointerTo(k)' = PointerTo(k)
  BY <1>1 DEF PointerTo
<1> QED
  BY <1>1, <1>2 DEF SingleMarked

\* Nothing of s is let out: what was out stays, or some of it is done with.  The
\* reports that are left have moved by d places, one if a task was taken.
LEMMA OneOutKeep ==
  ASSUME NEW s, OneOut(s), s \in busy => s \in busy',
         \A p \in Pointer : SubstrateOf(p) = s => work'[p] = work[p],
         Holding(s)' \subseteq Holding(s), NEW d \in {0, 1},
         \A i \in Reported(s)' : i \in Int /\ i + d \in Reported(s)
  PROVE  OneOut(s)'
<1>1. Queued(s)' = Queued(s)
  BY DEF Queued
<1>2. ASSUME NEW i \in Reported(s)', NEW j \in Reported(s)' PROVE i = j
  <2>1. i + d = j + d /\ i \in Int /\ j \in Int
    BY DEF OneOut
  <2> QED
    BY <2>1
<1>3. Reported(s) = {} => Reported(s)' = {}
  OBVIOUS
<1>4. Holding(s) = {} => Holding(s)' = {}
  OBVIOUS
<1>5. \A p \in Queued(s) : work'[p] = work[p]
  BY DEF Queued
<1>6. \A p, q \in Queued(s)' : p = q /\ work'[p] = 1
  BY <1>1, <1>5 DEF OneOut
<1>7. \A v, w \in Holding(s)' : v = w
  BY DEF OneOut
<1>8. s \notin busy' => Queued(s)' = {} /\ Holding(s)' = {} /\ Reported(s)' = {}
  BY <1>1, <1>3, <1>4 DEF OneOut
<1>9. Queued(s)' = {} \/ (Holding(s)' = {} /\ Reported(s)' = {})
  BY <1>1, <1>3, <1>4 DEF OneOut
<1>10. Holding(s)' = {} \/ Reported(s)' = {}
  BY <1>3, <1>4 DEF OneOut
<1> HIDE DEF Queued, Holding, Reported
<1> QED
  BY <1>2, <1>6, <1>7, <1>8, <1>9, <1>10 DEF OneOut

-----------------------------------------------------------------------------
(* the steps of the workers *)

\* Where a worker is with a frame that it has yet to report.
Places == {"popped", "taken", "repost", "run", "stored"}

\* An instance is changed in place, in nothing that the invariants look at but
\* the product, which may be stored.
LEMMA RenewKept ==
  ASSUME TypeOK, NEW p \in Pointer, Alive(p), NEW new \in Instance,
         new.gen = inst[p.key].gen, new.single = inst[p.key].single,
         inst[p.key].product => new.product, inst' = [inst EXCEPT ![p.key] = new]
  PROVE  InstancesKept
<1>1. /\ p.key \in Key
      /\ inst'[p.key] = new
      /\ \A k \in Key : k # p.key => inst'[k] = inst[k]
      /\ \A k \in Key : Exists(k)' <=> Exists(k)
  BY Renew, AlivePointer
<1> QED
  BY <1>1 DEF InstancesKept

\* A step that leaves the instances alone.
LEMMA SameKept ==
  ASSUME UNCHANGED inst
  PROVE  InstancesKept
BY DEF InstancesKept, Exists

\* A worker that takes nothing from the queue adds to no filter's holders.
LEMMA HoldingKeep ==
  ASSUME NEW w \in Worker, \A v \in Worker : v # w => worker'[v] = worker[v],
         worker'[w].pc \in Places => worker[w].pc \in Places /\ worker'[w].at = worker[w].at
  PROVE  \A s : Holding(s)' \subseteq Holding(s)
BY DEF Holding, Places, At, SubstrateOf

\* A step that gives no thread a pointer it could not follow before.
LEMMA NoneCirculates ==
  ASSUME Typed, InstancesKept,
         \A p \in Pointer : work'[p] > 0 => Circulating(p),
         \A p \in Pointer : \A s \in Substrate : p \in waiting'[s] => Circulating(p),
         \A p \in Pointer : \A w \in Worker : worker'[w].at = p => Circulating(p),
         \A p \in Pointer : \A i \in 1 .. Len(tasks') : Reports(i, p)' => Circulating(p)
  PROVE  \A p \in Pointer : Circulating(p)' => Circulating(p)
<1> SUFFICES ASSUME NEW p \in Pointer, Circulating(p)' PROVE Circulating(p)
  OBVIOUS
<1>1. CASE Alive(p)'
  BY <1>1, KeptAlive DEF Circulating
<1>2. CASE \E w \in Worker : At(w)' = p
  BY <1>2 DEF At
<1> QED
  BY <1>1, <1>2 DEF Circulating

\* The reports that were there already.
LEMMA OldReports ==
  ASSUME UNCHANGED tasks
  PROVE  \A p \in Pointer : \A i \in 1 .. Len(tasks') : Reports(i, p)' => Circulating(p)
BY DEF Reports, Circulating

\* The pointers that workers had already.
LEMMA OldWorkers ==
  ASSUME NEW w \in Worker, \A v \in Worker : v # w => worker'[v] = worker[v],
         worker'[w].at = worker[w].at \/ worker'[w].at \notin Pointer
  PROVE  \A p \in Pointer : \A v \in Worker : worker'[v].at = p => Circulating(p)
BY DEF Circulating, At

\* What a step of a worker leaves alone, and what its own place adds.
LEMMA OrderlyWorker ==
  ASSUME Typed, Orderly, InstancesKept, NEW w \in Worker,
         \A v \in Worker : v # w => worker'[v] = worker[v],
         \A p \in Pointer : Circulating(p)' => Circulating(p),
         worker'[w].pc = "stored" =>
           \/ worker[w].pc = "stored" /\ worker'[w].at = worker[w].at
           \/ (Alive(At(w)) => inst[At(w).key].product)',
         \A p \in Pointer : \A i \in 1 .. Len(tasks') : tasks'[i] = Notify(p, FALSE) =>
           \/ \E j \in 1 .. Len(tasks) : tasks[j] = Notify(p, FALSE)
           \/ \E v \in Worker : worker[v].pc = "stored" /\ worker[v].at = p,
         NecksHold',
         UNCHANGED <<made, stack, mpc, todo, waiting>>
  PROVE  Orderly'
<1>1. OpenCallsFresh'
  BY FreshKeep DEF Orderly
<1>2. \A v \in Worker : worker'[v].pc = "stored" =>
           \/ worker[v].pc = "stored" /\ worker'[v].at = worker[v].at
           \/ (Alive(At(v)) => inst[At(v).key].product)'
  OBVIOUS
<1>3. StoredFirst'
  BY <1>2, StoredKeep DEF Orderly
<1>4. SingleMarked'
  BY MarkedKeep DEF Orderly
<1>5. NecksOwn'
  BY DEF Orderly, NecksOwn, SubstrateOf
<1> QED
  BY <1>1, <1>3, <1>4, <1>5 DEF Orderly

\* A step that moves a frame nowhere, or lets it go.
LEMMA QuietWorker ==
  ASSUME Typed, Orderly, InstancesKept, NEW w \in Worker,
         \A v \in Worker : v # w => worker'[v] = worker[v],
         worker'[w].at = worker[w].at \/ worker'[w].at = None,
         worker'[w].pc \in Places => worker[w].pc \in Places /\ worker'[w].at = worker[w].at,
         worker'[w].pc = "stored" =>
           \/ worker[w].pc = "stored" /\ worker'[w].at = worker[w].at
           \/ (Alive(At(w)) => inst[At(w).key].product)',
         UNCHANGED <<made, stack, mpc, todo, busy, waiting, tasks, work>>
  PROVE  Orderly'
<1>1. \A p \in Pointer : \A v \in Worker : worker'[v].at = p => Circulating(p)
  BY OldWorkers, NoneAssumption
<1>2. /\ \A p \in Pointer : work'[p] > 0 => Circulating(p)
      /\ \A p \in Pointer : \A s \in Substrate : p \in waiting'[s] => Circulating(p)
  BY DEF Circulating
<1>3. \A p \in Pointer : Circulating(p)' => Circulating(p)
  BY <1>1, <1>2, OldReports, NoneCirculates
<1>4. ASSUME NEW s \in Single PROVE OneOut(s)'
  <2>1. Holding(s)' \subseteq Holding(s) /\ Reported(s)' = Reported(s)
    BY HoldingKeep DEF Reported
  <2>2. \A i \in Reported(s)' : i \in Int /\ i + 0 \in Reported(s)
    BY <2>1 DEF Reported
  <2> HIDE DEF Holding, Reported
  <2> QED
    BY <2>1, <2>2, OneOutKeep DEF Orderly, NecksHold
<1>5. NecksHold'
  BY <1>4 DEF NecksHold
<1>6. \A p \in Pointer : \A i \in 1 .. Len(tasks') : tasks'[i] = Notify(p, FALSE) =>
        \E j \in 1 .. Len(tasks) : tasks[j] = Notify(p, FALSE)
  OBVIOUS
<1> QED
  BY <1>3, <1>5, <1>6, OrderlyWorker

\* The workers, by type.
LEMMA WorkerType ==
  ASSUME Typed
  PROVE  worker \in [Worker -> [pc : WorkerStates, at : Pointer \cup {None}, mode : Modes]]
BY DEF Typed, TypeOK

\* A frame is taken, or left to the worker that has it.
LEMMA OrderlyTestTaken ==
  ASSUME Typed, Orderly, NEW w \in Worker, TestTaken(w)
  PROVE  Orderly'
<1>1. At(w) \in Pointer /\ At(w) = worker[w].at /\ TypeOK /\ worker[w].pc = "popped"
  BY WorkerPointer DEF TestTaken, WorkerAt
<1>2. UNCHANGED <<made, stack, mpc, todo, busy, waiting, tasks, work>>
  BY DEF TestTaken
<1>3. CASE Alive(At(w)) /\ ~inst[At(w).key].taken
  <2> DEFINE new == [inst[At(w).key] EXCEPT !.taken = TRUE]
             to == IF SubstrateOf(At(w)) \in Guarded THEN "taken" ELSE "run"
  <2>1. inst' = [inst EXCEPT ![At(w).key] = new] /\ WorkerGoto(w, to)
    BY <1>3 DEF TestTaken
  <2>2. /\ new \in Instance /\ new.gen = inst[At(w).key].gen
        /\ new.single = inst[At(w).key].single /\ new.product = inst[At(w).key].product
    BY <1>1, <1>3, AlivePointer DEF Instance
  <2> HIDE DEF new
  <2>3. InstancesKept
    BY <1>1, <1>3, <2>1, <2>2, RenewKept
  <2>4. to \in WorkerStates /\ to # "stored"
    BY DEF WorkerStates
  <2>5. /\ worker'[w].pc = to /\ worker'[w].at = worker[w].at
        /\ \A v \in Worker : v # w => worker'[v] = worker[v]
    BY <1>1, <2>1, <2>4, GotoShape
  <2> HIDE DEF to
  <2>6. worker[w].pc \in Places
    BY <1>1 DEF Places
  <2> QED
    BY <1>2, <2>3, <2>4, <2>5, <2>6, QuietWorker
<1>4. CASE ~(Alive(At(w)) /\ ~inst[At(w).key].taken)
  <2>1. inst' = inst /\ WorkerRest(w)
    BY <1>4 DEF TestTaken
  <2>2. /\ worker'[w].pc = "idle" /\ worker'[w].at = None
        /\ \A v \in Worker : v # w => worker'[v] = worker[v]
    BY <1>1, <2>1, RestShape
  <2>3. InstancesKept
    BY <2>1, SameKept
  <2> QED
    BY <1>2, <2>2, <2>3, QuietWorker DEF Places
<1> QED
  BY <1>3, <1>4

\* The attempt on the lock succeeds,
LEMMA OrderlyTryLock ==
  ASSUME Typed, Orderly, NEW w \in Worker, TryLock(w)
  PROVE  Orderly'
<1>1. worker[w].pc = "taken"
      /\ UNCHANGED <<inst, made, stack, mpc, todo, busy, waiting, tasks, work>>
  BY DEF TryLock, WorkerAt, maintainerVars
<1>2. PICK m \in Modes : worker' = [worker EXCEPT ![w].pc = "run", ![w].mode = m]
  BY DEF TryLock, Modes
<1>3. /\ worker'[w].pc = "run" /\ worker'[w].at = worker[w].at
      /\ \A v \in Worker : v # w => worker'[v] = worker[v]
  BY <1>2, WorkerType
<1>4. InstancesKept
  BY <1>1, SameKept
<1> QED
  BY <1>1, <1>3, <1>4, QuietWorker DEF Places

\* or fails, and the frame is released.
LEMMA OrderlyLockBusy ==
  ASSUME Typed, Orderly, NEW w \in Worker, LockBusy(w)
  PROVE  Orderly'
<1>1. At(w) \in Pointer /\ At(w) = worker[w].at /\ TypeOK /\ worker[w].pc = "taken"
  BY WorkerPointer DEF LockBusy, WorkerAt
<1>2. UNCHANGED <<made, stack, mpc, todo, busy, waiting, tasks, work>>
  BY DEF LockBusy
<1>3. /\ worker'[w].pc = "repost" /\ worker'[w].at = worker[w].at
      /\ \A v \in Worker : v # w => worker'[v] = worker[v]
  BY <1>1, GotoShape DEF LockBusy, WorkerStates
<1>4. InstancesKept
  <2>1. CASE Alive(At(w))
    <3> DEFINE new == [inst[At(w).key] EXCEPT !.taken = FALSE]
    <3>1. inst' = [inst EXCEPT ![At(w).key] = new]
      BY <2>1 DEF LockBusy
    <3>2. /\ new \in Instance /\ new.gen = inst[At(w).key].gen
          /\ new.single = inst[At(w).key].single /\ new.product = inst[At(w).key].product
      BY <1>1, <2>1, AlivePointer DEF Instance
    <3> HIDE DEF new
    <3> QED
      BY <1>1, <2>1, <3>1, <3>2, RenewKept
  <2>2. CASE ~Alive(At(w))
    BY <2>2, SameKept DEF LockBusy
  <2> QED
    BY <2>1, <2>2
<1> QED
  BY <1>1, <1>2, <1>3, <1>4, QuietWorker DEF Places

\* The product is there before the worker is seen to have stored it.
LEMMA OrderlyStoreProduct ==
  ASSUME Typed, Orderly, NEW w \in Worker, StoreProduct(w)
  PROVE  Orderly'
<1>1. At(w) \in Pointer /\ At(w) = worker[w].at /\ TypeOK /\ worker[w].pc = "run"
  BY WorkerPointer DEF StoreProduct, WorkerAt
<1>2. UNCHANGED <<made, stack, mpc, todo, busy, waiting, tasks, work>>
  BY DEF StoreProduct
<1>3. /\ worker'[w].pc = "stored" /\ worker'[w].at = worker[w].at
      /\ \A v \in Worker : v # w => worker'[v] = worker[v]
  BY <1>1, GotoShape DEF StoreProduct, WorkerStates
<1>4. At(w)' = At(w)
  BY <1>3 DEF At
<1>5. InstancesKept /\ (Alive(At(w)) => inst[At(w).key].product)'
  <2>1. CASE Alive(At(w))
    <3> DEFINE new == [inst[At(w).key] EXCEPT !.product = TRUE]
    <3>1. inst' = [inst EXCEPT ![At(w).key] = new]
      BY <2>1 DEF StoreProduct
    <3>2. /\ new \in Instance /\ new.gen = inst[At(w).key].gen
          /\ new.single = inst[At(w).key].single /\ new.product
      BY <1>1, <2>1, AlivePointer DEF Instance
    <3> HIDE DEF new
    <3>3. InstancesKept
      BY <1>1, <2>1, <3>1, <3>2, RenewKept
    <3>4. inst'[At(w).key] = new
      BY <1>1, <2>1, <3>1, <3>2, Renew
    <3> QED
      BY <1>4, <3>2, <3>3, <3>4
  <2>2. CASE ~Alive(At(w))
    <3>1. inst' = inst
      BY <2>2 DEF StoreProduct
    <3>2. ~Alive(At(w))'
      BY <2>2, <3>1, <1>4 DEF Alive, Exists
    <3> QED
      BY <3>1, <3>2, SameKept
  <2> QED
    BY <2>1, <2>2
<1> QED
  BY <1>1, <1>2, <1>3, <1>5, QuietWorker DEF Places

\* The lock is given back, after the report.
LEMMA OrderlyUnlock ==
  ASSUME Typed, Orderly, NEW w \in Worker, Unlock(w)
  PROVE  Orderly'
<1>1. UNCHANGED <<inst, made, stack, mpc, todo, busy, waiting, tasks, work>> /\ TypeOK
  BY DEF Unlock, maintainerVars, Typed
<1>2. /\ worker'[w].pc = "idle" /\ worker'[w].at = None
      /\ \A v \in Worker : v # w => worker'[v] = worker[v]
  BY <1>1, RestShape DEF Unlock
<1>3. InstancesKept
  BY <1>1, SameKept
<1> QED
  BY <1>1, <1>2, <1>3, QuietWorker DEF Places

\* The neck's frame leaves the queue for a worker.
LEMMA OrderlyPop ==
  ASSUME Typed, Orderly, NEW w \in Worker, NEW p \in Pointer, Pop(w, p)
  PROVE  Orderly'
<1> DEFINE popped == [pc |-> "popped", at |-> p, mode |-> "none"]
<1>1. /\ worker[w].pc = "idle" /\ work[p] > 0
      /\ work \in [Pointer -> Nat] /\ work' = [work EXCEPT ![p] = work[p] - 1]
      /\ worker' = [worker EXCEPT ![w] = popped]
      /\ UNCHANGED <<inst, made, stack, mpc, todo, busy, waiting, tasks>>
  BY DEF Pop, WorkerAt, maintainerVars, Typed, TypeOK
<1>2. popped.pc = "popped" /\ popped.at = p
  OBVIOUS
<1> HIDE DEF popped
<1>3. /\ worker'[w] = popped
      /\ \A v \in Worker : v # w => worker'[v] = worker[v]
  BY <1>1, WorkerType
<1>4. InstancesKept
  BY <1>1, SameKept
<1>5. \A q \in Pointer : Circulating(q)' => Circulating(q)
  <2>1. \A q \in Pointer : work'[q] > 0 => work[q] > 0
    BY <1>1
  <2>2. \A q \in Pointer : \A v \in Worker : worker'[v].at = q => Circulating(q)
    <3> TAKE q \in Pointer
    <3> TAKE v \in Worker
    <3>1. CASE v = w
      BY <3>1, <1>1, <1>2, <1>3 DEF Circulating
    <3>2. CASE v # w
      BY <3>2, <1>3 DEF Circulating, At
    <3> QED
      BY <3>1, <3>2
  <2>3. \A q \in Pointer : \A s \in Substrate : q \in waiting'[s] => Circulating(q)
    BY <1>1 DEF Circulating
  <2>4. \A q \in Pointer : work'[q] > 0 => Circulating(q)
    BY <2>1 DEF Circulating
  <2> QED
    BY <1>1, <1>4, <2>2, <2>3, <2>4, OldReports, NoneCirculates
<1>6. ASSUME NEW s \in Single PROVE OneOut(s)'
  <2>1. OneOut(s)
    BY DEF Orderly, NecksHold
  <2>2. Reported(s)' = Reported(s)
    BY <1>1 DEF Reported
  <2>3. CASE SubstrateOf(p) = s
    <3>1. p \in Queued(s)
      BY <1>1, <2>3 DEF Queued
    <3>2. Holding(s) = {} /\ Reported(s) = {} /\ s \in busy /\ work[p] = 1
          /\ \A q \in Queued(s) : q = p
      BY <3>1, <2>1 DEF OneOut
    <3>3. Queued(s)' = {}
      <4> SUFFICES ASSUME NEW q \in Pointer, SubstrateOf(q) = s, work'[q] > 0 PROVE FALSE
        BY DEF Queued, SubstrateOf
      <4>1. CASE q = p
        BY <4>1, <3>2, <1>1
      <4>2. CASE q # p
        BY <4>2, <3>2, <1>1 DEF Queued
      <4> QED
        BY <4>1, <4>2
    <3>4. \A v \in Holding(s)' : v = w
      BY <3>2, <1>3 DEF Holding, At, SubstrateOf
    <3> HIDE DEF Queued, Holding, Reported
    <3> QED
      BY <1>1, <2>2, <3>2, <3>3, <3>4 DEF OneOut
  <2>4. CASE SubstrateOf(p) # s
    <3>1. Holding(s)' \subseteq Holding(s)
      BY <1>2, <1>3, <2>4 DEF Holding, At, SubstrateOf
    <3>2. \A q \in Pointer : SubstrateOf(q) = s => work'[q] = work[q]
      BY <1>1, <2>4
    <3>3. \A i \in Reported(s)' : i \in Int /\ i + 0 \in Reported(s)
      BY <2>2 DEF Reported
    <3> HIDE DEF Queued, Holding, Reported
    <3> QED
      BY <1>1, <2>1, <3>1, <3>2, <3>3, OneOutKeep
  <2> QED
    BY <2>3, <2>4
<1>7. NecksHold'
  BY <1>6 DEF NecksHold
<1>8. worker'[w].pc # "stored"
  BY <1>2, <1>3
<1> QED
  BY <1>1, <1>3, <1>4, <1>5, <1>7, <1>8, OrderlyWorker

\* A worker puts the neck's frame back into the queue.
LEMMA OrderlyRepost ==
  ASSUME Typed, Orderly, NEW w \in Worker, Repost(w)
  PROVE  Orderly'
<1> DEFINE p == At(w)
<1>1. /\ worker[w].pc = "repost" /\ p \in Pointer /\ p = worker[w].at /\ TypeOK
      /\ work \in [Pointer -> Nat] /\ work' = [work EXCEPT ![p] = work[p] + 1]
      /\ UNCHANGED <<inst, made, stack, mpc, todo, busy, waiting, tasks>>
  BY WorkerPointer DEF Repost, WorkerAt, maintainerVars, TypeOK
<1>2. /\ worker'[w].pc = "idle" /\ worker'[w].at = None
      /\ \A v \in Worker : v # w => worker'[v] = worker[v]
  BY <1>1, RestShape DEF Repost
<1>3. InstancesKept
  BY <1>1, SameKept
<1>4. Circulating(p)
  BY DEF Circulating
<1> HIDE DEF p
<1>5. \A q \in Pointer : Circulating(q)' => Circulating(q)
  <2>1. \A q \in Pointer : work'[q] > 0 => work[q] > 0 \/ q = p
    BY <1>1
  <2>2. \A q \in Pointer : \A v \in Worker : worker'[v].at = q => Circulating(q)
    BY <1>2, OldWorkers, NoneAssumption
  <2>3. \A q \in Pointer : \A s \in Substrate : q \in waiting'[s] => Circulating(q)
    BY <1>1 DEF Circulating
  <2>4. \A q \in Pointer : work'[q] > 0 => Circulating(q)
    BY <2>1, <1>4 DEF Circulating
  <2> QED
    BY <1>1, <1>3, <2>2, <2>3, <2>4, OldReports, NoneCirculates
<1>6. ASSUME NEW s \in Single PROVE OneOut(s)'
  <2>1. OneOut(s)
    BY DEF Orderly, NecksHold
  <2>2. Reported(s)' = Reported(s)
    BY <1>1 DEF Reported
  <2>3. Holding(s)' \subseteq Holding(s) /\ w \notin Holding(s)'
    BY <1>2, HoldingKeep DEF Places, Holding
  <2>4. CASE SubstrateOf(p) = s
    <3>1. w \in Holding(s)
      BY <1>1, <2>4 DEF Holding, p
    <3>2. Queued(s) = {} /\ Reported(s) = {} /\ s \in busy /\ \A v \in Holding(s) : v = w
      BY <3>1, <2>1 DEF OneOut
    <3>3. Holding(s)' = {}
      BY <2>3, <3>2
    <3>4. \A q \in Queued(s)' : q = p /\ work'[q] = 1
      <4> SUFFICES ASSUME NEW q \in Pointer, SubstrateOf(q) = s, work'[q] > 0
                   PROVE  q = p /\ work'[q] = 1
        BY DEF Queued, SubstrateOf
      <4>1. ~(work[q] > 0) /\ ~(work[p] > 0)
        BY <3>2, <1>1, <2>4 DEF Queued
      <4> QED
        BY <4>1, <1>1
    <3> HIDE DEF Queued, Holding, Reported
    <3> QED
      BY <1>1, <2>2, <3>2, <3>3, <3>4 DEF OneOut
  <2>5. CASE SubstrateOf(p) # s
    <3>2. \A q \in Pointer : SubstrateOf(q) = s => work'[q] = work[q]
      BY <1>1, <2>5
    <3>3. \A i \in Reported(s)' : i \in Int /\ i + 0 \in Reported(s)
      BY <2>2 DEF Reported
    <3> HIDE DEF Queued, Holding, Reported
    <3> QED
      BY <1>1, <2>1, <2>3, <3>2, <3>3, OneOutKeep
  <2> QED
    BY <2>4, <2>5
<1>7. NecksHold'
  BY <1>6 DEF NecksHold
<1>8. worker'[w].pc # "stored"
  BY <1>2
<1> QED
  BY <1>1, <1>2, <1>3, <1>5, <1>7, <1>8, OrderlyWorker

\* A worker reports the neck's frame.
LEMMA OrderlyAnnounce ==
  ASSUME Typed, Orderly, NEW w \in Worker, NEW exc \in BOOLEAN, Announce(w, exc),
         worker[w].pc \in Places, exc \/ worker[w].pc = "stored",
         UNCHANGED <<maintainerVars, callbacks, work, inited, answer>>
  PROVE  Orderly'
<1> DEFINE p == At(w)
           t == Notify(p, exc)
<1>1. /\ p \in Pointer /\ p = worker[w].at /\ TypeOK
      /\ tasks' = Append(tasks, t)
      /\ UNCHANGED <<inst, made, stack, mpc, todo, busy, waiting, work>>
  BY WorkerPointer DEF Announce, WorkerAt, maintainerVars, Places
<1>2. t \in Tasks /\ t.kind = "notify" /\ t.inst = p /\ t.exc = exc
  BY <1>1 DEF Notify, Tasks
<1>3. /\ worker'[w].pc \in {"idle", "unlock"}
      /\ worker'[w].at = worker[w].at \/ worker'[w].at = None
      /\ \A v \in Worker : v # w => worker'[v] = worker[v]
  <2>1. CASE worker[w].mode = "none"
    BY <1>1, <2>1, RestShape DEF Announce
  <2>2. CASE worker[w].mode # "none"
    BY <1>1, <2>2, GotoShape DEF Announce, WorkerStates
  <2> QED
    BY <2>1, <2>2
<1>4. InstancesKept
  BY <1>1, SameKept
<1>5. Circulating(p)
  BY DEF Circulating
<1>6. \A q : Notify(q, FALSE) = t => q = p /\ ~exc
  BY DEF Notify
<1> HIDE DEF p, t
<1>7. /\ Len(tasks) \in Nat /\ Len(tasks') = Len(tasks) + 1
      /\ tasks'[Len(tasks) + 1] = t
      /\ \A i \in 1 .. Len(tasks) : tasks'[i] = tasks[i]
      /\ \A i \in 1 .. Len(tasks') : i \in 1 .. Len(tasks) \/ i = Len(tasks) + 1
  BY <1>1, <1>2, TaskAdded
<1>8. \A q \in Pointer : Circulating(q)' => Circulating(q)
  <2>1. \A q \in Pointer : \A i \in 1 .. Len(tasks') : Reports(i, q)' => Circulating(q)
    <3> SUFFICES ASSUME NEW q \in Pointer, NEW i \in 1 .. Len(tasks'), Reports(i, q)'
                 PROVE  Circulating(q)
      OBVIOUS
    <3>1. CASE i \in 1 .. Len(tasks)
      BY <3>1, <1>7 DEF Reports, Circulating
    <3>2. CASE i = Len(tasks) + 1
      BY <3>2, <1>2, <1>5, <1>7 DEF Reports
    <3> QED
      BY <3>1, <3>2, <1>7
  <2>2. \A q \in Pointer : \A v \in Worker : worker'[v].at = q => Circulating(q)
    BY <1>3, OldWorkers, NoneAssumption
  <2>3. /\ \A q \in Pointer : \A s \in Substrate : q \in waiting'[s] => Circulating(q)
        /\ \A q \in Pointer : work'[q] > 0 => Circulating(q)
    BY <1>1 DEF Circulating
  <2> QED
    BY <1>4, <2>1, <2>2, <2>3, NoneCirculates
<1>9. ASSUME NEW s \in Single PROVE OneOut(s)'
  <2>1. OneOut(s)
    BY DEF Orderly, NecksHold
  <2>2. Holding(s)' \subseteq Holding(s) /\ w \notin Holding(s)'
    BY <1>3, HoldingKeep DEF Places, Holding
  <2>3. CASE SubstrateOf(p) = s
    <3>1. w \in Holding(s)
      BY <1>1, <2>3 DEF Holding, p, Places
    <3>2. Queued(s) = {} /\ Reported(s) = {} /\ s \in busy /\ \A v \in Holding(s) : v = w
      BY <3>1, <2>1 DEF OneOut
    <3>3. Holding(s)' = {}
      BY <2>2, <3>2
    <3>4. Queued(s)' = Queued(s)
      BY <1>1 DEF Queued
    <3>5. \A i \in Reported(s)' : i = Len(tasks) + 1
      BY <1>7, <3>2 DEF Reported, SubstrateOf
    <3> HIDE DEF Queued, Holding, Reported
    <3> QED
      BY <1>1, <3>2, <3>3, <3>4, <3>5 DEF OneOut
  <2>4. CASE SubstrateOf(p) # s
    <3>1. \A i \in Reported(s)' : i \in Int /\ i + 0 \in Reported(s)
      <4> SUFFICES ASSUME NEW i \in 1 .. Len(tasks'), tasks'[i].kind = "notify",
                          SubstrateOf(tasks'[i].inst) = s
                   PROVE  i \in Int /\ i + 0 \in Reported(s)
        BY DEF Reported, SubstrateOf
      <4>1. i \in 1 .. Len(tasks)
        BY <1>2, <1>7, <2>4
      <4> QED
        BY <4>1, <1>7 DEF Reported
    <3>2. \A q \in Pointer : SubstrateOf(q) = s => work'[q] = work[q]
      BY <1>1
    <3> HIDE DEF Queued, Holding, Reported
    <3> QED
      BY <1>1, <2>1, <2>2, <3>1, <3>2, OneOutKeep
  <2> QED
    BY <2>3, <2>4
<1>10. NecksHold'
  BY <1>9 DEF NecksHold
<1>11. \A q \in Pointer : \A i \in 1 .. Len(tasks') : tasks'[i] = Notify(q, FALSE) =>
         \/ \E j \in 1 .. Len(tasks) : tasks[j] = Notify(q, FALSE)
         \/ \E v \in Worker : worker[v].pc = "stored" /\ worker[v].at = q
  <2> SUFFICES ASSUME NEW q \in Pointer, NEW i \in 1 .. Len(tasks'), tasks'[i] = Notify(q, FALSE)
               PROVE  \/ \E j \in 1 .. Len(tasks) : tasks[j] = Notify(q, FALSE)
                      \/ \E v \in Worker : worker[v].pc = "stored" /\ worker[v].at = q
    OBVIOUS
  <2>1. CASE i \in 1 .. Len(tasks)
    BY <2>1, <1>7
  <2>2. CASE i = Len(tasks) + 1
    BY <2>2, <1>1, <1>6, <1>7
  <2> QED
    BY <2>1, <2>2, <1>7
<1>12. worker'[w].pc # "stored"
  BY <1>3
<1> QED
  BY <1>1, <1>3, <1>4, <1>8, <1>10, <1>11, <1>12, OrderlyWorker

\* Whatever a worker does.
LEMMA OrderlyWorkerStep ==
  ASSUME Typed, Orderly, NEW w \in Worker, WorkerStep(w)
  PROVE  Orderly'
<1>1. ASSUME NEW p \in Pointer, Pop(w, p) PROVE Orderly'
  BY <1>1, OrderlyPop
<1>2. CASE TestTaken(w)
  BY <1>2, OrderlyTestTaken
<1>3. CASE TryLock(w)
  BY <1>3, OrderlyTryLock
<1>4. CASE LockBusy(w)
  BY <1>4, OrderlyLockBusy
<1>5. CASE Repost(w)
  BY <1>5, OrderlyRepost
<1>6. CASE Fail(w)
  BY <1>6, OrderlyAnnounce DEF Fail, WorkerAt, Places
<1>7. CASE StoreProduct(w)
  BY <1>7, OrderlyStoreProduct
<1>8. CASE Succeed(w)
  BY <1>8, OrderlyAnnounce DEF Succeed, WorkerAt, Places
<1>9. CASE Unlock(w)
  BY <1>9, OrderlyUnlock
<1> QED
  BY <1>1, <1>2, <1>3, <1>4, <1>5, <1>6, <1>7, <1>8, <1>9 DEF WorkerStep

-----------------------------------------------------------------------------
(* the steps of the clients, and those of the maintainer that leave the      *)
(* calls of construct as they are                                            *)

\* A step that neither makes a call nor lets anything of a neck out or in.
LEMMA QuietStep ==
  ASSUME Typed, Orderly, InstancesKept,
         mpc # "kill" \/ UNCHANGED <<mpc, todo>>,
         UNCHANGED <<made, stack, busy, waiting, tasks, work, worker>>
  PROVE  Orderly'
<1>1. \A p \in Pointer : Circulating(p)' => Circulating(p)
  <2>1. /\ \A p \in Pointer : work'[p] > 0 => Circulating(p)
        /\ \A p \in Pointer : \A s \in Substrate : p \in waiting'[s] => Circulating(p)
        /\ \A p \in Pointer : \A w \in Worker : worker'[w].at = p => Circulating(p)
    BY DEF Circulating, At
  <2> QED
    BY <2>1, OldReports, NoneCirculates
<1>2. OpenCallsFresh'
  BY <1>1, FreshKeep DEF Orderly
<1>3. StoredFirst'
  BY StoredKeep DEF Orderly
<1>4. SingleMarked'
  BY MarkedKeep DEF Orderly
<1>5. NecksOwn'
  BY DEF Orderly, NecksOwn
<1>6. NecksHold'
  BY DEF Orderly, NecksHold, OneOut, Queued, Holding, Reported, At
<1> QED
  BY <1>2, <1>3, <1>4, <1>5, <1>6 DEF Orderly

\* A callback is invoked.
LEMMA OrderlyCallback ==
  ASSUME Typed, Orderly, InvokeCallback
  PROVE  Orderly'
<1>1. UNCHANGED <<inst, mpc, todo, made, stack, busy, waiting, tasks, work, worker>>
  BY DEF InvokeCallback, maintainerVars, workerVars
<1> QED
  BY <1>1, SameKept, QuietStep

\* A client asks for a frame: a task, but no report.
LEMMA OrderlyGetFrame ==
  ASSUME Typed, Orderly, NEW r \in Request, GetFrame(r)
  PROVE  Orderly'
<1> DEFINE t == Construct(r)
<1>1. UNCHANGED <<inst, mpc, todo, made, stack, busy, waiting, work, worker>>
      /\ tasks' = Append(tasks, t) /\ TypeOK
  BY DEF GetFrame, maintainerVars, workerVars, Typed
<1>2. t \in Tasks /\ t.kind = "construct" /\ \A q : t # Notify(q, FALSE)
  BY DEF Construct, Tasks, Notify
<1>3. InstancesKept
  BY <1>1, SameKept
<1> HIDE DEF t
<1>4. /\ Len(tasks) \in Nat /\ Len(tasks') = Len(tasks) + 1
      /\ tasks'[Len(tasks) + 1] = t
      /\ \A i \in 1 .. Len(tasks) : tasks'[i] = tasks[i]
      /\ \A i \in 1 .. Len(tasks') : i \in 1 .. Len(tasks) \/ i = Len(tasks) + 1
  BY <1>1, <1>2, TaskAdded
<1>5. \A i \in 1 .. Len(tasks') : tasks'[i].kind = "notify" =>
        i \in 1 .. Len(tasks) /\ tasks'[i] = tasks[i]
  BY <1>2, <1>4
<1>6. \A p \in Pointer : Circulating(p)' => Circulating(p)
  <2>1. /\ \A p \in Pointer : work'[p] > 0 => Circulating(p)
        /\ \A p \in Pointer : \A s \in Substrate : p \in waiting'[s] => Circulating(p)
        /\ \A p \in Pointer : \A w \in Worker : worker'[w].at = p => Circulating(p)
    BY <1>1 DEF Circulating, At
  <2>2. \A p \in Pointer : \A i \in 1 .. Len(tasks') : Reports(i, p)' => Circulating(p)
    BY <1>5 DEF Reports, Circulating
  <2> QED
    BY <1>3, <2>1, <2>2, NoneCirculates
<1>7. OpenCallsFresh'
  BY <1>1, <1>6, FreshKeep DEF Orderly
<1>8. StoredFirst'
  <2>1. \A p \in Pointer : \A i \in 1 .. Len(tasks') : tasks'[i] = Notify(p, FALSE) =>
          \E j \in 1 .. Len(tasks) : tasks[j] = Notify(p, FALSE)
    BY <1>2, <1>4
  <2> QED
    BY <1>1, <1>3, <2>1, StoredKeep DEF Orderly
<1>9. SingleMarked'
  BY <1>1, <1>3, MarkedKeep DEF Orderly
<1>10. NecksOwn'
  BY <1>1 DEF Orderly, NecksOwn
<1>11. ASSUME NEW s \in Single PROVE OneOut(s)'
  <2>1. \A i \in Reported(s)' : i \in Int /\ i + 0 \in Reported(s)
    BY <1>5 DEF Reported, SubstrateOf
  <2>2. Holding(s)' \subseteq Holding(s)
    BY <1>1 DEF Holding, At
  <2> HIDE DEF Queued, Holding, Reported
  <2> QED
    BY <1>1, <2>1, <2>2, OneOutKeep DEF Orderly, NecksHold
<1> QED
  BY <1>7, <1>8, <1>9, <1>10, <1>11 DEF Orderly, NecksHold

\* No neck can go on.
LEMMA OrderlyEndTask ==
  ASSUME Typed, Orderly, EndTask
  PROVE  Orderly'
<1>1. UNCHANGED <<inst, todo, made, stack, busy, waiting, tasks, work, worker>> /\ mpc # "kill"
  BY DEF EndTask, workerVars
<1> QED
  BY <1>1, SameKept, QuietStep

\* The current instance loses its callback.
LEMMA OrderlyAnswerCallback ==
  ASSUME Typed, Orderly, AnswerCallback
  PROVE  Orderly'
<1> DEFINE new == [inst[current.key] EXCEPT !.callback = None]
<1>1. TypeOK /\ current \in Pointer /\ Alive(current) /\ mpc # "kill"
  BY DEF AnswerCallback, Typed, CurrentPlaced
<1>2. /\ new \in Instance /\ new.gen = inst[current.key].gen
      /\ new.single = inst[current.key].single /\ new.product = inst[current.key].product
  BY <1>1, AlivePointer DEF Instance
<1>3. inst' = [inst EXCEPT ![current.key] = new]
      /\ UNCHANGED <<made, stack, busy, waiting, tasks, work, worker>>
  BY DEF AnswerCallback, workerVars
<1> HIDE DEF new
<1>4. InstancesKept
  BY <1>1, <1>2, <1>3, RenewKept
<1> QED
  BY <1>1, <1>3, <1>4, QuietStep

\* The sweep only takes instances away.
LEMMA OrderlyEndBatch ==
  ASSUME Typed, Orderly, EndBatch
  PROVE  Orderly'
<1>1. mpc # "kill" /\ TypeOK
      /\ UNCHANGED <<todo, made, stack, busy, waiting, tasks, work, worker>>
  BY DEF EndBatch, workerVars, Typed
<1>2. InstancesKept
  <2>1. CASE constructed
    <3> SUFFICES ASSUME NEW k \in Key, inst'[k] # None
                 PROVE  /\ Exists(k) /\ inst'[k].gen = inst[k].gen
                        /\ inst'[k].single = inst[k].single
                        /\ inst[k].product => inst'[k].product
      BY DEF InstancesKept, Exists
    <3>1. inst'[k] = IF ~Evictable(k) THEN inst[k]
                     ELSE IF inst[k].indulgence > 0
                            THEN [inst[k] EXCEPT !.indulgence = @ - 1]
                            ELSE None
      BY <2>1 DEF EndBatch
    <3>2. CASE ~Evictable(k)
      BY <3>1, <3>2 DEF Exists
    <3>3. CASE Evictable(k)
      <4>1. Exists(k) /\ inst[k] \in Instance
        BY <1>1, <3>3, InstanceParts DEF Evictable
      <4>2. inst'[k] = [inst[k] EXCEPT !.indulgence = @ - 1]
        BY <3>1, <3>3
      <4> QED
        BY <4>1, <4>2 DEF Instance
    <3> QED
      BY <3>2, <3>3
  <2>2. CASE ~constructed
    BY <2>2, SameKept DEF EndBatch
  <2> QED
    BY <2>1, <2>2
<1> QED
  BY <1>1, <1>2, QuietStep

\* The mark that a killed frame leaves is gone with its instance.
LEMMA OrderlyEndKill ==
  ASSUME Typed, Orderly, EndKill
  PROVE  Orderly'
<1>1. UNCHANGED <<inst, made, stack, busy, waiting, tasks, work, worker, todo>> /\ todo = <<>>
  BY DEF EndKill, workerVars
<1>2. InstancesKept
  BY <1>1, SameKept
<1>3. \A p \in Pointer : Circulating(p)' => Circulating(p)
  <2>1. /\ \A p \in Pointer : work'[p] > 0 => Circulating(p)
        /\ \A p \in Pointer : \A s \in Substrate : p \in waiting'[s] => Circulating(p)
        /\ \A p \in Pointer : \A w \in Worker : worker'[w].at = p => Circulating(p)
    BY <1>1 DEF Circulating, At
  <2> QED
    BY <1>1, <1>2, <2>1, OldReports, NoneCirculates
<1>4. SingleMarked'
  <2>1. \A p : todo # <<p>>
    BY <1>1
  <2> QED
    BY <1>1, <2>1 DEF Orderly, SingleMarked, Exists
<1>5. OpenCallsFresh'
  BY <1>1, <1>3, FreshKeep DEF Orderly
<1>6. StoredFirst'
  BY <1>1, <1>2, StoredKeep DEF Orderly
<1>7. NecksOwn' /\ NecksHold'
  BY <1>1 DEF Orderly, NecksOwn, NecksHold, OneOut, Queued, Holding, Reported, At
<1> QED
  BY <1>4, <1>5, <1>6, <1>7 DEF Orderly

\* An instance is killed; the mark of the first to be killed goes with it.
LEMMA OrderlyKillNext ==
  ASSUME Typed, Orderly, KillNext
  PROVE  Orderly'
<1> DEFINE p == Head(todo)
<1>1. TypeOK /\ p \in Pointer /\ p = todo[1] /\ mpc = "kill" /\ mpc' = mpc
      /\ UNCHANGED <<made, stack, busy, waiting, tasks, work, worker>>
  BY TailShape DEF KillNext, workerVars, Typed, TypeOK
<1>2. ASSUME Alive(p) PROVE InstancesKept /\ SingleMarked'
  <2>1. inst' = [inst EXCEPT ![p.key] = None] /\ inst \in [Key -> Instance \cup {None}]
    BY <1>1, <1>2 DEF KillNext, TypeOK
  <2>2. p.key \in Key /\ p = PointerTo(p.key)
    BY <1>1, <1>2, AlivePointer
  <2> HIDE DEF p
  <2>3. inst'[p.key] = None /\ \A k \in Key : k # p.key => inst'[k] = inst[k]
    BY <2>1, <2>2 DEF Exists
  <2>4. InstancesKept
    BY <2>2, <2>3 DEF InstancesKept, Exists
  <2>5. SingleMarked'
    <3> SUFFICES ASSUME NEW k \in Key, Exists(k)', k[1] \in Single
                 PROVE  inst'[k].single \/ inst'[k].product
      BY DEF SingleMarked
    <3>1. k # p.key /\ inst'[k] = inst[k] /\ Exists(k)
      BY <2>3 DEF Exists
    <3>2. todo # <<PointerTo(k)>>
      <4>1. PointerTo(k).key = k
        BY DEF PointerTo
      <4>2. <<PointerTo(k)>>[1] = PointerTo(k)
        OBVIOUS
      <4> QED
        BY <1>1, <3>1, <4>1, <4>2 DEF p
    <3> QED
      BY <3>1, <3>2 DEF Orderly, SingleMarked
  <2> QED
    BY <2>4, <2>5
<1>3. ASSUME ~Alive(p) PROVE InstancesKept /\ SingleMarked'
  <2>1. inst' = inst
    BY <1>3 DEF KillNext
  <2>2. SingleMarked'
    <3> SUFFICES ASSUME NEW k \in Key, Exists(k), k[1] \in Single
                 PROVE  inst[k].single \/ inst[k].product
      BY <2>1 DEF SingleMarked, Exists
    <3>1. Alive(PointerTo(k))
      BY <1>1, InstanceParts
    <3>2. <<PointerTo(k)>>[1] = PointerTo(k)
      OBVIOUS
    <3>3. todo # <<PointerTo(k)>>
      BY <1>1, <1>3, <3>1, <3>2
    <3> QED
      BY <3>3 DEF Orderly, SingleMarked
  <2>3. InstancesKept
    BY <2>1, SameKept
  <2> QED
    BY <2>2, <2>3
<1>4. InstancesKept /\ SingleMarked'
  BY <1>2, <1>3
<1>5. \A q \in Pointer : Circulating(q)' => Circulating(q)
  <2>1. /\ \A q \in Pointer : work'[q] > 0 => Circulating(q)
        /\ \A q \in Pointer : \A s \in Substrate : q \in waiting'[s] => Circulating(q)
        /\ \A q \in Pointer : \A w \in Worker : worker'[w].at = q => Circulating(q)
    BY <1>1 DEF Circulating, At
  <2> QED
    BY <1>1, <1>4, <2>1, OldReports, NoneCirculates
<1>6. OpenCallsFresh'
  BY <1>1, <1>5, FreshKeep DEF Orderly
<1>7. StoredFirst'
  BY <1>1, <1>4, StoredKeep DEF Orderly
<1>8. NecksOwn' /\ NecksHold'
  BY <1>1 DEF Orderly, NecksOwn, NecksHold, OneOut, Queued, Holding, Reported, At
<1> QED
  BY <1>4, <1>6, <1>7, <1>8 DEF Orderly

-----------------------------------------------------------------------------
(* the tasks of a batch *)

\* What is left of the reports when the first task is taken.
LEMMA TakenReports ==
  ASSUME Typed, NextTask
  PROVE  /\ \A p \in Pointer : \A i \in 1 .. Len(tasks') : Reports(i, p)' => Circulating(p)
         /\ \A p \in Pointer : \A i \in 1 .. Len(tasks') : tasks'[i] = Notify(p, FALSE) =>
              \E j \in 1 .. Len(tasks) : tasks[j] = Notify(p, FALSE)
         /\ \A s : \A i \in Reported(s)' : i \in Int /\ i + 1 \in Reported(s)
<1>1. \A i \in 1 .. Len(tasks') : i + 1 \in 1 .. Len(tasks) /\ tasks'[i] = tasks[i + 1]
  BY TaskRead DEF Typed
<1>2. \A p \in Pointer : \A i \in 1 .. Len(tasks') : Reports(i, p)' => Circulating(p)
  BY <1>1 DEF Reports, Circulating
<1>3. \A p \in Pointer : \A i \in 1 .. Len(tasks') : tasks'[i] = Notify(p, FALSE) =>
        \E j \in 1 .. Len(tasks) : tasks[j] = Notify(p, FALSE)
  BY <1>1
<1>4. \A s : \A i \in Reported(s)' : i \in Int /\ i + 1 \in Reported(s)
  BY <1>1 DEF Reported, SubstrateOf
<1> QED
  BY <1>2, <1>3, <1>4

\* construct begins with a call that has made nothing.
LEMMA OrderlyTakeConstruct ==
  ASSUME Typed, Orderly, TakeConstruct
  PROVE  Orderly'
<1>1. /\ NextTask /\ mpc # "kill"
      /\ UNCHANGED <<inst, made, busy, waiting, work, worker, todo>>
  BY DEF TakeConstruct, NextTask, workerVars
<1>2. InstancesKept
  BY <1>1, SameKept
<1>3. \A p \in Pointer : Circulating(p)' => Circulating(p)
  <2>1. /\ \A p \in Pointer : work'[p] > 0 => Circulating(p)
        /\ \A p \in Pointer : \A s \in Substrate : p \in waiting'[s] => Circulating(p)
        /\ \A p \in Pointer : \A w \in Worker : worker'[w].at = p => Circulating(p)
    BY <1>1 DEF Circulating, At
  <2> QED
    BY <1>1, <1>2, <2>1, TakenReports, NoneCirculates
<1>4. OpenCallsFresh'
  <2>1. Len(stack') = 1 /\ ~stack'[1].open
    BY DEF TakeConstruct, Call
  <2>2. \A i \in 1 .. Len(stack') : ~stack'[i].open
    BY <2>1
  <2>3. \A p \in Pointer : Circulating(p)' => p.gen <= made'[p.key]
    BY <1>1, <1>3 DEF Orderly, OpenCallsFresh
  <2> QED
    BY <2>2, <2>3 DEF OpenCallsFresh
<1>5. StoredFirst'
  BY <1>1, <1>2, TakenReports, StoredKeep DEF Orderly
<1>6. SingleMarked'
  BY <1>1, <1>2, MarkedKeep DEF Orderly
<1>7. NecksOwn'
  BY <1>1 DEF Orderly, NecksOwn
<1>8. ASSUME NEW s \in Single PROVE OneOut(s)'
  <2>1. Holding(s)' \subseteq Holding(s)
    BY <1>1 DEF Holding, At
  <2>2. \A i \in Reported(s)' : i \in Int /\ i + 1 \in Reported(s)
    BY <1>1, TakenReports
  <2> HIDE DEF Queued, Holding, Reported
  <2> QED
    BY <1>1, <2>1, <2>2, OneOutKeep DEF Orderly, NecksHold
<1> QED
  BY <1>4, <1>5, <1>6, <1>7, <1>8 DEF Orderly, NecksHold

\* A report that came too late is dropped.
LEMMA OrderlyTakeStaleNotify ==
  ASSUME Typed, Orderly, TakeStaleNotify
  PROVE  Orderly'
<1>1. /\ NextTask /\ mpc # "kill"
      /\ UNCHANGED <<inst, made, stack, busy, waiting, work, worker, todo>>
  BY DEF TakeStaleNotify, NextTask, workerVars
<1>2. InstancesKept
  BY <1>1, SameKept
<1>3. \A p \in Pointer : Circulating(p)' => Circulating(p)
  <2>1. /\ \A p \in Pointer : work'[p] > 0 => Circulating(p)
        /\ \A p \in Pointer : \A s \in Substrate : p \in waiting'[s] => Circulating(p)
        /\ \A p \in Pointer : \A w \in Worker : worker'[w].at = p => Circulating(p)
    BY <1>1 DEF Circulating, At
  <2> QED
    BY <1>1, <1>2, <2>1, TakenReports, NoneCirculates
<1>4. OpenCallsFresh'
  BY <1>1, <1>3, FreshKeep DEF Orderly
<1>5. StoredFirst'
  BY <1>1, <1>2, TakenReports, StoredKeep DEF Orderly
<1>6. SingleMarked'
  BY <1>1, <1>2, MarkedKeep DEF Orderly
<1>7. NecksOwn'
  BY <1>1 DEF Orderly, NecksOwn
<1>8. ASSUME NEW s \in Single PROVE OneOut(s)'
  <2>1. Holding(s)' \subseteq Holding(s)
    BY <1>1 DEF Holding, At
  <2>2. \A i \in Reported(s)' : i \in Int /\ i + 1 \in Reported(s)
    BY <1>1, TakenReports
  <2> HIDE DEF Queued, Holding, Reported
  <2> QED
    BY <1>1, <2>1, <2>2, OneOutKeep DEF Orderly, NecksHold
<1> QED
  BY <1>4, <1>5, <1>6, <1>7, <1>8 DEF Orderly, NecksHold

\* The report of the neck's frame is read, and the neck may be free.
LEMMA OrderlyTakeNotify ==
  ASSUME Typed, Orderly, TakeNotify
  PROVE  Orderly'
<1> DEFINE p == Head(tasks).inst
           exc == Head(tasks).exc
           new == [inst[p.key] EXCEPT !.single = FALSE]
<1>1. /\ NextTask /\ TypeOK /\ mpc # "kill" /\ p \in Pointer /\ Alive(p) /\ exc \in BOOLEAN
      /\ Head(tasks) = tasks[1] /\ tasks[1].kind = "notify" /\ 1 \in 1 .. Len(tasks)
      /\ UNCHANGED <<made, stack, work, worker>>
  BY NextTaskType DEF TakeNotify, NextTask, workerVars, Typed
<1>2. tasks[1] = Notify(p, exc)
  <2>1. tasks[1] \in Tasks
    BY <1>1, TaskTypes
  <2> QED
    BY <1>1, <2>1 DEF Tasks, Notify
<1>3. /\ p.key \in Key /\ p = PointerTo(p.key)
      /\ new \in Instance /\ new.gen = inst[p.key].gen /\ new.product = inst[p.key].product
  BY <1>1, AlivePointer DEF Instance
<1>4. inst' = [inst EXCEPT ![p.key] = new]
  BY DEF TakeNotify
<1>5. /\ inst'[p.key] = new
      /\ \A k \in Key : k # p.key => inst'[k] = inst[k]
      /\ \A k \in Key : Exists(k)' <=> Exists(k)
      /\ \A q \in Pointer : Alive(q)' <=> Alive(q)
  <2> HIDE DEF p, new
  <2> QED
    BY <1>1, <1>3, <1>4, Renew
<1>6. exc => mpc' = "kill" /\ todo' = <<p>>
  BY DEF TakeNotify
<1>7. /\ busy' = busy \/ busy' = busy \ {SubstrateOf(p)}
      /\ \A s \in Substrate : waiting'[s] \subseteq waiting[s]
  <2>1. ReleaseNeck(p) /\ waiting \in [Substrate -> SUBSET Pointer]
    BY <1>1 DEF TakeNotify, TypeOK
  <2> HIDE DEF p
  <2>2. CASE inst[p.key].single
    BY <2>1, <2>2 DEF ReleaseNeck
  <2>3. CASE ~inst[p.key].single
    BY <2>1, <2>3 DEF ReleaseNeck
  <2> QED
    BY <2>2, <2>3
<1> HIDE DEF p, exc, new
<1>8. \A k \in Key : inst'[k].gen = inst[k].gen /\ inst'[k].product = inst[k].product
  BY <1>3, <1>5
<1>9. \A q \in Pointer : Circulating(q)' => Circulating(q)
  <2> SUFFICES ASSUME NEW q \in Pointer, Circulating(q)' PROVE Circulating(q)
    OBVIOUS
  <2>1. CASE Alive(q)'
    BY <1>5, <2>1 DEF Circulating
  <2>2. CASE \E s \in Substrate : q \in waiting'[s]
    BY <1>7, <2>2 DEF Circulating
  <2>3. CASE work'[q] > 0 \/ \E w \in Worker : At(w)' = q
    BY <1>1, <2>3 DEF Circulating, At
  <2>4. CASE \E i \in 1 .. Len(tasks') : Reports(i, q)'
    BY <1>1, <2>4, TakenReports
  <2> QED
    BY <2>1, <2>2, <2>3, <2>4 DEF Circulating
<1>10. OpenCallsFresh'
  BY <1>1, <1>9, FreshKeep DEF Orderly
<1>11. StoredFirst'
  <2>1. ASSUME NEW w \in Worker, WorkerAt(w, "stored")', Alive(At(w))'
        PROVE  inst'[At(w)'.key].product
    <3>1. At(w)' = At(w) /\ WorkerAt(w, "stored") /\ At(w) \in Pointer
      BY <1>1, <2>1 DEF At, WorkerAt, Typed, WorkersPlaced
    <3>2. Alive(At(w))
      BY <1>5, <2>1, <3>1 DEF Alive, Exists
    <3>3. At(w).key \in Key
      BY <3>1 DEF Pointer
    <3> QED
      BY <1>8, <3>1, <3>2, <3>3 DEF Orderly, StoredFirst
  <2>2. ASSUME NEW q \in Pointer, NEW i \in 1 .. Len(tasks'), tasks'[i] = Notify(q, FALSE), Alive(q)'
        PROVE  inst'[q.key].product
    <3>1. Alive(q) /\ q.key \in Key
      BY <1>5, <2>2 DEF Pointer
    <3>2. \E j \in 1 .. Len(tasks) : tasks[j] = Notify(q, FALSE)
      BY <1>1, <2>2, TakenReports
    <3> QED
      BY <1>8, <3>1, <3>2 DEF Orderly, StoredFirst
  <2>3. \A q : Notify(q, FALSE)' = Notify(q, FALSE)
    BY DEF Notify
  <2> QED
    BY <2>1, <2>2, <2>3 DEF StoredFirst
<1>12. SingleMarked'
  <2> SUFFICES ASSUME NEW k \in Key, Exists(k)', k[1] \in Single
               PROVE  inst'[k].single \/ inst'[k].product \/ (mpc' = "kill" /\ todo' = <<PointerTo(k)'>>)
    BY DEF SingleMarked
  <2>1. CASE k # p.key
    BY <1>1, <1>5, <2>1 DEF Orderly, SingleMarked
  <2>2. CASE k = p.key /\ exc
    BY <1>3, <1>6, <1>8, <2>2 DEF PointerTo
  <2>3. CASE k = p.key /\ ~exc
    <3>1. tasks[1] = Notify(p, FALSE)
      BY <1>1, <1>2, <2>3
    <3>2. inst[p.key].product
      BY <1>1, <3>1 DEF Orderly, StoredFirst
    <3> QED
      BY <1>8, <2>3, <3>2
  <2> QED
    BY <2>1, <2>2, <2>3
<1>13. NecksOwn'
  BY <1>7 DEF Orderly, NecksOwn
<1>14. ASSUME NEW s \in Single PROVE OneOut(s)'
  <2>1. OneOut(s) /\ Holding(s)' = Holding(s) /\ Queued(s)' = Queued(s)
    BY <1>1 DEF Orderly, NecksHold, Holding, Queued, At
  <2>2. \A i \in Reported(s)' : i \in Int /\ i + 1 \in Reported(s)
    BY <1>1, TakenReports
  <2>3. CASE SubstrateOf(p) = s
    <3>1. 1 \in Reported(s)
      BY <1>1, <2>3 DEF Reported, p
    <3>2. Queued(s) = {} /\ Holding(s) = {} /\ \A i \in Reported(s) : i = 1
      BY <2>1, <3>1 DEF OneOut
    <3>3. Reported(s)' = {}
      <4> SUFFICES ASSUME NEW i \in Reported(s)' PROVE FALSE
        OBVIOUS
      <4>1. i \in 1 .. Len(tasks') /\ i \in Int /\ i + 1 = 1
        BY <2>2, <3>2 DEF Reported
      <4> QED
        BY <4>1
    <3> HIDE DEF Queued, Holding, Reported
    <3> QED
      BY <2>1, <3>2, <3>3 DEF OneOut
  <2>4. CASE SubstrateOf(p) # s
    <3>1. s \in busy => s \in busy'
      BY <1>7, <2>4
    <3> HIDE DEF Queued, Holding, Reported
    <3> QED
      BY <1>1, <2>1, <2>2, <3>1, OneOutKeep
  <2> QED
    BY <2>3, <2>4
<1> QED
  BY <1>10, <1>11, <1>12, <1>13, <1>14 DEF Orderly, NecksHold

\* A neck posts one of the frames that it holds back.
LEMMA OrderlyPostFromNeck ==
  ASSUME Typed, Orderly, NEW t \in Single, NEW p \in waiting[t], PostFromNeck(t, p)
  PROVE  Orderly'
<1>1. /\ TypeOK /\ t \in Substrate /\ p \in Pointer /\ mpc # "kill" /\ t \notin busy
      /\ work \in [Pointer -> Nat] /\ work' = [work EXCEPT ![p] = work[p] + 1]
      /\ waiting \in [Substrate -> SUBSET Pointer]
      /\ waiting' = [waiting EXCEPT ![t] = waiting[t] \ {p}]
      /\ busy' = busy \cup {t}
      /\ UNCHANGED <<inst, made, stack, mpc, todo, tasks, worker>>
  BY GraphAssumption DEF PostFromNeck, Idle, workerVars, Typed, TypeOK
<1>2. InstancesKept
  BY <1>1, SameKept
<1>3. SubstrateOf(p) = t /\ Circulating(p)
  BY <1>1 DEF Orderly, NecksOwn, Circulating
<1>4. \A s \in Substrate : waiting'[s] \subseteq waiting[s]
  BY <1>1
<1>5. \A q \in Pointer : work'[q] > 0 => work[q] > 0 \/ q = p
  BY <1>1
<1>6. \A q \in Pointer : Circulating(q)' => Circulating(q)
  <2>1. /\ \A q \in Pointer : work'[q] > 0 => Circulating(q)
        /\ \A q \in Pointer : \A s \in Substrate : q \in waiting'[s] => Circulating(q)
        /\ \A q \in Pointer : \A w \in Worker : worker'[w].at = q => Circulating(q)
    BY <1>1, <1>3, <1>4, <1>5 DEF Circulating, At
  <2> QED
    BY <1>1, <1>2, <2>1, OldReports, NoneCirculates
<1>7. OpenCallsFresh'
  BY <1>1, <1>6, FreshKeep DEF Orderly
<1>8. StoredFirst'
  BY <1>1, <1>2, StoredKeep DEF Orderly
<1>9. SingleMarked'
  BY <1>1, <1>2, MarkedKeep DEF Orderly
<1>10. NecksOwn'
  BY <1>4 DEF Orderly, NecksOwn
<1>11. ASSUME NEW s \in Single PROVE OneOut(s)'
  <2>1. OneOut(s) /\ Holding(s)' = Holding(s) /\ Reported(s)' = Reported(s)
    BY <1>1 DEF Orderly, NecksHold, Holding, Reported, At
  <2>2. CASE s = t
    <3>1. Queued(s) = {} /\ Holding(s) = {} /\ Reported(s) = {}
      BY <1>1, <2>1, <2>2 DEF OneOut
    <3>2. \A q \in Queued(s)' : q = p /\ work'[q] = 1
      <4> SUFFICES ASSUME NEW q \in Pointer, SubstrateOf(q) = s, work'[q] > 0
                   PROVE  q = p /\ work'[q] = 1
        BY DEF Queued, SubstrateOf
      <4>1. ~(work[q] > 0) /\ ~(work[p] > 0)
        BY <3>1, <1>1, <1>3, <2>2 DEF Queued
      <4> QED
        BY <4>1, <1>1
    <3>3. s \in busy'
      BY <1>1, <2>2
    <3> HIDE DEF Queued, Holding, Reported
    <3> QED
      BY <2>1, <3>1, <3>2, <3>3 DEF OneOut
  <2>3. CASE s # t
    <3>1. \A q \in Pointer : SubstrateOf(q) = s => work'[q] = work[q]
      BY <1>1, <1>3, <2>3
    <3>2. \A i \in Reported(s)' : i \in Int /\ i + 0 \in Reported(s)
      BY <2>1 DEF Reported
    <3>3. s \in busy => s \in busy'
      BY <1>1
    <3> HIDE DEF Queued, Holding, Reported
    <3> QED
      BY <2>1, <3>1, <3>2, <3>3, OneOutKeep
  <2> QED
    BY <2>2, <2>3
<1> QED
  BY <1>7, <1>8, <1>9, <1>10, <1>11 DEF Orderly, NecksHold

\* post_work leaves alone what the necks have let out.
LEMMA PostKeepsNecks ==
  ASSUME Typed, Orderly, NEW p \in Pointer, NEW single, PostWork(p, single),
         SubstrateOf(p) \in Single => single,
         UNCHANGED <<busy, tasks, worker>>
  PROVE  /\ NecksOwn' /\ NecksHold'
         /\ \A q \in Pointer : work'[q] > 0 => work[q] > 0 \/ q = p
         /\ \A q \in Pointer : \A s \in Substrate : q \in waiting'[s] => q \in waiting[s] \/ q = p
<1>1. /\ work \in [Pointer -> Nat] /\ waiting \in [Substrate -> SUBSET Pointer]
      /\ SubstrateOf(p) \in Substrate
  BY KeyParts DEF Typed, TypeOK, SubstrateOf, Pointer
<1>2. /\ \A s \in Substrate : \A q \in waiting'[s] :
           q \in waiting[s] \/ (q = p /\ s = SubstrateOf(p))
      /\ \A q \in Pointer : work'[q] > 0 => work[q] > 0 \/ q = p
      /\ \A q \in Pointer : SubstrateOf(q) \in Single => work'[q] = work[q]
  <2>1. CASE single
    <3>1. waiting' = [waiting EXCEPT ![SubstrateOf(p)] = waiting[SubstrateOf(p)] \cup {p}] /\ work' = work
      BY <2>1 DEF PostWork
    <3> QED
      BY <1>1, <3>1
  <2>2. CASE ~single
    <3>1. work' = [work EXCEPT ![p] = work[p] + 1] /\ waiting' = waiting
      BY <2>2 DEF PostWork
    <3>2. SubstrateOf(p) \notin Single
      BY <2>2
    <3> QED
      BY <1>1, <3>1, <3>2
  <2> QED
    BY <2>1, <2>2
<1>3. NecksOwn'
  <2> SUFFICES ASSUME NEW s \in Substrate, NEW q \in waiting'[s] PROVE SubstrateOf(q) = s
    BY DEF NecksOwn, SubstrateOf
  <2> QED
    BY <1>2 DEF Orderly, NecksOwn
<1>4. ASSUME NEW s \in Single PROVE OneOut(s)'
  <2>1. Holding(s)' = Holding(s) /\ Reported(s)' = Reported(s)
    BY DEF Holding, Reported, At
  <2>2. \A i \in Reported(s)' : i \in Int /\ i + 0 \in Reported(s)
    BY <2>1 DEF Reported
  <2>3. \A q \in Pointer : SubstrateOf(q) = s => work'[q] = work[q]
    BY <1>2
  <2> HIDE DEF Queued, Holding, Reported
  <2> QED
    BY <2>1, <2>2, <2>3, OneOutKeep DEF Orderly, NecksHold
<1> QED
  BY <1>2, <1>3, <1>4 DEF NecksHold

\* An unfinished output of a single-threaded filter still has its mark, so that
\* it is posted to the neck.
LEMMA OrderlyLookAtOutput ==
  ASSUME Typed, Orderly, LookAtOutput
  PROVE  Orderly'
<1> DEFINE p == Head(todo)
           post == Alive(p) /\ ~inst[p.key].product /\ Ready(inst[p.key].inputs)
<1>1. /\ TypeOK /\ mpc # "kill" /\ p \in Pointer
      /\ UNCHANGED <<inst, made, stack, mpc, busy, tasks, worker>>
  BY TailShape DEF LookAtOutput, workerVars, Typed, TypeOK
<1>2. InstancesKept
  BY <1>1, SameKept
<1>3. /\ NecksOwn' /\ NecksHold'
      /\ \A q \in Pointer : work'[q] > 0 => Circulating(q)
      /\ \A q \in Pointer : \A s \in Substrate : q \in waiting'[s] => Circulating(q)
  <2>1. CASE post
    <3>1. PostWork(p, inst[p.key].single) /\ Alive(p)
      BY <2>1 DEF LookAtOutput
    <3>2. SubstrateOf(p) \in Single => inst[p.key].single
      <4>1. p.key \in Key /\ Exists(p.key) /\ ~inst[p.key].product
        BY <1>1, <2>1, AlivePointer
      <4> QED
        BY <1>1, <4>1 DEF Orderly, SingleMarked, SubstrateOf
    <3> HIDE DEF p, post
    <3>3. /\ NecksOwn' /\ NecksHold'
          /\ \A q \in Pointer : work'[q] > 0 => work[q] > 0 \/ q = p
          /\ \A q \in Pointer : \A s \in Substrate : q \in waiting'[s] => q \in waiting[s] \/ q = p
      BY <1>1, <3>1, <3>2, PostKeepsNecks
    <3> QED
      BY <3>1, <3>3 DEF Circulating
  <2>2. CASE ~post
    <3>1. UNCHANGED <<work, waiting>>
      BY <2>2 DEF LookAtOutput
    <3>2. NecksOwn' /\ NecksHold'
      BY <1>1, <3>1 DEF Orderly, NecksOwn, NecksHold, OneOut, Queued, Holding, Reported, At
    <3> QED
      BY <3>1, <3>2 DEF Circulating
  <2> QED
    BY <2>1, <2>2
<1>4. \A q \in Pointer : \A w \in Worker : worker'[w].at = q => Circulating(q)
  BY <1>1 DEF Circulating, At
<1>5. \A q \in Pointer : Circulating(q)' => Circulating(q)
  BY <1>1, <1>2, <1>3, <1>4, OldReports, NoneCirculates
<1>6. OpenCallsFresh'
  BY <1>1, <1>5, FreshKeep DEF Orderly
<1>7. StoredFirst'
  BY <1>1, <1>2, StoredKeep DEF Orderly
<1>8. SingleMarked'
  BY <1>1, <1>2, MarkedKeep DEF Orderly
<1> QED
  BY <1>3, <1>6, <1>7, <1>8 DEF Orderly

-----------------------------------------------------------------------------
(* construct *)

\* A call returns: those left are as fresh as before, for at most the instance
\* it made is in circulation now.
LEMMA FreshReturn ==
  ASSUME Typed, OpenCallsFresh, mpc = "construct", NEW p \in Pointer, Return(p),
         UNCHANGED made,
         \A q \in Pointer : Circulating(q)' =>
           Circulating(q) \/ (stack[1].open /\ q = PointerOf(stack[1]))
  PROVE  OpenCallsFresh'
<1>1. Len(stack) \in Nat \ {0}
  <2>1. stack \in Seq(Calls) /\ stack # <<>>
    BY DEF Typed, TypeOK, CallsPlaced
  <2> QED
    BY <2>1, TailShape
<1>2. PICK d \in {0, 1} :
        /\ Len(stack') = Len(stack) - 1 + d
        /\ \A j \in 1 .. Len(stack) - 1 :
             /\ stack'[j + d].key = stack[j + 1].key
             /\ stack'[j + d].gen = stack[j + 1].gen
             /\ stack'[j + d].open = stack[j + 1].open
             /\ j + d > 1 => stack'[j + d].deps # <<>>
        /\ d = 1 => ~stack'[1].open
  BY ReturnShape
<1>3. \A i \in 1 .. Len(stack') : stack'[i].open =>
        LET j == i - d + 1 IN
        /\ j \in 2 .. Len(stack)
        /\ stack'[i].key = stack[j].key /\ stack'[i].gen = stack[j].gen /\ stack[j].open
  <2> SUFFICES ASSUME NEW i \in 1 .. Len(stack'), stack'[i].open
               PROVE  LET j == i - d + 1 IN
                      /\ j \in 2 .. Len(stack)
                      /\ stack'[i].key = stack[j].key /\ stack'[i].gen = stack[j].gen
                      /\ stack[j].open
    OBVIOUS
  <2>1. i > d
    BY <1>2
  <2>2. i - d \in 1 .. Len(stack) - 1 /\ (i - d) + d = i
    BY <1>1, <1>2, <2>1
  <2>3. /\ stack'[(i - d) + d].key = stack[(i - d) + 1].key
        /\ stack'[(i - d) + d].gen = stack[(i - d) + 1].gen
        /\ stack'[(i - d) + d].open = stack[(i - d) + 1].open
    BY <1>2, <2>2
  <2>4. stack[(i - d) + 1].open
    BY <2>2, <2>3
  <2> QED
    BY <1>1, <2>2, <2>3, <2>4
<1>4. ASSUME NEW i \in 1 .. Len(stack'), stack'[i].open
      PROVE  stack'[i].gen <= made'[stack'[i].key] /\ ~Circulating(PointerOf(stack[i]))'
  <2> DEFINE j == i - d + 1
  <2>1. /\ j \in 2 .. Len(stack) /\ j \in 1 .. Len(stack) /\ 1 \in 1 .. Len(stack)
        /\ stack'[i].key = stack[j].key /\ stack'[i].gen = stack[j].gen /\ stack[j].open
    BY <1>1, <1>3, <1>4
  <2> HIDE DEF j
  <2>2. /\ PointerOf(stack[i])' = PointerOf(stack[j])
        /\ PointerOf(stack[j]) \in Pointer
        /\ ~Circulating(PointerOf(stack[j])) /\ stack[j].gen <= made[stack[j].key]
    BY <2>1, OpenPointer DEF PointerOf, OpenCallsFresh
  <2>3. ~(stack[1].open /\ PointerOf(stack[j]) = PointerOf(stack[1]))
    BY <2>1 DEF OpenCallsFresh
  <2>4. \A q \in Pointer : q = PointerOf(stack[j]) => ~Circulating(q)'
    BY <2>2, <2>3
  <2>5. ASSUME Circulating(PointerOf(stack[i]))' PROVE FALSE
    <3>1. PICK q \in Pointer : q = PointerOf(stack[j])
      BY <2>2
    <3>2. PointerOf(stack[i])' = q
      BY <2>2, <3>1
    <3>3. Circulating(q)'
      BY <2>5, <3>2 DEF Circulating, Alive, Exists, At, Reports
    <3> QED
      BY <2>4, <3>1, <3>3
  <2> QED
    BY <2>1, <2>2, <2>5
<1>5. ASSUME NEW i \in 1 .. Len(stack'), NEW k \in 1 .. Len(stack'), stack'[i].open, stack'[k].open,
             PointerOf(stack[i])' = PointerOf(stack[k])'
      PROVE  i = k
  <2>1. /\ i - d + 1 \in 1 .. Len(stack) /\ k - d + 1 \in 1 .. Len(stack)
        /\ stack[i - d + 1].open /\ stack[k - d + 1].open
        /\ PointerOf(stack[i - d + 1]) = PointerOf(stack[k - d + 1])
    BY <1>3, <1>5 DEF PointerOf
  <2>2. i - d + 1 = k - d + 1
    BY <2>1 DEF OpenCallsFresh
  <2> QED
    BY <2>2
<1>6. ASSUME NEW q \in Pointer, Circulating(q)' PROVE q.gen <= made'[q.key]
  <2>1. CASE Circulating(q)
    BY <2>1 DEF OpenCallsFresh
  <2>2. CASE stack[1].open /\ q = PointerOf(stack[1])
    BY <1>1, <2>2 DEF OpenCallsFresh, PointerOf
  <2> QED
    BY <1>6, <2>1, <2>2
<1> QED
  BY <1>4, <1>5, <1>6 DEF OpenCallsFresh, PointerOf

\* A call whose frame has an instance.
LEMMA OrderlyReuseInstance ==
  ASSUME Typed, Orderly, ReuseInstance
  PROVE  Orderly'
<1> DEFINE call == Head(stack)
           old  == inst[call.key].callback
           keep == call.callback # None /\ ~inst[call.key].product
           new  == [inst[call.key] EXCEPT !.callback = IF keep THEN call.callback ELSE @,
                                          !.outputs = @ \o Caller]
           p    == PointerTo(call.key)
<1>1. TypeOK /\ mpc = "construct" /\ Exists(call.key)
      /\ UNCHANGED <<made, busy, waiting, todo, tasks, work, worker>>
  BY DEF Typed, ReuseInstance, workerVars
<1>2. call.key \in Key /\ call.callback \in Request \cup {None}
  BY <1>1, CallParts
<1>3. inst[call.key] \in Instance /\ p \in Pointer /\ Alive(p) /\ p.key = call.key
  BY <1>1, <1>2, InstanceParts DEF PointerTo
<1>4. inst[call.key].outputs \o Caller \in Seq(Pointer) /\ old \in Request \cup {None}
  BY <1>1, <1>3, CallerType DEF Instance
<1>5. /\ new \in Instance /\ new.gen = inst[p.key].gen
      /\ new.single = inst[p.key].single /\ new.product = inst[p.key].product
  BY <1>2, <1>3, <1>4 DEF Instance
<1>6. inst' = [inst EXCEPT ![p.key] = new]
  BY <1>3 DEF ReuseInstance
<1>7. Return(p)
  BY DEF ReuseInstance
<1> HIDE DEF call, old, keep, new, p
<1>8. InstancesKept
  BY <1>1, <1>3, <1>5, <1>6, RenewKept
<1>9. \A q \in Pointer : Circulating(q)' => Circulating(q)
  <2>1. /\ \A q \in Pointer : work'[q] > 0 => Circulating(q)
        /\ \A q \in Pointer : \A s \in Substrate : q \in waiting'[s] => Circulating(q)
        /\ \A q \in Pointer : \A w \in Worker : worker'[w].at = q => Circulating(q)
    BY <1>1 DEF Circulating, At
  <2> QED
    BY <1>1, <1>8, <2>1, OldReports, NoneCirculates
<1>10. OpenCallsFresh'
  BY <1>1, <1>3, <1>7, <1>9, FreshReturn DEF Orderly
<1>11. StoredFirst'
  BY <1>1, <1>8, StoredKeep DEF Orderly
<1>12. SingleMarked'
  BY <1>1, <1>8, MarkedKeep DEF Orderly
<1>13. NecksOwn' /\ NecksHold'
  BY <1>1 DEF Orderly, NecksOwn, NecksHold, OneOut, Queued, Holding, Reported, At
<1> QED
  BY <1>10, <1>11, <1>12, <1>13 DEF Orderly

\* The number that an open call takes is one that nothing in circulation has.
LEMMA FreshOpen ==
  ASSUME Typed, OpenCallsFresh, OpenInstance
  PROVE  OpenCallsFresh'
<1> DEFINE k == stack[1].key
<1>1. PICK d \in {0, 1} :
        /\ Len(stack') = Len(stack) + d
        /\ stack'[1 + d].key = k
        /\ stack'[1 + d].gen = made[k] + 1
        /\ stack'[1 + d].open
        /\ \A j \in 2 .. Len(stack) : stack'[j + d] = stack[j]
        /\ d = 1 => ~stack'[1].open /\ stack'[2].deps # <<>>
  BY OpenShape
<1>2. /\ Len(stack) \in Nat \ {0} /\ k \in Key
      /\ made \in [Key -> Generation \cup {0}] /\ made' = [made EXCEPT ![k] = made[k] + 1]
      /\ made[k] + 1 \in Generation
      /\ UNCHANGED <<inst, waiting, work, tasks, worker>>
  BY CallParts, NextGeneration DEF OpenInstance, Typed, TypeOK, workerVars
<1> HIDE DEF k
<1>3. \A q \in Key : made[q] \in Int /\ made[q] <= made'[q]
  <2>1. \A q \in Key : made[q] \in Int
    BY <1>2 DEF Generation
  <2> QED
    BY <1>2, <2>1
<1>4. made'[k] = made[k] + 1
  BY <1>2
<1>5. \A q : Circulating(q)' <=> Circulating(q)
  BY <1>2 DEF Circulating, Alive, Exists, At, Reports
<1>6. ASSUME NEW i \in 1 .. Len(stack'), stack'[i].open
      PROVE  i = 1 + d \/ (i - d \in 2 .. Len(stack) /\ stack'[i] = stack[i - d])
  <2>1. i \in Int /\ i >= 1 /\ i <= Len(stack) + d /\ ~(d = 1 /\ i = 1)
    BY <1>1, <1>2, <1>6
  <2>2. i # 1 + d => i - d \in 2 .. Len(stack) /\ (i - d) + d = i
    BY <1>2, <2>1
  <2> QED
    BY <1>1, <2>2
<1>7. ASSUME NEW j \in 2 .. Len(stack), stack[j].open
      PROVE  /\ PointerOf(stack[j]) \in Pointer /\ stack[j].key \in Key /\ stack[j].gen \in Generation
             /\ ~Circulating(PointerOf(stack[j])) /\ stack[j].gen <= made[stack[j].key]
  <2>1. j \in 1 .. Len(stack) /\ stack[j] \in Calls
    BY <1>2 DEF Typed, TypeOK
  <2> QED
    BY <1>7, <2>1, OpenPointer DEF OpenCallsFresh, Calls, Typed, CallsPlaced
<1>8. ASSUME NEW i \in 1 .. Len(stack'), stack'[i].open
      PROVE  stack'[i].gen <= made'[stack'[i].key] /\ ~Circulating(PointerOf(stack[i]))'
  <2>1. CASE i = 1 + d
    <3>1. stack'[i].gen = made[k] + 1 /\ stack'[i].key = k
      BY <1>1, <2>1
    <3>2. PointerOf(stack[i])' = [key |-> k, gen |-> made[k] + 1]
      BY <3>1 DEF PointerOf
    <3>3. [key |-> k, gen |-> made[k] + 1] \in Pointer
      BY <1>2 DEF Pointer
    <3>4. ~Circulating([key |-> k, gen |-> made[k] + 1])
      <4>1. ~(made[k] + 1 <= made[k])
        BY <1>2, <1>3
      <4> QED
        BY <3>3, <4>1 DEF OpenCallsFresh
    <3>6. made[k] + 1 <= made'[k]
      BY <1>2, <1>3, <1>4
    <3>7. ~Circulating(PointerOf(stack[i]))'
      BY <1>2, <3>2, <3>4 DEF Circulating, Alive, Exists, At, Reports
    <3> QED
      BY <3>1, <3>6, <3>7
  <2>2. CASE i - d \in 2 .. Len(stack) /\ stack'[i] = stack[i - d]
    <3>1. /\ ~Circulating(PointerOf(stack[i - d]))
          /\ stack'[i].gen <= made[stack'[i].key] /\ stack'[i].key \in Key /\ stack'[i].gen \in Generation
      BY <1>7, <1>8, <2>2
    <3>2. PointerOf(stack[i])' = PointerOf(stack[i - d])
      BY <2>2 DEF PointerOf
    <3>3. ~Circulating(PointerOf(stack[i]))'
      BY <1>2, <3>1, <3>2 DEF Circulating, Alive, Exists, At, Reports
    <3>4. stack'[i].gen <= made'[stack'[i].key]
      <4>1. made[stack'[i].key] \in Int /\ made'[stack'[i].key] \in Int /\ stack'[i].gen \in Int
            /\ made[stack'[i].key] <= made'[stack'[i].key]
        BY <1>2, <1>3, <3>1 DEF Generation
      <4> QED
        BY <3>1, <4>1
    <3> QED
      BY <3>3, <3>4
  <2> QED
    BY <1>6, <1>8, <2>1, <2>2
<1>9. ASSUME NEW i \in 1 .. Len(stack'), NEW j \in 2 .. Len(stack),
             i = 1 + d, stack[j].open, PointerOf(stack[i])' = PointerOf(stack[j])
      PROVE  FALSE
  <2>1. stack[j].key = k /\ stack[j].gen = made[k] + 1
    BY <1>1, <1>9 DEF PointerOf
  <2> QED
    BY <1>2, <1>3, <1>7, <1>9, <2>1
<1>10. ASSUME NEW i \in 1 .. Len(stack'), NEW j \in 1 .. Len(stack'), stack'[i].open, stack'[j].open,
              PointerOf(stack[i])' = PointerOf(stack[j])'
       PROVE  i = j
  <2>1. CASE i = 1 + d /\ j = 1 + d
    BY <2>1
  <2>2. CASE i = 1 + d /\ j # 1 + d
    <3>1. j - d \in 2 .. Len(stack) /\ stack'[j] = stack[j - d]
      BY <1>6, <1>10, <2>2
    <3>2. PointerOf(stack[i])' = PointerOf(stack[j - d]) /\ stack[j - d].open
      BY <1>10, <3>1 DEF PointerOf
    <3> QED
      BY <1>9, <2>2, <3>1, <3>2
  <2>3. CASE i # 1 + d /\ j = 1 + d
    <3>1. i - d \in 2 .. Len(stack) /\ stack'[i] = stack[i - d]
      BY <1>6, <1>10, <2>3
    <3>2. PointerOf(stack[j])' = PointerOf(stack[i - d]) /\ stack[i - d].open
      BY <1>10, <3>1 DEF PointerOf
    <3> QED
      BY <1>9, <2>3, <3>1, <3>2
  <2>4. CASE i # 1 + d /\ j # 1 + d
    <3>1. /\ i - d \in 2 .. Len(stack) /\ stack'[i] = stack[i - d]
          /\ j - d \in 2 .. Len(stack) /\ stack'[j] = stack[j - d]
      BY <1>6, <1>10, <2>4
    <3>2. i - d \in 1 .. Len(stack) /\ j - d \in 1 .. Len(stack)
      BY <1>2, <3>1
    <3>3. PointerOf(stack[i - d]) = PointerOf(stack[j - d]) /\ stack[i - d].open /\ stack[j - d].open
      BY <1>10, <3>1 DEF PointerOf
    <3>4. i - d = j - d
      BY <3>2, <3>3 DEF OpenCallsFresh
    <3> QED
      BY <3>4
  <2> QED
    BY <2>1, <2>2, <2>3, <2>4
<1>11. ASSUME NEW q \in Pointer, Circulating(q)' PROVE q.gen <= made'[q.key]
  <2>1. q.gen <= made[q.key] /\ q.key \in Key /\ q.gen \in Int
    BY <1>5, <1>11 DEF OpenCallsFresh, Pointer, Generation
  <2>2. made[q.key] \in Int /\ made'[q.key] \in Int /\ made[q.key] <= made'[q.key]
    BY <1>2, <1>3, <2>1 DEF Generation
  <2> QED
    BY <2>1, <2>2
<1> QED
  BY <1>8, <1>10, <1>11 DEF OpenCallsFresh, PointerOf

\* A call whose frame has none.
LEMMA OrderlyOpenInstance ==
  ASSUME Typed, Orderly, OpenInstance
  PROVE  Orderly'
<1>1. mpc # "kill" /\ UNCHANGED <<inst, waiting, busy, work, tasks, worker, mpc, todo>>
  BY DEF OpenInstance, workerVars
<1>2. InstancesKept
  BY <1>1, SameKept
<1>3. OpenCallsFresh'
  BY FreshOpen DEF Orderly
<1>4. StoredFirst'
  BY <1>1, <1>2, StoredKeep DEF Orderly
<1>5. SingleMarked'
  BY <1>1, <1>2, MarkedKeep DEF Orderly
<1>6. NecksOwn' /\ NecksHold'
  BY <1>1 DEF Orderly, NecksOwn, NecksHold, OneOut, Queued, Holding, Reported, At
<1> QED
  BY <1>3, <1>4, <1>5, <1>6 DEF Orderly

\* The instance that a call has made goes live.
LEMMA OrderlyCloseInstance ==
  ASSUME Typed, Orderly, CloseInstance
  PROVE  Orderly'
<1> DEFINE k == Head(stack).key
           p == PointerOf(Head(stack))
           single == k[1] \in Single
<1>1. /\ TypeOK /\ mpc = "construct" /\ Head(stack) = stack[1] /\ stack[1].open
      /\ p \in Pointer /\ p.key = k /\ k \in Key /\ p = PointerOf(stack[1])
      /\ 1 \in 1 .. Len(stack)
      /\ UNCHANGED <<made, busy, todo, tasks, worker>>
  BY CallParts DEF CloseInstance, workerVars, PointerOf, Typed
<1>2. /\ Return(p)
      /\ PostWork(p, single) \/ UNCHANGED <<work, waiting>>
  BY DEF CloseInstance
<1>3. /\ inst' \in [Key -> Instance \cup {None}]
      /\ inst'[k] \in Instance /\ inst'[k].gen = p.gen
      /\ inst'[k].single <=> single
      /\ \A j \in Key : j # k =>
           /\ Exists(j)' <=> Exists(j)
           /\ Exists(j) => /\ inst'[j].gen = inst[j].gen
                           /\ inst'[j].product = inst[j].product
                           /\ inst'[j].single = inst[j].single
  BY CloseShape DEF PointerOf
<1>4. ~Circulating(p)
  BY <1>1 DEF Orderly, OpenCallsFresh
<1>5. SubstrateOf(p) \in Single => single
  BY <1>1 DEF SubstrateOf
<1> HIDE DEF k, p, single
<1>6. ASSUME NEW q \in Pointer, q # p, Alive(q)'
      PROVE  Alive(q) /\ q.key \in Key /\ inst'[q.key].product = inst[q.key].product
  <2>1. q.key \in Key /\ (q.key = k => q.gen # p.gen)
    BY <1>1, <1>6 DEF Pointer
  <2>2. inst'[q.key] # None /\ inst'[q.key].gen = q.gen
    BY <1>6 DEF Alive, Exists
  <2>3. q.key # k
    BY <1>3, <2>1, <2>2
  <2> QED
    BY <1>3, <2>1, <2>2, <2>3 DEF Alive, Exists
<1>7. /\ NecksOwn' /\ NecksHold'
      /\ \A q \in Pointer : work'[q] > 0 => work[q] > 0 \/ q = p
      /\ \A q \in Pointer : \A s \in Substrate : q \in waiting'[s] => q \in waiting[s] \/ q = p
  <2>1. CASE PostWork(p, single)
    BY <1>1, <1>5, <2>1, PostKeepsNecks
  <2>2. CASE UNCHANGED <<work, waiting>>
    <3>1. NecksOwn' /\ NecksHold'
      BY <1>1, <2>2 DEF Orderly, NecksOwn, NecksHold, OneOut, Queued, Holding, Reported, At
    <3> QED
      BY <2>2, <3>1
  <2> QED
    BY <1>2, <2>1, <2>2
<1>8. \A q \in Pointer : Circulating(q)' => Circulating(q) \/ (stack[1].open /\ q = PointerOf(stack[1]))
  <2> SUFFICES ASSUME NEW q \in Pointer, q # p, Circulating(q)' PROVE Circulating(q)
    BY <1>1
  <2>1. CASE Alive(q)'
    BY <1>6, <2>1 DEF Circulating
  <2>2. CASE work'[q] > 0 \/ \E s \in Substrate : q \in waiting'[s]
    BY <1>7, <2>2 DEF Circulating
  <2>3. CASE (\E w \in Worker : At(w)' = q) \/ (\E i \in 1 .. Len(tasks') : Reports(i, q)')
    BY <1>1, <2>3 DEF Circulating, At, Reports
  <2> QED
    BY <2>1, <2>2, <2>3 DEF Circulating
<1>9. OpenCallsFresh'
  BY <1>1, <1>2, <1>8, FreshReturn DEF Orderly
<1>10. StoredFirst'
  <2>1. ASSUME NEW w \in Worker, WorkerAt(w, "stored")', Alive(At(w))'
        PROVE  inst'[At(w)'.key].product
    <3>1. At(w)' = At(w) /\ WorkerAt(w, "stored") /\ At(w) \in Pointer
      BY <1>1, <2>1 DEF At, WorkerAt, Typed, WorkersPlaced
    <3>2. At(w) # p
      BY <1>4 DEF Circulating
    <3>3. Alive(At(w))'
      BY <2>1
    <3>4. \A q \in Pointer : q = At(w) => Alive(q)'
      BY <3>1, <3>3 DEF Alive, Exists
    <3>5. Alive(At(w)) /\ inst'[At(w).key].product = inst[At(w).key].product
      BY <1>6, <3>1, <3>2, <3>4
    <3> QED
      BY <3>1, <3>5 DEF Orderly, StoredFirst
  <2>2. ASSUME NEW q \in Pointer, NEW i \in 1 .. Len(tasks), tasks[i] = Notify(q, FALSE), Alive(q)'
        PROVE  inst'[q.key].product
    <3>1. Reports(i, q)
      BY <2>2 DEF Reports, Notify
    <3>2. q # p
      BY <1>4, <3>1 DEF Circulating
    <3>3. Alive(q) /\ inst'[q.key].product = inst[q.key].product
      BY <1>6, <2>2, <3>2
    <3> QED
      BY <2>2, <3>3 DEF Orderly, StoredFirst
  <2>3. \A q : Notify(q, FALSE)' = Notify(q, FALSE)
    BY DEF Notify
  <2> QED
    BY <1>1, <2>1, <2>2, <2>3 DEF StoredFirst
<1>11. SingleMarked'
  <2> SUFFICES ASSUME NEW j \in Key, Exists(j)', j[1] \in Single
               PROVE  inst'[j].single \/ inst'[j].product
    BY DEF SingleMarked
  <2>1. CASE j = k
    BY <1>3, <2>1 DEF single
  <2>2. CASE j # k
    BY <1>1, <1>3, <2>2 DEF Orderly, SingleMarked
  <2> QED
    BY <2>1, <2>2
<1> QED
  BY <1>7, <1>9, <1>10, <1>11 DEF Orderly

-----------------------------------------------------------------------------
(* the theorem *)

\* At the start nothing is out.
LEMMA OrderlyInit == Init => Orderly
<1> SUFFICES ASSUME Init PROVE Orderly
  OBVIOUS
<1>1. /\ stack = <<>> /\ tasks = <<>> /\ waiting = [s \in Substrate |-> {}]
      /\ work = [p \in Pointer |-> 0] /\ inst = [k \in Key |-> None]
      /\ worker = [w \in Worker |-> [pc |-> "idle", at |-> None, mode |-> "none"]]
  BY DEF Init
<1>2. \A p \in Pointer : ~Circulating(p)
  BY <1>1, NoneAssumption DEF Circulating, Alive, Exists, At, Reports, Pointer
<1>3. OpenCallsFresh
  BY <1>1, <1>2 DEF OpenCallsFresh
<1>4. StoredFirst /\ SingleMarked /\ NecksOwn
  BY <1>1 DEF StoredFirst, SingleMarked, NecksOwn, WorkerAt, Exists
<1>5. NecksHold
  BY <1>1 DEF NecksHold, OneOut, Queued, Holding, Reported
<1> QED
  BY <1>3, <1>4, <1>5 DEF Orderly

\* Whatever anyone does.
LEMMA OrderlyNext == Typed /\ Orderly /\ [Next]_vars => Orderly'
<1> SUFFICES ASSUME Typed, Orderly, [Next]_vars PROVE Orderly'
  OBVIOUS
<1>1. ASSUME NEW r \in Request, GetFrame(r) PROVE Orderly'
  BY <1>1, OrderlyGetFrame
<1>2. CASE TakeConstruct
  BY <1>2, OrderlyTakeConstruct
<1>3. CASE TakeStaleNotify
  BY <1>3, OrderlyTakeStaleNotify
<1>4. CASE TakeNotify
  BY <1>4, OrderlyTakeNotify
<1>5. CASE ReuseInstance
  BY <1>5, OrderlyReuseInstance
<1>6. CASE OpenInstance
  BY <1>6, OrderlyOpenInstance
<1>7. CASE CloseInstance
  BY <1>7, OrderlyCloseInstance
<1>8. CASE LookAtOutput
  BY <1>8, OrderlyLookAtOutput
<1>9. CASE AnswerCallback
  BY <1>9, OrderlyAnswerCallback
<1>10. CASE KillNext
  BY <1>10, OrderlyKillNext
<1>11. CASE EndKill
  BY <1>11, OrderlyEndKill
<1>12. ASSUME NEW s \in Single, NEW p \in waiting[s], PostFromNeck(s, p) PROVE Orderly'
  BY <1>12, OrderlyPostFromNeck
<1>13. CASE EndTask
  BY <1>13, OrderlyEndTask
<1>14. CASE EndBatch
  BY <1>14, OrderlyEndBatch
<1>15. ASSUME NEW w \in Worker, WorkerStep(w) PROVE Orderly'
  BY <1>15, OrderlyWorkerStep
<1>16. CASE InvokeCallback
  BY <1>16, OrderlyCallback
<1>17. CASE UNCHANGED vars
  <2>1. UNCHANGED <<inst, mpc, todo, made, stack, busy, waiting, tasks, work, worker>>
    BY <1>17 DEF vars, maintainerVars, workerVars
  <2> QED
    BY <2>1, SameKept, QuietStep
<1> QED
  BY <1>1, <1>2, <1>3, <1>4, <1>5, <1>6, <1>7, <1>8, <1>9, <1>10, <1>11, <1>12, <1>13,
     <1>14, <1>15, <1>16, <1>17 DEF Next, Maintainer

\* Two workers in the code of a single-threaded filter would be two holders.
LEMMA OneFromNecks ==
  ASSUME Orderly
  PROVE  SingleThreaded
<1> SUFFICES ASSUME NEW s \in Single, NEW v \in Worker, NEW w \in Worker, Running(v), Running(w),
                    SubstrateOf(At(v)) = s, SubstrateOf(At(w)) = s
             PROVE  v = w
  BY DEF SingleThreaded
<1>1. v \in Holding(s) /\ w \in Holding(s)
  BY DEF Holding, Running, WorkerAt
<1> QED
  BY <1>1 DEF Orderly, NecksHold, OneOut

\* A filter with ffSingleThreaded never computes two frames at once, for every
\* graph of filters, any number of workers and whatever fails: its neck
\* (substrate.cpp lines 188-193, 215-221 and 323-326) lets one frame out at a time,
\* a frame is not posted again while an entry, a worker or a report of it is
\* still on its way, and the report that frees the neck is the last of it.
THEOREM OneAtATime == Spec => []SingleThreaded
<1>1. Init => Typed /\ Orderly
  BY TypedInit, OrderlyInit
<1>2. Typed /\ Orderly /\ [Next]_vars => (Typed /\ Orderly)'
  BY TypedNext, OrderlyNext
<1>3. Typed /\ Orderly => SingleThreaded
  BY OneFromNecks
<1> QED
  BY <1>1, <1>2, <1>3, PTL DEF Spec

-----------------------------------------------------------------------------
(***************************************************************************)
(* The instances and what becomes of them: that a frame is computed by one *)
(* worker, once, with its inputs there and finished; that a frame of a     *)
(* single-threaded filter never outlives its instance in the work queue;   *)
(* that no frame is forgotten; and that the reaction, fairness apart,      *)
(* implements FrameService.                                                *)
(*                                                                         *)
(* Everything rests on the graph of the instances (Graph): the maintainer  *)
(* keeps the inputs of an instance and the outputs of its inputs, each the *)
(* other's mirror image, while construct builds them from both ends and    *)
(* sweeping and killing take instances away.  On it stands the order in    *)
(* which frames are posted, computed, finished and given up (Ordered), and *)
(* on that what is out of a single-threaded filter (OutMarked) and what is *)
(* still to be done for a frame (Remembered).  The service rests on where  *)
(* the callback of a request is (Settled) and on who is to blame for an    *)
(* error (OutputsDepend, Blamed).                                          *)
(***************************************************************************)

\* x is an element of the sequence s.
Among(x, s) == \E i \in 1 .. Len(s) : s[i] = x

-----------------------------------------------------------------------------
(* The invariants.                                                         *)

\* q is named as an input of p; p is named as an output of q.
Input(q, p) == Alive(p) /\ q \in inst[p.key].inputs
Output(q, p) == Alive(q) /\ Among(p, inst[q.key].outputs)

\* p is the instance that an open call of construct is making.
IsOpen(p) == \E i \in 1 .. Len(stack) : stack[i].open /\ PointerOf(stack[i]) = p

\* An open call has gathered as inputs exactly the instances that name its own as
\* an output, and each of its frame's dependencies has an instance or is yet to
\* be constructed; the next of these is what the call inside it constructs.
CallRight(c) ==
  /\ ~c.open => c.inputs = {}
  /\ c.open =>
       /\ ~Exists(c.key)
       /\ \A d \in Key : Among(d, c.deps) => Among(d, Deps[c.key])
       /\ \A d \in Key : Among(d, Deps[c.key]) => Exists(d) \/ Among(d, c.deps)
       /\ \A q \in Pointer : q \in c.inputs <=> Output(q, PointerOf(c))
CallsRight ==
  /\ mpc # "construct" => stack = <<>>
  /\ \A i \in 1 .. Len(stack) :
       /\ CallRight(stack[i])
       /\ i = 1 /\ stack[i].open => stack[i].deps = <<>>
       /\ i > 1 => Head(stack[i].deps) = stack[i - 1].key

\* Inputs and outputs mirror each other, as long as both instances are there,
\* and no link leads to an instance that has not been made.
Linked == \A p, q \in Pointer : Alive(p) /\ Alive(q) => (Input(q, p) <=> Output(q, p))
Known ==
  \A p, q \in Pointer :
    /\ Input(q, p) => q.gen <= made[q.key] /\ ~IsOpen(q)
    /\ Output(q, p) => p.gen <= made[p.key]
Graph == CallsRight /\ Linked /\ Known

\* How far p is: not finished; taken by a worker; with a worker that is about to
\* compute it or does so; in the work queue, in a neck or with a worker on its
\* way between the two; reported as failed; about to be killed.
Unfinished(p) == Alive(p) /\ ~inst[p.key].product
Taken(p) == Alive(p) /\ inst[p.key].taken
Computing(w, p) == worker[w].pc \in {"taken", "run"} /\ worker[w].at = p
Posted(p) ==
  \/ work[p] > 0
  \/ p \in waiting[SubstrateOf(p)]
  \/ \E w \in Worker : worker[w].pc \in {"popped", "repost"} /\ worker[w].at = p
Failed(p) == Among(Notify(p, TRUE), tasks)
Doomed(p) == mpc = "kill" /\ Among(p, todo)

\* Every input of p is finished; some input of p is gone.
ReadyAt(p) == \A q \in Pointer : Input(q, p) => Finished(q)
Bereft(p) == \E q \in Pointer : Input(q, p) /\ ~Alive(q)

\* A frame is computed by one worker, that has taken it, and before it has a
\* product.
ComputedOnce ==
  \A p \in Pointer : \A w \in Worker : Computing(w, p) =>
    /\ Unfinished(p) /\ Taken(p)
    /\ \A v \in Worker : Computing(v, p) => v = w
\* It fails at most once, and is then left to the maintainer.
FailedOnce ==
  \A p \in Pointer : Failed(p) /\ Alive(p) =>
    Unfinished(p) /\ Taken(p) /\ \A w \in Worker : ~Computing(w, p)
\* What is posted or computed is ready, unless it is finished already.
PostedReady ==
  \A p \in Pointer : Unfinished(p) /\ (Posted(p) \/ \E w \in Worker : Computing(w, p)) => ReadyAt(p)
\* A frame is finished after its inputs.
ProductsOrdered ==
  \A p, q \in Pointer : Finished(p) /\ Input(q, p) /\ Alive(q) => Finished(q)
\* Nobody takes a finished frame a second time.
FinishedTaken == \A p \in Pointer : Finished(p) => Taken(p)
\* What is about to be killed is unfinished, and either it has failed, is done
\* with and in no worker's hands, or it has lost an input.
DoomedApart ==
  \A p \in Pointer : Doomed(p) /\ Alive(p) =>
    /\ Unfinished(p)
    /\ \/ Bereft(p)
       \/ Taken(p) /\ ~inst[p.key].single /\ \A w \in Worker : ~Computing(w, p)
Ordered == ComputedOnce /\ FailedOnce /\ PostedReady /\ ProductsOrdered /\ FinishedTaken /\ DoomedApart

\* A frame of a single-threaded filter that is posted or computed is there, and
\* marked as not yet done with.
Out(p) == Posted(p) \/ \E w \in Worker : Computing(w, p)
OutMarked ==
  \A p \in Pointer : SubstrateOf(p) \in Single /\ Out(p) => Alive(p) /\ inst[p.key].single

\* What was taken is finished, or being computed, or has failed; a frame that has
\* lost an input is about to be killed; and a frame whose inputs are all finished
\* is posted or computed or given up, or one of them has yet to be reported, or to
\* be looked at.
Computed(p) == \E w \in Worker : Computing(w, p)
Held(p) == Finished(p) \/ Computed(p) \/ Failed(p) \/ Doomed(p)
Awaited(q, p) ==
  \/ \E w \in Worker : worker[w].pc = "stored" /\ worker[w].at = q
  \/ Among(Notify(q, FALSE), tasks)
  \/ mpc = "outputs" /\ current = q /\ Among(p, todo)
InReach(p) ==
  \/ Posted(p) \/ Computed(p) \/ Failed(p) \/ Doomed(p)
  \/ \E q \in Pointer : Input(q, p) /\ Awaited(q, p)
TakenHeld == \A p \in Pointer : Taken(p) => Held(p)
BereftDoomed == \A p \in Pointer : Unfinished(p) /\ Bereft(p) => Doomed(p)
NoneLost == \A p \in Pointer : Unfinished(p) /\ ReadyAt(p) => InReach(p)
Remembered == TakenHeld /\ BereftDoomed /\ NoneLost

-----------------------------------------------------------------------------
(* who depends on whom *)

\* An element of a sequence is its first one or among the others.
LEMMA AmongTail ==
  ASSUME NEW S, NEW s \in Seq(S), s # <<>>, NEW x
  PROVE  Among(x, s) <=> x = Head(s) \/ Among(x, Tail(s))
<1>1. /\ Head(s) = s[1] /\ Len(Tail(s)) = Len(s) - 1 /\ Len(s) \in Nat \ {0}
      /\ \A i \in 1 .. Len(s) - 1 : Tail(s)[i] = s[i + 1]
  BY TailShape
<1>2. ASSUME Among(x, s) PROVE x = Head(s) \/ Among(x, Tail(s))
  <2>1. PICK i \in 1 .. Len(s) : s[i] = x
    BY <1>2 DEF Among
  <2>2. CASE i = 1
    BY <2>1, <2>2, <1>1
  <2>3. CASE i # 1
    <3>1. i - 1 \in 1 .. Len(s) - 1 /\ (i - 1) + 1 = i
      BY <2>3, <1>1
    <3>2. Tail(s)[i - 1] = x
      BY <3>1, <2>1, <1>1
    <3> QED
      BY <3>1, <3>2, <1>1 DEF Among
  <2> QED
    BY <2>2, <2>3
<1>3. ASSUME Among(x, Tail(s)) PROVE Among(x, s)
  <2>1. PICK i \in 1 .. Len(s) - 1 : Tail(s)[i] = x
    BY <1>3, <1>1 DEF Among
  <2>2. i + 1 \in 1 .. Len(s) /\ s[i + 1] = x
    BY <2>1, <1>1
  <2> QED
    BY <2>2 DEF Among
<1>4. Among(Head(s), s)
  BY <1>1 DEF Among
<1> QED
  BY <1>2, <1>3, <1>4

\* An element of two sequences put together is among one of them.
LEMMA AmongBoth ==
  ASSUME NEW S, NEW s \in Seq(S), NEW t \in Seq(S), NEW x
  PROVE  Among(x, s \o t) <=> Among(x, s) \/ Among(x, t)
<1>1. /\ Len(s) \in Nat /\ Len(t) \in Nat /\ Len(s \o t) = Len(s) + Len(t)
      /\ \A i \in 1 .. Len(s) : (s \o t)[i] = s[i]
      /\ \A i \in 1 .. Len(t) : (s \o t)[Len(s) + i] = t[i]
  BY ConcatProperties
<1>2. ASSUME Among(x, s \o t) PROVE Among(x, s) \/ Among(x, t)
  <2>1. PICK i \in 1 .. Len(s) + Len(t) : (s \o t)[i] = x
    BY <1>1, <1>2 DEF Among
  <2>2. CASE i <= Len(s)
    BY <2>1, <2>2, <1>1 DEF Among
  <2>3. CASE i > Len(s)
    <3>1. i - Len(s) \in 1 .. Len(t) /\ Len(s) + (i - Len(s)) = i
      BY <2>3, <1>1
    <3>2. t[i - Len(s)] = x
      BY <3>1, <2>1, <1>1
    <3> QED
      BY <3>1, <3>2 DEF Among
  <2> QED
    BY <2>2, <2>3, <1>1
<1>3. ASSUME Among(x, s) PROVE Among(x, s \o t)
  <2>1. PICK i \in 1 .. Len(s) : s[i] = x
    BY <1>3 DEF Among
  <2>2. i \in 1 .. Len(s \o t) /\ (s \o t)[i] = x
    BY <2>1, <1>1
  <2> QED
    BY <2>2 DEF Among
<1>4. ASSUME Among(x, t) PROVE Among(x, s \o t)
  <2>1. PICK i \in 1 .. Len(t) : t[i] = x
    BY <1>4 DEF Among
  <2>2. Len(s) + i \in 1 .. Len(s \o t) /\ (s \o t)[Len(s) + i] = x
    BY <2>1, <1>1
  <2> QED
    BY <2>2 DEF Among
<1> QED
  BY <1>2, <1>3, <1>4

\* Every instance that is there was there before, with the same links.
InstancesAlike ==
  \A k \in Key : Exists(k)' =>
    /\ Exists(k) /\ inst'[k].gen = inst[k].gen
    /\ inst'[k].inputs = inst[k].inputs /\ inst'[k].outputs = inst[k].outputs

\* Then so were its links.
LEMMA LinksAlike ==
  ASSUME InstancesAlike, NEW p \in Pointer, Alive(p)'
  PROVE  /\ Alive(p)
         /\ \A q \in Pointer : (Input(q, p)' <=> Input(q, p)) /\ (Output(p, q)' <=> Output(p, q))
<1>1. p.key \in Key
  BY DEF Pointer
<1>2. /\ inst'[p.key].inputs = inst[p.key].inputs /\ inst'[p.key].outputs = inst[p.key].outputs
      /\ Alive(p)
  BY <1>1 DEF InstancesAlike, Alive
<1> QED
  BY <1>2 DEF Input, Output

\* A step that leaves the instances alone.
LEMMA SameAlike ==
  ASSUME UNCHANGED inst
  PROVE  InstancesAlike
BY DEF InstancesAlike, Exists

\* An instance is changed in place, in nothing but its links.
LEMMA RenewAlike ==
  ASSUME TypeOK, NEW p \in Pointer, Alive(p), NEW new \in Instance,
         new.gen = inst[p.key].gen, new.inputs = inst[p.key].inputs,
         new.outputs = inst[p.key].outputs, inst' = [inst EXCEPT ![p.key] = new]
  PROVE  InstancesAlike /\ \A k \in Key : Exists(k)' <=> Exists(k)
<1>1. /\ p.key \in Key
      /\ inst'[p.key] = new
      /\ \A k \in Key : k # p.key => inst'[k] = inst[k]
      /\ \A k \in Key : Exists(k)' <=> Exists(k)
  BY Renew, AlivePointer
<1> QED
  BY <1>1 DEF InstancesAlike

\* No call is in progress, and nothing but instances going happens to the links.
LEMMA GraphIdle ==
  ASSUME Typed, Graph, InstancesAlike, stack = <<>>, stack' = <<>>, UNCHANGED made
  PROVE  Graph'
<1>1. CallsRight'
  BY DEF CallsRight
<1>2. ASSUME NEW p \in Pointer, NEW q \in Pointer, Alive(p)', Alive(q)'
      PROVE  Input(q, p)' <=> Output(q, p)'
  BY <1>2, LinksAlike DEF Graph, Linked
<1>3. ASSUME NEW p \in Pointer, NEW q \in Pointer
      PROVE  /\ Input(q, p)' => q.gen <= made[q.key] /\ ~IsOpen(q)'
             /\ Output(q, p)' => p.gen <= made[p.key]
  <2>1. ~IsOpen(q)'
    BY DEF IsOpen
  <2>2. Input(q, p)' => Input(q, p)
    BY LinksAlike DEF Input
  <2>3. Output(q, p)' => Output(q, p)
    BY LinksAlike DEF Output
  <2> QED
    BY <2>1, <2>2, <2>3 DEF Graph, Known
<1>4. Linked'
  BY <1>2 DEF Linked
<1>5. Known'
  BY <1>3 DEF Known
<1> QED
  BY <1>1, <1>4, <1>5 DEF Graph

\* The calls in progress.
LEMMA CallTypes ==
  ASSUME Typed, NEW i \in 1 .. Len(stack)
  PROVE  /\ stack[i] \in Calls /\ stack[i].key \in Key /\ stack[i].deps \in Seq(Key)
         /\ stack[i].inputs \in SUBSET Pointer
<1>1. stack[i] \in Calls
  BY DEF Typed, TypeOK
<1> QED
  BY <1>1 DEF Calls

\* Nothing happens to the links or the calls.
LEMMA GraphSame ==
  ASSUME Typed, Graph, InstancesAlike, \A k \in Key : Exists(k)' <=> Exists(k),
         UNCHANGED <<stack, made>>, mpc' = mpc \/ mpc # "construct"
  PROVE  Graph'
<1>0. mpc' # "construct" => stack = <<>>
  BY DEF Graph, CallsRight
<1>1. CASE stack = <<>>
  BY <1>1, GraphIdle
<1>2. CASE stack # <<>>
  <2>1. ASSUME NEW p \in Pointer PROVE Alive(p)' <=> Alive(p)
    <3>1. p.key \in Key
      BY DEF Pointer
    <3> QED
      BY <3>1 DEF Alive, InstancesAlike
  <2>2. ASSUME NEW p \in Pointer, NEW q \in Pointer
        PROVE  (Input(q, p)' <=> Input(q, p)) /\ (Output(q, p)' <=> Output(q, p))
    BY <2>1, LinksAlike DEF Input, Output
  <2>3. mpc' = "construct"
    BY <1>0, <1>2
  <2>4. CallsRight'
    <3> SUFFICES ASSUME NEW i \in 1 .. Len(stack) PROVE CallRight(stack[i])'
      BY <2>3 DEF CallsRight, Graph
    <3>1. stack[i].key \in Key /\ CallRight(stack[i])
      BY CallTypes DEF Graph, CallsRight
    <3>2. ASSUME stack[i].open, NEW q \in Pointer
          PROVE  Output(q, PointerOf(stack[i]))' <=> Output(q, PointerOf(stack[i]))
      <4>1. PointerOf(stack[i]) \in Pointer /\ PointerOf(stack[i])' = PointerOf(stack[i])
        BY <3>2, OpenPointer DEF PointerOf
      <4> QED
        BY <4>1, <2>1, LinksAlike DEF Output
    <3> QED
      BY <3>1, <3>2 DEF CallRight
  <2>5. Linked'
    BY <2>1, <2>2 DEF Graph, Linked
  <2>6. \A q : IsOpen(q)' <=> IsOpen(q)
    BY DEF IsOpen, PointerOf
  <2>7. Known'
    BY <2>2, <2>6 DEF Graph, Known
  <2> QED
    BY <2>4, <2>5, <2>7 DEF Graph
<1> QED
  BY <1>1, <1>2

\* The steps of the workers, the clients and the callback thread.
LEMMA GraphWorkerStep ==
  ASSUME Typed, Graph, NEW w \in Worker, WorkerStep(w)
  PROVE  Graph' /\ InstancesAlike
<1>1. InstancesAlike /\ \A k \in Key : Exists(k)' <=> Exists(k)
  <2>1. CASE UNCHANGED inst
    BY <2>1, SameAlike DEF Exists
  <2>2. CASE TestTaken(w) \/ LockBusy(w) \/ StoreProduct(w)
    <3>1. At(w) \in Pointer /\ TypeOK
      BY <2>2, WorkerPointer DEF TestTaken, LockBusy, StoreProduct, WorkerAt
    <3>2. CASE ~Alive(At(w))
      <4>1. UNCHANGED inst
        BY <2>2, <3>2 DEF TestTaken, LockBusy, StoreProduct
      <4> QED
        BY <4>1, <2>1
    <3>3. CASE Alive(At(w))
      <4> DEFINE i == inst[At(w).key]
      <4>1. i \in Instance
        BY <3>1, <3>3, AlivePointer
      <4>2. \/ UNCHANGED inst
            \/ inst' = [inst EXCEPT ![At(w).key] = [i EXCEPT !.taken = TRUE]]
            \/ inst' = [inst EXCEPT ![At(w).key] = [i EXCEPT !.taken = FALSE]]
            \/ inst' = [inst EXCEPT ![At(w).key] = [i EXCEPT !.product = TRUE]]
        BY <2>2, <3>3 DEF TestTaken, LockBusy, StoreProduct
      <4>3. \A n \in {[i EXCEPT !.taken = TRUE], [i EXCEPT !.taken = FALSE],
                       [i EXCEPT !.product = TRUE]} :
              n \in Instance /\ n.gen = i.gen /\ n.inputs = i.inputs /\ n.outputs = i.outputs
        <5> HIDE DEF i
        <5> QED
          BY <4>1 DEF Instance
      <4> HIDE DEF i
      <4> QED
        BY <2>1, <3>1, <3>3, <4>2, <4>3, RenewAlike DEF i
    <3> QED
      BY <3>2, <3>3
  <2> QED
    BY <2>1, <2>2 DEF WorkerStep, Pop, TryLock, Repost, Fail, Succeed, Unlock, maintainerVars
<1>2. UNCHANGED <<stack, made, mpc>>
  BY DEF WorkerStep, Pop, TestTaken, TryLock, LockBusy, Repost, Fail, StoreProduct, Succeed, Unlock,
     maintainerVars
<1> QED
  BY <1>1, <1>2, GraphSame

\* The steps of the maintainer that leave the links alone.
LEMMA GraphQuietStep ==
  ASSUME Typed, Graph,
         \/ \E r \in Request : GetFrame(r)
         \/ TakeStaleNotify \/ TakeNotify \/ LookAtOutput \/ AnswerCallback \/ EndKill
         \/ \E s \in Single : \E p \in waiting[s] : PostFromNeck(s, p)
         \/ EndTask \/ InvokeCallback \/ UNCHANGED vars
  PROVE  Graph' /\ InstancesAlike
<1>1. UNCHANGED <<stack, made>> /\ (mpc' = mpc \/ mpc # "construct")
  BY DEF GetFrame, TakeStaleNotify, TakeNotify, NextTask, LookAtOutput, AnswerCallback, EndKill,
     PostFromNeck, EndTask, InvokeCallback, vars, maintainerVars
<1>2. InstancesAlike /\ \A k \in Key : Exists(k)' <=> Exists(k)
  <2>1. CASE UNCHANGED inst
    BY <2>1, SameAlike DEF Exists
  <2>2. CASE TakeNotify
    <3> DEFINE p == Head(tasks).inst
               new == [inst[p.key] EXCEPT !.single = FALSE]
    <3>1. TypeOK /\ p \in Pointer /\ Alive(p)
      BY <2>2, NextTaskType DEF TakeNotify, Typed
    <3>2. inst[p.key] \in Instance /\ inst' = [inst EXCEPT ![p.key] = new]
      BY <2>2, <3>1, AlivePointer DEF TakeNotify
    <3>3. /\ new \in Instance /\ new.gen = inst[p.key].gen /\ new.inputs = inst[p.key].inputs
          /\ new.outputs = inst[p.key].outputs
      BY <3>2 DEF Instance
    <3> HIDE DEF new, p
    <3> QED
      BY <3>1, <3>2, <3>3, RenewAlike
  <2>3. CASE AnswerCallback
    <3> DEFINE new == [inst[current.key] EXCEPT !.callback = None]
    <3>1. TypeOK /\ current \in Pointer /\ Alive(current)
      BY <2>3 DEF AnswerCallback, Typed, CurrentPlaced
    <3>2. inst[current.key] \in Instance /\ inst' = [inst EXCEPT ![current.key] = new]
      BY <2>3, <3>1, AlivePointer DEF AnswerCallback
    <3>3. /\ new \in Instance /\ new.gen = inst[current.key].gen
          /\ new.inputs = inst[current.key].inputs /\ new.outputs = inst[current.key].outputs
      BY <3>2 DEF Instance
    <3> HIDE DEF new
    <3> QED
      BY <3>1, <3>2, <3>3, RenewAlike
  <2> QED
    BY <2>1, <2>2, <2>3 DEF GetFrame, TakeStaleNotify, LookAtOutput, EndKill,
       PostFromNeck, EndTask, InvokeCallback, vars, maintainerVars
<1> QED
  BY <1>1, <1>2, GraphSame

\* The steps that take instances away.
LEMMA GraphKillNext ==
  ASSUME Typed, Graph, KillNext
  PROVE  Graph' /\ InstancesAlike
<1> DEFINE p == Head(todo)
<1>1. stack = <<>> /\ UNCHANGED <<stack, made>>
  BY DEF KillNext, Graph, CallsRight
<1>2. InstancesAlike
  <2>1. CASE Alive(p)
    <3>1. inst' = [inst EXCEPT ![p.key] = None]
      BY <2>1 DEF KillNext
    <3>2. \A k \in Key : inst'[k] = None \/ inst'[k] = inst[k]
      BY <3>1 DEF Typed, TypeOK
    <3> QED
      BY <3>2 DEF InstancesAlike, Exists
  <2>2. CASE ~Alive(p)
    BY <2>2, SameAlike DEF KillNext
  <2> QED
    BY <2>1, <2>2
<1> QED
  BY <1>1, <1>2, GraphIdle

\* Sweeping takes finished instances away, and changes nothing else of this.
LEMMA GraphEndBatch ==
  ASSUME Typed, Graph, EndBatch
  PROVE  /\ Graph' /\ InstancesAlike
         /\ \A k \in Key : Exists(k)' =>
              /\ inst'[k].product = inst[k].product /\ inst'[k].taken = inst[k].taken
              /\ inst'[k].single = inst[k].single
         /\ \A k \in Key : Exists(k) /\ ~Exists(k)' => Evictable(k)
<1>1. stack = <<>> /\ UNCHANGED <<stack, made>>
  BY DEF EndBatch, Graph, CallsRight
<1>2. ASSUME NEW k \in Key, Exists(k)'
      PROVE  /\ Exists(k) /\ inst'[k].gen = inst[k].gen
             /\ inst'[k].inputs = inst[k].inputs /\ inst'[k].outputs = inst[k].outputs
             /\ inst'[k].product = inst[k].product /\ inst'[k].taken = inst[k].taken
             /\ inst'[k].single = inst[k].single
  <2>1. CASE inst'[k] = inst[k]
    BY <1>2, <2>1 DEF Exists
  <2>2. CASE Evictable(k) /\ inst'[k] = [inst[k] EXCEPT !.indulgence = @ - 1]
    <3>1. inst[k] \in Instance /\ Exists(k)
      BY <2>2, InstanceParts DEF Evictable, Typed
    <3> QED
      BY <2>2, <3>1 DEF Instance
  <2> QED
    BY <1>2, <2>1, <2>2 DEF EndBatch, Exists
<1>3. InstancesAlike
  BY <1>2 DEF InstancesAlike
<1>4. ASSUME NEW k \in Key, Exists(k), ~Exists(k)' PROVE Evictable(k)
  BY <1>4 DEF EndBatch, Exists
<1> QED
  BY <1>1, <1>2, <1>3, <1>4, GraphIdle

\* What construct goes on with: the calls as they are, and at most one more.
LEMMA DescendParts ==
  ASSUME NEW st \in Seq(Calls), st # <<>>
  PROVE  \E d \in {0, 1} :
           /\ Len(Descend(st)) = Len(st) + d
           /\ \A j \in 1 .. Len(st) : Descend(st)[j + d] = st[j]
           /\ d = 1 => /\ ~Descend(st)[1].open /\ Descend(st)[1].inputs = {}
                       /\ Descend(st)[1].key = Head(st[1].deps) /\ Descend(st)[1].callback = None
           /\ d = 0 => st[1].deps = <<>>
<1>1. Head(st) = st[1] /\ st[1] \in Calls /\ Len(st) \in Nat \ {0}
  BY TailShape
<1>2. st[1].deps \in Seq(Key) /\ st[1].missed \in BOOLEAN
  BY <1>1 DEF Calls
<1>3. CASE st[1].deps = <<>>
  BY <1>1, <1>3 DEF Descend
<1>4. CASE st[1].deps # <<>>
  <2> DEFINE c == Call(Head(st[1].deps), None, st[1].missed)
  <2>1. Head(st[1].deps) \in Key
    BY <1>2, <1>4, TailShape
  <2>2. c \in Calls /\ ~c.open /\ c.inputs = {} /\ c.key = Head(st[1].deps) /\ c.callback = None
    BY <2>1, <1>2, CallType DEF Call
  <2>3. Descend(st) = <<c>> \o st
    BY <1>1, <1>4 DEF Descend
  <2> HIDE DEF c
  <2>4. /\ Len(<<c>> \o st) = Len(st) + 1
        /\ (<<c>> \o st)[1] = c
        /\ \A j \in 1 .. Len(st) : (<<c>> \o st)[j + 1] = st[j]
    BY <2>2, ConsShape
  <2> QED
    BY <2>2, <2>3, <2>4
<1> QED
  BY <1>3, <1>4

\* It leaves every call right if they were.
LEMMA RightDescend ==
  ASSUME NEW st \in Seq(Calls), st # <<>>, stack' = Descend(st), mpc' = "construct",
         \A i \in 1 .. Len(st) : \A c \in Calls : c = st[i] => CallRight(c)',
         \A i \in 1 .. Len(st) : i > 1 => Head(st[i].deps) = st[i - 1].key
  PROVE  CallsRight'
<1>1. PICK d \in {0, 1} :
           /\ Len(stack') = Len(st) + d
           /\ \A j \in 1 .. Len(st) : stack'[j + d] = st[j]
           /\ d = 1 => /\ ~stack'[1].open /\ stack'[1].inputs = {}
                       /\ stack'[1].key = Head(st[1].deps)
           /\ d = 0 => st[1].deps = <<>>
  BY DescendParts
<1>2. Len(st) \in Nat \ {0}
  BY TailShape
<1>3. ASSUME NEW i \in 1 .. Len(stack')
      PROVE  /\ CallRight(stack[i])'
             /\ i = 1 /\ stack'[i].open => stack'[i].deps = <<>>
             /\ i > 1 => Head(stack'[i].deps) = stack'[i - 1].key
  <2>1. CASE i <= d
    <3>1. d = 1 /\ i = 1
      BY <2>1, <1>1
    <3> QED
      BY <3>1, <1>1 DEF CallRight
  <2>2. CASE i > d
    <3>1. i - d \in 1 .. Len(st) /\ (i - d) + d = i
      BY <2>2, <1>1, <1>2
    <3>2. stack'[i] = st[i - d] /\ st[i - d] \in Calls
      BY <3>1, <1>1
    <3>3. CallRight(stack[i])'
      <4> DEFINE c == st[i - d]
      <4>1. CallRight(c)' /\ c = stack'[i]
        BY <3>1, <3>2
      <4> QED
        BY <3>1, <3>2 DEF CallRight, PointerOf
    <3>4. ASSUME i > 1 PROVE Head(stack'[i].deps) = stack'[i - 1].key
      <4>1. CASE i - d = 1
        <5>1. d = 1 /\ i - 1 = 1
          BY <3>4, <4>1, <1>1
        <5> QED
          BY <5>1, <4>1, <3>2, <1>1
      <4>2. CASE i - d # 1
        <5>1. (i - d) - 1 \in 1 .. Len(st) /\ ((i - d) - 1) + d = i - 1 /\ i - d > 1
          BY <4>2, <3>1, <1>1, <1>2
        <5>2. stack'[i - 1] = st[(i - d) - 1]
          BY <5>1, <1>1
        <5> QED
          BY <5>1, <5>2, <3>1, <3>2
      <4> QED
        BY <4>1, <4>2
    <3>5. i = 1 => d = 0 /\ stack'[i].deps = <<>>
      BY <2>2, <3>2, <1>1
    <3> QED
      BY <3>3, <3>4, <3>5
  <2> QED
    BY <2>1, <2>2, <1>1, <1>2
<1> QED
  BY <1>3 DEF CallsRight

\* A construct is begun.
LEMMA GraphTakeConstruct ==
  ASSUME Typed, Graph, TakeConstruct
  PROVE  Graph'
<1> DEFINE r == Head(tasks).request
           c == Call(KeyOf[r], r, FALSE)
<1>1. stack = <<>> /\ stack' = <<c>> /\ mpc' = "construct" /\ UNCHANGED <<inst, made>>
  BY DEF TakeConstruct, NextTask, Graph, CallsRight
<1>2. ~c.open /\ c.inputs = {}
  BY DEF Call
<1> HIDE DEF c
<1>3. CallsRight'
  BY <1>1, <1>2 DEF CallsRight, CallRight
<1>4. Linked'
  BY <1>1 DEF Graph, Linked, Input, Output, Alive, Exists
<1>5. \A q \in Pointer : ~IsOpen(q)'
  BY <1>1, <1>2 DEF IsOpen
<1>6. Known'
  BY <1>1, <1>5 DEF Graph, Known, Input, Output, Alive, Exists
<1> QED
  BY <1>3, <1>4, <1>6 DEF Graph

\* The caller of the innermost call, if it has one, is what its instance is told of.
LEMMA AmongCaller ==
  ASSUME Typed, mpc = "construct", NEW x
  PROVE  Among(x, Caller) <=> Len(stack) > 1 /\ x = PointerOf(stack[2])
<1>1. /\ Tail(stack) \in Seq(Calls) /\ Len(Tail(stack)) = Len(stack) - 1 /\ Len(stack) \in Nat \ {0}
      /\ \A i \in 1 .. Len(stack) - 1 : Tail(stack)[i] = stack[i + 1]
  BY CallParts, TailShape
<1>2. CASE Tail(stack) = <<>>
  <2>1. Caller = <<>> /\ Len(stack) = 1
    BY <1>1, <1>2 DEF Caller
  <2>2. ~Among(x, <<>>)
    BY DEF Among
  <2> QED
    BY <2>1, <2>2
<1>3. CASE Tail(stack) # <<>>
  <2>1. Len(stack) > 1 /\ Head(Tail(stack)) = stack[2]
    BY <1>1, <1>3, TailShape
  <2>2. Caller = <<PointerOf(stack[2])>>
    BY <1>3, <2>1 DEF Caller
  <2> QED
    BY <2>1, <2>2 DEF Among
<1> QED
  BY <1>2, <1>3

\* A call returns p, the instance of its frame, which is there now and has the
\* caller's instance as an output: the calls that are left are as they should be.
LEMMA RightReturn ==
  ASSUME Typed, Graph, mpc = "construct", NEW p \in Pointer, Return(p),
         p.key = stack[1].key, Alive(p)',
         \A k \in Key : Exists(k)' <=> Exists(k) \/ k = p.key,
         \A i \in 1 .. Len(stack) : i > 1 => stack[i].key # p.key,
         \A i \in 1 .. Len(stack) : i > 1 => \A q, r \in Pointer : r = PointerOf(stack[i]) =>
           (Output(q, r)' <=> Output(q, r) \/ (i = 2 /\ q = p))
  PROVE  CallsRight' /\ \A q \in Pointer : IsOpen(q)' => IsOpen(q)
<1> DEFINE t == Tail(stack)
<1>1. /\ stack \in Seq(Calls) /\ stack # <<>> /\ Len(stack) \in Nat \ {0}
      /\ t \in Seq(Calls) /\ Len(t) = Len(stack) - 1
      /\ \A i \in 1 .. Len(stack) - 1 : t[i] = stack[i + 1]
  BY CallParts, TailShape
<1> HIDE DEF t
<1>2. CASE t = <<>>
  <2>1. stack' = <<>>
    BY <1>2 DEF Return, t
  <2> QED
    BY <2>1 DEF CallsRight, IsOpen
<1>3. CASE t # <<>>
  <2> DEFINE caller == stack[2]
             again  == [caller EXCEPT !.inputs = @ \cup {p}, !.deps = Tail(@)]
             st     == <<again>> \o Tail(t)
  <2>1. /\ Head(t) = caller /\ 2 \in 1 .. Len(stack) /\ 2 > 1 /\ 1 \in 1 .. Len(stack)
        /\ Tail(t) \in Seq(Calls) /\ Len(Tail(t)) = Len(t) - 1 /\ Len(t) \in Nat \ {0}
        /\ \A i \in 1 .. Len(t) - 1 : Tail(t)[i] = t[i + 1]
    BY <1>1, <1>3, TailShape
  <2>2. stack' = Descend(st) /\ mpc' = "construct"
    BY <1>3, <2>1 DEF Return, t
  <2>3. /\ caller \in Calls /\ caller.key \in Key /\ caller.deps \in Seq(Key)
        /\ caller.inputs \in SUBSET Pointer
    BY <2>1, CallTypes
  <2>4. /\ caller.open /\ caller.deps # <<>> /\ Head(caller.deps) = stack[1].key
        /\ CallRight(caller)
    BY <2>1 DEF Typed, CallsPlaced, Graph, CallsRight
  <2>5. Tail(caller.deps) \in Seq(Key)
    BY <2>3, <2>4, TailShape
  <2>6. /\ again \in Calls /\ again.key = caller.key /\ again.gen = caller.gen /\ again.open
        /\ again.inputs = caller.inputs \cup {p} /\ again.deps = Tail(caller.deps)
    <3> HIDE DEF caller
    <3> QED
      BY <2>3, <2>4, <2>5 DEF Calls
  <2> HIDE DEF again, caller
  <2>7. /\ st \in Seq(Calls) /\ Len(st) = Len(t) /\ st # <<>> /\ st[1] = again
        /\ \A i \in 1 .. Len(t) - 1 : st[i + 1] = t[i + 1]
    BY <2>1, <2>6, ConsShape
  <2>8. \A i \in 1 .. Len(st) : i > 1 => st[i] = stack[i + 1] /\ i + 1 \in 1 .. Len(stack)
    <3> SUFFICES ASSUME NEW i \in 1 .. Len(st), i > 1
                 PROVE  st[i] = stack[i + 1] /\ i + 1 \in 1 .. Len(stack)
      OBVIOUS
    <3>1. i - 1 \in 1 .. Len(t) - 1 /\ (i - 1) + 1 = i /\ i \in 1 .. Len(stack) - 1
      BY <2>1, <2>7, <1>1
    <3> HIDE DEF st
    <3>2. st[(i - 1) + 1] = t[(i - 1) + 1]
      BY <3>1, <2>7
    <3>3. t[i] = stack[i + 1] /\ i + 1 \in 1 .. Len(stack)
      BY <3>1, <1>1
    <3> QED
      BY <3>1, <3>2, <3>3
  <2> HIDE DEF st
  <2>9. PointerOf(caller) \in Pointer
    BY <2>1, <2>4, OpenPointer DEF caller
  <2>10. ASSUME NEW c \in Calls, c = again PROVE CallRight(c)'
    <3>1. c.key = caller.key /\ PointerOf(c) = PointerOf(caller) /\ c.open
      BY <2>6, <2>10 DEF PointerOf
    <3>2. ~Exists(c.key)'
      BY <2>1, <2>3, <2>4, <3>1 DEF CallRight, caller
    <3>3. ASSUME NEW d \in Key
          PROVE  Among(d, caller.deps) <=> d = p.key \/ Among(d, c.deps)
      BY <2>3, <2>4, <2>6, <2>10, AmongTail
    <3>4. ASSUME NEW q \in Pointer PROVE q \in c.inputs <=> Output(q, PointerOf(c))'
      <4>1. q \in caller.inputs <=> Output(q, PointerOf(caller))
        BY <2>4 DEF CallRight
      <4>2. \A r \in Pointer : r = PointerOf(caller) => (Output(q, r)' <=> Output(q, r) \/ q = p)
        BY <2>1 DEF caller
      <4>3. \A r : r = PointerOf(c) => (Output(q, r)' <=> Output(q, PointerOf(c))')
        BY DEF PointerOf
      <4> QED
        BY <2>6, <2>9, <2>10, <3>1, <4>1, <4>2, <4>3
    <3>5. \A d \in Key : Exists(d) => Exists(d)'
      OBVIOUS
    <3>6. Exists(p.key)'
      BY DEF Alive
    <3>7. \A d \in Key : Among(d, c.deps) => Among(d, Deps[c.key])
      BY <2>4, <3>1, <3>3 DEF CallRight
    <3>8. \A d \in Key : Among(d, Deps[c.key]) => Exists(d)' \/ Among(d, c.deps)
      BY <2>4, <3>1, <3>3, <3>5, <3>6 DEF CallRight
    <3> QED
      BY <3>1, <3>2, <3>4, <3>7, <3>8 DEF CallRight, PointerOf
  <2>11. ASSUME NEW i \in 1 .. Len(stack), i > 2, NEW c \in Calls, c = stack[i]
         PROVE  CallRight(c)'
    <3>1. CallRight(c) /\ c.open /\ c.key # p.key /\ c.key \in Key
      BY <2>11, CallTypes DEF Graph, CallsRight, Typed, CallsPlaced
    <3>2. PointerOf(c) \in Pointer
      BY <2>11, <3>1, OpenPointer
    <3>3. ASSUME NEW q \in Pointer PROVE Output(q, PointerOf(c))' <=> Output(q, PointerOf(c))
      <4>1. \A r \in Pointer : r = PointerOf(c) => (Output(q, r)' <=> Output(q, r))
        BY <2>11
      <4>2. \A r : r = PointerOf(c) => (Output(q, r)' <=> Output(q, PointerOf(c))')
        BY DEF PointerOf
      <4> QED
        BY <3>2, <4>1, <4>2
    <3> QED
      BY <3>1, <3>3 DEF CallRight, PointerOf
  <2>12. ASSUME NEW i \in 1 .. Len(st), NEW c \in Calls, c = st[i] PROVE CallRight(c)'
    <3>1. CASE i = 1
      BY <3>1, <2>7, <2>10, <2>12
    <3>2. CASE i # 1
      <4>1. i > 1 /\ i + 1 > 2
        BY <3>2, <2>7, <1>1
      <4> QED
        BY <4>1, <2>8, <2>11, <2>12
    <3> QED
      BY <3>1, <3>2
  <2>13. ASSUME NEW i \in 1 .. Len(st), i > 1 PROVE Head(st[i].deps) = st[i - 1].key
    <3>1. st[i] = stack[i + 1] /\ i + 1 \in 1 .. Len(stack) /\ i + 1 > 1 /\ (i + 1) - 1 = i
      BY <2>8, <2>13, <2>7, <1>1
    <3>2. Head(stack[i + 1].deps) = stack[i].key
      BY <3>1 DEF Graph, CallsRight
    <3>3. st[i - 1].key = stack[i].key
      <4>1. CASE i = 2
        BY <4>1, <2>6, <2>7 DEF caller
      <4>2. CASE i # 2
        <5>1. i - 1 \in 1 .. Len(st) /\ i - 1 > 1 /\ (i - 1) + 1 = i
          BY <4>2, <2>13, <2>7, <1>1
        <5> QED
          BY <5>1, <2>8
      <4> QED
        BY <4>1, <4>2
    <3> QED
      BY <3>1, <3>2, <3>3
  <2>14. CallsRight'
    BY <2>2, <2>7, <2>12, <2>13, RightDescend
  <2>15. ASSUME NEW q \in Pointer, IsOpen(q)' PROVE IsOpen(q)
    <3>1. PICK d \in {0, 1} :
           /\ Len(stack') = Len(st) + d
           /\ \A j \in 1 .. Len(st) : stack'[j + d] = st[j]
           /\ d = 1 => ~stack'[1].open
      BY <2>2, <2>7, DescendParts
    <3>2. PICK i \in 1 .. Len(stack') : stack'[i].open /\ PointerOf(stack'[i]) = q
      BY <2>15 DEF IsOpen, PointerOf
    <3>3. i - d \in 1 .. Len(st) /\ (i - d) + d = i
      BY <3>1, <3>2, <2>7, <1>1
    <3>4. st[i - d].open /\ PointerOf(st[i - d]) = q
      BY <3>1, <3>2, <3>3
    <3>5. CASE i - d = 1
      <4>1. PointerOf(caller) = q
        BY <3>4, <3>5, <2>6, <2>7 DEF PointerOf
      <4> QED
        BY <4>1, <2>1, <2>4 DEF IsOpen, caller
    <3>6. CASE i - d # 1
      <4>1. i - d > 1
        BY <3>3, <3>6, <2>7, <1>1
      <4> QED
        BY <3>3, <3>4, <4>1, <2>8 DEF IsOpen
    <3> QED
      BY <3>5, <3>6
  <2> QED
    BY <2>14, <2>15
<1> QED
  BY <1>2, <1>3

\* The caller's instance is yet to be.
LEMMA CallerFresh ==
  ASSUME Typed, OpenCallsFresh, NEW i \in 1 .. Len(stack), i > 1
  PROVE  /\ stack[i].open /\ PointerOf(stack[i]) \in Pointer /\ ~Alive(PointerOf(stack[i]))
         /\ stack[i].gen <= made[stack[i].key]
         /\ \A j \in 1 .. Len(stack) : stack[j].open /\ PointerOf(stack[j]) = PointerOf(stack[i]) => j = i
<1>1. stack[i].open
  BY DEF Typed, CallsPlaced
<1> QED
  BY <1>1, OpenPointer DEF OpenCallsFresh, Circulating

\* What ReuseInstance does to the links: the instance gets the caller's as an output.
LEMMA ReuseLinks ==
  ASSUME Typed, ReuseInstance
  PROVE  LET p == PointerTo(Head(stack).key) IN
         /\ p \in Pointer /\ p.key = stack[1].key /\ Alive(p)
         /\ \A k \in Key :
              /\ Exists(k)' <=> Exists(k)
              /\ Exists(k) => /\ inst'[k].gen = inst[k].gen
                              /\ inst'[k].inputs = inst[k].inputs
                              /\ inst'[k].product = inst[k].product
                              /\ inst'[k].taken = inst[k].taken
                              /\ inst'[k].single = inst[k].single
              /\ k # p.key => inst'[k] = inst[k]
         /\ \A x : Among(x, inst'[p.key].outputs) <=>
              Among(x, inst[p.key].outputs) \/ (Len(stack) > 1 /\ x = PointerOf(stack[2]))
         /\ inst'[p.key].callback = IF stack[1].callback # None /\ ~inst[p.key].product
                                     THEN stack[1].callback ELSE inst[p.key].callback
<1> DEFINE call == Head(stack)
           p    == PointerTo(call.key)
           keep == call.callback # None /\ ~inst[call.key].product
           cb   == IF keep THEN call.callback ELSE inst[call.key].callback
           new  == [inst[call.key] EXCEPT !.callback = cb, !.outputs = @ \o Caller]
<1>1. TypeOK /\ mpc = "construct" /\ Exists(call.key)
  BY DEF ReuseInstance, Typed
<1>2. call = stack[1] /\ call.key \in Key /\ call.callback \in Request \cup {None}
  BY <1>1, CallParts
<1>3. inst[call.key] \in Instance /\ p \in Pointer /\ Alive(p) /\ p.key = call.key
  BY <1>1, <1>2, InstanceParts DEF PointerTo
<1>4. inst[call.key].outputs \in Seq(Pointer) /\ cb \in Request \cup {None}
  BY <1>2, <1>3 DEF Instance
<1>5. Caller \in Seq(Pointer)
  BY <1>1, CallerType
<1>6. inst' = [inst EXCEPT ![call.key] = new]
  BY DEF ReuseInstance
<1> HIDE DEF cb
<1>7. inst[call.key].outputs \o Caller \in Seq(Pointer)
  BY <1>4, <1>5
<1> HIDE DEF call
<1>8. /\ new \in Instance /\ new.gen = inst[call.key].gen /\ new.inputs = inst[call.key].inputs
      /\ new.product = inst[call.key].product /\ new.taken = inst[call.key].taken
      /\ new.single = inst[call.key].single /\ new.outputs = inst[call.key].outputs \o Caller
      /\ new.callback = cb
  BY <1>3, <1>4, <1>7 DEF Instance
<1> HIDE DEF new
<1>9. /\ inst'[call.key] = new
      /\ \A k \in Key : k # call.key => inst'[k] = inst[k]
      /\ \A k \in Key : Exists(k)' <=> Exists(k)
  <2> HIDE DEF p
  <2>1. inst' = [inst EXCEPT ![p.key] = new] /\ new.gen = inst[p.key].gen
    BY <1>3, <1>6, <1>8
  <2>2. /\ inst'[p.key] = new
        /\ \A k \in Key : k # p.key => inst'[k] = inst[k]
        /\ \A k \in Key : Exists(k)' <=> Exists(k)
    BY <1>1, <1>3, <1>8, <2>1, Renew
  <2> QED
    BY <1>3, <2>2
<1>10. \A x : Among(x, inst'[call.key].outputs) <=>
          Among(x, inst[call.key].outputs) \/ (Len(stack) > 1 /\ x = PointerOf(stack[2]))
  <2> TAKE x
  <2> DEFINE s == inst[call.key].outputs
  <2>1. s \in Seq(Pointer) /\ inst'[call.key].outputs = s \o Caller
    BY <1>4, <1>8, <1>9
  <2> HIDE DEF s
  <2>2. Among(x, s \o Caller) <=> Among(x, s) \/ Among(x, Caller)
    BY <2>1, <1>5, AmongBoth
  <2>3. Among(x, Caller) <=> Len(stack) > 1 /\ x = PointerOf(stack[2])
    BY <1>1, AmongCaller
  <2> QED
    BY <2>1, <2>2, <2>3 DEF s
<1>11. ASSUME NEW k \in Key
       PROVE  /\ Exists(k)' <=> Exists(k)
              /\ Exists(k) => /\ inst'[k].gen = inst[k].gen
                              /\ inst'[k].inputs = inst[k].inputs
                              /\ inst'[k].product = inst[k].product
                              /\ inst'[k].taken = inst[k].taken
                              /\ inst'[k].single = inst[k].single
              /\ k # call.key => inst'[k] = inst[k]
  BY <1>8, <1>9
<1> HIDE DEF p
<1>12. p \in Pointer /\ p.key = stack[1].key /\ Alive(p)
  BY <1>2, <1>3
<1>13. inst'[call.key].callback = IF stack[1].callback # None /\ ~inst[call.key].product
                                   THEN stack[1].callback ELSE inst[call.key].callback
  BY <1>2, <1>8, <1>9 DEF cb, call
<1> QED
  BY <1>3, <1>10, <1>11, <1>12, <1>13 DEF p, call

\* A frame that has an instance: the caller and the instance name each other.
LEMMA GraphReuseInstance ==
  ASSUME Typed, Orderly, Graph, ReuseInstance
  PROVE  Graph'
<1>1. PICK p \in Pointer :
      /\ p = PointerTo(Head(stack).key) /\ p.key = stack[1].key /\ Alive(p)
      /\ \A k \in Key :
              /\ Exists(k)' <=> Exists(k)
              /\ Exists(k) => inst'[k].gen = inst[k].gen /\ inst'[k].inputs = inst[k].inputs
              /\ k # p.key => inst'[k] = inst[k]
      /\ \A x : Among(x, inst'[p.key].outputs) <=>
              Among(x, inst[p.key].outputs) \/ (Len(stack) > 1 /\ x = PointerOf(stack[2]))
  BY ReuseLinks
<1>2. mpc = "construct" /\ Return(p) /\ UNCHANGED made
  BY <1>1 DEF ReuseInstance
<1>3. ASSUME NEW q \in Pointer PROVE Alive(q)' <=> Alive(q)
  <2>1. q.key \in Key
    BY DEF Pointer
  <2> QED
    BY <1>1, <2>1 DEF Alive
<1>4. ASSUME NEW q \in Pointer, NEW r \in Pointer
      PROVE  /\ Input(q, r)' <=> Input(q, r)
             /\ Output(q, r)' <=> Output(q, r) \/ (q = p /\ Len(stack) > 1 /\ r = PointerOf(stack[2]))
  <2>1. Input(q, r)' <=> Input(q, r)
    <3>1. r.key \in Key
      BY DEF Pointer
    <3> QED
      BY <1>1, <1>3, <3>1 DEF Input, Alive
  <2>2. CASE q = p
    <3>1. Output(p, r) <=> Among(r, inst[p.key].outputs)
      BY <1>1 DEF Output
    <3>2. Output(p, r)' <=> Among(r, inst'[p.key].outputs)
      BY <1>1, <1>3 DEF Output, Among
    <3> QED
      BY <2>1, <2>2, <3>1, <3>2, <1>1 DEF Output
  <2>3. CASE q # p
    <3>1. Alive(q) => q.key # p.key
      <4>1. TypeOK
        BY DEF Typed
      <4> QED
        BY <2>3, <1>1, <4>1, AlivePointer
    <3>2. q.key \in Key
      BY DEF Pointer
    <3> QED
      BY <1>1, <1>3, <2>1, <2>3, <3>1, <3>2 DEF Output
  <2> QED
    BY <2>2, <2>3
<1>5. /\ stack[1].key \in Key /\ 1 \in 1 .. Len(stack) /\ Len(stack) \in Nat
      /\ Len(stack) > 1 => 2 \in 1 .. Len(stack) /\ 2 > 1
  BY <1>2, CallParts
<1>6. OpenCallsFresh
  BY DEF Orderly
<1>7. ASSUME NEW i \in 1 .. Len(stack), i > 1
      PROVE  /\ stack[i].key # p.key
             /\ \A q, r \in Pointer : r = PointerOf(stack[i]) =>
                  (Output(q, r)' <=> Output(q, r) \/ (i = 2 /\ q = p))
  <2>1. stack[i].open /\ CallRight(stack[i])
    BY <1>6, <1>7, CallerFresh DEF Graph, CallsRight
  <2>2. stack[i].key # p.key
    BY <1>1, <2>1 DEF CallRight, Alive
  <2>3. Len(stack) > 1 /\ (PointerOf(stack[i]) = PointerOf(stack[2]) => i = 2)
    BY <1>5, <1>6, <1>7, <2>1, CallerFresh
  <2> QED
    BY <1>4, <2>2, <2>3
<1>8. \A k \in Key : Exists(k)' <=> Exists(k) \/ k = p.key
  BY <1>1 DEF Alive
<1>9. CallsRight' /\ \A q \in Pointer : IsOpen(q)' => IsOpen(q)
  BY <1>1, <1>2, <1>3, <1>7, <1>8, RightReturn
<1>10. Linked'
  <2> SUFFICES ASSUME NEW r \in Pointer, NEW q \in Pointer, Alive(r)', Alive(q)'
               PROVE  Input(q, r)' <=> Output(q, r)'
    BY DEF Linked
  <2>1. Len(stack) > 1 => r # PointerOf(stack[2])
    BY <1>3, <1>5, <1>6, CallerFresh
  <2> QED
    BY <1>3, <1>4, <2>1 DEF Graph, Linked
<1>11. Known'
  <2> SUFFICES ASSUME NEW r \in Pointer, NEW q \in Pointer
               PROVE  /\ Input(q, r)' => q.gen <= made'[q.key] /\ ~IsOpen(q)'
                      /\ Output(q, r)' => r.gen <= made'[r.key]
    BY DEF Known
  <2>1. Len(stack) > 1 /\ r = PointerOf(stack[2]) => r.gen <= made[r.key]
    BY <1>5, <1>6, CallerFresh DEF PointerOf
  <2> QED
    BY <1>2, <1>4, <1>9, <2>1 DEF Graph, Known
<1> QED
  BY <1>9, <1>10, <1>11 DEF Graph

\* A frame that has none: its call is opened with nothing gathered yet.
LEMMA GraphOpenInstance ==
  ASSUME Typed, Graph, OpenInstance
  PROVE  Graph'
<1> DEFINE call  == Head(stack)
           again == call.key \in history /\ ~call.missed
           gen   == made[call.key] + 1
           new   == [call EXCEPT !.missed = @ \/ again, !.open = TRUE,
                                 !.gen = gen, !.deps = Deps[call.key]]
           t     == Tail(stack)
           st    == <<new>> \o t
<1>1. /\ TypeOK /\ mpc = "construct" /\ mpc' = mpc /\ gen <= MaxGeneration /\ stack' = Descend(st)
      /\ ~call.open /\ ~Exists(call.key) /\ made' = [made EXCEPT ![call.key] = gen] /\ UNCHANGED inst
  BY DEF OpenInstance, Typed
<1>2. /\ call = stack[1] /\ call \in Calls /\ call.key \in Key /\ Len(stack) \in Nat \ {0}
      /\ 1 \in 1 .. Len(stack)
  BY <1>1, CallParts
<1>3. /\ t \in Seq(Calls) /\ Len(t) = Len(stack) - 1
      /\ \A i \in 1 .. Len(stack) - 1 : t[i] = stack[i + 1]
  BY <1>1, CallParts, TailShape
<1>4. gen \in Generation /\ made[call.key] \in Nat
  <2>1. made[call.key] \in Generation \cup {0}
    BY <1>1, <1>2 DEF TypeOK
  <2> QED
    BY <1>1, <2>1, NextGeneration DEF Generation
<1>5. Deps[call.key] \in Seq(Key)
  BY <1>2, GraphAssumption
<1>6. call.inputs = {}
  BY <1>1, <1>2 DEF Graph, CallsRight, CallRight
<1>7. /\ new \in Calls /\ new.key = call.key /\ new.gen = gen /\ new.open /\ new.inputs = {}
      /\ new.deps = Deps[call.key]
  <2>1. (call.missed \/ again) \in BOOLEAN
    OBVIOUS
  <2> HIDE DEF again, gen, call
  <2> QED
    BY <1>2, <1>4, <1>5, <1>6, <2>1 DEF Calls
<1> HIDE DEF new, t
<1>8. /\ st \in Seq(Calls) /\ Len(st) = Len(stack) /\ st # <<>> /\ st[1] = new
      /\ \A i \in 1 .. Len(stack) - 1 : st[i + 1] = t[i + 1 - 1]
  <2>1. /\ st \in Seq(Calls) /\ Len(st) = Len(t) + 1 /\ st[1] = new
        /\ \A i \in 1 .. Len(t) : st[i + 1] = t[i]
    BY <1>3, <1>7, ConsShape
  <2> HIDE DEF st
  <2>2. Len(st) = Len(stack) /\ st # <<>>
    BY <2>1, <1>2, <1>3
  <2>3. ASSUME NEW i \in 1 .. Len(stack) - 1 PROVE st[i + 1] = t[i + 1 - 1]
    <3>1. i + 1 - 1 = i /\ i \in 1 .. Len(t)
      BY <1>2, <1>3
    <3> QED
      BY <2>1, <3>1
  <2> QED
    BY <2>1, <2>2, <2>3
<1> HIDE DEF st
<1>9. ASSUME NEW i \in 1 .. Len(stack), i > 1 PROVE st[i] = stack[i]
  <2>1. i - 1 \in 1 .. Len(stack) - 1 /\ (i - 1) + 1 = i /\ (i - 1) + 1 - 1 = i - 1
    BY <1>2, <1>9
  <2>2. st[(i - 1) + 1] = t[(i - 1) + 1 - 1] /\ t[i - 1] = stack[(i - 1) + 1]
    BY <2>1, <1>3, <1>8
  <2> QED
    BY <2>1, <2>2
<1>10. /\ \A k \in Key : Exists(k)' <=> Exists(k)
       /\ \A q, r : (Alive(q)' <=> Alive(q)) /\ (Input(q, r)' <=> Input(q, r)) /\ (Output(q, r)' <=> Output(q, r))
  <2>1. \A q, r : q = q /\ r = r
    OBVIOUS
  <2> QED
    BY <1>1 DEF Exists, Alive, Input, Output, Among
<1>11. PICK p \in Pointer : p = PointerOf(new) /\ p.key = call.key /\ p.gen = gen
  <2>1. PointerOf(new) \in Pointer
    BY <1>2, <1>4, <1>7 DEF PointerOf, Pointer
  <2> QED
    BY <1>7, <2>1 DEF PointerOf
<1>12. \A q \in Pointer : ~Output(q, p) /\ ~Input(p, q)
  <2>1. ~(p.gen <= made[p.key])
    BY <1>4, <1>11
  <2> QED
    BY <2>1 DEF Graph, Known
<1>13. ASSUME NEW c \in Calls, c = new PROVE CallRight(c)'
  <2>1. PointerOf(c) = p /\ c.open /\ c.key = call.key /\ c.inputs = {} /\ c.deps = Deps[c.key]
    BY <1>7, <1>11, <1>13
  <2>2. \A q \in Pointer : ~Output(q, PointerOf(c))
    BY <1>12, <2>1
  <2>3. \A d : d \in Key => (Exists(d)' <=> Exists(d))
    BY <1>10
  <2> HIDE DEF call
  <2> QED
    BY <1>1, <1>2, <1>10, <2>1, <2>2, <2>3 DEF CallRight, PointerOf
<1>14. ASSUME NEW i \in 1 .. Len(stack), NEW c \in Calls, c = stack[i], CallRight(c)
       PROVE  CallRight(c)'
  <2>1. c.key \in Key
    BY DEF Calls
  <2> QED
    BY <1>10, <1>14, <2>1 DEF CallRight, PointerOf
<1>15. ASSUME NEW i \in 1 .. Len(st), NEW c \in Calls, c = st[i] PROVE CallRight(c)'
  <2>1. CASE i = 1
    BY <1>8, <1>13, <1>15, <2>1
  <2>2. CASE i # 1
    <3>1. i \in 1 .. Len(stack) /\ i > 1 /\ c = stack[i]
      BY <1>2, <1>8, <1>9, <1>15, <2>2
    <3>2. CallRight(c)
      BY <3>1 DEF Graph, CallsRight
    <3> QED
      BY <3>1, <3>2, <1>14
  <2> QED
    BY <2>1, <2>2
<1>16. ASSUME NEW i \in 1 .. Len(st), i > 1 PROVE Head(st[i].deps) = st[i - 1].key
  <2>1. i \in 1 .. Len(stack) /\ st[i] = stack[i] /\ Head(stack[i].deps) = stack[i - 1].key
    BY <1>8, <1>9, <1>16 DEF Graph, CallsRight
  <2>2. st[i - 1].key = stack[i - 1].key
    <3>1. CASE i = 2
      BY <3>1, <1>2, <1>7, <1>8
    <3>2. CASE i # 2
      <4>1. i - 1 \in 1 .. Len(stack) /\ i - 1 > 1
        BY <1>16, <2>1, <3>2, <1>2
      <4> QED
        BY <4>1, <1>9
    <3> QED
      BY <3>1, <3>2
  <2> QED
    BY <2>1, <2>2
<1>17. CallsRight'
  BY <1>1, <1>8, <1>15, <1>16, RightDescend
<1>18. ASSUME NEW q \in Pointer, IsOpen(q)' PROVE IsOpen(q) \/ q = p
  <2>1. PICK d \in {0, 1} :
           /\ Len(stack') = Len(st) + d
           /\ \A j \in 1 .. Len(st) : stack'[j + d] = st[j]
           /\ d = 1 => ~stack'[1].open
    BY <1>1, <1>8, DescendParts
  <2>2. PICK i \in 1 .. Len(stack') : stack'[i].open /\ PointerOf(stack'[i]) = q
    BY <1>18 DEF IsOpen, PointerOf
  <2>3. i - d \in 1 .. Len(st) /\ (i - d) + d = i
    BY <2>1, <2>2, <1>8, <1>2
  <2>4. st[i - d].open /\ PointerOf(st[i - d]) = q
    BY <2>1, <2>2, <2>3
  <2>5. CASE i - d = 1
    BY <2>4, <2>5, <1>8, <1>11
  <2>6. CASE i - d # 1
    <3>1. i - d \in 1 .. Len(stack) /\ i - d > 1
      BY <2>3, <2>6, <1>2, <1>8
    <3> QED
      BY <2>4, <3>1, <1>9 DEF IsOpen
  <2> QED
    BY <2>5, <2>6
<1>19. \A k \in Key : made[k] \in Nat /\ made'[k] \in Nat /\ made[k] <= made'[k]
  <2>1. \A k \in Key : made[k] \in Nat
    BY <1>1 DEF TypeOK, Generation
  <2>2. \A k \in Key : made'[k] = IF k = call.key THEN gen ELSE made[k]
    BY <1>1 DEF TypeOK
  <2> QED
    BY <1>4, <2>1, <2>2
<1>20. Linked'
  BY <1>10 DEF Graph, Linked
<1>21. Known'
  <2> SUFFICES ASSUME NEW r \in Pointer, NEW q \in Pointer
               PROVE  /\ Input(q, r) => q.gen <= made'[q.key] /\ ~IsOpen(q)'
                      /\ Output(q, r) => r.gen <= made'[r.key]
    BY <1>10 DEF Known
  <2>1. q.key \in Key /\ r.key \in Key /\ q.gen \in Nat /\ r.gen \in Nat
    BY DEF Pointer, Generation
  <2>2. /\ Input(q, r) => q.gen <= made[q.key] /\ ~IsOpen(q)
        /\ Output(q, r) => r.gen <= made[r.key]
    BY DEF Graph, Known
  <2>3. Input(q, r) => q # p
    BY <1>12
  <2> QED
    BY <2>1, <2>2, <2>3, <1>18, <1>19
<1> QED
  BY <1>17, <1>20, <1>21 DEF Graph

\* What CloseInstance does to the links: the new instance has the inputs its
\* call has gathered and, as its output, the caller's instance; the frame before,
\* if it is an input, gets the new instance as an output.
LEMMA CloseLinks ==
  ASSUME Typed, CloseInstance
  PROVE  LET call == Head(stack) IN
         /\ inst'[call.key].inputs = call.inputs \cup {PointerTo(j) : j \in Previous(call.key)}
         /\ \A x : Among(x, inst'[call.key].outputs) <=> Len(stack) > 1 /\ x = PointerOf(stack[2])
         /\ ~inst'[call.key].taken /\ inst'[call.key].callback = call.callback
         /\ \A k \in Key : k # call.key /\ Exists(k) =>
              /\ inst'[k].inputs = inst[k].inputs /\ inst'[k].taken = inst[k].taken
              /\ inst'[k].callback = inst[k].callback
              /\ \A x : Among(x, inst'[k].outputs) <=>
                   Among(x, inst[k].outputs) \/ (k \in Previous(call.key) /\ x = PointerOf(call))
<1> DEFINE call   == Head(stack)
           p      == PointerOf(call)
           single == call.key[1] \in Single
           inputs == call.inputs \cup {PointerTo(j) : j \in Previous(call.key)}
           fresh(k) == [gen |-> call.gen, product |-> FALSE, callback |-> call.callback,
                        inputs |-> inputs, outputs |-> Caller, taken |-> FALSE, single |-> single,
                        indulgence |-> miss[k[1]] \div MissPerIndulgence]
           longer(k) == [inst[k] EXCEPT !.outputs = Append(@, p)]
<1>1. TypeOK /\ mpc = "construct" /\ call.open
  BY DEF CloseInstance, Typed
<1>2. call.key \in Key /\ p \in Pointer
  BY <1>1, CallParts
<1>3. inst' = [k \in Key |-> IF k = call.key THEN fresh(k)
                             ELSE IF k \in Previous(call.key) THEN longer(k) ELSE inst[k]]
  BY DEF CloseInstance
<1>4. /\ inst'[call.key].inputs = inputs /\ inst'[call.key].outputs = Caller
      /\ ~inst'[call.key].taken /\ inst'[call.key].callback = call.callback
  <2>1. inst'[call.key] = fresh(call.key)
    BY <1>2, <1>3
  <2> HIDE DEF call, inputs, single
  <2> QED
    BY <2>1
<1>5. \A x : Among(x, inst'[call.key].outputs) <=> Len(stack) > 1 /\ x = PointerOf(stack[2])
  BY <1>1, <1>4, AmongCaller
<1>6. ASSUME NEW k \in Key, k # call.key, Exists(k)
      PROVE  /\ inst'[k].inputs = inst[k].inputs /\ inst'[k].taken = inst[k].taken
             /\ inst'[k].callback = inst[k].callback
             /\ \A x : Among(x, inst'[k].outputs) <=>
                  Among(x, inst[k].outputs) \/ (k \in Previous(call.key) /\ x = p)
  <2> DEFINE s == inst[k].outputs
  <2>1. inst[k] \in Instance /\ s \in Seq(Pointer)
    <3>1. inst[k] \in Instance
      BY <1>1, <1>6, InstanceParts
    <3> QED
      BY <3>1 DEF Instance
  <2>2. CASE k \in Previous(call.key)
    <3> HIDE DEF call, p, fresh
    <3>1. inst'[k] = longer(k)
      BY <1>3, <1>6, <2>2
    <3>2. /\ longer(k).inputs = inst[k].inputs /\ longer(k).taken = inst[k].taken
          /\ longer(k).callback = inst[k].callback
          /\ longer(k).outputs = Append(s, p)
      BY <2>1 DEF Instance
    <3> HIDE DEF s, longer
    <3>3. \A x : Among(x, Append(s, p)) <=> Among(x, s) \/ x = p
      <4> TAKE x
      <4>1. Append(s, p) = s \o <<p>> /\ <<p>> \in Seq(Pointer)
        BY <1>2, <2>1
      <4>2. Among(x, <<p>>) <=> x = p
        BY DEF Among
      <4>3. Among(x, s \o <<p>>) <=> Among(x, s) \/ Among(x, <<p>>)
        BY <2>1, <4>1, AmongBoth
      <4> QED
        BY <4>1, <4>2, <4>3
    <3> QED
      BY <2>2, <3>1, <3>2, <3>3 DEF s
  <2>3. CASE k \notin Previous(call.key)
    <3> HIDE DEF call, p, fresh, longer
    <3>1. inst'[k] = inst[k]
      BY <1>3, <1>6, <2>3
    <3> QED
      BY <3>1, <2>3
  <2> QED
    BY <2>2, <2>3
<1> HIDE DEF fresh, longer
<1> QED
  BY <1>4, <1>5, <1>6

\* The frames of the calls further out are other frames: they still wait for
\* something that is not there, and all that the innermost call waited for is.
LEMMA OtherKeys ==
  ASSUME Typed, Graph, mpc = "construct", stack[1].open,
         NEW i \in 1 .. Len(stack), i > 1
  PROVE  stack[i].key # stack[1].key
<1>1. 1 \in 1 .. Len(stack) /\ Len(stack) \in Nat /\ i - 1 \in 1 .. Len(stack)
  BY CallParts
<1>2. /\ CallRight(stack[1]) /\ CallRight(stack[i]) /\ CallRight(stack[i - 1])
      /\ Head(stack[i].deps) = stack[i - 1].key
  BY <1>1 DEF Graph, CallsRight
<1>3. stack[i].open /\ stack[i].deps # <<>> /\ stack[i].deps \in Seq(Key)
  BY CallTypes DEF Typed, CallsPlaced
<1>4. stack[i - 1].key \in Key /\ Among(stack[i - 1].key, stack[i].deps)
  BY <1>1, <1>2, <1>3, CallTypes, AmongTail
<1>5. SUFFICES ASSUME stack[i].key = stack[1].key PROVE FALSE
  OBVIOUS
<1>6. Among(stack[i - 1].key, Deps[stack[1].key])
  BY <1>2, <1>3, <1>4, <1>5 DEF CallRight
<1>7. ~Among(stack[i - 1].key, stack[1].deps)
  BY <1>1 DEF Among, Graph, CallsRight
<1>8. Exists(stack[i - 1].key)
  BY <1>2, <1>4, <1>6, <1>7 DEF CallRight
<1>9. stack[i - 1].open
  <2>1. CASE i - 1 = 1
    BY <2>1
  <2>2. CASE i - 1 # 1
    BY <1>1, <2>2 DEF Typed, CallsPlaced
  <2> QED
    BY <2>1, <2>2
<1> QED
  BY <1>2, <1>8, <1>9 DEF CallRight

\* The frame before, as an input.
Before(p) == {PointerTo(j) : j \in Previous(p.key)}

\* q is the new instance p, and r the instance that the caller is making.
Told(q, r, p) == q = p /\ Len(stack) > 1 /\ r = PointerOf(stack[2])

\* The instance p that CloseInstance brings to life, and its links.
LEMMA CloseView ==
  ASSUME Typed, Orderly, Graph, CloseInstance, NEW p \in Pointer, p = PointerOf(stack[1])
  PROVE  /\ stack[1].open /\ p.key = stack[1].key /\ ~Circulating(p) /\ ~Exists(p.key)
         /\ \A k \in Key : Exists(k)' <=> Exists(k) \/ k = p.key
         /\ \A q \in Pointer : Alive(q)' <=> Alive(q) \/ q = p
         /\ ~inst'[p.key].product /\ ~inst'[p.key].taken /\ (inst'[p.key].single <=> p.key[1] \in Single)
         /\ \A q \in Pointer : Alive(q) =>
              /\ q.key # p.key /\ inst'[q.key].product = inst[q.key].product
              /\ inst'[q.key].taken = inst[q.key].taken /\ inst'[q.key].single = inst[q.key].single
         /\ \A q \in Pointer :
              /\ Input(q, p)' <=> Output(q, p) \/ q \in Before(p)
              /\ Input(q, p)' => Alive(q)
         /\ \A q \in stack[1].inputs \cup Before(p) : q \in Pointer /\ Alive(q) /\ Input(q, p)'
         /\ \A q, r \in Pointer :
              /\ r # p => (Input(q, r)' <=> Input(q, r))
              /\ Output(q, r)' <=>
                   Output(q, r) \/ Told(q, r, p) \/ (q \in Before(p) /\ r = p)
<1>1. TypeOK /\ mpc = "construct" /\ Head(stack).open
  BY DEF CloseInstance, Typed
<1>2. Head(stack) = stack[1] /\ stack[1].key \in Key /\ 1 \in 1 .. Len(stack)
  BY <1>1, CallParts
<1>3. p.key = stack[1].key /\ p.gen = stack[1].gen /\ p.key \in Key /\ stack[1].open
  BY <1>1, <1>2 DEF PointerOf
<1>4. ~Circulating(p)
  BY <1>2, <1>3 DEF Orderly, OpenCallsFresh
<1>5. CallRight(stack[1]) /\ stack[1].inputs \in SUBSET Pointer
  BY <1>2, CallTypes DEF Graph, CallsRight
<1>6. ~Exists(p.key) /\ \A q \in Pointer : q \in stack[1].inputs <=> Output(q, p)
  BY <1>3, <1>5 DEF CallRight
<1>7. /\ inst'[p.key] \in Instance /\ inst'[p.key].gen = p.gen /\ ~inst'[p.key].product
      /\ (inst'[p.key].single <=> p.key[1] \in Single)
      /\ \A k \in Key : k # p.key =>
           /\ Exists(k)' <=> Exists(k)
           /\ Exists(k) => /\ inst'[k].gen = inst[k].gen
                           /\ inst'[k].product = inst[k].product
                           /\ inst'[k].single = inst[k].single
  BY <1>2, <1>3, CloseShape
<1>8. /\ inst'[p.key].inputs = stack[1].inputs \cup Before(p)
      /\ \A x : Among(x, inst'[p.key].outputs) <=> Len(stack) > 1 /\ x = PointerOf(stack[2])
      /\ ~inst'[p.key].taken /\ inst'[p.key].callback = stack[1].callback
      /\ \A k \in Key : k # p.key /\ Exists(k) =>
              /\ inst'[k].inputs = inst[k].inputs /\ inst'[k].taken = inst[k].taken
              /\ inst'[k].callback = inst[k].callback
              /\ \A x : Among(x, inst'[k].outputs) <=>
                   Among(x, inst[k].outputs) \/ (k \in Previous(p.key) /\ x = p)
  BY <1>2, <1>3, CloseLinks DEF Before
<1>9. Exists(p.key)' /\ Alive(p)'
  BY <1>7, NoneAssumption DEF Exists, Alive
<1>10. \A k \in Key : Exists(k)' <=> Exists(k) \/ k = p.key
  BY <1>7, <1>9
<1>11. \A q \in Pointer : Alive(q) => q.key \in Key /\ Exists(q.key) /\ q.key # p.key
  BY <1>6 DEF Alive, Pointer
<1>12. ASSUME NEW q \in Pointer PROVE Alive(q)' <=> Alive(q) \/ q = p
  <2>1. q.key \in Key
    BY DEF Pointer
  <2>2. CASE q.key = p.key
    <3>1. Alive(q)' <=> q.gen = p.gen
      BY <2>2, <1>7, <1>9 DEF Alive
    <3>2. q = p <=> q.gen = p.gen
      BY <2>2 DEF Pointer
    <3> QED
      BY <2>2, <3>1, <3>2, <1>11
  <2>3. CASE q.key # p.key
    BY <2>1, <2>3, <1>7 DEF Alive
  <2> QED
    BY <2>2, <2>3
<1>13. ASSUME NEW q \in Before(p)
       PROVE  q \in Pointer /\ Alive(q) /\ q.key \in Previous(p.key)
  <2>1. PICK j \in Previous(p.key) : q = PointerTo(j)
    BY DEF Before
  <2> QED
    BY <2>1, <1>1, InstanceParts DEF Previous, PointerTo
<1>14. ASSUME NEW q \in Pointer
       PROVE  (Input(q, p)' <=> Output(q, p) \/ q \in Before(p)) /\ (Input(q, p)' => Alive(q))
  <2>1. Input(q, p)' <=> q \in stack[1].inputs \cup Before(p)
    BY <1>8, <1>9 DEF Input
  <2> QED
    BY <2>1, <1>6, <1>13 DEF Output
<1>15. ASSUME NEW q \in stack[1].inputs \cup Before(p)
       PROVE  q \in Pointer /\ Alive(q) /\ Input(q, p)'
  BY <1>5, <1>6, <1>13, <1>14 DEF Output
<1>16. ASSUME NEW q \in Pointer, NEW r \in Pointer, r # p PROVE Input(q, r)' <=> Input(q, r)
  BY <1>16, <1>8, <1>11, <1>12 DEF Input
<1>17. ASSUME NEW q \in Pointer, NEW r \in Pointer
       PROVE  Output(q, r)' <=>
                Output(q, r) \/ Told(q, r, p) \/ (q \in Before(p) /\ r = p)
  <2>1. CASE q = p
    <3>1. ~Output(p, r) /\ p \notin Before(p)
      BY <1>6, <1>13 DEF Output, Alive
    <3>2. Output(p, r)' <=> Among(r, inst'[p.key].outputs)
      BY <1>9 DEF Output, Among
    <3> QED
      BY <2>1, <3>1, <3>2, <1>8 DEF Told
  <2>2. CASE q # p /\ Alive(q)
    <3>1. Output(q, r) <=> Among(r, inst[q.key].outputs)
      BY <2>2 DEF Output
    <3>2. Output(q, r)' <=> Among(r, inst'[q.key].outputs)
      BY <2>2, <1>12 DEF Output, Among
    <3>3. q \in Before(p) <=> q.key \in Previous(p.key)
      <4>1. q = PointerTo(q.key)
        BY <1>1, <2>2, AlivePointer
      <4> QED
        BY <4>1, <1>13 DEF Before
    <3>4. q.key \in Key /\ q.key # p.key /\ Exists(q.key)
      BY <2>2, <1>11
    <3> QED
      BY <2>2, <3>1, <3>2, <3>3, <3>4, <1>8 DEF Told
  <2>3. CASE q # p /\ ~Alive(q)
    BY <2>3, <1>12, <1>13 DEF Output, Told
  <2> QED
    BY <2>1, <2>2, <2>3
<1>18. ASSUME NEW q \in Pointer, Alive(q)
       PROVE  /\ q.key # p.key /\ inst'[q.key].product = inst[q.key].product
              /\ inst'[q.key].taken = inst[q.key].taken /\ inst'[q.key].single = inst[q.key].single
  BY <1>18, <1>7, <1>8, <1>11
<1> QED
  BY <1>3, <1>4, <1>6, <1>7, <1>8, <1>10, <1>12, <1>14, <1>15, <1>16, <1>17, <1>18

\* The instance goes live with the inputs its call gathered.
LEMMA GraphCloseInstance ==
  ASSUME Typed, Orderly, Graph, CloseInstance
  PROVE  Graph'
<1>1. /\ mpc = "construct" /\ Return(PointerOf(stack[1])) /\ PointerOf(stack[1]) \in Pointer
      /\ UNCHANGED made /\ 1 \in 1 .. Len(stack) /\ Len(stack) \in Nat
  BY CallParts DEF CloseInstance
<1>2. PICK p \in Pointer : p = PointerOf(stack[1])
  BY <1>1
<1>3. /\ stack[1].open /\ p.key = stack[1].key /\ ~Circulating(p) /\ ~Exists(p.key)
      /\ \A k \in Key : Exists(k)' <=> Exists(k) \/ k = p.key
      /\ \A q \in Pointer : Alive(q)' <=> Alive(q) \/ q = p
      /\ \A q \in Pointer :
           (Input(q, p)' <=> Output(q, p) \/ q \in Before(p)) /\ (Input(q, p)' => Alive(q))
      /\ \A q, r \in Pointer :
              /\ r # p => (Input(q, r)' <=> Input(q, r))
              /\ Output(q, r)' <=>
                   Output(q, r) \/ Told(q, r, p) \/ (q \in Before(p) /\ r = p)
  BY <1>2, CloseView
<1>4. OpenCallsFresh /\ IsOpen(p) /\ ~Alive(p) /\ (Len(stack) > 1 => 2 \in 1 .. Len(stack) /\ 2 > 1)
  BY <1>1, <1>2, <1>3 DEF Orderly, IsOpen, Alive
<1>5. \A q \in Before(p) : q \in Pointer => Alive(q)
  BY <1>3
<1>6. ASSUME NEW i \in 1 .. Len(stack), i > 1
      PROVE  /\ stack[i].key # p.key
             /\ \A q, r \in Pointer : r = PointerOf(stack[i]) =>
                  (Output(q, r)' <=> Output(q, r) \/ (i = 2 /\ q = p))
  <2>1. stack[i].key # p.key
    BY <1>1, <1>3, <1>6, OtherKeys
  <2>2. stack[i].open /\ Len(stack) > 1 /\ (PointerOf(stack[i]) = PointerOf(stack[2]) => i = 2)
    BY <1>1, <1>4, <1>6, CallerFresh
  <2>3. PointerOf(stack[i]) # p
    BY <2>1 DEF PointerOf
  <2> QED
    BY <1>3, <2>1, <2>2, <2>3 DEF Told
<1>7. Alive(p)'
  BY <1>3
<1>8. CallsRight' /\ \A q \in Pointer : IsOpen(q)' => IsOpen(q)
  BY <1>1, <1>2, <1>3, <1>6, <1>7, RightReturn
<1>9. Linked'
  <2> SUFFICES ASSUME NEW r \in Pointer, NEW q \in Pointer, Alive(r)', Alive(q)'
               PROVE  Input(q, r)' <=> Output(q, r)'
    BY DEF Linked
  <2>1. Len(stack) > 1 => ~Alive(PointerOf(stack[2])) /\ PointerOf(stack[2]) # p
    <3>1. ASSUME Len(stack) > 1 PROVE PointerOf(stack[2]) # p
      BY <1>4, <1>6, <3>1 DEF PointerOf
    <3> QED
      BY <1>4, <3>1, CallerFresh
  <2>2. CASE r = p
    <3>1. CASE q = p
      <4>1. ~Input(p, p)'
        BY <1>3, <1>4
      <4>2. ~Output(p, p)'
        BY <1>3, <1>4, <1>5, <2>1 DEF Output, Told
      <4> QED
        BY <2>2, <3>1, <4>1, <4>2
    <3>2. CASE q # p
      BY <1>3, <2>2, <3>2 DEF Told
    <3> QED
      BY <3>1, <3>2
  <2>3. CASE r # p
    <3>1. Alive(r) /\ (Len(stack) > 1 => r # PointerOf(stack[2]))
      BY <1>3, <2>1, <2>3
    <3>2. CASE q = p
      <4>1. ~Input(p, r)
        BY <1>4 DEF Graph, Known
      <4>2. ~Output(p, r)
        BY <1>4 DEF Output
      <4> QED
        BY <1>3, <2>3, <3>1, <3>2, <4>1, <4>2 DEF Told
    <3>3. CASE q # p
      <4>1. Alive(q)
        BY <1>3, <3>3
      <4> QED
        BY <1>3, <2>3, <3>1, <3>3, <4>1 DEF Graph, Linked, Told
    <3> QED
      BY <3>2, <3>3
  <2> QED
    BY <2>2, <2>3
<1>10. Known'
  <2> SUFFICES ASSUME NEW r \in Pointer, NEW q \in Pointer
               PROVE  /\ Input(q, r)' => q.gen <= made[q.key] /\ ~IsOpen(q)
                      /\ Output(q, r)' => r.gen <= made[r.key]
    BY <1>1, <1>8 DEF Known
  <2>1. Alive(q) => q.gen <= made[q.key] /\ ~IsOpen(q)
    BY <1>4 DEF OpenCallsFresh, Circulating, IsOpen
  <2>2. Input(q, r)' => q.gen <= made[q.key] /\ ~IsOpen(q)
    <3>1. CASE r = p
      BY <1>3, <2>1, <3>1
    <3>2. CASE r # p
      BY <1>3, <3>2 DEF Graph, Known
    <3> QED
      BY <3>1, <3>2
  <2>3. p.gen <= made[p.key]
    BY <1>1, <1>2, <1>3, <1>4 DEF OpenCallsFresh, PointerOf
  <2>4. ASSUME Len(stack) > 1, r = PointerOf(stack[2]) PROVE r.gen <= made[r.key]
    <3>1. 2 \in 1 .. Len(stack)
      BY <1>1, <2>4
    <3>2. stack[2].gen <= made[stack[2].key]
      BY <1>4, <3>1, CallerFresh
    <3> QED
      BY <2>4, <3>2 DEF PointerOf
  <2>5. Output(q, r) => r.gen <= made[r.key]
    BY DEF Graph, Known
  <2> QED
    BY <1>3, <2>2, <2>3, <2>4, <2>5 DEF Told
<1> QED
  BY <1>8, <1>9, <1>10 DEF Graph

\* Whatever anyone does.
LEMMA GraphNext == Typed /\ Orderly /\ Graph /\ [Next]_vars => Graph'
<1> SUFFICES ASSUME Typed, Orderly, Graph, [Next]_vars PROVE Graph'
  OBVIOUS
<1>1. CASE TakeConstruct
  BY <1>1, GraphTakeConstruct
<1>2. CASE ReuseInstance
  BY <1>2, GraphReuseInstance
<1>3. CASE OpenInstance
  BY <1>3, GraphOpenInstance
<1>4. CASE CloseInstance
  BY <1>4, GraphCloseInstance
<1>5. CASE KillNext
  BY <1>5, GraphKillNext
<1>6. CASE EndBatch
  BY <1>6, GraphEndBatch
<1>7. ASSUME NEW w \in Worker, WorkerStep(w) PROVE Graph'
  BY <1>7, GraphWorkerStep
<1>8. CASE \/ \E r \in Request : GetFrame(r)
           \/ TakeStaleNotify \/ TakeNotify \/ LookAtOutput \/ AnswerCallback \/ EndKill
           \/ \E s \in Single : \E p \in waiting[s] : PostFromNeck(s, p)
           \/ EndTask \/ InvokeCallback \/ UNCHANGED vars
  BY <1>8, GraphQuietStep
<1> QED
  BY <1>1, <1>2, <1>3, <1>4, <1>5, <1>6, <1>7, <1>8 DEF Next, Maintainer

\* Nothing is linked to start with.
LEMMA GraphInit == Init => Graph
<1> SUFFICES ASSUME Init PROVE Graph
  OBVIOUS
<1>1. \A p \in Pointer : ~Alive(p)
  BY DEF Init, Alive, Exists, Pointer
<1> QED
  BY <1>1 DEF Init, Graph, CallsRight, Linked, Known, Input, Output

-----------------------------------------------------------------------------
(* what is computed, and when *)

\* Every instance that is there was there before, with the same inputs, as far
\* on as it was.
InstancesSteady ==
  \A k \in Key : Exists(k)' =>
    /\ Exists(k) /\ inst'[k].gen = inst[k].gen /\ inst'[k].inputs = inst[k].inputs
    /\ inst'[k].product = inst[k].product /\ inst'[k].taken = inst[k].taken
    /\ inst'[k].single => inst[k].single

\* Then a pointer that is alive stands where it stood.
LEMMA StandsSteady ==
  ASSUME InstancesSteady, NEW p \in Pointer, Alive(p)'
  PROVE  /\ Alive(p) /\ p.key \in Key
         /\ (Finished(p)' <=> Finished(p)) /\ (Unfinished(p)' <=> Unfinished(p))
         /\ (Taken(p)' <=> Taken(p)) /\ (inst'[p.key].single => inst[p.key].single)
         /\ \A q : Input(q, p)' <=> Input(q, p)
<1>1. p.key \in Key
  BY DEF Pointer
<1>2. /\ Alive(p) /\ inst'[p.key].inputs = inst[p.key].inputs
      /\ inst'[p.key].product = inst[p.key].product /\ inst'[p.key].taken = inst[p.key].taken
      /\ inst'[p.key].single => inst[p.key].single
  BY <1>1 DEF InstancesSteady, Alive
<1> QED
  BY <1>1, <1>2 DEF Finished, Unfinished, Taken, Input

\* An instance is changed in place, in nothing of this.
LEMMA RenewSteady ==
  ASSUME TypeOK, NEW p \in Pointer, Alive(p), NEW new \in Instance,
         new.gen = inst[p.key].gen, new.inputs = inst[p.key].inputs,
         new.product = inst[p.key].product, new.taken = inst[p.key].taken,
         new.single => inst[p.key].single, inst' = [inst EXCEPT ![p.key] = new]
  PROVE  InstancesSteady /\ \A k \in Key : Exists(k)' <=> Exists(k)
<1>1. /\ p.key \in Key
      /\ inst'[p.key] = new
      /\ \A k \in Key : k # p.key => inst'[k] = inst[k]
      /\ \A k \in Key : Exists(k)' <=> Exists(k)
  BY Renew, AlivePointer
<1> QED
  BY <1>1 DEF InstancesSteady

\* The invariant is kept by a step in which nothing comes to life, nothing is
\* finished or taken, and no worker begins to compute; what is posted anew is
\* ready, and what is given up anew has failed or has lost an input.
LEMMA OrderedKeep ==
  ASSUME Ordered, InstancesSteady,
         \A p, q \in Pointer : Alive(p)' /\ Unfinished(p) /\ Input(q, p) /\ Finished(q) => Alive(q)',
         \A w \in Worker : \A p \in Pointer : Computing(w, p)' => Computing(w, p),
         \A w \in Worker : \A p \in Pointer : Computing(w, p)' => Alive(p)',
         \A p \in Pointer : Posted(p)' /\ Alive(p)' /\ Unfinished(p) =>
           Posted(p) \/ (\E w \in Worker : Computing(w, p)) \/ ReadyAt(p),
         \A p \in Pointer : Failed(p)' =>
           Failed(p) \/ \E w \in Worker : Computing(w, p) /\ ~Computing(w, p)',
         \A p \in Pointer : Doomed(p)' /\ Alive(p)' =>
           \/ Doomed(p)
           \/ Failed(p) /\ ~inst'[p.key].single
           \/ Unfinished(p) /\ Bereft(p)'
  PROVE  Ordered'
<1>1. ComputedOnce'
  <2> SUFFICES ASSUME NEW p \in Pointer, NEW w \in Worker, Computing(w, p)'
               PROVE  /\ Unfinished(p)' /\ Taken(p)'
                      /\ \A v \in Worker : Computing(v, p)' => v = w
    BY DEF ComputedOnce
  <2>1. Computing(w, p) /\ Alive(p)'
    OBVIOUS
  <2> QED
    BY <2>1, StandsSteady DEF Ordered, ComputedOnce
<1>2. FailedOnce'
  <2> SUFFICES ASSUME NEW p \in Pointer, Failed(p)', Alive(p)'
               PROVE  Unfinished(p)' /\ Taken(p)' /\ \A w \in Worker : ~Computing(w, p)'
    BY DEF FailedOnce
  <2>1. Alive(p)
    BY StandsSteady
  <2>2. CASE Failed(p)
    BY <2>1, <2>2, StandsSteady DEF Ordered, FailedOnce
  <2>3. ASSUME NEW w \in Worker, Computing(w, p), ~Computing(w, p)'
        PROVE  Unfinished(p)' /\ Taken(p)' /\ \A v \in Worker : ~Computing(v, p)'
    <3>1. Unfinished(p) /\ Taken(p) /\ \A v \in Worker : Computing(v, p) => v = w
      BY <2>3 DEF Ordered, ComputedOnce
    <3> QED
      BY <2>3, <3>1, StandsSteady
  <2> QED
    BY <2>2, <2>3
<1>3. PostedReady'
  <2> SUFFICES ASSUME NEW p \in Pointer, Unfinished(p)', Posted(p)' \/ \E w \in Worker : Computing(w, p)',
                      NEW q \in Pointer, Input(q, p)'
               PROVE  Finished(q)'
    BY DEF PostedReady, ReadyAt
  <2>1. Alive(p)'
    BY DEF Unfinished
  <2>2. Unfinished(p) /\ Input(q, p)
    BY <2>1, StandsSteady
  <2>3. ReadyAt(p)
    BY <2>1, <2>2 DEF Ordered, PostedReady
  <2>4. Finished(q) /\ Alive(q)'
    BY <2>1, <2>2, <2>3 DEF ReadyAt
  <2> QED
    BY <2>4, StandsSteady
<1>4. ProductsOrdered'
  <2> SUFFICES ASSUME NEW p \in Pointer, NEW q \in Pointer, Finished(p)', Input(q, p)', Alive(q)'
               PROVE  Finished(q)'
    BY DEF ProductsOrdered
  <2>1. Alive(p)'
    BY DEF Finished, Alive, Exists
  <2> QED
    BY <2>1, StandsSteady DEF Ordered, ProductsOrdered
<1>5. FinishedTaken'
  <2> SUFFICES ASSUME NEW p \in Pointer, Finished(p)' PROVE Taken(p)'
    BY DEF FinishedTaken
  <2>1. Alive(p)'
    BY DEF Finished, Alive, Exists
  <2> QED
    BY <2>1, StandsSteady DEF Ordered, FinishedTaken
<1>6. DoomedApart'
  <2> SUFFICES ASSUME NEW p \in Pointer, Doomed(p)', Alive(p)'
               PROVE  /\ Unfinished(p)'
                      /\ \/ Bereft(p)'
                         \/ Taken(p)' /\ ~inst'[p.key].single /\ \A w \in Worker : ~Computing(w, p)'
    BY DEF DoomedApart
  <2>1. Alive(p)
    BY StandsSteady
  <2>2. CASE Doomed(p)
    <3>1. Unfinished(p)'
      BY <2>1, <2>2, StandsSteady DEF Ordered, DoomedApart
    <3>2. CASE Bereft(p)
      <4>1. PICK q \in Pointer : Input(q, p) /\ ~Alive(q)
        BY <3>2 DEF Bereft
      <4>2. Input(q, p)' /\ ~Alive(q)'
        BY <4>1, StandsSteady
      <4> QED
        BY <3>1, <4>2 DEF Bereft
    <3>3. CASE ~Bereft(p)
      BY <2>1, <2>2, <3>1, <3>3, StandsSteady DEF Ordered, DoomedApart
    <3> QED
      BY <3>2, <3>3
  <2>3. CASE Failed(p) /\ ~inst'[p.key].single
    BY <2>1, <2>3, StandsSteady DEF Ordered, FailedOnce
  <2>4. CASE Unfinished(p) /\ Bereft(p)'
    BY <2>4, StandsSteady
  <2> QED
    BY <2>2, <2>3, <2>4
<1> QED
  BY <1>1, <1>2, <1>3, <1>4, <1>5, <1>6 DEF Ordered

\* Neither does any instance go.
LEMMA OrderedQuiet ==
  ASSUME Ordered, InstancesSteady, \A k \in Key : Exists(k)' <=> Exists(k),
         \A w \in Worker : \A p \in Pointer : Computing(w, p)' => Computing(w, p),
         \A p \in Pointer : Posted(p)' /\ Unfinished(p) =>
           Posted(p) \/ (\E w \in Worker : Computing(w, p)) \/ ReadyAt(p),
         \A p \in Pointer : Failed(p)' =>
           Failed(p) \/ \E w \in Worker : Computing(w, p) /\ ~Computing(w, p)',
         \A p \in Pointer : Doomed(p)' => Doomed(p) \/ (Failed(p) /\ ~inst'[p.key].single)
  PROVE  Ordered'
<1>1. ASSUME NEW p \in Pointer PROVE Alive(p)' <=> Alive(p)
  <2>1. p.key \in Key
    BY DEF Pointer
  <2> QED
    BY <2>1 DEF Alive, InstancesSteady
<1>2. \A w \in Worker : \A p \in Pointer : Computing(w, p)' => Alive(p)'
  BY <1>1 DEF Ordered, ComputedOnce, Unfinished
<1>3. \A p, q \in Pointer : Alive(p)' /\ Unfinished(p) /\ Input(q, p) /\ Finished(q) => Alive(q)'
  BY <1>1 DEF Finished
<1> QED
  BY <1>2, <1>3, OrderedKeep

\* A step of a worker that leaves the instances alone.
LEMMA OrderedWorker ==
  ASSUME Ordered, UNCHANGED <<inst, waiting, mpc, todo>>, NEW w \in Worker,
         \A v \in Worker : v # w => worker'[v] = worker[v],
         worker'[w].pc \in {"taken", "run"} =>
           worker[w].pc \in {"taken", "run"} /\ worker'[w].at = worker[w].at,
         worker'[w].pc \in {"popped", "repost"} /\ worker'[w].at \in Pointer => work[worker'[w].at] > 0,
         \A p \in Pointer : work'[p] > 0 => work[p] > 0 \/ (worker[w].pc = "repost" /\ worker[w].at = p),
         \A p \in Pointer : Failed(p)' =>
           Failed(p) \/ (worker[w].pc = "run" /\ worker[w].at = p /\ worker'[w].pc \notin {"taken", "run"})
  PROVE  Ordered'
<1>1. InstancesSteady /\ \A k \in Key : Exists(k)' <=> Exists(k)
  BY DEF InstancesSteady, Exists
<1>2. ASSUME NEW v \in Worker, NEW p \in Pointer, Computing(v, p)' PROVE Computing(v, p)
  BY <1>2 DEF Computing
<1>3. ASSUME NEW p \in Pointer, Posted(p)' PROVE Posted(p)
  <2>1. CASE work'[p] > 0
    BY <2>1 DEF Posted
  <2>2. CASE p \in waiting'[SubstrateOf(p)]
    BY <2>2 DEF Posted
  <2>3. ASSUME NEW v \in Worker, worker'[v].pc \in {"popped", "repost"}, worker'[v].at = p
        PROVE  Posted(p)
    <3>1. CASE v = w
      BY <2>3, <3>1 DEF Posted
    <3>2. CASE v # w
      BY <2>3, <3>2 DEF Posted
    <3> QED
      BY <3>1, <3>2
  <2> QED
    BY <1>3, <2>1, <2>2, <2>3 DEF Posted, SubstrateOf
<1>4. ASSUME NEW p \in Pointer, Failed(p)'
      PROVE  Failed(p) \/ \E v \in Worker : Computing(v, p) /\ ~Computing(v, p)'
  BY <1>4 DEF Computing
<1>5. \A p \in Pointer : Doomed(p)' => Doomed(p)
  BY DEF Doomed
<1> QED
  BY <1>1, <1>2, <1>3, <1>4, <1>5, OrderedQuiet

\* A report is added.
LEMMA AmongAppended ==
  ASSUME TypeOK, NEW t \in Tasks, tasks' = Append(tasks, t), NEW x
  PROVE  Among(x, tasks') <=> Among(x, tasks) \/ x = t
<1>1. tasks \in Seq(Tasks) /\ <<t>> \in Seq(Tasks) /\ tasks' = tasks \o <<t>>
  BY DEF TypeOK
<1>2. Among(x, <<t>>) <=> x = t
  BY DEF Among
<1>3. Among(x, tasks \o <<t>>) <=> Among(x, tasks) \/ Among(x, <<t>>)
  BY <1>1, AmongBoth
<1> QED
  BY <1>1, <1>2, <1>3

\* Two reports are the same only if they say the same.
LEMMA SameReport ==
  ASSUME NEW p, NEW q, NEW b, NEW c, Notify(p, b) = Notify(q, c)
  PROVE  p = q /\ b = c
<1>1. Notify(p, b).inst = p /\ Notify(p, b).exc = b /\ Notify(q, c).inst = q /\ Notify(q, c).exc = c
  BY DEF Notify
<1> QED
  BY <1>1

\* A worker reports and rests, or goes on to unlock.
LEMMA AnnounceParts ==
  ASSUME Typed, NEW w \in Worker, ~WorkerAt(w, "idle"), NEW exc \in BOOLEAN, Announce(w, exc)
  PROVE  /\ worker'[w].pc \in {"idle", "unlock"}
         /\ \A v \in Worker : v # w => worker'[v] = worker[v]
         /\ \A x : Among(x, tasks') <=> Among(x, tasks) \/ x = Notify(At(w), exc)
<1>1. TypeOK /\ At(w) \in Pointer
  BY WorkerPointer
<1>2. Notify(At(w), exc) \in Tasks /\ tasks' = Append(tasks, Notify(At(w), exc))
  BY <1>1 DEF Announce, Notify, Tasks
<1>3. \A x : Among(x, tasks') <=> Among(x, tasks) \/ x = Notify(At(w), exc)
  BY <1>1, <1>2, AmongAppended
<1>4. WorkerRest(w) \/ WorkerGoto(w, "unlock")
  BY DEF Announce
<1>5. "unlock" \in WorkerStates
  BY DEF WorkerStates
<1> QED
  BY <1>1, <1>3, <1>4, <1>5, RestShape, GotoShape

\* The steps of a worker in which no instance changes.
LEMMA OrderedEasyWorkerStep ==
  ASSUME Typed, Ordered, NEW w \in Worker,
         \/ \E p \in Pointer : Pop(w, p)
         \/ TryLock(w) \/ Repost(w) \/ Fail(w) \/ Succeed(w) \/ Unlock(w)
         \/ TestTaken(w) /\ UNCHANGED inst /\ WorkerRest(w)
  PROVE  Ordered'
<1>1. /\ worker \in [Worker -> [pc : WorkerStates, at : Pointer \cup {None}, mode : Modes]]
      /\ work \in [Pointer -> Nat] /\ TypeOK
  BY DEF Typed, TypeOK
<1>2. UNCHANGED <<inst, waiting, mpc, todo>>
  BY DEF Pop, TryLock, Repost, Fail, Succeed, Unlock, TestTaken, maintainerVars
<1>3. ASSUME NEW p \in Pointer, Pop(w, p) PROVE Ordered'
  <2>1. /\ worker' = [worker EXCEPT ![w] = [pc |-> "popped", at |-> p, mode |-> "none"]]
        /\ work' = [work EXCEPT ![p] = @ - 1] /\ work[p] > 0 /\ UNCHANGED tasks
    BY <1>3 DEF Pop
  <2>2. /\ worker'[w].pc = "popped" /\ worker'[w].at = p
        /\ \A v \in Worker : v # w => worker'[v] = worker[v]
    BY <1>1, <2>1
  <2>3. \A q \in Pointer : work'[q] > 0 => work[q] > 0
    BY <1>1, <2>1
  <2>4. \A q \in Pointer : Failed(q)' => Failed(q)
    BY <2>1 DEF Failed, Notify
  <2> QED
    BY <1>2, <2>1, <2>2, <2>3, <2>4, OrderedWorker
<1>4. CASE TryLock(w)
  <2>1. /\ worker[w].pc = "taken" /\ worker'[w].pc = "run" /\ worker'[w].at = worker[w].at
        /\ \A v \in Worker : v # w => worker'[v] = worker[v]
        /\ UNCHANGED <<work, tasks>>
    BY <1>1, <1>4 DEF TryLock, WorkerAt
  <2>2. \A q \in Pointer : Failed(q)' => Failed(q)
    BY <2>1 DEF Failed, Notify
  <2> QED
    BY <1>2, <2>1, <2>2, OrderedWorker
<1>5. CASE Repost(w)
  <2>1. /\ worker[w].pc = "repost" /\ WorkerRest(w) /\ work' = [work EXCEPT ![At(w)] = @ + 1]
        /\ UNCHANGED tasks
    BY <1>5 DEF Repost, WorkerAt
  <2>2. worker'[w].pc = "idle" /\ \A v \in Worker : v # w => worker'[v] = worker[v]
    BY <1>1, <2>1, RestShape
  <2>3. \A q \in Pointer : work'[q] > 0 => work[q] > 0 \/ worker[w].at = q
    BY <1>1, <2>1 DEF At
  <2>4. \A q \in Pointer : Failed(q)' => Failed(q)
    BY <2>1 DEF Failed, Notify
  <2> QED
    BY <1>2, <2>1, <2>2, <2>3, <2>4, OrderedWorker
<1>6. CASE Fail(w) \/ Succeed(w)
  <2>1. PICK exc \in BOOLEAN :
          /\ Announce(w, exc) /\ UNCHANGED work /\ ~WorkerAt(w, "idle")
          /\ exc => worker[w].pc = "run"
    BY <1>6 DEF Fail, Succeed, WorkerAt
  <2>2. /\ worker'[w].pc \in {"idle", "unlock"}
        /\ \A v \in Worker : v # w => worker'[v] = worker[v]
        /\ \A x : Among(x, tasks') <=> Among(x, tasks) \/ x = Notify(At(w), exc)
    BY <2>1, AnnounceParts
  <2>3. ASSUME NEW q \in Pointer, Failed(q)'
        PROVE  Failed(q) \/ (worker[w].pc = "run" /\ worker[w].at = q)
    <3>1. Among(Notify(q, TRUE), tasks')
      BY <2>3 DEF Failed, Notify
    <3>2. CASE Notify(q, TRUE) = Notify(At(w), exc)
      <4>1. q = At(w) /\ exc = TRUE
        BY <3>2, SameReport
      <4> QED
        BY <2>1, <4>1 DEF At
    <3>3. CASE Notify(q, TRUE) # Notify(At(w), exc)
      BY <2>2, <3>1, <3>3 DEF Failed
    <3> QED
      BY <3>2, <3>3
  <2> QED
    BY <1>2, <2>1, <2>2, <2>3, OrderedWorker
<1>7. CASE Unlock(w) \/ (TestTaken(w) /\ UNCHANGED inst /\ WorkerRest(w))
  <2>1. WorkerRest(w) /\ UNCHANGED <<work, tasks>>
    BY <1>7 DEF Unlock, TestTaken
  <2>2. worker'[w].pc = "idle" /\ \A v \in Worker : v # w => worker'[v] = worker[v]
    BY <1>1, <2>1, RestShape
  <2>3. \A q \in Pointer : Failed(q)' => Failed(q)
    BY <2>1 DEF Failed, Notify
  <2> QED
    BY <1>2, <2>1, <2>2, <2>3, OrderedWorker
<1> QED
  BY <1>3, <1>4, <1>5, <1>6, <1>7

\* An instance goes on, its links as they are: only it is affected.
LEMMA RenewView ==
  ASSUME TypeOK, NEW p \in Pointer, Alive(p), NEW new \in Instance,
         new.gen = inst[p.key].gen, new.inputs = inst[p.key].inputs, new.single = inst[p.key].single,
         inst' = [inst EXCEPT ![p.key] = new]
  PROVE  /\ \A q \in Pointer :
              /\ Alive(q)' <=> Alive(q)
              /\ \A r : Input(r, q)' <=> Input(r, q)
              /\ Alive(q) => inst'[q.key].single = inst[q.key].single
              /\ q # p => /\ Finished(q)' <=> Finished(q)
                          /\ Unfinished(q)' <=> Unfinished(q)
                          /\ Taken(q)' <=> Taken(q)
         /\ (Finished(p)' <=> new.product) /\ (Unfinished(p)' <=> ~new.product)
         /\ (Taken(p)' <=> new.taken)
<1>1. /\ p.key \in Key
      /\ inst'[p.key] = new
      /\ \A k \in Key : k # p.key => inst'[k] = inst[k]
      /\ \A q \in Pointer : Alive(q)' <=> Alive(q)
  BY Renew, AlivePointer
<1>2. ASSUME NEW q \in Pointer
      PROVE  /\ Alive(q)' <=> Alive(q)
             /\ \A r : Input(r, q)' <=> Input(r, q)
             /\ Alive(q) => inst'[q.key].single = inst[q.key].single
             /\ q # p => /\ Finished(q)' <=> Finished(q)
                         /\ Unfinished(q)' <=> Unfinished(q)
                         /\ Taken(q)' <=> Taken(q)
  <2>1. q.key \in Key /\ (Alive(q)' <=> Alive(q))
    BY <1>1 DEF Pointer
  <2>2. CASE q.key = p.key
    <3>1. Alive(q) => q = p
      BY <2>2, AlivePointer
    <3>2. \A r : Input(r, q)' <=> Input(r, q)
      BY <1>1, <2>1, <2>2 DEF Input
    <3> QED
      BY <1>1, <2>1, <2>2, <3>1, <3>2 DEF Finished, Unfinished, Taken
  <2>3. CASE q.key # p.key
    <3>1. inst'[q.key] = inst[q.key]
      BY <1>1, <2>1, <2>3
    <3> QED
      BY <2>1, <3>1 DEF Input, Finished, Unfinished, Taken
  <2> QED
    BY <2>2, <2>3
<1>3. Alive(p)'
  BY <1>1
<1> QED
  BY <1>1, <1>2, <1>3 DEF Finished, Unfinished, Taken

\* A worker takes an instance that nobody has taken.
LEMMA OrderedTake ==
  ASSUME Typed, Ordered, NEW w \in Worker, TestTaken(w), NEW p \in Pointer, p = At(w),
         Alive(p), ~inst[p.key].taken
  PROVE  Ordered'
<1>1. /\ worker[w].pc = "popped" /\ worker[w].at = p
      /\ inst' = [inst EXCEPT ![p.key].taken = TRUE]
      /\ WorkerGoto(w, IF SubstrateOf(At(w)) \in Guarded THEN "taken" ELSE "run")
      /\ UNCHANGED <<waiting, mpc, todo, tasks, work>>
  BY DEF TestTaken, WorkerAt, At
<1>2. /\ worker'[w].pc \in {"taken", "run"} /\ worker'[w].at = p
      /\ \A v \in Worker : v # w => worker'[v] = worker[v]
  <2>1. \A to \in WorkerStates : WorkerGoto(w, to) =>
          /\ worker'[w].pc = to /\ worker'[w].at = worker[w].at
          /\ \A v \in Worker : v # w => worker'[v] = worker[v]
    BY GotoShape DEF Typed
  <2>2. "taken" \in WorkerStates /\ "run" \in WorkerStates
    BY DEF WorkerStates
  <2> QED
    BY <1>1, <2>1, <2>2
<1>3. /\ \A q \in Pointer :
           /\ Alive(q)' <=> Alive(q)
           /\ \A r : Input(r, q)' <=> Input(r, q)
           /\ Alive(q) => inst'[q.key].single = inst[q.key].single
           /\ Finished(q)' <=> Finished(q)
           /\ Unfinished(q)' <=> Unfinished(q)
           /\ Taken(q)' <=> Taken(q) \/ q = p
  <2> DEFINE new == [inst[p.key] EXCEPT !.taken = TRUE]
  <2>1. TypeOK /\ inst[p.key] \in Instance
    BY AlivePointer DEF Typed
  <2>2. /\ new \in Instance /\ new.gen = inst[p.key].gen /\ new.inputs = inst[p.key].inputs
        /\ new.single = inst[p.key].single /\ new.taken /\ new.product = inst[p.key].product
    BY <2>1 DEF Instance
  <2>3. inst' = [inst EXCEPT ![p.key] = new]
    BY <1>1
  <2> HIDE DEF new
  <2>4. /\ \A q \in Pointer :
              /\ Alive(q)' <=> Alive(q)
              /\ \A r : Input(r, q)' <=> Input(r, q)
              /\ Alive(q) => inst'[q.key].single = inst[q.key].single
              /\ q # p => /\ Finished(q)' <=> Finished(q)
                          /\ Unfinished(q)' <=> Unfinished(q)
                          /\ Taken(q)' <=> Taken(q)
        /\ (Finished(p)' <=> new.product) /\ (Unfinished(p)' <=> ~new.product)
        /\ (Taken(p)' <=> new.taken)
    BY <2>1, <2>2, <2>3, RenewView
  <2>5. (Finished(p) <=> new.product) /\ (Unfinished(p) <=> ~new.product)
    BY <2>2 DEF Finished, Unfinished
  <2> QED
    BY <2>2, <2>4, <2>5
<1>4. \A v \in Worker : \A q \in Pointer : Computing(v, q)' <=> Computing(v, q) \/ (v = w /\ q = p)
  BY <1>1, <1>2 DEF Computing
<1>5. ~Taken(p) /\ Unfinished(p)
  BY DEF Ordered, FinishedTaken, Taken, Unfinished, Finished
<1>6. \A v \in Worker : ~Computing(v, p)
  BY <1>5 DEF Ordered, ComputedOnce
<1>7. ~Failed(p)
  BY <1>5 DEF Ordered, FailedOnce
<1>8. \A q \in Pointer : (Failed(q)' <=> Failed(q)) /\ (Doomed(q)' <=> Doomed(q))
  BY <1>1 DEF Failed, Doomed, Notify
<1>9. \A q \in Pointer : Posted(q)' => Posted(q)
  <2>1. ASSUME NEW q \in Pointer, NEW v \in Worker, worker'[v].pc \in {"popped", "repost"}, worker'[v].at = q
        PROVE  Posted(q)
    BY <1>2, <2>1 DEF Posted
  <2> QED
    BY <1>1, <2>1 DEF Posted, SubstrateOf
<1>10. Posted(p)
  BY <1>1 DEF Posted
<1>11. \A q \in Pointer : (ReadyAt(q)' <=> ReadyAt(q)) /\ (Bereft(q)' <=> Bereft(q))
  BY <1>3 DEF ReadyAt, Bereft
<1>12. ComputedOnce'
  BY <1>3, <1>4, <1>5, <1>6 DEF Ordered, ComputedOnce
<1>13. FailedOnce'
  BY <1>3, <1>4, <1>7, <1>8 DEF Ordered, FailedOnce
<1>14. PostedReady'
  BY <1>3, <1>4, <1>5, <1>9, <1>10, <1>11 DEF Ordered, PostedReady
<1>15. ProductsOrdered' /\ FinishedTaken'
  BY <1>3 DEF Ordered, ProductsOrdered, FinishedTaken
<1>16. DoomedApart'
  BY <1>3, <1>4, <1>5, <1>8, <1>11 DEF Ordered, DoomedApart
<1> QED
  BY <1>12, <1>13, <1>14, <1>15, <1>16 DEF Ordered

\* A worker gives an instance up for now, for want of the lock.
LEMMA OrderedLockBusy ==
  ASSUME Typed, Ordered, NEW w \in Worker, LockBusy(w)
  PROVE  Ordered'
<1>1. PICK p \in Pointer :
        /\ p = At(w) /\ worker[w].pc = "taken" /\ worker[w].at = p
        /\ inst' = IF Alive(p) THEN [inst EXCEPT ![p.key].taken = FALSE] ELSE inst
        /\ WorkerGoto(w, "repost") /\ UNCHANGED <<waiting, mpc, todo, tasks, work>>
  BY WorkerPointer DEF LockBusy, WorkerAt, At
<1>2. /\ Computing(w, p) /\ Unfinished(p) /\ Taken(p) /\ Alive(p)
      /\ \A v \in Worker : Computing(v, p) => v = w
  BY <1>1 DEF Ordered, ComputedOnce, Computing, Unfinished
<1>3. /\ worker'[w].pc = "repost" /\ worker'[w].at = p
      /\ \A v \in Worker : v # w => worker'[v] = worker[v]
  BY <1>1, GotoShape DEF Typed, WorkerStates
<1>4. \A q \in Pointer :
           /\ Alive(q)' <=> Alive(q)
           /\ \A r : Input(r, q)' <=> Input(r, q)
           /\ Alive(q) => inst'[q.key].single = inst[q.key].single
           /\ Finished(q)' <=> Finished(q)
           /\ Unfinished(q)' <=> Unfinished(q)
           /\ Taken(q)' <=> Taken(q) /\ q # p
  <2> DEFINE new == [inst[p.key] EXCEPT !.taken = FALSE]
  <2>1. TypeOK /\ inst[p.key] \in Instance
    BY <1>2, AlivePointer DEF Typed
  <2>2. /\ new \in Instance /\ new.gen = inst[p.key].gen /\ new.inputs = inst[p.key].inputs
        /\ new.single = inst[p.key].single /\ ~new.taken /\ new.product = inst[p.key].product
    BY <2>1 DEF Instance
  <2>3. inst' = [inst EXCEPT ![p.key] = new]
    BY <1>1, <1>2
  <2> HIDE DEF new
  <2>4. /\ \A q \in Pointer :
              /\ Alive(q)' <=> Alive(q)
              /\ \A r : Input(r, q)' <=> Input(r, q)
              /\ Alive(q) => inst'[q.key].single = inst[q.key].single
              /\ q # p => /\ Finished(q)' <=> Finished(q)
                          /\ Unfinished(q)' <=> Unfinished(q)
                          /\ Taken(q)' <=> Taken(q)
        /\ (Finished(p)' <=> new.product) /\ (Unfinished(p)' <=> ~new.product)
        /\ (Taken(p)' <=> new.taken)
    BY <1>2, <2>1, <2>2, <2>3, RenewView
  <2>5. (Finished(p) <=> new.product) /\ (Unfinished(p) <=> ~new.product)
    BY <1>2, <2>2 DEF Finished, Unfinished
  <2> QED
    BY <2>2, <2>4, <2>5
<1>5. \A v \in Worker : \A q \in Pointer : Computing(v, q)' => Computing(v, q) /\ v # w
  BY <1>3 DEF Computing
<1>6. \A v \in Worker : ~Computing(v, p)'
  BY <1>2, <1>5
<1>7. ~Failed(p)
  BY <1>2 DEF Ordered, FailedOnce
<1>8. \A q \in Pointer : (Failed(q)' <=> Failed(q)) /\ (Doomed(q)' <=> Doomed(q))
  BY <1>1 DEF Failed, Doomed, Notify
<1>9. \A q \in Pointer : Posted(q)' => Posted(q) \/ q = p
  <2>1. ASSUME NEW q \in Pointer, q # p, NEW v \in Worker,
               worker'[v].pc \in {"popped", "repost"}, worker'[v].at = q
        PROVE  Posted(q)
    BY <1>3, <2>1 DEF Posted
  <2> QED
    BY <1>1, <2>1 DEF Posted, SubstrateOf
<1>10. \A q \in Pointer : (ReadyAt(q)' <=> ReadyAt(q)) /\ (Bereft(q)' <=> Bereft(q))
  BY <1>4 DEF ReadyAt, Bereft
<1>11. ReadyAt(p) /\ ~Bereft(p)
  <2>1. ReadyAt(p)
    BY <1>2 DEF Ordered, PostedReady
  <2> QED
    BY <2>1 DEF ReadyAt, Bereft, Finished
<1>12. ComputedOnce'
  BY <1>4, <1>5, <1>6 DEF Ordered, ComputedOnce
<1>13. FailedOnce'
  BY <1>4, <1>5, <1>7, <1>8 DEF Ordered, FailedOnce
<1>14. PostedReady'
  BY <1>4, <1>5, <1>9, <1>10, <1>11 DEF Ordered, PostedReady
<1>15. ProductsOrdered' /\ FinishedTaken'
  <2>1. ~Finished(p)
    BY <1>2 DEF Finished, Unfinished
  <2> QED
    BY <1>4, <2>1 DEF Ordered, ProductsOrdered, FinishedTaken
<1>16. DoomedApart'
  <2>1. ~Doomed(p)
    BY <1>2, <1>11 DEF Ordered, DoomedApart
  <2> QED
    BY <2>1, <1>4, <1>5, <1>8, <1>10 DEF Ordered, DoomedApart
<1> QED
  BY <1>12, <1>13, <1>14, <1>15, <1>16 DEF Ordered

\* A worker stores the product of the instance it computes.
LEMMA OrderedStoreProduct ==
  ASSUME Typed, Ordered, NEW w \in Worker, StoreProduct(w)
  PROVE  Ordered'
<1>1. PICK p \in Pointer :
        /\ p = At(w) /\ worker[w].pc = "run" /\ worker[w].at = p
        /\ inst' = IF Alive(p) THEN [inst EXCEPT ![p.key].product = TRUE] ELSE inst
        /\ WorkerGoto(w, "stored") /\ UNCHANGED <<waiting, mpc, todo, tasks, work>>
  BY WorkerPointer DEF StoreProduct, WorkerAt, At
<1>2. /\ Computing(w, p) /\ Unfinished(p) /\ Taken(p) /\ Alive(p)
      /\ \A v \in Worker : Computing(v, p) => v = w
  BY <1>1 DEF Ordered, ComputedOnce, Computing, Unfinished
<1>3. /\ worker'[w].pc = "stored" /\ worker'[w].at = p
      /\ \A v \in Worker : v # w => worker'[v] = worker[v]
  BY <1>1, GotoShape DEF Typed, WorkerStates
<1>4. \A q \in Pointer :
           /\ Alive(q)' <=> Alive(q)
           /\ \A r : Input(r, q)' <=> Input(r, q)
           /\ Alive(q) => inst'[q.key].single = inst[q.key].single
           /\ Finished(q)' <=> Finished(q) \/ q = p
           /\ Unfinished(q)' <=> Unfinished(q) /\ q # p
           /\ Taken(q)' <=> Taken(q)
  <2> DEFINE new == [inst[p.key] EXCEPT !.product = TRUE]
  <2>1. TypeOK /\ inst[p.key] \in Instance
    BY <1>2, AlivePointer DEF Typed
  <2>2. /\ new \in Instance /\ new.gen = inst[p.key].gen /\ new.inputs = inst[p.key].inputs
        /\ new.single = inst[p.key].single /\ new.taken = inst[p.key].taken /\ new.product
    BY <2>1 DEF Instance
  <2>3. inst' = [inst EXCEPT ![p.key] = new]
    BY <1>1, <1>2
  <2> HIDE DEF new
  <2>4. /\ \A q \in Pointer :
              /\ Alive(q)' <=> Alive(q)
              /\ \A r : Input(r, q)' <=> Input(r, q)
              /\ Alive(q) => inst'[q.key].single = inst[q.key].single
              /\ q # p => /\ Finished(q)' <=> Finished(q)
                          /\ Unfinished(q)' <=> Unfinished(q)
                          /\ Taken(q)' <=> Taken(q)
        /\ (Finished(p)' <=> new.product) /\ (Unfinished(p)' <=> ~new.product)
        /\ (Taken(p)' <=> new.taken)
    BY <1>2, <2>1, <2>2, <2>3, RenewView
  <2>5. Taken(p) <=> new.taken
    BY <1>2, <2>2 DEF Taken
  <2> QED
    BY <2>2, <2>4, <2>5
<1>5. \A v \in Worker : \A q \in Pointer : Computing(v, q)' => Computing(v, q) /\ v # w
  BY <1>3 DEF Computing
<1>6. \A v \in Worker : ~Computing(v, p)'
  BY <1>2, <1>5
<1>7. ~Failed(p)
  BY <1>2 DEF Ordered, FailedOnce
<1>8. \A q \in Pointer : (Failed(q)' <=> Failed(q)) /\ (Doomed(q)' <=> Doomed(q))
  BY <1>1 DEF Failed, Doomed, Notify
<1>9. \A q \in Pointer : Posted(q)' => Posted(q)
  <2>1. ASSUME NEW q \in Pointer, NEW v \in Worker,
               worker'[v].pc \in {"popped", "repost"}, worker'[v].at = q
        PROVE  Posted(q)
    BY <1>3, <2>1 DEF Posted
  <2> QED
    BY <1>1, <2>1 DEF Posted, SubstrateOf
<1>10. \A q \in Pointer : (ReadyAt(q) => ReadyAt(q)') /\ (Bereft(q)' <=> Bereft(q))
  BY <1>4 DEF ReadyAt, Bereft
<1>11. ReadyAt(p) /\ ~Bereft(p)
  <2>1. ReadyAt(p)
    BY <1>2 DEF Ordered, PostedReady
  <2> QED
    BY <2>1 DEF ReadyAt, Bereft, Finished
<1>12. ComputedOnce'
  BY <1>4, <1>5, <1>6 DEF Ordered, ComputedOnce
<1>13. FailedOnce'
  BY <1>4, <1>5, <1>7, <1>8 DEF Ordered, FailedOnce
<1>14. PostedReady'
  BY <1>4, <1>5, <1>9, <1>10 DEF Ordered, PostedReady
<1>15. ProductsOrdered'
  BY <1>4, <1>11 DEF Ordered, ProductsOrdered, ReadyAt
<1>16. FinishedTaken'
  BY <1>2, <1>4 DEF Ordered, FinishedTaken
<1>17. DoomedApart'
  <2>1. ~Doomed(p)
    BY <1>2, <1>11 DEF Ordered, DoomedApart
  <2> QED
    BY <2>1, <1>4, <1>5, <1>8, <1>10 DEF Ordered, DoomedApart
<1> QED
  BY <1>12, <1>13, <1>14, <1>15, <1>16, <1>17 DEF Ordered

\* Whatever a worker does.
LEMMA OrderedWorkerStep ==
  ASSUME Typed, Ordered, NEW w \in Worker, WorkerStep(w)
  PROVE  Ordered'
<1>1. CASE TestTaken(w)
  <2>1. PICK p \in Pointer : p = At(w)
    BY <1>1, WorkerPointer DEF TestTaken, WorkerAt
  <2>2. CASE Alive(p) /\ ~inst[p.key].taken
    BY <1>1, <2>1, <2>2, OrderedTake
  <2>3. CASE ~(Alive(p) /\ ~inst[p.key].taken)
    <3>1. WorkerRest(w) /\ UNCHANGED inst
      BY <1>1, <2>1, <2>3 DEF TestTaken
    <3> QED
      BY <1>1, <3>1, OrderedEasyWorkerStep
  <2> QED
    BY <2>2, <2>3
<1>2. CASE LockBusy(w)
  BY <1>2, OrderedLockBusy
<1>3. CASE StoreProduct(w)
  BY <1>3, OrderedStoreProduct
<1>4. CASE \/ \E p \in Pointer : Pop(w, p)
           \/ TryLock(w) \/ Repost(w) \/ Fail(w) \/ Succeed(w) \/ Unlock(w)
  BY <1>4, OrderedEasyWorkerStep
<1> QED
  BY <1>1, <1>2, <1>3, <1>4 DEF WorkerStep

\* The tasks that are left, or were there already.
LEMMA AmongTasks ==
  ASSUME Typed, NextTask \/ (\E r \in Request : GetFrame(r)) \/ UNCHANGED tasks
  PROVE  \A p, b : Among(Notify(p, b), tasks') => Among(Notify(p, b), tasks)
<1>1. TypeOK
  BY DEF Typed
<1>2. CASE NextTask
  <2>1. tasks \in Seq(Tasks) /\ tasks # <<>> /\ tasks' = Tail(tasks)
    BY <1>1, <1>2 DEF TypeOK, NextTask
  <2> QED
    BY <2>1, AmongTail
<1>3. ASSUME NEW r \in Request, GetFrame(r)
      PROVE  \A p, b : Among(Notify(p, b), tasks') => Among(Notify(p, b), tasks)
  <2>1. Construct(r) \in Tasks /\ tasks' = Append(tasks, Construct(r))
    BY <1>3 DEF GetFrame, Construct, Tasks
  <2>2. \A p, b : Notify(p, b) # Construct(r)
    <3> TAKE p, b
    <3>1. Notify(p, b).kind = "notify" /\ Construct(r).kind = "construct"
      BY DEF Notify, Construct
    <3> QED
      BY <3>1
  <2> QED
    BY <1>1, <2>1, <2>2, AmongAppended
<1>4. CASE UNCHANGED tasks
  BY <1>4
<1> QED
  BY <1>2, <1>3, <1>4

\* A step of the maintainer, or of those outside, that posts nothing and gives
\* up nothing anew.
LEMMA OrderedMaintainer ==
  ASSUME Typed, Ordered, InstancesSteady, \A k \in Key : Exists(k)' <=> Exists(k),
         UNCHANGED <<worker, work, waiting>>,
         NextTask \/ (\E r \in Request : GetFrame(r)) \/ UNCHANGED tasks,
         mpc' = "kill" => UNCHANGED <<mpc, todo>>
  PROVE  Ordered'
<1>1. \A w \in Worker : \A p \in Pointer : Computing(w, p)' => Computing(w, p)
  BY DEF Computing
<1>2. \A p \in Pointer : Posted(p)' => Posted(p)
  BY DEF Posted, SubstrateOf
<1>3. \A p \in Pointer : Failed(p)' => Failed(p)
  <2>1. \A p, b : Notify(p, b)' = Notify(p, b)
    BY DEF Notify
  <2> QED
    BY <2>1, AmongTasks DEF Failed, Among, Notify
<1>4. \A p \in Pointer : Doomed(p)' => Doomed(p)
  BY DEF Doomed
<1> QED
  BY <1>1, <1>2, <1>3, <1>4, OrderedQuiet

\* Nor is anything changed where no instance is touched.
LEMMA SameSteady ==
  ASSUME UNCHANGED inst
  PROVE  InstancesSteady /\ \A k \in Key : Exists(k)' <=> Exists(k)
BY DEF InstancesSteady, Exists

\* What TakeNotify, AnswerCallback and ReuseInstance do to the instances.
LEMMA SteadyTakeNotify ==
  ASSUME Typed, TakeNotify
  PROVE  /\ InstancesSteady /\ \A k \in Key : Exists(k)' <=> Exists(k)
         /\ Head(tasks).inst \in Pointer /\ Alive(Head(tasks).inst)
         /\ ~inst'[Head(tasks).inst.key].single
<1> DEFINE p == Head(tasks).inst
           new == [inst[p.key] EXCEPT !.single = FALSE]
<1>1. TypeOK /\ p \in Pointer /\ Alive(p)
  BY NextTaskType DEF TakeNotify, Typed
<1>2. inst[p.key] \in Instance /\ inst' = [inst EXCEPT ![p.key] = new]
  BY <1>1, AlivePointer DEF TakeNotify
<1>3. /\ new \in Instance /\ new.gen = inst[p.key].gen /\ new.inputs = inst[p.key].inputs
      /\ new.product = inst[p.key].product /\ new.taken = inst[p.key].taken /\ ~new.single
  BY <1>2 DEF Instance
<1> HIDE DEF new, p
<1>4. inst'[p.key] = new
  BY <1>1, <1>2, <1>3, Renew
<1> QED
  BY <1>1, <1>2, <1>3, <1>4, RenewSteady DEF p

\* AnswerCallback takes the callback of an instance,
LEMMA SteadyAnswerCallback ==
  ASSUME Typed, AnswerCallback
  PROVE  InstancesSteady /\ \A k \in Key : Exists(k)' <=> Exists(k)
<1> DEFINE new == [inst[current.key] EXCEPT !.callback = None]
<1>1. TypeOK /\ current \in Pointer /\ Alive(current)
  BY DEF AnswerCallback, Typed, CurrentPlaced
<1>2. inst[current.key] \in Instance /\ inst' = [inst EXCEPT ![current.key] = new]
  BY <1>1, AlivePointer DEF AnswerCallback
<1>3. /\ new \in Instance /\ new.gen = inst[current.key].gen
      /\ new.inputs = inst[current.key].inputs /\ new.product = inst[current.key].product
      /\ new.taken = inst[current.key].taken /\ new.single = inst[current.key].single
  BY <1>2 DEF Instance
<1> HIDE DEF new
<1> QED
  BY <1>1, <1>2, <1>3, RenewSteady

\* and ReuseInstance gives it one, and an output.
LEMMA SteadyReuseInstance ==
  ASSUME Typed, ReuseInstance
  PROVE  InstancesSteady /\ \A k \in Key : Exists(k)' <=> Exists(k)
BY ReuseLinks DEF InstancesSteady

\* Killing takes an instance away, and leaves the others as they were.
LEMMA SteadyKillNext ==
  ASSUME Typed, KillNext
  PROVE  InstancesSteady
<1>1. CASE Alive(Head(todo))
  <2>1. \A k \in Key : inst'[k] = None \/ inst'[k] = inst[k]
    BY <1>1 DEF KillNext, Typed, TypeOK
  <2> QED
    BY <2>1 DEF InstancesSteady, Exists
<1>2. CASE ~Alive(Head(todo))
  BY <1>2, SameSteady DEF KillNext
<1> QED
  BY <1>1, <1>2

\* Sweeping also uses up the indulgence of those that stay.
LEMMA SteadyEndBatch ==
  ASSUME Typed, Graph, EndBatch
  PROVE  InstancesSteady
BY GraphEndBatch DEF InstancesSteady, InstancesAlike

\* The steps of the maintainer, and of those outside, that post and give up nothing.
LEMMA OrderedEasyStep ==
  ASSUME Typed, Graph, Ordered,
         \/ \E r \in Request : GetFrame(r)
         \/ TakeConstruct \/ TakeStaleNotify \/ ReuseInstance \/ OpenInstance
         \/ AnswerCallback \/ EndKill \/ EndTask \/ InvokeCallback \/ UNCHANGED vars
  PROVE  Ordered'
<1>1. InstancesSteady /\ \A k \in Key : Exists(k)' <=> Exists(k)
  <2>1. UNCHANGED inst \/ ReuseInstance \/ AnswerCallback
    BY DEF GetFrame, TakeConstruct, TakeStaleNotify, OpenInstance, EndKill, EndTask, InvokeCallback,
       vars, maintainerVars
  <2> QED
    BY <2>1, SameSteady, SteadyReuseInstance, SteadyAnswerCallback
<1>2. UNCHANGED <<worker, work, waiting>>
  BY DEF GetFrame, TakeConstruct, TakeStaleNotify, ReuseInstance, OpenInstance, AnswerCallback,
     EndKill, EndTask, InvokeCallback, vars, maintainerVars, workerVars
<1>3. NextTask \/ (\E r \in Request : GetFrame(r)) \/ UNCHANGED tasks
  BY DEF TakeConstruct, TakeStaleNotify, ReuseInstance, OpenInstance, AnswerCallback,
     EndKill, EndTask, InvokeCallback, vars, maintainerVars, workerVars
<1>4. mpc' = "kill" => UNCHANGED <<mpc, todo>>
  <2>1. CASE ReuseInstance
    <3>1. mpc' = mpc \/ mpc' = "neck"
      BY <2>1 DEF ReuseInstance, Return
    <3> QED
      BY <2>1, <3>1 DEF ReuseInstance
  <2> QED
    BY <2>1 DEF GetFrame, TakeConstruct, TakeStaleNotify, OpenInstance, AnswerCallback,
       EndKill, EndTask, InvokeCallback, vars, maintainerVars, workerVars
<1> QED
  BY <1>1, <1>2, <1>3, <1>4, OrderedMaintainer

\* The maintainer takes a report, and the instance's neck is released.
LEMMA OrderedTakeNotify ==
  ASSUME Typed, Ordered, TakeNotify
  PROVE  Ordered'
<1>1. InstancesSteady /\ \A k \in Key : Exists(k)' <=> Exists(k)
  BY SteadyTakeNotify
<1>2. PICK p \in Pointer : p = Head(tasks).inst /\ Alive(p) /\ ~inst'[p.key].single
  BY SteadyTakeNotify
<1>3. NextTask /\ UNCHANGED <<worker, work>> /\ Head(tasks).kind = "notify" /\ TypeOK
  BY DEF TakeNotify, workerVars, Typed
<1>4. \A w \in Worker : \A q \in Pointer : Computing(w, q)' => Computing(w, q)
  BY <1>3 DEF Computing
<1>5. \A q \in Pointer : Posted(q)' => Posted(q)
  <2>1. \A s \in Substrate : waiting'[s] \subseteq waiting[s]
    BY <1>3 DEF TakeNotify, ReleaseNeck, TypeOK
  <2>2. \A q \in Pointer : SubstrateOf(q) \in Substrate
    BY KeyParts DEF Pointer, SubstrateOf
  <2> QED
    BY <1>3, <2>1, <2>2 DEF Posted, SubstrateOf
<1>6. \A q \in Pointer : Failed(q)' => Failed(q)
  BY <1>3, AmongTasks DEF Failed, Notify
<1>7. ASSUME NEW q \in Pointer, Doomed(q)' PROVE Failed(q) /\ ~inst'[q.key].single
  <2>1. Head(tasks).exc /\ todo' = <<p>>
    BY <1>2, <1>7 DEF TakeNotify, Doomed
  <2>2. q = p
    BY <1>7, <2>1 DEF Doomed, Among
  <2>3. Head(tasks) = Notify(p, TRUE)
    <3>1. Head(tasks) \in Tasks
      BY <1>3, TailShape DEF NextTask, TypeOK
    <3> QED
      BY <3>1, <1>2, <1>3, <2>1 DEF Tasks, Notify
  <2>4. Among(Head(tasks), tasks)
    BY <1>3, NextTaskType DEF Among
  <2> QED
    BY <1>2, <2>2, <2>3, <2>4 DEF Failed
<1> QED
  BY <1>1, <1>4, <1>5, <1>6, <1>7, OrderedQuiet

\* What is posted once post_work has posted p.
LEMMA PostWorkPosted ==
  ASSUME TypeOK, NEW p \in Pointer, NEW single \in BOOLEAN, PostWork(p, single), UNCHANGED worker
  PROVE  \A q \in Pointer : Posted(q)' <=> Posted(q) \/ q = p
<1>1. /\ work \in [Pointer -> Nat] /\ waiting \in [Substrate -> SUBSET Pointer]
      /\ \A q \in Pointer : SubstrateOf(q) \in Substrate
  BY KeyParts DEF TypeOK, Pointer, SubstrateOf
<1>2. CASE single
  <2>1. waiting' = [waiting EXCEPT ![SubstrateOf(p)] = @ \cup {p}] /\ work' = work
    BY <1>2 DEF PostWork
  <2>2. \A q \in Pointer : q \in waiting'[SubstrateOf(q)] <=> q \in waiting[SubstrateOf(q)] \/ q = p
    BY <1>1, <2>1
  <2> QED
    BY <2>1, <2>2 DEF Posted, SubstrateOf
<1>3. CASE ~single
  <2>1. work' = [work EXCEPT ![p] = @ + 1] /\ waiting' = waiting
    BY <1>3 DEF PostWork
  <2>2. \A q \in Pointer : work'[q] > 0 <=> work[q] > 0 \/ q = p
    BY <1>1, <2>1
  <2> QED
    BY <2>1, <2>2 DEF Posted, SubstrateOf
<1> QED
  BY <1>2, <1>3

\* check_all_inputs_ready says of an instance what ReadyAt says.
LEMMA ReadyInputs ==
  ASSUME TypeOK, NEW p \in Pointer, Alive(p)
  PROVE  Ready(inst[p.key].inputs) <=> ReadyAt(p)
<1>1. inst[p.key].inputs \in SUBSET Pointer
  BY AlivePointer DEF Instance
<1> QED
  BY <1>1 DEF Ready, ReadyAt, Input

\* An output is posted only when its inputs are ready.
LEMMA OrderedLookAtOutput ==
  ASSUME Typed, Ordered, LookAtOutput
  PROVE  Ordered'
<1>1. TypeOK /\ UNCHANGED <<inst, worker, tasks, mpc>> /\ mpc = "outputs"
  BY DEF LookAtOutput, Typed, workerVars
<1>2. InstancesSteady /\ \A k \in Key : Exists(k)' <=> Exists(k)
  BY <1>1, SameSteady
<1>3. PICK p \in Pointer : p = Head(todo)
  BY <1>1, TailShape DEF LookAtOutput, TypeOK
<1>4. ASSUME NEW q \in Pointer, Posted(q)' PROVE Posted(q) \/ ReadyAt(q)
  <2>1. CASE Alive(p) /\ ~inst[p.key].product /\ Ready(inst[p.key].inputs)
    <3>1. PostWork(p, inst[p.key].single) /\ inst[p.key].single \in BOOLEAN
      BY <1>1, <1>3, <2>1, AlivePointer DEF LookAtOutput, Instance
    <3>2. Posted(q) \/ q = p
      BY <1>1, <1>4, <3>1, PostWorkPosted
    <3> QED
      BY <1>1, <2>1, <3>2, ReadyInputs
  <2>2. CASE ~(Alive(p) /\ ~inst[p.key].product /\ Ready(inst[p.key].inputs))
    <3>1. UNCHANGED <<work, waiting>>
      BY <1>3, <2>2 DEF LookAtOutput
    <3> QED
      BY <1>1, <1>4, <3>1 DEF Posted, SubstrateOf
  <2> QED
    BY <2>1, <2>2
<1>5. \A w \in Worker : \A q \in Pointer : Computing(w, q)' => Computing(w, q)
  BY <1>1 DEF Computing
<1>6. \A q \in Pointer : (Failed(q)' => Failed(q)) /\ (Doomed(q)' => Doomed(q))
  BY <1>1 DEF Failed, Notify, Doomed
<1> QED
  BY <1>2, <1>4, <1>5, <1>6, OrderedQuiet

\* What a neck lets out had been posted before.
LEMMA OrderedPostFromNeck ==
  ASSUME Typed, Orderly, Ordered, NEW s \in Single, NEW p \in waiting[s], PostFromNeck(s, p)
  PROVE  Ordered'
<1>1. /\ TypeOK /\ s \in Substrate /\ p \in Pointer /\ SubstrateOf(p) = s
      /\ UNCHANGED <<inst, worker, tasks, mpc, todo>>
  BY GraphAssumption DEF PostFromNeck, Typed, TypeOK, Orderly, NecksOwn, workerVars
<1>2. InstancesSteady /\ \A k \in Key : Exists(k)' <=> Exists(k)
  BY <1>1, SameSteady
<1>3. /\ work' = [work EXCEPT ![p] = @ + 1] /\ waiting' = [waiting EXCEPT ![s] = @ \ {p}]
      /\ work \in [Pointer -> Nat] /\ waiting \in [Substrate -> SUBSET Pointer]
  BY <1>1 DEF PostFromNeck, TypeOK
<1>4. \A q \in Pointer : work'[q] > 0 => work[q] > 0 \/ q = p
  BY <1>1, <1>3
<1>5. \A q \in Pointer : q \in waiting'[SubstrateOf(q)] => q \in waiting[SubstrateOf(q)]
  <2>1. \A q \in Pointer : SubstrateOf(q) \in Substrate
    BY KeyParts DEF Pointer, SubstrateOf
  <2> QED
    BY <2>1, <1>3
<1>6. Posted(p)
  BY <1>1 DEF Posted
<1>7. \A q \in Pointer : Posted(q)' => Posted(q)
  BY <1>1, <1>4, <1>5, <1>6 DEF Posted, SubstrateOf
<1>8. \A w \in Worker : \A q \in Pointer : Computing(w, q)' => Computing(w, q)
  BY <1>1 DEF Computing
<1>9. \A q \in Pointer : (Failed(q)' => Failed(q)) /\ (Doomed(q)' => Doomed(q))
  BY <1>1 DEF Failed, Notify, Doomed
<1> QED
  BY <1>2, <1>7, <1>8, <1>9, OrderedQuiet

\* What is given up is not being computed.
LEMMA DoomedIdle ==
  ASSUME Ordered, NEW p \in Pointer, Doomed(p), Alive(p)
  PROVE  Unfinished(p) /\ ~Finished(p) /\ \A w \in Worker : ~Computing(w, p)
<1>1. Unfinished(p) /\ (Bereft(p) \/ \A w \in Worker : ~Computing(w, p))
  BY DEF Ordered, DoomedApart
<1>2. Bereft(p) => \A w \in Worker : ~Computing(w, p)
  BY <1>1 DEF Ordered, PostedReady, Bereft, ReadyAt, Finished
<1> QED
  BY <1>1, <1>2 DEF Unfinished, Finished

\* What KillNext does: at most the first of the instances to be killed goes, and
\* its outputs take its place.
LEMMA KillView ==
  ASSUME Typed, KillNext, NEW p \in Pointer, p = Head(todo)
  PROVE  /\ mpc = "kill" /\ Doomed(p) /\ UNCHANGED <<mpc, worker, work, waiting, tasks>>
         /\ \A q \in Pointer : Alive(q)' <=> Alive(q) /\ q # p
         /\ \A q \in Pointer : Doomed(q)' => Doomed(q) \/ Output(p, q)
         /\ \A q \in Pointer : Doomed(q) => Doomed(q)' \/ q = p
         /\ \A q \in Pointer : Output(p, q) => Doomed(q)'
<1>1. TypeOK /\ todo \in Seq(Pointer) /\ todo # <<>> /\ mpc = "kill" /\ mpc' = mpc
      /\ UNCHANGED <<worker, work, waiting, tasks>>
  BY DEF KillNext, Typed, TypeOK, workerVars
<1>2. \A q : Among(q, todo) <=> q = p \/ Among(q, Tail(todo))
  BY <1>1, AmongTail
<1>3. Tail(todo) \in Seq(Pointer)
  BY <1>1, TailShape
<1>4. CASE Alive(p)
  <2>1. inst' = [inst EXCEPT ![p.key] = None] /\ todo' = inst[p.key].outputs \o Tail(todo)
    BY <1>4 DEF KillNext
  <2>2. p.key \in Key /\ inst[p.key].outputs \in Seq(Pointer)
    BY <1>1, <1>4, AlivePointer DEF Instance
  <2>3. \A q \in Pointer : Among(q, todo') <=> Output(p, q) \/ Among(q, Tail(todo))
    <3> DEFINE s == inst[p.key].outputs
               t == Tail(todo)
    <3>1. s \in Seq(Pointer) /\ t \in Seq(Pointer) /\ todo' = s \o t
      BY <1>3, <2>1, <2>2
    <3>2. \A q : Output(p, q) <=> Among(q, s)
      BY <1>4 DEF Output
    <3> HIDE DEF s, t
    <3>3. \A q : Among(q, s \o t) <=> Among(q, s) \/ Among(q, t)
      BY <3>1, AmongBoth
    <3> QED
      BY <3>1, <3>2, <3>3 DEF t
  <2>4. ASSUME NEW q \in Pointer PROVE Alive(q)' <=> Alive(q) /\ q # p
    <3>1. q.key \in Key
      BY DEF Pointer
    <3>2. CASE q.key = p.key
      <4>1. ~Alive(q)'
        BY <1>1, <2>1, <2>2, <3>2 DEF Alive, Exists, TypeOK
      <4>2. Alive(q) => q = p
        BY <1>1, <1>4, <3>2, AlivePointer
      <4> QED
        BY <4>1, <4>2
    <3>3. CASE q.key # p.key
      <4>1. inst'[q.key] = inst[q.key]
        BY <1>1, <2>1, <3>1, <3>3 DEF TypeOK
      <4> QED
        BY <3>3, <4>1 DEF Alive, Exists
    <3> QED
      BY <3>2, <3>3
  <2> QED
    BY <1>1, <1>2, <2>3, <2>4 DEF Doomed
<1>5. CASE ~Alive(p)
  <2>1. inst' = inst /\ todo' = Tail(todo)
    BY <1>5 DEF KillNext
  <2>2. \A q \in Pointer : Alive(q)' <=> Alive(q) /\ q # p
    BY <1>5, <2>1 DEF Alive, Exists
  <2>3. \A q : ~Output(p, q)
    BY <1>5 DEF Output
  <2> QED
    BY <1>1, <1>2, <2>1, <2>2, <2>3 DEF Doomed
<1> QED
  BY <1>4, <1>5

\* The outputs of what is killed have lost an input.
LEMMA OrderedKillNext ==
  ASSUME Typed, Graph, Ordered, KillNext
  PROVE  Ordered'
<1>1. PICK p \in Pointer : p = Head(todo)
  BY TailShape DEF KillNext, Typed, TypeOK
<1>2. /\ Doomed(p) /\ UNCHANGED <<worker, work, waiting, tasks>>
      /\ \A q \in Pointer : Alive(q)' <=> Alive(q) /\ q # p
      /\ \A q \in Pointer : Doomed(q)' => Doomed(q) \/ Output(p, q)
  BY <1>1, KillView
<1>3. InstancesSteady
  BY SteadyKillNext
<1>4. \A q, r \in Pointer : Alive(r)' /\ Unfinished(r) /\ Input(q, r) /\ Finished(q) => Alive(q)'
  <2>1. ~Finished(p)
    BY <1>2, DoomedIdle DEF Finished
  <2> QED
    BY <1>2, <2>1 DEF Finished
<1>5. \A w \in Worker : \A q \in Pointer : Computing(w, q)' => Computing(w, q)
  BY <1>2 DEF Computing
<1>6. \A w \in Worker : \A q \in Pointer : Computing(w, q)' => Alive(q)'
  BY <1>2, <1>5, DoomedIdle DEF Ordered, ComputedOnce, Unfinished
<1>7. \A q \in Pointer : (Posted(q)' => Posted(q)) /\ (Failed(q)' => Failed(q))
  BY <1>2 DEF Posted, Failed, Notify, SubstrateOf
<1>8. ASSUME NEW q \in Pointer, Output(p, q), Alive(q)'
      PROVE  Unfinished(q) /\ Bereft(q)'
  <2>1. Alive(p) /\ Alive(q) /\ ~Alive(p)'
    BY <1>2, <1>8 DEF Output
  <2>2. Input(p, q)
    BY <1>8, <2>1 DEF Graph, Linked
  <2>3. ~Finished(p)
    BY <1>2, <2>1, DoomedIdle
  <2>4. Unfinished(q)
    BY <2>1, <2>2, <2>3 DEF Ordered, ProductsOrdered, Unfinished, Finished
  <2>5. Input(p, q)'
    BY <1>3, <1>8, <2>2, StandsSteady
  <2> QED
    BY <2>1, <2>4, <2>5 DEF Bereft
<1> QED
  BY <1>2, <1>3, <1>4, <1>5, <1>6, <1>7, <1>8, OrderedKeep

\* What is swept is finished, and no unfinished instance has it as an input.
LEMMA OrderedEndBatch ==
  ASSUME Typed, Graph, Ordered, EndBatch
  PROVE  Ordered'
<1>1. InstancesSteady
  BY SteadyEndBatch
<1>2. /\ UNCHANGED <<worker, work, waiting, tasks>> /\ mpc' = "waiting"
  BY DEF EndBatch, workerVars
<1>3. ASSUME NEW q \in Pointer, Alive(q), ~Alive(q)'
      PROVE  Finished(q) /\ \A r \in Pointer : Output(q, r) => ~Unfinished(r)
  <2>1. q.key \in Key /\ Exists(q.key) /\ ~Exists(q.key)'
    BY <1>1, <1>3 DEF Pointer, Alive, InstancesSteady
  <2>2. Evictable(q.key)
    BY <2>1, GraphEndBatch
  <2> QED
    BY <1>3, <2>2 DEF Evictable, Finished, Output, Among, Unfinished
<1>4. ASSUME NEW q \in Pointer, NEW r \in Pointer, Alive(r)', Unfinished(r), Input(q, r), Finished(q)
      PROVE  Alive(q)'
  <2>1. Output(q, r)
    BY <1>4 DEF Graph, Linked, Unfinished, Finished
  <2> QED
    BY <1>3, <1>4, <2>1 DEF Finished
<1>5. \A w \in Worker : \A q \in Pointer : Computing(w, q)' => Computing(w, q)
  BY <1>2 DEF Computing
<1>6. \A w \in Worker : \A q \in Pointer : Computing(w, q)' => Alive(q)'
  BY <1>3, <1>5 DEF Ordered, ComputedOnce, Unfinished, Finished
<1>7. \A q \in Pointer : (Posted(q)' => Posted(q)) /\ (Failed(q)' => Failed(q)) /\ ~Doomed(q)'
  BY <1>2 DEF Posted, Failed, Notify, SubstrateOf, Doomed
<1> QED
  BY <1>1, <1>4, <1>5, <1>6, <1>7, OrderedKeep

\* How everything stands once CloseInstance has brought p to life: p alone is
\* new, and it is posted if its inputs are ready.
LEMMA CloseStands ==
  ASSUME Typed, Orderly, Graph, CloseInstance, NEW p \in Pointer, p = PointerOf(stack[1])
  PROVE  /\ ~Alive(p) /\ ~Posted(p) /\ ~Failed(p) /\ \A w \in Worker : ~Computing(w, p)
         /\ UNCHANGED <<worker, tasks, current>> /\ mpc = "construct" /\ mpc' # "kill" /\ mpc' # "outputs"
         /\ \A q \in Pointer :
              /\ Finished(q)' <=> Finished(q)
              /\ Unfinished(q)' <=> Unfinished(q) \/ q = p
              /\ Taken(q)' <=> Taken(q)
              /\ Posted(q)' <=> Posted(q) \/ (q = p /\ ReadyAt(p)')
              /\ Failed(q)' <=> Failed(q)
              /\ ~Doomed(q) /\ ~Doomed(q)'
              /\ q # p => (ReadyAt(q)' <=> ReadyAt(q))
              /\ ~Input(p, q) /\ ~Input(p, q)'
              /\ \A w \in Worker : Computing(w, q)' <=> Computing(w, q)
<1>1. /\ stack[1].open /\ p.key = stack[1].key /\ ~Circulating(p) /\ ~Exists(p.key)
      /\ \A q \in Pointer : Alive(q)' <=> Alive(q) \/ q = p
      /\ ~inst'[p.key].product /\ ~inst'[p.key].taken
      /\ \A q \in Pointer : Alive(q) =>
           /\ q.key # p.key /\ inst'[q.key].product = inst[q.key].product
           /\ inst'[q.key].taken = inst[q.key].taken
      /\ \A q \in Pointer :
           /\ Input(q, p)' <=> Output(q, p) \/ q \in Before(p)
           /\ Input(q, p)' => Alive(q)
      /\ \A q \in stack[1].inputs \cup Before(p) : q \in Pointer /\ Alive(q) /\ Input(q, p)'
      /\ \A q, r \in Pointer : r # p => (Input(q, r)' <=> Input(q, r))
  BY CloseView
<1>2. /\ TypeOK /\ mpc = "construct" /\ Head(stack) = stack[1] /\ stack[1].key \in Key
      /\ 1 \in 1 .. Len(stack) /\ UNCHANGED <<worker, tasks, current>>
  BY CallParts DEF CloseInstance, Typed, workerVars
<1>3. mpc' = "construct" \/ mpc' = "neck"
  BY <1>2 DEF CloseInstance, Return
<1>4. SubstrateOf(p) \in Substrate
  BY KeyParts DEF Pointer, SubstrateOf
<1>5. ~Alive(p) /\ ~Posted(p) /\ ~Failed(p) /\ \A w \in Worker : ~Computing(w, p)
  <2>1. ~Failed(p)
    <3>1. \A i \in 1 .. Len(tasks) : ~Reports(i, p)
      BY <1>1 DEF Circulating
    <3>2. Notify(p, TRUE).kind = "notify" /\ Notify(p, TRUE).inst = p
      BY DEF Notify
    <3> QED
      BY <3>1, <3>2 DEF Failed, Among, Reports
  <2>2. work[p] = 0
    BY <1>1, <1>2 DEF Circulating, TypeOK
  <2> QED
    BY <1>1, <1>4, <2>1, <2>2 DEF Circulating, Posted, Computing, At
<1>6. \A q \in Pointer :
        /\ Finished(q)' <=> Finished(q)
        /\ Unfinished(q)' <=> Unfinished(q) \/ q = p
        /\ Taken(q)' <=> Taken(q)
  BY <1>1, <1>5 DEF Finished, Unfinished, Taken
<1>7. \A q \in Pointer : ~Input(p, q) /\ ~Input(p, q)'
  <2>1. IsOpen(p)
    BY <1>1, <1>2 DEF IsOpen
  <2>2. \A q \in Pointer : ~Input(p, q)
    BY <2>1 DEF Graph, Known
  <2> QED
    BY <1>1, <1>5, <2>2
<1>8. \A q \in Pointer : q # p => (ReadyAt(q)' <=> ReadyAt(q))
  BY <1>1, <1>6 DEF ReadyAt
<1>9. ReadyAt(p)' <=> Ready(stack[1].inputs \cup Before(p))
  <2>1. stack[1].inputs \in SUBSET Pointer /\ \A q \in Pointer : q \in stack[1].inputs <=> Output(q, p)
    BY <1>1, <1>2, CallTypes DEF Graph, CallsRight, CallRight
  <2>2. \A q \in Pointer : Input(q, p)' <=> q \in stack[1].inputs \cup Before(p)
    BY <1>1, <2>1
  <2> QED
    BY <1>1, <1>6, <2>2 DEF ReadyAt, Ready
<1>10. \A q \in Pointer : Posted(q)' <=> Posted(q) \/ (q = p /\ ReadyAt(p)')
  <2>1. stack[1].inputs \cup {PointerTo(j) : j \in Previous(p.key)} = stack[1].inputs \cup Before(p)
    BY DEF Before
  <2>2. CASE ReadyAt(p)'
    <3>1. PostWork(p, p.key[1] \in Single)
      BY <1>1, <1>2, <1>9, <2>1, <2>2 DEF CloseInstance
    <3>2. PICK single \in BOOLEAN : PostWork(p, single)
      BY <3>1 DEF PostWork
    <3> QED
      BY <1>2, <2>2, <3>2, PostWorkPosted
  <2>3. CASE ~ReadyAt(p)'
    <3>1. UNCHANGED <<work, waiting>>
      BY <1>1, <1>2, <1>9, <2>1, <2>3 DEF CloseInstance
    <3> QED
      BY <1>2, <2>3, <3>1 DEF Posted, SubstrateOf
  <2> QED
    BY <2>2, <2>3
<1>11. \A q \in Pointer : /\ Failed(q)' <=> Failed(q)
                          /\ ~Doomed(q) /\ ~Doomed(q)'
                          /\ \A w \in Worker : Computing(w, q)' <=> Computing(w, q)
  BY <1>2, <1>3 DEF Failed, Notify, Doomed, Computing
<1> QED
  BY <1>2, <1>3, <1>5, <1>6, <1>7, <1>8, <1>10, <1>11

\* The new instance is posted only if its inputs are ready.
LEMMA OrderedCloseInstance ==
  ASSUME Typed, Orderly, Graph, Ordered, CloseInstance
  PROVE  Ordered'
<1>1. PICK p \in Pointer : p = PointerOf(stack[1])
  BY CallParts DEF CloseInstance
<1>2. /\ ~Alive(p) /\ ~Posted(p) /\ ~Failed(p) /\ \A w \in Worker : ~Computing(w, p)
      /\ \A q \in Pointer :
           /\ Finished(q)' <=> Finished(q)
           /\ Unfinished(q)' <=> Unfinished(q) \/ q = p
           /\ Taken(q)' <=> Taken(q)
           /\ Posted(q)' <=> Posted(q) \/ (q = p /\ ReadyAt(p)')
           /\ Failed(q)' <=> Failed(q)
           /\ ~Doomed(q) /\ ~Doomed(q)'
           /\ q # p => (ReadyAt(q)' <=> ReadyAt(q))
           /\ ~Input(p, q) /\ ~Input(p, q)'
           /\ \A w \in Worker : Computing(w, q)' <=> Computing(w, q)
  BY <1>1, CloseStands
<1>3. /\ \A q \in Pointer : Alive(q)' <=> Alive(q) \/ q = p
      /\ \A q \in Pointer : Input(q, p)' => Alive(q)
      /\ \A q, r \in Pointer : r # p => (Input(q, r)' <=> Input(q, r))
  BY <1>1, CloseView
<1>4. ComputedOnce'
  BY <1>2 DEF Ordered, ComputedOnce
<1>5. FailedOnce'
  BY <1>2, <1>3 DEF Ordered, FailedOnce
<1>6. PostedReady'
  BY <1>2 DEF Ordered, PostedReady
<1>7. ProductsOrdered'
  <2>1. ASSUME NEW q \in Pointer, NEW r \in Pointer, Finished(r)', Input(q, r)', Alive(q)'
        PROVE  Finished(q)'
    <3>1. r # p /\ q # p
      BY <1>2, <2>1 DEF Finished
    <3> QED
      BY <1>2, <1>3, <2>1, <3>1 DEF Ordered, ProductsOrdered
  <2> QED
    BY <2>1 DEF ProductsOrdered
<1>8. FinishedTaken'
  BY <1>2 DEF Ordered, FinishedTaken
<1>9. DoomedApart'
  BY <1>2 DEF DoomedApart
<1> QED
  BY <1>4, <1>5, <1>6, <1>7, <1>8, <1>9 DEF Ordered

\* Whatever anyone does.
LEMMA OrderedNext == Typed /\ Orderly /\ Graph /\ Ordered /\ [Next]_vars => Ordered'
<1> SUFFICES ASSUME Typed, Orderly, Graph, Ordered, [Next]_vars PROVE Ordered'
  OBVIOUS
<1>1. CASE \/ \E r \in Request : GetFrame(r)
           \/ TakeConstruct \/ TakeStaleNotify \/ ReuseInstance \/ OpenInstance
           \/ AnswerCallback \/ EndKill \/ EndTask \/ InvokeCallback \/ UNCHANGED vars
  BY <1>1, OrderedEasyStep
<1>2. CASE TakeNotify
  BY <1>2, OrderedTakeNotify
<1>3. CASE CloseInstance
  BY <1>3, OrderedCloseInstance
<1>4. CASE LookAtOutput
  BY <1>4, OrderedLookAtOutput
<1>5. CASE KillNext
  BY <1>5, OrderedKillNext
<1>6. ASSUME NEW s \in Single, NEW p \in waiting[s], PostFromNeck(s, p) PROVE Ordered'
  BY <1>6, OrderedPostFromNeck
<1>7. CASE EndBatch
  BY <1>7, OrderedEndBatch
<1>8. ASSUME NEW w \in Worker, WorkerStep(w) PROVE Ordered'
  BY <1>8, OrderedWorkerStep
<1> QED
  BY <1>1, <1>2, <1>3, <1>4, <1>5, <1>6, <1>7, <1>8 DEF Next, Maintainer

\* Nothing has begun.
LEMMA OrderedInit == Init => Ordered
<1> SUFFICES ASSUME Init PROVE Ordered
  OBVIOUS
<1>1. \A p \in Pointer : ~Alive(p)
  BY DEF Init, Alive, Exists, Pointer
<1> QED
  BY <1>1 DEF Init, Ordered, ComputedOnce, FailedOnce, PostedReady, ProductsOrdered, FinishedTaken,
     DoomedApart, Computing, Unfinished, Finished, Doomed

\* The invariant of every run.
LEMMA OrderedAlways == Spec => [](Typed /\ Orderly /\ Graph /\ Ordered)
<1>1. Init => Typed /\ Orderly /\ Graph /\ Ordered
  BY TypedInit, OrderlyInit, GraphInit, OrderedInit
<1>2. Typed /\ Orderly /\ Graph /\ Ordered /\ [Next]_vars => (Typed /\ Orderly /\ Graph /\ Ordered)'
  BY TypedNext, OrderlyNext, GraphNext, OrderedNext
<1> QED
  BY <1>1, <1>2, PTL DEF Spec

\* Who computes a frame computes it alone and with its inputs.
LEMMA InputsFromOrder == Typed /\ Ordered => InputsReady
<1> SUFFICES ASSUME Typed, Ordered, NEW w \in Worker, Running(w)
             PROVE  /\ Alive(At(w)) /\ ~inst[At(w).key].product
                    /\ \A i \in inst[At(w).key].inputs : Finished(i)
                    /\ \A v \in Worker \ {w} : Running(v) => At(v) # At(w)
  BY DEF InputsReady
<1>1. At(w) \in Pointer /\ TypeOK
  BY DEF Typed, WorkersPlaced, Running, WorkerAt
<1>2. Computing(w, At(w))
  BY DEF Computing, Running, WorkerAt, At
<1>3. Unfinished(At(w)) /\ \A v \in Worker : Computing(v, At(w)) => v = w
  BY <1>1, <1>2 DEF Ordered, ComputedOnce
<1>4. Ready(inst[At(w).key].inputs)
  BY <1>1, <1>2, <1>3, ReadyInputs DEF Ordered, PostedReady, Unfinished
<1> QED
  BY <1>3, <1>4 DEF Unfinished, Ready, Computing, Running, WorkerAt, At

\* A worker computes a frame alone, for the first time, and with every input
\* there and finished, whatever graph the filters make and however often
\* post_work was called for it.
THEOREM InputsThere == Spec => []InputsReady
BY OrderedAlways, InputsFromOrder, PTL

-----------------------------------------------------------------------------
(* the frames of single-threaded filters *)

\* What a step of worker w does, p being the frame it is about: from one place
\* to the next, with what changes on the way.
Moves ==
  {<<"idle", "popped">>, <<"popped", "idle">>, <<"popped", "taken">>, <<"popped", "run">>,
   <<"taken", "run">>, <<"taken", "repost">>, <<"repost", "idle">>, <<"run", "idle">>,
   <<"run", "unlock">>, <<"run", "stored">>, <<"stored", "idle">>, <<"stored", "unlock">>,
   <<"unlock", "idle">>}
MoveOf(w, p) ==
  LET from == worker[w].pc
      to   == worker'[w].pc
  IN
  /\ <<from, to>> \in Moves
  /\ from # "idle" => worker[w].at = p
  /\ to \notin {"idle", "unlock"} => worker'[w].at = p
  /\ from = "popped" /\ to = "idle" => ~Alive(p) \/ Taken(p)
  /\ from = "repost" => work'[p] > 0
  /\ from = "idle" => work[p] > 0
  /\ \A v \in Worker : v # w => worker'[v] = worker[v]
  /\ UNCHANGED <<waiting, mpc, todo, current>>
  /\ \A q \in Pointer :
       /\ Alive(q)' <=> Alive(q)
       /\ \A r : Input(r, q)' <=> Input(r, q)
       /\ Alive(q) => inst'[q.key].single = inst[q.key].single
       /\ Finished(q)' <=> Finished(q) \/ (to = "stored" /\ q = p)
       /\ Unfinished(q)' <=> Unfinished(q) /\ ~(to = "stored" /\ q = p)
       /\ Taken(q)' <=> \/ Taken(q) /\ ~(to = "repost" /\ q = p)
                        \/ from = "popped" /\ to # "idle" /\ q = p
       /\ work[q] > 0 => work'[q] > 0 \/ (from = "idle" /\ q = p)
       /\ work'[q] > 0 => work[q] > 0 \/ (from = "repost" /\ q = p)
       /\ Failed(q)' <=> Failed(q) \/ (from = "run" /\ to # "stored" /\ q = p)
       /\ Among(Notify(q, FALSE), tasks') <=> Among(Notify(q, FALSE), tasks) \/ (from = "stored" /\ q = p)

\* An instance is taken, or given back, or its product is stored; otherwise as it was.
LEMMA MoveTaken ==
  ASSUME TypeOK, NEW p \in Pointer, Alive(p), NEW b \in BOOLEAN,
         inst' = [inst EXCEPT ![p.key].taken = b]
  PROVE  \A q \in Pointer :
           /\ Alive(q)' <=> Alive(q)
           /\ \A r : Input(r, q)' <=> Input(r, q)
           /\ Alive(q) => inst'[q.key].single = inst[q.key].single
           /\ Finished(q)' <=> Finished(q)
           /\ Unfinished(q)' <=> Unfinished(q)
           /\ Taken(q)' <=> IF q = p THEN b ELSE Taken(q)
<1> DEFINE new == [inst[p.key] EXCEPT !.taken = b]
<1>1. inst[p.key] \in Instance
  BY AlivePointer
<1>2. /\ new \in Instance /\ new.gen = inst[p.key].gen /\ new.inputs = inst[p.key].inputs
      /\ new.single = inst[p.key].single /\ (new.taken <=> b) /\ new.product = inst[p.key].product
  BY <1>1 DEF Instance
<1>3. inst' = [inst EXCEPT ![p.key] = new]
  OBVIOUS
<1> HIDE DEF new
<1>4. /\ \A q \in Pointer :
            /\ Alive(q)' <=> Alive(q)
            /\ \A r : Input(r, q)' <=> Input(r, q)
            /\ Alive(q) => inst'[q.key].single = inst[q.key].single
            /\ q # p => /\ Finished(q)' <=> Finished(q)
                        /\ Unfinished(q)' <=> Unfinished(q)
                        /\ Taken(q)' <=> Taken(q)
      /\ (Finished(p)' <=> new.product) /\ (Unfinished(p)' <=> ~new.product)
      /\ (Taken(p)' <=> new.taken)
  BY <1>1, <1>2, <1>3, RenewView
<1>5. (Finished(p) <=> new.product) /\ (Unfinished(p) <=> ~new.product)
  BY <1>2 DEF Finished, Unfinished
<1> QED
  BY <1>2, <1>4, <1>5

\* Its product is stored.
LEMMA MoveStored ==
  ASSUME TypeOK, NEW p \in Pointer, Alive(p), inst' = [inst EXCEPT ![p.key].product = TRUE]
  PROVE  \A q \in Pointer :
           /\ Alive(q)' <=> Alive(q)
           /\ \A r : Input(r, q)' <=> Input(r, q)
           /\ Alive(q) => inst'[q.key].single = inst[q.key].single
           /\ Finished(q)' <=> Finished(q) \/ q = p
           /\ Unfinished(q)' <=> Unfinished(q) /\ q # p
           /\ Taken(q)' <=> Taken(q)
<1> DEFINE new == [inst[p.key] EXCEPT !.product = TRUE]
<1>1. inst[p.key] \in Instance
  BY AlivePointer
<1>2. /\ new \in Instance /\ new.gen = inst[p.key].gen /\ new.inputs = inst[p.key].inputs
      /\ new.single = inst[p.key].single /\ new.taken = inst[p.key].taken /\ new.product
  BY <1>1 DEF Instance
<1>3. inst' = [inst EXCEPT ![p.key] = new]
  OBVIOUS
<1> HIDE DEF new
<1>4. /\ \A q \in Pointer :
            /\ Alive(q)' <=> Alive(q)
            /\ \A r : Input(r, q)' <=> Input(r, q)
            /\ Alive(q) => inst'[q.key].single = inst[q.key].single
            /\ q # p => /\ Finished(q)' <=> Finished(q)
                        /\ Unfinished(q)' <=> Unfinished(q)
                        /\ Taken(q)' <=> Taken(q)
      /\ (Finished(p)' <=> new.product) /\ (Unfinished(p)' <=> ~new.product)
      /\ (Taken(p)' <=> new.taken)
  BY <1>1, <1>2, <1>3, RenewView
<1>5. Taken(p) <=> new.taken
  BY <1>2 DEF Taken
<1> QED
  BY <1>2, <1>4, <1>5

\* No instance changes.
LEMMA MoveSame ==
  ASSUME UNCHANGED inst
  PROVE  \A q \in Pointer :
           /\ Alive(q)' <=> Alive(q)
           /\ \A r : Input(r, q)' <=> Input(r, q)
           /\ Alive(q) => inst'[q.key].single = inst[q.key].single
           /\ Finished(q)' <=> Finished(q)
           /\ Unfinished(q)' <=> Unfinished(q)
           /\ Taken(q)' <=> Taken(q)
BY DEF Alive, Exists, Input, Finished, Unfinished, Taken

\* No report is made.
LEMMA MoveTasks ==
  ASSUME UNCHANGED tasks
  PROVE  \A q \in Pointer : /\ Failed(q)' <=> Failed(q)
                            /\ Among(Notify(q, FALSE), tasks') <=> Among(Notify(q, FALSE), tasks)
BY DEF Failed, Notify

\* Every step of a worker is such a move.
LEMMA WorkerMove ==
  ASSUME Typed, Ordered, NEW w \in Worker, WorkerStep(w)
  PROVE  \E p \in Pointer : MoveOf(w, p)
<1>1. /\ worker \in [Worker -> [pc : WorkerStates, at : Pointer \cup {None}, mode : Modes]]
      /\ work \in [Pointer -> Nat] /\ TypeOK
      /\ ~WorkerAt(w, "idle") => At(w) \in Pointer /\ At(w) = worker[w].at
  BY WorkerPointer DEF Typed, TypeOK
<1>2. UNCHANGED <<waiting, mpc, todo, current>>
  BY DEF WorkerStep, Pop, TestTaken, TryLock, LockBusy, Repost, Fail, StoreProduct, Succeed, Unlock,
     maintainerVars
<1>3. ASSUME NEW p \in Pointer, Pop(w, p) PROVE MoveOf(w, p)
  <2>1. /\ worker[w].pc = "idle" /\ UNCHANGED <<inst, tasks>> /\ work[p] > 0
        /\ worker' = [worker EXCEPT ![w] = [pc |-> "popped", at |-> p, mode |-> "none"]]
        /\ work' = [work EXCEPT ![p] = @ - 1]
    BY <1>3 DEF Pop, WorkerAt, maintainerVars
  <2>2. /\ worker'[w].pc = "popped" /\ worker'[w].at = p
        /\ \A v \in Worker : v # w => worker'[v] = worker[v]
    BY <1>1, <2>1
  <2>3. \A q \in Pointer : (work[q] > 0 => work'[q] > 0 \/ q = p) /\ (work'[q] > 0 => work[q] > 0)
    BY <1>1, <2>1
  <2> QED
    BY <1>2, <2>1, <2>2, <2>3, MoveSame, MoveTasks DEF MoveOf, Moves
<1>4. ASSUME TestTaken(w) PROVE MoveOf(w, At(w))
  <2>1. /\ worker[w].pc = "popped" /\ UNCHANGED <<tasks, work>> /\ At(w) \in Pointer
        /\ worker[w].at = At(w)
    BY <1>1, <1>4 DEF TestTaken, WorkerAt
  <2>2. CASE Alive(At(w)) /\ ~inst[At(w).key].taken
    <3>1. PICK to \in {"taken", "run"} : WorkerGoto(w, to) /\ inst' = [inst EXCEPT ![At(w).key].taken = TRUE]
      BY <1>4, <2>2 DEF TestTaken
    <3>2. to \in WorkerStates
      BY DEF WorkerStates
    <3>3. /\ worker'[w].pc = to /\ worker'[w].at = At(w)
          /\ \A v \in Worker : v # w => worker'[v] = worker[v]
      BY <1>1, <2>1, <3>1, <3>2, GotoShape
    <3>4. PICK p \in Pointer : p = At(w)
      BY <2>1
    <3>5. \A q \in Pointer :
            /\ Alive(q)' <=> Alive(q)
            /\ \A r : Input(r, q)' <=> Input(r, q)
            /\ Alive(q) => inst'[q.key].single = inst[q.key].single
            /\ Finished(q)' <=> Finished(q)
            /\ Unfinished(q)' <=> Unfinished(q)
            /\ Taken(q)' <=> Taken(q) \/ q = p
      <4>1. \A q \in Pointer :
              /\ Alive(q)' <=> Alive(q)
              /\ \A r : Input(r, q)' <=> Input(r, q)
              /\ Alive(q) => inst'[q.key].single = inst[q.key].single
              /\ Finished(q)' <=> Finished(q)
              /\ Unfinished(q)' <=> Unfinished(q)
              /\ Taken(q)' <=> IF q = p THEN TRUE ELSE Taken(q)
        BY <1>1, <2>2, <3>1, <3>4, MoveTaken
      <4> QED
        BY <4>1
    <3> QED
      BY <1>2, <2>1, <3>1, <3>3, <3>4, <3>5, MoveTasks DEF MoveOf, Moves
  <2>3. CASE ~(Alive(At(w)) /\ ~inst[At(w).key].taken)
    <3>1. WorkerRest(w) /\ UNCHANGED inst /\ (~Alive(At(w)) \/ Taken(At(w)))
      BY <1>4, <2>3 DEF TestTaken, Taken
    <3>2. worker'[w].pc = "idle" /\ \A v \in Worker : v # w => worker'[v] = worker[v]
      BY <1>1, <3>1, RestShape
    <3> QED
      BY <1>2, <2>1, <3>1, <3>2, MoveSame, MoveTasks DEF MoveOf, Moves
  <2> QED
    BY <2>2, <2>3
<1>5. ASSUME TryLock(w) PROVE MoveOf(w, At(w))
  <2>1. /\ worker[w].pc = "taken" /\ worker'[w].pc = "run" /\ worker'[w].at = worker[w].at
        /\ \A v \in Worker : v # w => worker'[v] = worker[v]
        /\ UNCHANGED <<inst, work, tasks>> /\ worker[w].at = At(w)
    BY <1>1, <1>5 DEF TryLock, WorkerAt, maintainerVars
  <2> QED
    BY <1>2, <2>1, MoveSame, MoveTasks DEF MoveOf, Moves
<1>6. ASSUME LockBusy(w) PROVE MoveOf(w, At(w))
  <2>1. PICK p \in Pointer :
          /\ p = At(w) /\ worker[w].pc = "taken" /\ worker[w].at = p
          /\ inst' = IF Alive(p) THEN [inst EXCEPT ![p.key].taken = FALSE] ELSE inst
          /\ WorkerGoto(w, "repost") /\ UNCHANGED <<tasks, work>>
    BY <1>6, WorkerPointer DEF LockBusy, WorkerAt, At
  <2>2. Computing(w, p) /\ Unfinished(p) /\ Alive(p)
    BY <2>1 DEF Ordered, ComputedOnce, Computing, Unfinished
  <2>3. /\ worker'[w].pc = "repost" /\ worker'[w].at = p
        /\ \A v \in Worker : v # w => worker'[v] = worker[v]
    BY <2>1, GotoShape DEF Typed, WorkerStates
  <2>4. \A q \in Pointer :
          /\ Alive(q)' <=> Alive(q)
          /\ \A r : Input(r, q)' <=> Input(r, q)
          /\ Alive(q) => inst'[q.key].single = inst[q.key].single
          /\ Finished(q)' <=> Finished(q)
          /\ Unfinished(q)' <=> Unfinished(q)
          /\ Taken(q)' <=> IF q = p THEN FALSE ELSE Taken(q)
    BY <1>1, <2>1, <2>2, MoveTaken
  <2>5. \A q \in Pointer : Taken(q)' <=> Taken(q) /\ q # p
    BY <2>4
  <2> QED
    BY <1>2, <2>1, <2>3, <2>4, <2>5, MoveTasks DEF MoveOf, Moves
<1>7. ASSUME Repost(w) PROVE MoveOf(w, At(w))
  <2>1. /\ worker[w].pc = "repost" /\ WorkerRest(w) /\ work' = [work EXCEPT ![At(w)] = @ + 1]
        /\ UNCHANGED <<inst, tasks>> /\ At(w) \in Pointer /\ worker[w].at = At(w)
    BY <1>1, <1>7 DEF Repost, WorkerAt, maintainerVars
  <2>2. worker'[w].pc = "idle" /\ \A v \in Worker : v # w => worker'[v] = worker[v]
    BY <1>1, <2>1, RestShape
  <2>3. \A q \in Pointer : (work'[q] > 0 => work[q] > 0 \/ q = At(w)) /\ (work[q] > 0 => work'[q] > 0)
    BY <1>1, <2>1
  <2>4. work'[At(w)] > 0
    BY <1>1, <2>1
  <2> QED
    BY <1>2, <2>1, <2>2, <2>3, <2>4, MoveSame, MoveTasks DEF MoveOf, Moves
<1>8. ASSUME StoreProduct(w) PROVE MoveOf(w, At(w))
  <2>1. PICK p \in Pointer :
          /\ p = At(w) /\ worker[w].pc = "run" /\ worker[w].at = p
          /\ inst' = IF Alive(p) THEN [inst EXCEPT ![p.key].product = TRUE] ELSE inst
          /\ WorkerGoto(w, "stored") /\ UNCHANGED <<tasks, work>>
    BY <1>8, WorkerPointer DEF StoreProduct, WorkerAt, At
  <2>2. Computing(w, p) /\ Unfinished(p) /\ Alive(p)
    BY <2>1 DEF Ordered, ComputedOnce, Computing, Unfinished
  <2>3. /\ worker'[w].pc = "stored" /\ worker'[w].at = p
        /\ \A v \in Worker : v # w => worker'[v] = worker[v]
    BY <2>1, GotoShape DEF Typed, WorkerStates
  <2>4. \A q \in Pointer :
          /\ Alive(q)' <=> Alive(q)
          /\ \A r : Input(r, q)' <=> Input(r, q)
          /\ Alive(q) => inst'[q.key].single = inst[q.key].single
          /\ Finished(q)' <=> Finished(q) \/ q = p
          /\ Unfinished(q)' <=> Unfinished(q) /\ q # p
          /\ Taken(q)' <=> Taken(q)
    BY <1>1, <2>1, <2>2, MoveStored
  <2> QED
    BY <1>2, <2>1, <2>3, <2>4, MoveTasks DEF MoveOf, Moves
<1>9. ASSUME Fail(w) \/ Succeed(w) PROVE MoveOf(w, At(w))
  <2>1. /\ At(w) \in Pointer /\ worker[w].at = At(w) /\ UNCHANGED <<inst, work>>
        /\ \E exc \in BOOLEAN :
             /\ Announce(w, exc) /\ ~WorkerAt(w, "idle")
             /\ worker[w].pc = IF exc THEN "run" ELSE "stored"
    BY <1>1, <1>9 DEF Fail, Succeed, WorkerAt, maintainerVars
  <2>2. PICK exc \in BOOLEAN :
          /\ Announce(w, exc) /\ ~WorkerAt(w, "idle")
          /\ worker[w].pc = IF exc THEN "run" ELSE "stored"
    BY <2>1
  <2>3. /\ worker'[w].pc \in {"idle", "unlock"}
        /\ \A v \in Worker : v # w => worker'[v] = worker[v]
        /\ \A x : Among(x, tasks') <=> Among(x, tasks) \/ x = Notify(At(w), exc)
    BY <2>2, AnnounceParts
  <2>4. PICK p \in Pointer : p = At(w)
    BY <2>1
  <2>5. ASSUME NEW q \in Pointer, NEW b \in BOOLEAN
        PROVE  Among(Notify(q, b), tasks') <=> Among(Notify(q, b), tasks) \/ (q = p /\ b = exc)
    <3>1. Notify(q, b) = Notify(p, exc) <=> q = p /\ b = exc
      BY SameReport
    <3> QED
      BY <2>3, <2>4, <3>1
  <2>6. \A q \in Pointer :
          /\ Failed(q)' <=> Failed(q) \/ (exc = TRUE /\ q = p)
          /\ Among(Notify(q, FALSE), tasks') <=> Among(Notify(q, FALSE), tasks) \/ (exc = FALSE /\ q = p)
    BY <2>5 DEF Failed, Notify
  <2>7. /\ <<worker[w].pc, worker'[w].pc>> \in Moves /\ worker'[w].pc # "stored" /\ worker'[w].pc # "repost"
        /\ worker[w].pc # "popped" /\ worker[w].pc # "repost" /\ worker[w].pc # "idle"
        /\ exc = TRUE <=> worker[w].pc = "run"
        /\ exc = FALSE <=> worker[w].pc = "stored"
    BY <2>2, <2>3 DEF Moves
  <2> QED
    BY <1>2, <2>1, <2>3, <2>4, <2>6, <2>7, MoveSame DEF MoveOf
<1>10. ASSUME Unlock(w) PROVE MoveOf(w, At(w))
  <2>1. /\ worker[w].pc = "unlock" /\ WorkerRest(w) /\ UNCHANGED <<inst, work, tasks>>
        /\ worker[w].at = At(w)
    BY <1>1, <1>10 DEF Unlock, WorkerAt, maintainerVars
  <2>2. worker'[w].pc = "idle" /\ \A v \in Worker : v # w => worker'[v] = worker[v]
    BY <1>1, <2>1, RestShape
  <2> QED
    BY <1>2, <2>1, <2>2, MoveSame, MoveTasks DEF MoveOf, Moves
<1>11. CASE ~\E p \in Pointer : Pop(w, p)
  <2>1. At(w) \in Pointer
    BY <1>1, <1>11 DEF WorkerStep, TestTaken, TryLock, LockBusy, Repost, Fail, StoreProduct, Succeed, Unlock,
       WorkerAt
  <2> QED
    BY <1>4, <1>5, <1>6, <1>7, <1>8, <1>9, <1>10, <1>11, <2>1 DEF WorkerStep
<1> QED
  BY <1>3, <1>11

\* OutMarked is kept by a step that posts nothing and leaves what is out as it was.
LEMMA MarkedStays ==
  ASSUME OutMarked,
         \A p \in Pointer : SubstrateOf(p) \in Single /\ Out(p)' =>
           Out(p) /\ (Alive(p) => Alive(p)' /\ (inst[p.key].single => inst'[p.key].single))
  PROVE  OutMarked'
BY DEF OutMarked, SubstrateOf

\* A worker lets nothing out, and changes no mark.
LEMMA MarkedWorkerStep ==
  ASSUME Typed, Ordered, OutMarked, NEW w \in Worker, WorkerStep(w)
  PROVE  OutMarked'
<1>1. PICK p \in Pointer : MoveOf(w, p)
  BY WorkerMove
<1>2. /\ <<worker[w].pc, worker'[w].pc>> \in Moves
      /\ worker[w].pc # "idle" => worker[w].at = p
      /\ worker'[w].pc \notin {"idle", "unlock"} => worker'[w].at = p
      /\ worker[w].pc = "idle" => work[p] > 0
      /\ \A v \in Worker : v # w => worker'[v] = worker[v]
      /\ UNCHANGED waiting
      /\ \A q \in Pointer :
           /\ Alive(q)' <=> Alive(q)
           /\ Alive(q) => inst'[q.key].single = inst[q.key].single
           /\ work'[q] > 0 => work[q] > 0 \/ (worker[w].pc = "repost" /\ q = p)
  BY <1>1 DEF MoveOf
<1>3. ASSUME NEW q \in Pointer, Out(q)' PROVE Out(q)
  <2>1. CASE work'[q] > 0 \/ q \in waiting'[SubstrateOf(q)]
    BY <1>2, <2>1 DEF Out, Posted
  <2>2. ASSUME NEW v \in Worker, worker'[v].pc \in {"popped", "repost", "taken", "run"}, worker'[v].at = q
        PROVE  Out(q)
    <3>1. CASE v = w
      <4>1. q = p /\ worker[w].pc \in {"idle", "popped", "taken"}
        BY <1>2, <2>2, <3>1 DEF Moves
      <4> QED
        BY <1>2, <4>1 DEF Out, Posted, Computing
    <3>2. CASE v # w
      BY <1>2, <2>2, <3>2 DEF Out, Posted, Computing
    <3> QED
      BY <3>1, <3>2
  <2> QED
    BY <1>3, <2>1, <2>2 DEF Out, Posted, Computing, SubstrateOf
<1> QED
  BY <1>2, <1>3, MarkedStays

\* The maintainer, the clients and the callback thread, where nothing is posted
\* anew and the marks are left alone.
LEMMA MarkedQuietStep ==
  ASSUME Typed, OutMarked,
         UNCHANGED <<worker, work, waiting>>,
         \A k \in Key : Exists(k) =>
           Exists(k)' /\ inst'[k].gen = inst[k].gen /\ inst'[k].single = inst[k].single
  PROVE  OutMarked'
<1>1. \A p \in Pointer : Out(p)' <=> Out(p)
  BY DEF Out, Posted, Computing, SubstrateOf
<1>2. \A p \in Pointer : Alive(p) => Alive(p)' /\ inst'[p.key].single = inst[p.key].single
  BY DEF Alive, Pointer
<1> QED
  BY <1>1, <1>2, MarkedStays

\* The maintainer reads the one report of a single-threaded filter: nothing of
\* the filter is out any more.
LEMMA MarkedTakeNotify ==
  ASSUME Typed, Orderly, OutMarked, TakeNotify
  PROVE  OutMarked'
<1> DEFINE new(p) == [inst[p.key] EXCEPT !.single = FALSE]
<1>1. PICK p \in Pointer :
        /\ p = Head(tasks).inst /\ Alive(p) /\ Head(tasks).kind = "notify" /\ ReleaseNeck(p)
        /\ inst' = [inst EXCEPT ![p.key].single = FALSE]
        /\ UNCHANGED <<worker, work>>
  BY NextTaskType DEF TakeNotify, Typed, workerVars
<1>2. TypeOK /\ p.key \in Key /\ inst[p.key] \in Instance
  BY <1>1, AlivePointer DEF Typed
<1>3. \A q \in Pointer : SubstrateOf(q) \in Substrate
  BY KeyParts DEF Pointer, SubstrateOf
<1>4. ASSUME NEW q \in Pointer, Out(q)' PROVE Out(q)
  <2>1. \A s \in Substrate : waiting'[s] \subseteq waiting[s]
    <3>1. waiting \in [Substrate -> SUBSET Pointer]
      BY <1>2 DEF TypeOK
    <3>2. waiting' = waiting \/ waiting' = [waiting EXCEPT ![SubstrateOf(p)] = @ \ {p}]
      BY <1>1 DEF ReleaseNeck
    <3> QED
      BY <3>1, <3>2
  <2>2. q \in waiting[SubstrateOf(q)]' => q \in waiting[SubstrateOf(q)]
    BY <1>3, <2>1 DEF SubstrateOf
  <2>3. Posted(q)' => Posted(q)
    BY <1>1, <2>2 DEF Posted
  <2>4. \A w \in Worker : Computing(w, q)' => Computing(w, q)
    BY <1>1 DEF Computing
  <2> QED
    BY <1>4, <2>3, <2>4 DEF Out
<1>5. \A q \in Pointer : q # p /\ Alive(q) =>
        q.key # p.key /\ Alive(q)' /\ inst'[q.key].single = inst[q.key].single
  <2>1. ASSUME NEW q \in Pointer, q # p, Alive(q)
        PROVE  q.key # p.key /\ Alive(q)' /\ inst'[q.key].single = inst[q.key].single
    <3>1. q.key \in Key /\ q.key # p.key
      BY <1>1, <1>2, <2>1, AlivePointer
    <3>2. inst'[q.key] = inst[q.key]
      BY <1>1, <1>2, <3>1 DEF TypeOK
    <3> QED
      BY <2>1, <3>1, <3>2 DEF Alive, Exists
  <2> QED
    BY <2>1
<1>6. ASSUME SubstrateOf(p) \in Single PROVE ~Out(p)'
  <2> DEFINE s == SubstrateOf(p)
  <2>1. OneOut(s)
    BY <1>6 DEF Orderly, NecksHold
  <2>2. Reported(s) # {}
    <3>1. 1 \in 1 .. Len(tasks) /\ tasks[1] = Head(tasks)
      BY <1>1, <1>2, TailShape DEF TakeNotify, NextTask, TypeOK
    <3>2. 1 \in Reported(s)
      BY <1>1, <3>1 DEF Reported
    <3> QED
      BY <3>2
  <2>3. Queued(s) = {} /\ Holding(s) = {}
    BY <2>1, <2>2 DEF OneOut
  <2>4. ~(work[p] > 0) /\ \A w \in Worker : worker[w].at = p => worker[w].pc \notin Places
    BY <2>3 DEF Queued, Holding, At, Places
  <2>5. p \notin waiting'[s]
    <3>1. CASE p \in waiting[s]
      <4>1. inst[p.key].single
        BY <1>6, <3>1 DEF OutMarked, Out, Posted
      <4> QED
        BY <1>1, <1>2, <1>3, <4>1 DEF ReleaseNeck, TypeOK
    <3>2. CASE p \notin waiting[s]
      BY <1>1, <1>2, <1>3, <3>2 DEF ReleaseNeck, TypeOK
    <3> QED
      BY <3>1, <3>2
  <2> QED
    BY <1>1, <2>4, <2>5 DEF Out, Posted, Computing, Places, SubstrateOf
<1> QED
  BY <1>4, <1>5, <1>6, MarkedStays

\* What post_work posts is marked, if its filter asks for it.
LEMMA MarkedLookAtOutput ==
  ASSUME Typed, Orderly, OutMarked, LookAtOutput
  PROVE  OutMarked'
<1>1. PICK p \in Pointer : p = Head(todo)
  BY TailShape DEF LookAtOutput, Typed, TypeOK
<1>2. /\ TypeOK /\ UNCHANGED <<inst, worker>> /\ mpc = "outputs"
  BY DEF LookAtOutput, Typed, workerVars
<1>3. \A q \in Pointer : /\ Alive(q)' <=> Alive(q)
                         /\ (\E w \in Worker : Computing(w, q)') <=> \E w \in Worker : Computing(w, q)
  BY <1>2 DEF Alive, Exists, Computing
<1>4. CASE Alive(p) /\ ~inst[p.key].product /\ Ready(inst[p.key].inputs)
  <2>1. PostWork(p, inst[p.key].single) /\ inst[p.key].single \in BOOLEAN
    BY <1>1, <1>2, <1>4, AlivePointer DEF LookAtOutput, Instance
  <2>2. \A q \in Pointer : Posted(q)' <=> Posted(q) \/ q = p
    BY <1>2, <2>1, PostWorkPosted
  <2>3. SubstrateOf(p) \in Single => inst[p.key].single
    <3>1. p.key \in Key /\ Exists(p.key)
      BY <1>4 DEF Alive, Pointer
    <3> QED
      BY <1>2, <1>4, <3>1 DEF Orderly, SingleMarked, SubstrateOf
  <2> QED
    BY <1>2, <1>3, <1>4, <2>2, <2>3 DEF OutMarked, Out, SubstrateOf
<1>5. CASE ~(Alive(p) /\ ~inst[p.key].product /\ Ready(inst[p.key].inputs))
  <2>1. UNCHANGED <<worker, work, waiting>>
    BY <1>1, <1>2, <1>5 DEF LookAtOutput
  <2>2. \A k \in Key : Exists(k) =>
          Exists(k)' /\ inst'[k].gen = inst[k].gen /\ inst'[k].single = inst[k].single
    BY <1>2 DEF Exists
  <2> QED
    BY <2>1, <2>2, MarkedQuietStep
<1> QED
  BY <1>4, <1>5

\* What a neck lets out had been posted before.
LEMMA MarkedPostFromNeck ==
  ASSUME Typed, Orderly, OutMarked, NEW s \in Single, NEW p \in waiting[s], PostFromNeck(s, p)
  PROVE  OutMarked'
<1>1. /\ TypeOK /\ s \in Substrate /\ p \in Pointer /\ SubstrateOf(p) = s
      /\ UNCHANGED <<inst, worker>>
  BY GraphAssumption DEF PostFromNeck, Typed, TypeOK, Orderly, NecksOwn, workerVars
<1>2. /\ work' = [work EXCEPT ![p] = @ + 1] /\ waiting' = [waiting EXCEPT ![s] = @ \ {p}]
      /\ work \in [Pointer -> Nat] /\ waiting \in [Substrate -> SUBSET Pointer]
  BY <1>1 DEF PostFromNeck, TypeOK
<1>3. \A q \in Pointer : work'[q] > 0 => work[q] > 0 \/ q = p
  BY <1>1, <1>2
<1>4. \A q \in Pointer : q \in waiting'[SubstrateOf(q)] => q \in waiting[SubstrateOf(q)]
  <2>1. \A q \in Pointer : SubstrateOf(q) \in Substrate
    BY KeyParts DEF Pointer, SubstrateOf
  <2> QED
    BY <2>1, <1>2
<1>5. Out(p)
  BY <1>1 DEF Out, Posted
<1>6. \A q \in Pointer : Out(q)' => Out(q)
  BY <1>1, <1>3, <1>4, <1>5 DEF Out, Posted, Computing, SubstrateOf
<1>7. \A q \in Pointer : Alive(q)' <=> Alive(q)
  BY <1>1 DEF Alive, Exists
<1> QED
  BY <1>1, <1>6, <1>7, MarkedStays

\* What is killed is not out.
LEMMA MarkedKillNext ==
  ASSUME Typed, Ordered, OutMarked, KillNext
  PROVE  OutMarked'
<1>1. PICK p \in Pointer : p = Head(todo)
  BY TailShape DEF KillNext, Typed, TypeOK
<1>2. /\ Doomed(p) /\ UNCHANGED <<worker, work, waiting>>
      /\ \A q \in Pointer : Alive(q)' <=> Alive(q) /\ q # p
  BY <1>1, KillView
<1>3. \A q \in Pointer : Alive(q)' => inst'[q.key].single = inst[q.key].single
  <2>1. \A k \in Key : inst'[k] = None \/ inst'[k] = inst[k]
    <3>1. inst' = inst \/ inst' = [inst EXCEPT ![p.key] = None]
      BY <1>1 DEF KillNext
    <3> QED
      BY <3>1 DEF Typed, TypeOK
  <2> QED
    BY <2>1 DEF Alive, Exists, Pointer
<1>4. \A q \in Pointer : Out(q)' <=> Out(q)
  BY <1>2 DEF Out, Posted, Computing, SubstrateOf
<1>5. ASSUME SubstrateOf(p) \in Single, Alive(p) PROVE ~Out(p)
  <2>1. Unfinished(p) /\ \A w \in Worker : ~Computing(w, p)
    BY <1>2, <1>5, DoomedIdle
  <2>2. CASE Bereft(p)
    BY <2>1, <2>2 DEF Ordered, PostedReady, Bereft, ReadyAt, Finished, Out
  <2>3. CASE ~inst[p.key].single
    BY <1>5, <2>3 DEF OutMarked
  <2> QED
    BY <1>2, <1>5, <2>2, <2>3 DEF Ordered, DoomedApart
<1> QED
  BY <1>2, <1>3, <1>4, <1>5, MarkedStays

\* Neither is what is swept.
LEMMA MarkedEndBatch ==
  ASSUME Typed, Graph, OutMarked, EndBatch
  PROVE  OutMarked'
<1>1. UNCHANGED <<worker, work, waiting>>
  BY DEF EndBatch, workerVars
<1>2. \A q \in Pointer : Out(q)' <=> Out(q)
  BY <1>1 DEF Out, Posted, Computing, SubstrateOf
<1>3. ASSUME NEW q \in Pointer, Alive(q), inst[q.key].single
      PROVE  Alive(q)' /\ inst'[q.key].single
  <2>1. q.key \in Key /\ Exists(q.key) /\ ~Evictable(q.key)
    BY <1>3 DEF Pointer, Alive, Evictable
  <2>2. Exists(q.key)'
    BY <2>1, GraphEndBatch
  <2> QED
    BY <1>3, <2>1, <2>2, GraphEndBatch DEF Alive, InstancesAlike
<1> QED
  BY <1>2, <1>3 DEF OutMarked, SubstrateOf

\* The new instance is marked.
LEMMA MarkedCloseInstance ==
  ASSUME Typed, Orderly, Graph, OutMarked, CloseInstance
  PROVE  OutMarked'
<1>1. PICK p \in Pointer : p = PointerOf(stack[1])
  BY CallParts DEF CloseInstance
<1>2. \A q \in Pointer : /\ Posted(q)' => Posted(q) \/ q = p
                         /\ \A w \in Worker : Computing(w, q)' <=> Computing(w, q)
  BY <1>1, CloseStands
<1>3. /\ \A q \in Pointer : Alive(q)' <=> Alive(q) \/ q = p
      /\ inst'[p.key].single <=> p.key[1] \in Single
      /\ \A q \in Pointer : Alive(q) => inst'[q.key].single = inst[q.key].single
      /\ ~Exists(p.key)
  BY <1>1, CloseView
<1>4. \A q \in Pointer : Out(q)' => Out(q) \/ q = p
  BY <1>2 DEF Out
<1> QED
  BY <1>3, <1>4 DEF OutMarked, SubstrateOf

\* Whatever anyone does.
LEMMA MarkedNext == Typed /\ Orderly /\ Graph /\ Ordered /\ OutMarked /\ [Next]_vars => OutMarked'
<1> SUFFICES ASSUME Typed, Orderly, Graph, Ordered, OutMarked, [Next]_vars PROVE OutMarked'
  OBVIOUS
<1>1. CASE \/ \E r \in Request : GetFrame(r)
           \/ TakeConstruct \/ TakeStaleNotify \/ OpenInstance
           \/ EndKill \/ EndTask \/ InvokeCallback \/ UNCHANGED vars
  <2>1. UNCHANGED <<inst, worker, work, waiting>>
    BY <1>1 DEF GetFrame, TakeConstruct, TakeStaleNotify, OpenInstance, EndKill, EndTask, InvokeCallback,
       vars, maintainerVars, workerVars
  <2>2. \A k \in Key : Exists(k) =>
          Exists(k)' /\ inst'[k].gen = inst[k].gen /\ inst'[k].single = inst[k].single
    BY <2>1 DEF Exists
  <2> QED
    BY <2>1, <2>2, MarkedQuietStep
<1>2. CASE TakeNotify
  BY <1>2, MarkedTakeNotify
<1>3. CASE CloseInstance
  BY <1>3, MarkedCloseInstance
<1>4. CASE LookAtOutput
  BY <1>4, MarkedLookAtOutput
<1>5. CASE KillNext
  BY <1>5, MarkedKillNext
<1>6. ASSUME NEW s \in Single, NEW p \in waiting[s], PostFromNeck(s, p) PROVE OutMarked'
  BY <1>6, MarkedPostFromNeck
<1>7. CASE EndBatch
  BY <1>7, MarkedEndBatch
<1>8. ASSUME NEW w \in Worker, WorkerStep(w) PROVE OutMarked'
  BY <1>8, MarkedWorkerStep
<1>9. CASE ReuseInstance
  <2>1. UNCHANGED <<worker, work, waiting>>
    BY <1>9 DEF ReuseInstance, workerVars
  <2> QED
    BY <1>9, <2>1, ReuseLinks, MarkedQuietStep
<1>10. CASE AnswerCallback
  <2>1. UNCHANGED <<worker, work, waiting>> /\ current \in Pointer /\ Alive(current)
        /\ inst' = [inst EXCEPT ![current.key].callback = None]
    BY <1>10 DEF AnswerCallback, workerVars, Typed, CurrentPlaced
  <2>2. TypeOK /\ inst[current.key] \in Instance /\ current.key \in Key
    BY <2>1, AlivePointer DEF Typed
  <2>3. ASSUME NEW k \in Key, Exists(k)
        PROVE  Exists(k)' /\ inst'[k].gen = inst[k].gen /\ inst'[k].single = inst[k].single
    <3> DEFINE new == [inst[current.key] EXCEPT !.callback = None]
    <3>1. new \in Instance /\ new.gen = inst[current.key].gen /\ new.single = inst[current.key].single
      BY <2>2 DEF Instance
    <3>2. inst' = [inst EXCEPT ![current.key] = new]
      BY <2>1
    <3> HIDE DEF new
    <3>3. inst'[current.key] = new /\ (k # current.key => inst'[k] = inst[k]) /\ (Exists(k)' <=> Exists(k))
      BY <2>1, <2>2, <3>1, <3>2, Renew
    <3> QED
      BY <2>3, <3>1, <3>3
  <2> QED
    BY <2>1, <2>3, MarkedQuietStep
<1> QED
  BY <1>1, <1>2, <1>3, <1>4, <1>5, <1>6, <1>7, <1>8, <1>9, <1>10 DEF Next, Maintainer

\* Nothing is out.
LEMMA MarkedInit == Init => OutMarked
BY DEF Init, OutMarked, Out, Posted, Computing, SubstrateOf, Pointer, Key

\* The invariant of every run.
LEMMA MarkedAlways == Spec => [](Typed /\ Orderly /\ Graph /\ Ordered /\ OutMarked)
<1>1. Init => OutMarked
  BY MarkedInit
<1>2. (Typed /\ Orderly /\ Graph /\ Ordered) /\ OutMarked /\ [Next]_vars => OutMarked'
  BY MarkedNext
<1> QED
  BY <1>1, <1>2, OrderedAlways, PTL DEF Spec

\* What is out of a single-threaded filter is one thing, and it is there.
LEMMA SinglesFromMarks == Typed /\ Orderly /\ OutMarked => SingleNeverDangles
<1> SUFFICES ASSUME Typed, Orderly, OutMarked, NEW p \in Pointer, SubstrateOf(p) \in Single
             PROVE  /\ work[p] <= 1
                    /\ work[p] = 1 => Alive(p) /\ ~\E w \in Worker : WorkerAt(w, "popped") /\ At(w) = p
                    /\ \A w \in Worker : WorkerAt(w, "popped") /\ At(w) = p => Alive(p)
  BY DEF SingleNeverDangles
<1> DEFINE s == SubstrateOf(p)
<1>1. OneOut(s) /\ work[p] \in Nat
  BY DEF Orderly, NecksHold, Typed, TypeOK
<1>2. work[p] > 0 => p \in Queued(s) /\ Alive(p)
  BY DEF Queued, OutMarked, Out, Posted
<1>3. \A w \in Worker : WorkerAt(w, "popped") /\ At(w) = p => w \in Holding(s) /\ Alive(p)
  BY DEF Holding, WorkerAt, At, OutMarked, Out, Posted
<1>4. p \in Queued(s) => work[p] = 1 /\ Holding(s) = {}
  BY <1>1 DEF OneOut
<1> QED
  BY <1>1, <1>2, <1>3, <1>4

\* A frame of a single-threaded filter is in the work queue at most once, and
\* while it is there, or with the worker that popped it, its instance is not
\* freed: the use of freed memory that a second copy of a frame can lead to
\* (substrate.cpp:133) is out of the question for these filters.
THEOREM SingleStays == Spec => []SingleNeverDangles
BY MarkedAlways, SinglesFromMarks, PTL

-----------------------------------------------------------------------------
(* nothing is forgotten *)

\* A worker passes on what it has in hand.
LEMMA RememberedWorkerStep ==
  ASSUME Typed, Ordered, Remembered, NEW w \in Worker, WorkerStep(w)
  PROVE  Remembered'
<1>1. PICK p \in Pointer : MoveOf(w, p)
  BY WorkerMove
<1> DEFINE from == worker[w].pc
           to   == worker'[w].pc
<1>2. /\ <<from, to>> \in Moves
      /\ from # "idle" => worker[w].at = p
      /\ to \notin {"idle", "unlock"} => worker'[w].at = p
      /\ from = "popped" /\ to = "idle" => ~Alive(p) \/ Taken(p)
      /\ from = "repost" => work'[p] > 0
      /\ \A v \in Worker : v # w => worker'[v] = worker[v]
      /\ UNCHANGED <<waiting, mpc, todo, current>>
  BY <1>1 DEF MoveOf
<1>3. \A q \in Pointer :
        /\ Alive(q)' <=> Alive(q)
        /\ \A r : Input(r, q)' <=> Input(r, q)
        /\ Finished(q)' <=> Finished(q) \/ (to = "stored" /\ q = p)
        /\ Unfinished(q)' <=> Unfinished(q) /\ ~(to = "stored" /\ q = p)
        /\ Taken(q)' <=> \/ Taken(q) /\ ~(to = "repost" /\ q = p)
                         \/ from = "popped" /\ to # "idle" /\ q = p
        /\ work[q] > 0 => work'[q] > 0 \/ (from = "idle" /\ q = p)
        /\ Failed(q)' <=> Failed(q) \/ (from = "run" /\ to # "stored" /\ q = p)
        /\ Among(Notify(q, FALSE), tasks') <=> Among(Notify(q, FALSE), tasks) \/ (from = "stored" /\ q = p)
        /\ Doomed(q)' <=> Doomed(q)
  <2>1. \A q \in Pointer : Doomed(q)' <=> Doomed(q)
    BY <1>2 DEF Doomed
  <2> QED
    BY <1>1, <2>1 DEF MoveOf
<1>4. \A q \in Pointer, v \in Worker : v # w => (Computing(v, q)' <=> Computing(v, q))
  BY <1>2 DEF Computing
<1>5. \A q \in Pointer : Computing(w, q) <=> from \in {"taken", "run"} /\ q = p
  BY <1>2 DEF Computing
<1>6. \A q \in Pointer : Computing(w, q)' <=> to \in {"taken", "run"} /\ q = p
  BY <1>2 DEF Computing
<1>7. ASSUME NEW q \in Pointer, Computed(q)
      PROVE  Computed(q)' \/ (q = p /\ (to = "repost" \/ to = "stored" \/ Failed(q)'))
  <2>1. PICK v \in Worker : Computing(v, q)
    BY <1>7 DEF Computed
  <2>2. CASE v # w
    BY <1>4, <2>1, <2>2 DEF Computed
  <2>3. CASE v = w
    <3>1. q = p /\ to \in {"run", "repost", "idle", "unlock", "stored"} /\ (to \in {"idle", "unlock"} => from = "run")
      BY <1>2, <1>5, <2>1, <2>3 DEF Moves
    <3> QED
      BY <1>3, <1>6, <3>1 DEF Computed
  <2> QED
    BY <2>2, <2>3
<1>8. TakenHeld'
  <2>1. ASSUME NEW q \in Pointer, Taken(q)' PROVE Held(q)'
    <3>1. CASE from = "popped" /\ to # "idle" /\ q = p
      <4>1. to \in {"taken", "run"}
        BY <1>2, <3>1 DEF Moves
      <4> QED
        BY <1>6, <3>1, <4>1 DEF Held, Computed
    <3>2. CASE Taken(q) /\ ~(to = "repost" /\ q = p)
      <4>1. Held(q)
        BY <3>2 DEF Remembered, TakenHeld
      <4> QED
        BY <1>3, <1>7, <3>2, <4>1 DEF Held
    <3> QED
      BY <1>3, <2>1, <3>1, <3>2
  <2> QED
    BY <2>1 DEF TakenHeld
<1>9. BereftDoomed'
  BY <1>3 DEF Remembered, BereftDoomed, Bereft
<1>10. ASSUME NEW q \in Pointer, Posted(q), Unfinished(q) PROVE Posted(q)' \/ Computed(q)' \/ Failed(q)' \/ Doomed(q)'
  <2>1. CASE work[q] > 0
    <3>1. work'[q] > 0 \/ (from = "idle" /\ q = p /\ to = "popped")
      BY <1>2, <1>3, <2>1 DEF Moves
    <3> QED
      BY <1>2, <3>1 DEF Posted
  <2>2. CASE q \in waiting[SubstrateOf(q)]
    BY <1>2, <2>2 DEF Posted, SubstrateOf
  <2>3. ASSUME NEW v \in Worker, worker[v].pc \in {"popped", "repost"}, worker[v].at = q
        PROVE  Posted(q)' \/ Computed(q)' \/ Failed(q)' \/ Doomed(q)'
    <3>1. CASE v # w
      BY <1>2, <2>3, <3>1 DEF Posted
    <3>2. CASE v = w /\ from = "repost"
      BY <1>2, <2>3, <3>2 DEF Posted
    <3>3. CASE v = w /\ from = "popped" /\ to # "idle"
      <4>1. to \in {"taken", "run"} /\ q = p
        BY <1>2, <2>3, <3>3 DEF Moves
      <4> QED
        BY <1>6, <4>1 DEF Computed
    <3>4. CASE v = w /\ from = "popped" /\ to = "idle"
      <4>1. q = p /\ Taken(q)
        BY <1>2, <1>10, <2>3, <3>4 DEF Unfinished
      <4>2. Held(q) /\ ~Finished(q)
        BY <1>10, <4>1 DEF Remembered, TakenHeld, Finished, Unfinished
      <4> QED
        BY <1>3, <1>7, <3>4, <4>2 DEF Held
    <3> QED
      BY <2>3, <3>1, <3>2, <3>3, <3>4
  <2> QED
    BY <1>10, <2>1, <2>2, <2>3 DEF Posted
<1>11. ASSUME NEW q \in Pointer, NEW r \in Pointer, Awaited(r, q) PROVE Awaited(r, q)'
  <2>1. CASE Among(Notify(r, FALSE), tasks)
    <3>1. Among(Notify(r, FALSE), tasks')
      BY <1>3, <2>1
    <3> QED
      BY <3>1 DEF Awaited, Notify
  <2>2. CASE mpc = "outputs" /\ current = r /\ Among(q, todo)
    BY <1>2, <2>2 DEF Awaited
  <2>3. ASSUME NEW v \in Worker, worker[v].pc = "stored", worker[v].at = r PROVE Awaited(r, q)'
    <3>1. CASE v # w
      BY <1>2, <2>3, <3>1 DEF Awaited
    <3>2. CASE v = w
      <4>1. Among(Notify(r, FALSE), tasks')
        BY <1>2, <1>3, <2>3, <3>2
      <4> QED
        BY <4>1 DEF Awaited, Notify
    <3> QED
      BY <3>1, <3>2
  <2> QED
    BY <1>11, <2>1, <2>2, <2>3 DEF Awaited
<1>12. NoneLost'
  <2>1. ASSUME NEW q \in Pointer, Unfinished(q)', ReadyAt(q)' PROVE InReach(q)'
    <3>1. Unfinished(q) /\ ~(to = "stored" /\ q = p)
      BY <1>3, <2>1
    <3>2. CASE ReadyAt(q)
      <4>1. InReach(q)
        BY <3>1, <3>2 DEF Remembered, NoneLost
      <4>2. CASE Posted(q)
        BY <1>10, <3>1, <4>2 DEF InReach
      <4>3. CASE Computed(q)
        <5>1. Computed(q)' \/ Failed(q)' \/ (q = p /\ to = "repost")
          BY <1>7, <3>1, <4>3
        <5>2. q = p /\ to = "repost" => Posted(q)'
          BY <1>2 DEF Posted
        <5> QED
          BY <5>1, <5>2 DEF InReach
      <4>4. CASE Failed(q) \/ Doomed(q)
        BY <1>3, <4>4 DEF InReach
      <4>5. CASE \E r \in Pointer : Input(r, q) /\ Awaited(r, q)
        BY <1>3, <1>11, <4>5 DEF InReach
      <4> QED
        BY <4>1, <4>2, <4>3, <4>4, <4>5 DEF InReach
    <3>3. CASE ~ReadyAt(q)
      <4>1. PICK r \in Pointer : Input(r, q) /\ ~Finished(r)
        BY <3>3 DEF ReadyAt
      <4>2. Input(r, q)' /\ Finished(r)'
        BY <1>3, <2>1, <4>1 DEF ReadyAt
      <4>3. to = "stored" /\ r = p
        BY <1>3, <4>1, <4>2
      <4>4. Awaited(r, q)'
        BY <1>2, <4>3 DEF Awaited
      <4> QED
        BY <4>2, <4>4 DEF InReach
    <3> QED
      BY <3>2, <3>3
  <2> QED
    BY <2>1 DEF NoneLost
<1> QED
  BY <1>8, <1>9, <1>12 DEF Remembered

\* A step of the maintainer, or of those outside, in which no instance comes or
\* goes: what was in reach stays so.
LEMMA RememberedQuiet ==
  ASSUME Remembered, InstancesSteady, \A k \in Key : Exists(k)' <=> Exists(k), UNCHANGED worker,
         \A p \in Pointer : Failed(p) /\ Unfinished(p) => Failed(p)' \/ Doomed(p)',
         \A p \in Pointer : Doomed(p) /\ Unfinished(p) => Doomed(p)',
         \A p \in Pointer : Unfinished(p) /\ ReadyAt(p) /\ Posted(p) => InReach(p)',
         \A p, q \in Pointer : Unfinished(p) /\ ReadyAt(p) /\ Input(q, p) /\ Awaited(q, p) =>
           Posted(p)' \/ Awaited(q, p)'
  PROVE  Remembered'
<1>1. \A p \in Pointer : Alive(p)' <=> Alive(p)
  BY DEF Alive, InstancesSteady, Pointer
<1>2. \A p \in Pointer :
        /\ Finished(p)' <=> Finished(p)
        /\ Unfinished(p)' <=> Unfinished(p)
        /\ Taken(p)' <=> Taken(p)
        /\ \A q : Input(q, p)' <=> Input(q, p)
        /\ Computed(p)' <=> Computed(p)
  <2>1. \A p \in Pointer : Computed(p)' <=> Computed(p)
    BY DEF Computed, Computing
  <2>2. ASSUME NEW p \in Pointer, Alive(p)
        PROVE  /\ Finished(p)' <=> Finished(p)
               /\ Unfinished(p)' <=> Unfinished(p)
               /\ Taken(p)' <=> Taken(p)
               /\ \A q : Input(q, p)' <=> Input(q, p)
    BY <1>1, <2>2, StandsSteady
  <2>3. ASSUME NEW p \in Pointer, ~Alive(p)
        PROVE  /\ Finished(p)' <=> Finished(p)
               /\ Unfinished(p)' <=> Unfinished(p)
               /\ Taken(p)' <=> Taken(p)
               /\ \A q : Input(q, p)' <=> Input(q, p)
    BY <1>1, <2>3 DEF Finished, Unfinished, Taken, Input
  <2> QED
    BY <2>1, <2>2, <2>3
<1>3. TakenHeld'
  <2>1. \A p \in Pointer : Taken(p) => Finished(p) \/ Unfinished(p)
    BY DEF Taken, Finished, Unfinished
  <2> QED
    BY <1>2, <2>1 DEF Remembered, TakenHeld, Held
<1>4. BereftDoomed'
  BY <1>1, <1>2 DEF Remembered, BereftDoomed, Bereft
<1>5. NoneLost'
  <2>1. ASSUME NEW p \in Pointer, Unfinished(p)', ReadyAt(p)' PROVE InReach(p)'
    <3>1. Unfinished(p) /\ ReadyAt(p)
      BY <1>2, <2>1 DEF ReadyAt
    <3>2. InReach(p)
      BY <3>1 DEF Remembered, NoneLost
    <3>3. CASE Posted(p) \/ Computed(p) \/ Failed(p) \/ Doomed(p)
      BY <1>2, <3>1, <3>3 DEF InReach
    <3>4. CASE \E q \in Pointer : Input(q, p) /\ Awaited(q, p)
      BY <1>2, <3>1, <3>4 DEF InReach
    <3> QED
      BY <3>2, <3>3, <3>4 DEF InReach
  <2> QED
    BY <2>1 DEF NoneLost
<1> QED
  BY <1>3, <1>4, <1>5 DEF Remembered

\* The tasks that stay.
LEMMA TasksStay ==
  ASSUME Typed,
         \/ UNCHANGED tasks
         \/ \E r \in Request : GetFrame(r)
         \/ NextTask /\ Head(tasks).kind = "construct"
  PROVE  \A p, b : Among(Notify(p, b), tasks) => Among(Notify(p, b), tasks')
<1>1. TypeOK
  BY DEF Typed
<1>2. CASE UNCHANGED tasks
  BY <1>2
<1>3. ASSUME NEW r \in Request, GetFrame(r)
      PROVE  \A p, b : Among(Notify(p, b), tasks) => Among(Notify(p, b), tasks')
  <2>1. Construct(r) \in Tasks /\ tasks' = Append(tasks, Construct(r))
    BY <1>3 DEF GetFrame, Construct, Tasks
  <2> QED
    BY <1>1, <2>1, AmongAppended
<1>4. CASE NextTask /\ Head(tasks).kind = "construct"
  <2>1. tasks \in Seq(Tasks) /\ tasks # <<>> /\ tasks' = Tail(tasks)
    BY <1>1, <1>4 DEF TypeOK, NextTask
  <2>2. \A p, b : Notify(p, b) # Head(tasks)
    <3> TAKE p, b
    <3>1. Notify(p, b).kind = "notify"
      BY DEF Notify
    <3> QED
      BY <1>4, <3>1
  <2> QED
    BY <2>1, <2>2, AmongTail
<1> QED
  BY <1>2, <1>3, <1>4

\* The steps that post, report and give up nothing.
LEMMA RememberedEasyStep ==
  ASSUME Typed, Remembered,
         \/ \E r \in Request : GetFrame(r)
         \/ TakeConstruct \/ ReuseInstance \/ OpenInstance
         \/ AnswerCallback \/ EndKill \/ EndTask \/ InvokeCallback \/ UNCHANGED vars
  PROVE  Remembered'
<1>1. InstancesSteady /\ \A k \in Key : Exists(k)' <=> Exists(k)
  <2>1. UNCHANGED inst \/ ReuseInstance \/ AnswerCallback
    BY DEF GetFrame, TakeConstruct, OpenInstance, EndKill, EndTask, InvokeCallback,
       vars, maintainerVars
  <2> QED
    BY <2>1, SameSteady, SteadyReuseInstance, SteadyAnswerCallback
<1>2. UNCHANGED <<worker, work, waiting>>
  BY DEF GetFrame, TakeConstruct, ReuseInstance, OpenInstance, AnswerCallback,
     EndKill, EndTask, InvokeCallback, vars, maintainerVars, workerVars
<1>3. \A p, b : Among(Notify(p, b), tasks) => Among(Notify(p, b), tasks')
  <2>1. \/ UNCHANGED tasks
        \/ \E r \in Request : GetFrame(r)
        \/ NextTask /\ Head(tasks).kind = "construct"
    BY DEF TakeConstruct, ReuseInstance, OpenInstance, AnswerCallback,
       EndKill, EndTask, InvokeCallback, vars, maintainerVars
  <2> QED
    BY <2>1, TasksStay
<1>4. \/ UNCHANGED <<mpc, todo, current>>
      \/ mpc # "kill" /\ mpc # "outputs"
      \/ todo = <<>>
  BY DEF GetFrame, TakeConstruct, NextTask, ReuseInstance, OpenInstance, AnswerCallback,
     EndKill, EndTask, InvokeCallback, vars, maintainerVars
<1>5. todo = <<>> => \A p : ~Among(p, todo)
  BY EmptySeq DEF Among
<1>6. \A p \in Pointer : (Posted(p) => Posted(p)') /\ (Failed(p) => Failed(p)') /\ (Doomed(p) => Doomed(p)')
  <2>1. \A p \in Pointer : Failed(p) => Failed(p)'
    BY <1>3 DEF Failed, Notify
  <2> QED
    BY <1>2, <1>4, <1>5, <2>1 DEF Posted, SubstrateOf, Doomed
<1>7. \A p, q \in Pointer : Awaited(q, p) => Awaited(q, p)'
  <2>1. \A q \in Pointer : Among(Notify(q, FALSE), tasks) => Among(Notify(q, FALSE), tasks)'
    BY <1>3 DEF Among, Notify
  <2> QED
    BY <1>2, <1>4, <1>5, <2>1 DEF Awaited
<1> QED
  BY <1>1, <1>2, <1>6, <1>7, RememberedQuiet DEF InReach

\* An idle neck posts what was held back.
LEMMA RememberedPostFromNeck ==
  ASSUME Typed, Orderly, Remembered, NEW s \in Single, NEW p \in waiting[s], PostFromNeck(s, p)
  PROVE  Remembered'
<1>1. /\ TypeOK /\ s \in Substrate /\ p \in Pointer /\ SubstrateOf(p) = s
      /\ UNCHANGED <<inst, worker, tasks, mpc, todo, current>>
  BY GraphAssumption DEF PostFromNeck, Typed, TypeOK, Orderly, NecksOwn, workerVars
<1>2. InstancesSteady /\ \A k \in Key : Exists(k)' <=> Exists(k)
  BY <1>1, SameSteady
<1>3. /\ work' = [work EXCEPT ![p] = @ + 1] /\ waiting' = [waiting EXCEPT ![s] = @ \ {p}]
      /\ work \in [Pointer -> Nat] /\ waiting \in [Substrate -> SUBSET Pointer]
  BY <1>1 DEF PostFromNeck, TypeOK
<1>4. \A q \in Pointer : work[q] > 0 \/ q = p => work'[q] > 0
  BY <1>1, <1>3
<1>5. \A q \in Pointer : q \in waiting[SubstrateOf(q)] => q \in waiting'[SubstrateOf(q)] \/ q = p
  <2>1. \A q \in Pointer : SubstrateOf(q) \in Substrate
    BY KeyParts DEF Pointer, SubstrateOf
  <2> QED
    BY <2>1, <1>3
<1>6. \A q \in Pointer : Posted(q) => Posted(q)'
  BY <1>1, <1>4, <1>5 DEF Posted, SubstrateOf
<1>7. \A q \in Pointer : /\ Failed(q) => Failed(q)'
                         /\ Doomed(q) => Doomed(q)'
                         /\ \A r \in Pointer : Awaited(r, q) => Awaited(r, q)'
  BY <1>1 DEF Failed, Notify, Doomed, Awaited
<1> QED
  BY <1>1, <1>2, <1>6, <1>7, RememberedQuiet DEF InReach

\* An output that was awaited is looked at, and posted if it is ready.
LEMMA RememberedLookAtOutput ==
  ASSUME Typed, Remembered, LookAtOutput
  PROVE  Remembered'
<1>1. /\ TypeOK /\ UNCHANGED <<inst, worker, tasks, mpc, current>> /\ mpc = "outputs"
      /\ todo \in Seq(Pointer) /\ todo # <<>> /\ todo' = Tail(todo)
  BY DEF LookAtOutput, Typed, TypeOK, workerVars
<1>2. InstancesSteady /\ \A k \in Key : Exists(k)' <=> Exists(k)
  BY <1>1, SameSteady
<1>3. PICK p \in Pointer : p = Head(todo)
  BY <1>1, TailShape
<1>4. \A q : Among(q, todo) <=> q = p \/ Among(q, todo')
  BY <1>1, <1>3, AmongTail
<1>5. /\ \A q \in Pointer : Posted(q) => Posted(q)'
      /\ Unfinished(p) /\ ReadyAt(p) => Posted(p)'
  <2>1. CASE Alive(p) /\ ~inst[p.key].product /\ Ready(inst[p.key].inputs)
    <3>1. PostWork(p, inst[p.key].single) /\ inst[p.key].single \in BOOLEAN
      BY <1>1, <1>3, <2>1, AlivePointer DEF LookAtOutput, Instance
    <3> QED
      BY <1>1, <3>1, PostWorkPosted
  <2>2. CASE ~(Alive(p) /\ ~inst[p.key].product /\ Ready(inst[p.key].inputs))
    <3>1. UNCHANGED <<work, waiting>>
      BY <1>3, <2>2 DEF LookAtOutput
    <3>2. \A q \in Pointer : Posted(q) => Posted(q)'
      BY <1>1, <3>1 DEF Posted, SubstrateOf
    <3>3. ~(Unfinished(p) /\ ReadyAt(p))
      BY <1>1, <2>2, ReadyInputs DEF Unfinished
    <3> QED
      BY <3>2, <3>3
  <2> QED
    BY <2>1, <2>2
<1>6. \A q \in Pointer : (Failed(q) => Failed(q)') /\ ~Doomed(q)
  BY <1>1 DEF Failed, Notify, Doomed
<1>7. \A q, r \in Pointer : Awaited(r, q) => Awaited(r, q)' \/ q = p
  BY <1>1, <1>4 DEF Awaited, Notify, Among
<1> QED
  BY <1>1, <1>2, <1>5, <1>6, <1>7, RememberedQuiet DEF InReach

\* The task taken, and those that stay.
LEMMA TakenTask ==
  ASSUME TypeOK, NextTask, Head(tasks).kind = "notify"
  PROVE  /\ Head(tasks) = Notify(Head(tasks).inst, Head(tasks).exc) /\ Head(tasks).exc \in BOOLEAN
         /\ \A x : Among(x, tasks) <=> x = Head(tasks) \/ Among(x, tasks')
<1>1. tasks \in Seq(Tasks) /\ tasks # <<>> /\ tasks' = Tail(tasks) /\ Head(tasks) \in Tasks
  BY TailShape DEF TypeOK, NextTask
<1>2. \A x : Among(x, tasks) <=> x = Head(tasks) \/ Among(x, tasks')
  BY <1>1, AmongTail
<1> QED
  BY <1>1, <1>2 DEF Tasks, Notify

\* A report of an instance that is gone is of no consequence.
LEMMA RememberedTakeStaleNotify ==
  ASSUME Typed, Remembered, TakeStaleNotify
  PROVE  Remembered'
<1>1. /\ TypeOK /\ UNCHANGED <<inst, worker, work, waiting, current, todo>>
      /\ mpc # "kill" /\ mpc # "outputs" /\ NextTask /\ Head(tasks).kind = "notify"
      /\ ~Alive(Head(tasks).inst)
  BY DEF TakeStaleNotify, NextTask, Typed, workerVars
<1>2. InstancesSteady /\ \A k \in Key : Exists(k)' <=> Exists(k)
  BY <1>1, SameSteady
<1>3. ASSUME NEW q \in Pointer, Alive(q), NEW b \in BOOLEAN, Among(Notify(q, b), tasks)
      PROVE  Among(Notify(q, b), tasks')
  <2>1. Notify(q, b) # Head(tasks)
    <3>1. Notify(q, b).inst = q
      BY DEF Notify
    <3> QED
      BY <1>1, <1>3, <3>1
  <2> QED
    BY <1>1, <1>3, <2>1, TakenTask
<1>4. \A q \in Pointer : (Posted(q) => Posted(q)') /\ ~Doomed(q)
  BY <1>1 DEF Posted, SubstrateOf, Doomed
<1>5. \A q \in Pointer : Failed(q) /\ Unfinished(q) => Failed(q)'
  BY <1>3 DEF Failed, Notify, Unfinished
<1>6. ASSUME NEW p \in Pointer, NEW q \in Pointer, ReadyAt(p), Input(q, p), Awaited(q, p)
      PROVE  Awaited(q, p)'
  <2>1. Alive(q)
    BY <1>6 DEF ReadyAt, Finished
  <2>2. Among(Notify(q, FALSE), tasks) => Among(Notify(q, FALSE), tasks')
    BY <1>3, <2>1
  <2> QED
    BY <1>1, <1>6, <2>2 DEF Awaited, Notify
<1> QED
  BY <1>1, <1>2, <1>4, <1>5, <1>6, RememberedQuiet DEF InReach

\* A report of one that is there: its outputs will be looked at, or it and they
\* will be killed.
LEMMA RememberedTakeNotify ==
  ASSUME Typed, Orderly, Graph, Remembered, TakeNotify
  PROVE  Remembered'
<1>1. InstancesSteady /\ \A k \in Key : Exists(k)' <=> Exists(k)
  BY SteadyTakeNotify
<1>2. PICK p \in Pointer : p = Head(tasks).inst /\ Alive(p)
  BY SteadyTakeNotify
<1>3. /\ TypeOK /\ NextTask /\ Head(tasks).kind = "notify" /\ UNCHANGED <<worker, work>>
      /\ mpc # "kill" /\ mpc # "outputs" /\ ReleaseNeck(p) /\ current' = p
      /\ IF Head(tasks).exc
           THEN mpc' = "kill" /\ todo' = <<p>>
           ELSE mpc' = "outputs" /\ todo' = inst[p.key].outputs
  BY <1>2 DEF TakeNotify, NextTask, Typed, workerVars
<1>4. Head(tasks).exc \in BOOLEAN /\ \A x : Among(x, tasks) <=> x = Notify(p, Head(tasks).exc) \/ Among(x, tasks')
  BY <1>2, <1>3, TakenTask
<1>5. ASSUME NEW q \in Pointer, NEW b \in BOOLEAN, Among(Notify(q, b), tasks)
      PROVE  Among(Notify(q, b), tasks') \/ (q = p /\ b = Head(tasks).exc)
  BY <1>4, <1>5, SameReport
<1>6. Head(tasks).exc => Doomed(p)'
  BY <1>3 DEF Doomed, Among
<1>7. ~Head(tasks).exc => ~Unfinished(p)
  <2>1. ASSUME ~Head(tasks).exc PROVE inst[p.key].product
    <3>1. 1 \in 1 .. Len(tasks) /\ tasks[1] = Head(tasks)
      BY <1>3, TailShape DEF NextTask, TypeOK
    <3>2. tasks[1] = Notify(p, FALSE)
      BY <1>2, <1>3, <1>4, <2>1, <3>1, TakenTask
    <3> QED
      BY <1>2, <3>1, <3>2 DEF Orderly, StoredFirst
  <2> QED
    BY <2>1 DEF Unfinished
<1>8. \A q \in Pointer : Failed(q) => Failed(q)' \/ Doomed(q)'
  <2>1. ASSUME NEW q \in Pointer, Failed(q) PROVE Failed(q)' \/ Doomed(q)'
    <3>1. Among(Notify(q, TRUE), tasks') \/ (q = p /\ TRUE = Head(tasks).exc)
      BY <1>5, <2>1 DEF Failed
    <3> QED
      BY <1>6, <3>1 DEF Failed, Notify
  <2> QED
    BY <2>1
<1>9. \A q \in Pointer : ~Doomed(q)
  BY <1>3 DEF Doomed
<1>10. ASSUME NEW q \in Pointer, Unfinished(q), Posted(q) PROVE Posted(q)' \/ Doomed(q)'
  <2>1. CASE q = p
    BY <1>6, <1>7, <1>10, <2>1
  <2>2. CASE q # p
    <3>1. SubstrateOf(q) \in Substrate
      BY KeyParts DEF Pointer, SubstrateOf
    <3>2. q \in waiting[SubstrateOf(q)] => q \in waiting'[SubstrateOf(q)]
      BY <1>3, <2>2, <3>1 DEF ReleaseNeck, TypeOK
    <3> QED
      BY <1>3, <1>10, <3>2 DEF Posted, SubstrateOf
  <2> QED
    BY <2>1, <2>2
<1>11. ASSUME NEW q \in Pointer, NEW r \in Pointer, Unfinished(q), ReadyAt(q), Input(r, q), Awaited(r, q)
       PROVE  Awaited(r, q)'
  <2>1. CASE Among(Notify(r, FALSE), tasks)
    <3>1. CASE Among(Notify(r, FALSE), tasks')
      BY <3>1 DEF Awaited, Notify
    <3>2. CASE r = p /\ FALSE = Head(tasks).exc
      <4>1. Output(p, q)
        BY <1>2, <1>11, <3>2 DEF Graph, Linked, Unfinished
      <4> QED
        BY <1>3, <3>2, <4>1 DEF Awaited, Output, Among
    <3> QED
      BY <1>5, <2>1, <3>1, <3>2
  <2>2. CASE ~Among(Notify(r, FALSE), tasks)
    BY <1>3, <1>11, <2>2 DEF Awaited
  <2> QED
    BY <2>1, <2>2
<1> QED
  BY <1>1, <1>3, <1>8, <1>9, <1>10, <1>11, RememberedQuiet DEF InReach

\* An instance is killed: its outputs are next.
LEMMA RememberedKillNext ==
  ASSUME Typed, Graph, Remembered, KillNext
  PROVE  Remembered'
<1>1. PICK p \in Pointer : p = Head(todo)
  BY TailShape DEF KillNext, Typed, TypeOK
<1>2. /\ mpc = "kill" /\ UNCHANGED <<mpc, worker, work, waiting, tasks>>
      /\ \A q \in Pointer : Alive(q)' <=> Alive(q) /\ q # p
      /\ \A q \in Pointer : Doomed(q) => Doomed(q)' \/ q = p
      /\ \A q \in Pointer : Output(p, q) => Doomed(q)'
  BY <1>1, KillView
<1>3. InstancesSteady
  BY SteadyKillNext
<1>4. \A q \in Pointer : /\ Computed(q)' <=> Computed(q)
                         /\ Posted(q)' <=> Posted(q)
                         /\ Failed(q)' <=> Failed(q)
                         /\ \A r \in Pointer : Awaited(r, q) => Awaited(r, q)'
  BY <1>2 DEF Computed, Computing, Posted, SubstrateOf, Failed, Awaited, Notify, Among
<1>5. ASSUME NEW q \in Pointer, Alive(q)'
      PROVE  /\ Alive(q) /\ q # p
             /\ (Finished(q)' <=> Finished(q)) /\ (Unfinished(q)' <=> Unfinished(q))
             /\ (Taken(q)' <=> Taken(q))
             /\ \A r : Input(r, q)' <=> Input(r, q)
  BY <1>2, <1>3, <1>5, StandsSteady
<1>6. TakenHeld'
  <2>1. ASSUME NEW q \in Pointer, Taken(q)' PROVE Held(q)'
    <3>1. Alive(q)'
      BY <2>1 DEF Taken
    <3>2. Held(q) /\ q # p
      BY <1>5, <2>1, <3>1 DEF Remembered, TakenHeld
    <3> QED
      BY <1>2, <1>4, <1>5, <3>1, <3>2 DEF Held
  <2> QED
    BY <2>1 DEF TakenHeld
<1>7. BereftDoomed'
  <2>1. ASSUME NEW q \in Pointer, Unfinished(q)', NEW r \in Pointer, Input(r, q)', ~Alive(r)'
        PROVE  Doomed(q)'
    <3>1. Alive(q)' /\ Alive(q) /\ Unfinished(q) /\ q # p /\ Input(r, q)
      BY <1>5, <2>1 DEF Unfinished
    <3>2. CASE Alive(r)
      <4>1. r = p
        BY <1>2, <2>1, <3>2
      <4>2. Output(p, q)
        BY <3>1, <3>2, <4>1 DEF Graph, Linked
      <4> QED
        BY <1>2, <4>2
    <3>3. CASE ~Alive(r)
      BY <1>2, <3>1, <3>3 DEF Remembered, BereftDoomed, Bereft
    <3> QED
      BY <3>2, <3>3
  <2> QED
    BY <2>1 DEF BereftDoomed, Bereft
<1>8. NoneLost'
  <2>1. ASSUME NEW q \in Pointer, Unfinished(q)', ReadyAt(q)' PROVE InReach(q)'
    <3>1. Alive(q)' /\ Unfinished(q) /\ q # p /\ \A r : Input(r, q)' <=> Input(r, q)
      BY <1>5, <2>1 DEF Unfinished
    <3>2. ReadyAt(q)
      <4>1. \A r \in Pointer : Finished(r)' => Finished(r)
        BY <1>5 DEF Finished
      <4> QED
        BY <2>1, <3>1, <4>1 DEF ReadyAt
    <3>3. InReach(q)
      BY <3>1, <3>2 DEF Remembered, NoneLost
    <3> QED
      BY <1>2, <1>4, <3>1, <3>3 DEF InReach
  <2> QED
    BY <2>1 DEF NoneLost
<1> QED
  BY <1>6, <1>7, <1>8 DEF Remembered

\* What is swept no unfinished instance waits for.
LEMMA RememberedEndBatch ==
  ASSUME Typed, Graph, Remembered, EndBatch
  PROVE  Remembered'
<1>1. InstancesSteady
  BY SteadyEndBatch
<1>2. /\ UNCHANGED <<worker, work, waiting, tasks>> /\ mpc = "batch"
  BY DEF EndBatch, workerVars
<1>3. ASSUME NEW q \in Pointer, Alive(q), ~Alive(q)'
      PROVE  \A r \in Pointer : Output(q, r) => ~Unfinished(r)
  <2>1. q.key \in Key /\ Exists(q.key) /\ ~Exists(q.key)'
    BY <1>1, <1>3 DEF Pointer, Alive, InstancesSteady
  <2>2. Evictable(q.key)
    BY <2>1, GraphEndBatch
  <2> QED
    BY <1>3, <2>2 DEF Evictable, Finished, Output, Among, Unfinished
<1>4. \A q \in Pointer : /\ Computed(q)' <=> Computed(q)
                         /\ Posted(q)' <=> Posted(q)
                         /\ Failed(q)' <=> Failed(q)
                         /\ ~Doomed(q)
                         /\ \A r \in Pointer : Awaited(r, q) => Awaited(r, q)'
  BY <1>2 DEF Computed, Computing, Posted, SubstrateOf, Failed, Doomed, Awaited, Notify, Among
<1>5. ASSUME NEW q \in Pointer, Alive(q)'
      PROVE  /\ Alive(q)
             /\ (Finished(q)' <=> Finished(q)) /\ (Unfinished(q)' <=> Unfinished(q))
             /\ (Taken(q)' <=> Taken(q))
             /\ \A r : Input(r, q)' <=> Input(r, q)
  BY <1>1, <1>5, StandsSteady
<1>6. TakenHeld'
  <2>1. ASSUME NEW q \in Pointer, Taken(q)' PROVE Held(q)'
    <3>1. Alive(q)'
      BY <2>1 DEF Taken
    <3>2. Held(q)
      BY <1>5, <2>1, <3>1 DEF Remembered, TakenHeld
    <3> QED
      BY <1>4, <1>5, <3>1, <3>2 DEF Held
  <2> QED
    BY <2>1 DEF TakenHeld
<1>7. BereftDoomed'
  <2>1. ASSUME NEW q \in Pointer, Unfinished(q)', NEW r \in Pointer, Input(r, q)', ~Alive(r)'
        PROVE  FALSE
    <3>1. Alive(q)' /\ Alive(q) /\ Unfinished(q) /\ Input(r, q)
      BY <1>5, <2>1 DEF Unfinished
    <3>2. Alive(r)
      BY <1>4, <3>1 DEF Remembered, BereftDoomed, Bereft
    <3>3. Output(r, q)
      BY <3>1, <3>2 DEF Graph, Linked
    <3> QED
      BY <1>3, <2>1, <3>1, <3>2, <3>3
  <2> QED
    BY <2>1 DEF BereftDoomed, Bereft
<1>8. NoneLost'
  <2>1. ASSUME NEW q \in Pointer, Unfinished(q)', ReadyAt(q)' PROVE InReach(q)'
    <3>1. Alive(q)' /\ Unfinished(q) /\ \A r : Input(r, q)' <=> Input(r, q)
      BY <1>5, <2>1 DEF Unfinished
    <3>2. ReadyAt(q)
      <4>1. \A r \in Pointer : Finished(r)' => Finished(r)
        BY <1>5 DEF Finished
      <4> QED
        BY <2>1, <3>1, <4>1 DEF ReadyAt
    <3>3. InReach(q)
      BY <3>1, <3>2 DEF Remembered, NoneLost
    <3> QED
      BY <1>4, <3>1, <3>3 DEF InReach
  <2> QED
    BY <2>1 DEF NoneLost
<1> QED
  BY <1>6, <1>7, <1>8 DEF Remembered

\* A new instance is posted at once if it is ready.
LEMMA RememberedCloseInstance ==
  ASSUME Typed, Orderly, Graph, Remembered, CloseInstance
  PROVE  Remembered'
<1>1. PICK p \in Pointer : p = PointerOf(stack[1])
  BY CallParts DEF CloseInstance
<1>2. /\ UNCHANGED <<worker, tasks>> /\ mpc = "construct"
      /\ \A q \in Pointer :
           /\ Finished(q)' <=> Finished(q)
           /\ Unfinished(q)' <=> Unfinished(q) \/ q = p
           /\ Taken(q)' <=> Taken(q)
           /\ Posted(q)' <=> Posted(q) \/ (q = p /\ ReadyAt(p)')
           /\ Failed(q)' <=> Failed(q)
           /\ ~Doomed(q)
           /\ q # p => (ReadyAt(q)' <=> ReadyAt(q))
           /\ \A w \in Worker : Computing(w, q)' <=> Computing(w, q)
  BY <1>1, CloseStands
<1>3. /\ \A q \in Pointer : Alive(q)' <=> Alive(q) \/ q = p
      /\ \A q \in Pointer : Input(q, p)' => Alive(q)
      /\ \A q, r \in Pointer : r # p => (Input(q, r)' <=> Input(q, r))
  BY <1>1, CloseView
<1>4. \A q \in Pointer : /\ Computed(q)' <=> Computed(q)
                         /\ \A r \in Pointer : Awaited(r, q) => Awaited(r, q)'
  BY <1>2 DEF Computed, Awaited, Notify, Among
<1>5. TakenHeld'
  BY <1>2, <1>4 DEF Remembered, TakenHeld, Held
<1>6. BereftDoomed'
  BY <1>2, <1>3 DEF Remembered, BereftDoomed, Bereft
<1>7. NoneLost'
  <2>1. ASSUME NEW q \in Pointer, Unfinished(q)', ReadyAt(q)' PROVE InReach(q)'
    <3>1. CASE q = p
      BY <1>2, <2>1, <3>1 DEF InReach
    <3>2. CASE q # p
      <4>1. InReach(q)
        BY <1>2, <2>1, <3>2 DEF Remembered, NoneLost
      <4> QED
        BY <1>2, <1>3, <1>4, <3>2, <4>1 DEF InReach
    <3> QED
      BY <3>1, <3>2
  <2> QED
    BY <2>1 DEF NoneLost
<1> QED
  BY <1>5, <1>6, <1>7 DEF Remembered

\* Whatever anyone does.
LEMMA RememberedNext == Typed /\ Orderly /\ Graph /\ Ordered /\ Remembered /\ [Next]_vars => Remembered'
<1> SUFFICES ASSUME Typed, Orderly, Graph, Ordered, Remembered, [Next]_vars PROVE Remembered'
  OBVIOUS
<1>1. CASE \/ \E r \in Request : GetFrame(r)
           \/ TakeConstruct \/ ReuseInstance \/ OpenInstance
           \/ AnswerCallback \/ EndKill \/ EndTask \/ InvokeCallback \/ UNCHANGED vars
  BY <1>1, RememberedEasyStep
<1>2. CASE TakeNotify
  BY <1>2, RememberedTakeNotify
<1>3. CASE TakeStaleNotify
  BY <1>3, RememberedTakeStaleNotify
<1>4. CASE CloseInstance
  BY <1>4, RememberedCloseInstance
<1>5. CASE LookAtOutput
  BY <1>5, RememberedLookAtOutput
<1>6. CASE KillNext
  BY <1>6, RememberedKillNext
<1>7. ASSUME NEW s \in Single, NEW p \in waiting[s], PostFromNeck(s, p) PROVE Remembered'
  BY <1>7, RememberedPostFromNeck
<1>8. CASE EndBatch
  BY <1>8, RememberedEndBatch
<1>9. ASSUME NEW w \in Worker, WorkerStep(w) PROVE Remembered'
  BY <1>9, RememberedWorkerStep
<1> QED
  BY <1>1, <1>2, <1>3, <1>4, <1>5, <1>6, <1>7, <1>8, <1>9 DEF Next, Maintainer

\* Nothing is there to be forgotten.
LEMMA RememberedInit == Init => Remembered
<1> SUFFICES ASSUME Init PROVE Remembered
  OBVIOUS
<1>1. \A p \in Pointer : ~Alive(p)
  BY DEF Init, Alive, Exists, Pointer
<1> QED
  BY <1>1 DEF Remembered, TakenHeld, BereftDoomed, NoneLost, Taken, Unfinished

\* The invariant of every run.
LEMMA RememberedAlways == Spec => [](Typed /\ Remembered)
<1>1. Init => Remembered
  BY RememberedInit
<1>2. (Typed /\ Orderly /\ Graph /\ Ordered) /\ Remembered /\ [Next]_vars => Remembered'
  BY RememberedNext
<1> QED
  BY <1>1, <1>2, OrderedAlways, PTL DEF Spec

\* An unfinished instance, outside a kill.
LEMMA NothingFromRemembered == Typed /\ Remembered => NothingForgotten
<1> SUFFICES ASSUME Typed, Remembered, NEW k \in Key, Exists(k), ~inst[k].product, mpc # "kill"
             PROVE  /\ \A i \in inst[k].inputs : Alive(i)
                    /\ Ready(inst[k].inputs) => InHand(PointerTo(k)) \/ Due(PointerTo(k))
  BY DEF NothingForgotten
<1>1. PICK p \in Pointer : p = PointerTo(k)
  BY InstanceParts DEF PointerTo, Typed
<1>2. TypeOK /\ p.key = k /\ Alive(p) /\ Unfinished(p) /\ inst[k].inputs \in SUBSET Pointer
  BY <1>1, InstanceParts DEF PointerTo, Alive, Unfinished, Typed, Instance
<1>3. \A i \in inst[k].inputs : Alive(i)
  BY <1>2 DEF Remembered, BereftDoomed, Bereft, Doomed, Input
<1>4. ASSUME Ready(inst[k].inputs) PROVE InHand(p) \/ Due(p)
  <2>1. InReach(p)
    BY <1>2, <1>4, ReadyInputs DEF Remembered, NoneLost
  <2>2. Posted(p) \/ Computed(p) \/ Failed(p) => InHand(p)
    BY DEF Posted, Computed, Computing, Failed, Among, InHand, At, WorkerAt
  <2>3. ~Doomed(p)
    BY DEF Doomed
  <2>4. ASSUME NEW q \in Pointer, Input(q, p), Awaited(q, p) PROVE Due(p)
    BY <2>4 DEF Input, Awaited, Among, Due, At, WorkerAt
  <2> QED
    BY <2>1, <2>2, <2>3, <2>4 DEF InReach
<1> QED
  BY <1>1, <1>3, <1>4

\* The maintainer never loses a frame: an unfinished instance keeps its inputs,
\* and once they are finished something is under way that will post it, compute
\* it or give it up, however the reports of the workers are ordered.
THEOREM NoneForgotten == Spec => []NothingForgotten
BY RememberedAlways, NothingFromRemembered, PTL

-----------------------------------------------------------------------------
(* What the clients are promised.                                          *)

\* Where the callback of a request can be: in a task, with a call of construct,
\* with an instance, in the callback queue.
Asked(r) == Among(Construct(r), tasks)
Called(r) == \E i \in 1 .. Len(stack) : stack[i].callback = r
Kept(r) == \E k \in Key : Exists(k) /\ inst[k].callback = r
Queueing(i, r) == callbacks[i].request = r
Answered(r) == \E i \in 1 .. Len(callbacks) : Queueing(i, r)

\* It is in one of them, once, and only while the request is waiting.
AskedOnce(r) == \A i, j \in 1 .. Len(tasks) : tasks[i] = Construct(r) /\ tasks[j] = Construct(r) => i = j
AnsweredOnce(r) == \A i, j \in 1 .. Len(callbacks) : Queueing(i, r) /\ Queueing(j, r) => i = j
InOnePlace(r) ==
  /\ Asked(r) \/ Called(r) \/ Kept(r) \/ Answered(r) => answer[r] = "waiting"
  /\ Asked(r) => ~Called(r) /\ ~Kept(r) /\ ~Answered(r)
  /\ Called(r) => ~Kept(r) /\ ~Answered(r)
  /\ Kept(r) => ~Answered(r)
  /\ AskedOnce(r) /\ AnsweredOnce(r)
CallbacksApart == \A r \in Request : InOnePlace(r)

\* It is with the frame the request asks for, and only the outermost call has one.
CallbacksRight ==
  /\ \A i \in 1 .. Len(stack) : stack[i].callback # None =>
       i = Len(stack) /\ stack[i].key = KeyOf[stack[i].callback]
  /\ \A k \in Key : Exists(k) /\ inst[k].callback # None => KeyOf[inst[k].callback] = k
Settled == CallbacksApart /\ CallbacksRight

\* An output of an instance is of a frame that depends on its frame.
OutputsDepend == \A p, q \in Pointer : Output(p, q) => p.key \in Edges(q.key)

\* What has failed, what is about to be killed and what is answered with an error
\* is of a frame that can fail.
Wrong(i) == callbacks[i].result = "error"
Blamed ==
  /\ \A p \in Pointer : Failed(p) \/ Doomed(p) => p.key \in Fallible
  /\ \A i \in 1 .. Len(callbacks) : Wrong(i) => KeyOf[callbacks[i].request] \in Fallible
Served == Typed /\ Orderly /\ Graph /\ Settled /\ OutputsDepend /\ Blamed

-----------------------------------------------------------------------------
(* where the callbacks are *)

\* No instance comes, and none of those that stay gets another callback.
CallbacksStay == \A k \in Key : Exists(k)' => Exists(k) /\ inst'[k].callback = inst[k].callback

\* An instance is changed in place, but not in its callback.
LEMMA RenewStays ==
  ASSUME TypeOK, NEW p \in Pointer, Alive(p), NEW new \in Instance,
         new.gen = inst[p.key].gen, new.callback = inst[p.key].callback,
         inst' = [inst EXCEPT ![p.key] = new]
  PROVE  CallbacksStay
<1>1. /\ p.key \in Key
      /\ inst'[p.key] = new
      /\ \A k \in Key : k # p.key => inst'[k] = inst[k]
      /\ \A k \in Key : Exists(k)' <=> Exists(k)
  BY Renew, AlivePointer
<1> QED
  BY <1>1 DEF CallbacksStay

\* A step that leaves the instances alone.
LEMMA SameStays ==
  ASSUME UNCHANGED inst
  PROVE  CallbacksStay
BY DEF CallbacksStay, Exists

\* The tasks that can be added or taken without a callback.
LEMMA NotAsked ==
  ASSUME NEW r, NEW p, NEW b
  PROVE  Notify(p, b) # Construct(r)
<1>1. Notify(p, b).kind = "notify" /\ Construct(r).kind = "construct"
  BY DEF Notify, Construct
<1> QED
  BY <1>1

\* A report is added: nothing more is asked.
LEMMA AskedReport ==
  ASSUME TypeOK, NEW p \in Pointer, NEW b \in BOOLEAN, tasks' = Append(tasks, Notify(p, b)), NEW r
  PROVE  (Asked(r)' => Asked(r)) /\ (AskedOnce(r) => AskedOnce(r)')
<1>1. Notify(p, b) \in Tasks
  BY DEF Notify, Tasks
<1>2. Notify(p, b) # Construct(r)
  BY NotAsked
<1> HIDE DEF Notify
<1>3. /\ Len(tasks) \in Nat /\ Len(tasks') = Len(tasks) + 1
      /\ tasks'[Len(tasks) + 1] = Notify(p, b)
      /\ \A i \in 1 .. Len(tasks) : tasks'[i] = tasks[i]
  BY <1>1, TaskAdded
<1>4. ASSUME NEW i \in 1 .. Len(tasks'), tasks'[i] = Construct(r)
      PROVE  i \in 1 .. Len(tasks) /\ tasks[i] = Construct(r)
  <2>1. i # Len(tasks) + 1
    BY <1>2, <1>3, <1>4
  <2>2. i \in 1 .. Len(tasks)
    BY <1>3, <2>1
  <2> QED
    BY <1>3, <1>4, <2>2
<1>5. Asked(r)' => Asked(r)
  BY <1>4 DEF Asked, Among, Construct
<1>6. AskedOnce(r) => AskedOnce(r)'
  BY <1>4 DEF AskedOnce, Construct
<1> QED
  BY <1>5, <1>6

\* A task is taken: what it asked for is asked no more.
LEMMA AskedTaken ==
  ASSUME TypeOK, NextTask, NEW r
  PROVE  /\ Asked(r)' => Asked(r)
         /\ AskedOnce(r) => AskedOnce(r)'
         /\ Head(tasks) = Construct(r) => Asked(r) /\ (AskedOnce(r) => ~Asked(r)')
<1>1. \A i \in 1 .. Len(tasks') : i + 1 \in 1 .. Len(tasks) /\ tasks'[i] = tasks[i + 1]
  BY TaskRead
<1>2. Head(tasks) = tasks[1] /\ 1 \in 1 .. Len(tasks) /\ Len(tasks') \in Nat
  BY NextTaskType
<1>3. Asked(r)' => Asked(r)
  BY <1>1 DEF Asked, Among, Construct
<1>4. ASSUME AskedOnce(r), NEW i \in 1 .. Len(tasks'), NEW j \in 1 .. Len(tasks'),
             tasks'[i] = Construct(r), tasks'[j] = Construct(r)
      PROVE  i = j
  <2>1. i + 1 = j + 1
    BY <1>1, <1>4 DEF AskedOnce
  <2> QED
    BY <1>2, <2>1
<1>5. AskedOnce(r) => AskedOnce(r)'
  BY <1>4 DEF AskedOnce, Construct
<1>6. ASSUME Head(tasks) = Construct(r) PROVE Asked(r)
  BY <1>2, <1>6 DEF Asked, Among
<1>7. ASSUME Head(tasks) = Construct(r), AskedOnce(r), NEW i \in 1 .. Len(tasks'), tasks'[i] = Construct(r)
      PROVE  FALSE
  <2>1. i + 1 = 1
    BY <1>1, <1>2, <1>7 DEF AskedOnce
  <2> QED
    BY <1>2, <2>1
<1>8. Head(tasks) = Construct(r) => (AskedOnce(r) => ~Asked(r)')
  BY <1>7 DEF Asked, Among, Construct
<1> QED
  BY <1>3, <1>5, <1>6, <1>8

\* A request is made.
LEMMA AskedNew ==
  ASSUME TypeOK, NEW q \in Request, tasks' = Append(tasks, Construct(q)), NEW r
  PROVE  /\ Asked(r)' => Asked(r) \/ r = q
         /\ AskedOnce(r) /\ (r = q => ~Asked(r)) => AskedOnce(r)'
<1>1. Construct(q) \in Tasks /\ (Construct(q) = Construct(r) => q = r)
  <2>1. Construct(q).request = q /\ Construct(r).request = r
    BY DEF Construct
  <2> QED
    BY <2>1 DEF Construct, Tasks
<1>3. /\ Len(tasks) \in Nat /\ Len(tasks') = Len(tasks) + 1
      /\ tasks'[Len(tasks) + 1] = Construct(q)
      /\ \A i \in 1 .. Len(tasks) : tasks'[i] = tasks[i]
  BY <1>1, TaskAdded
<1>4. ASSUME NEW i \in 1 .. Len(tasks'), tasks'[i] = Construct(r)
      PROVE  \/ i \in 1 .. Len(tasks) /\ tasks[i] = Construct(r)
             \/ i = Len(tasks) + 1 /\ r = q
  <2>1. CASE i = Len(tasks) + 1
    BY <1>1, <1>3, <1>4, <2>1
  <2>2. CASE i # Len(tasks) + 1
    <3>1. i \in 1 .. Len(tasks)
      BY <1>3, <2>2
    <3> QED
      BY <1>3, <1>4, <3>1
  <2> QED
    BY <2>1, <2>2
<1>5. Asked(r)' => Asked(r) \/ r = q
  BY <1>4 DEF Asked, Among, Construct
<1>6. ASSUME AskedOnce(r), r = q => ~Asked(r),
             NEW i \in 1 .. Len(tasks'), NEW j \in 1 .. Len(tasks'),
             tasks'[i] = Construct(r), tasks'[j] = Construct(r)
      PROVE  i = j
  BY <1>4, <1>6 DEF AskedOnce, Asked, Among
<1>7. AskedOnce(r) /\ (r = q => ~Asked(r)) => AskedOnce(r)'
  BY <1>6 DEF AskedOnce, Construct
<1> QED
  BY <1>5, <1>7

\* A callback is posted, or there is none.
LEMMA PostParts ==
  ASSUME TypeOK, NEW q \in Request \cup {None}, NEW res \in {"frame", "error"}, Post(q, res)
  PROVE  \A i \in 1 .. Len(callbacks') :
           \/ i \in 1 .. Len(callbacks) /\ callbacks'[i] = callbacks[i]
           \/ q # None /\ i = Len(callbacks) + 1 /\ callbacks'[i] = [request |-> q, result |-> res]
<1>1. callbacks \in Seq(Answers)
  BY DEF TypeOK, Answers
<1>2. CASE q = None
  BY <1>2 DEF Post
<1>3. CASE q # None
  <2> DEFINE a == [request |-> q, result |-> res]
  <2>1. a \in Answers /\ callbacks' = Append(callbacks, a)
    BY <1>3 DEF Answers, Post
  <2> HIDE DEF a
  <2>2. /\ Len(callbacks) \in Nat /\ Len(callbacks') = Len(callbacks) + 1
        /\ callbacks'[Len(callbacks) + 1] = a
        /\ \A i \in 1 .. Len(callbacks) : callbacks'[i] = callbacks[i]
    BY <1>1, <2>1
  <2>3. ASSUME NEW i \in 1 .. Len(callbacks'), i # Len(callbacks) + 1 PROVE i \in 1 .. Len(callbacks)
    BY <2>2, <2>3
  <2> QED
    BY <1>3, <2>2, <2>3 DEF a
<1> QED
  BY <1>2, <1>3

\* The requests that are in the callback queue then.
LEMMA AnsweredPost ==
  ASSUME TypeOK, NEW q \in Request \cup {None}, NEW res \in {"frame", "error"}, Post(q, res), NEW r
  PROVE  /\ Answered(r)' => Answered(r) \/ (r = q /\ q # None)
         /\ AnsweredOnce(r) /\ (r = q => ~Answered(r)) => AnsweredOnce(r)'
<1>1. ASSUME NEW i \in 1 .. Len(callbacks'), Queueing(i, r)'
      PROVE  \/ i \in 1 .. Len(callbacks) /\ Queueing(i, r)
             \/ r = q /\ q # None /\ i = Len(callbacks) + 1
  <2>1. \/ i \in 1 .. Len(callbacks) /\ callbacks'[i] = callbacks[i]
        \/ q # None /\ i = Len(callbacks) + 1 /\ callbacks'[i] = [request |-> q, result |-> res]
    BY PostParts
  <2>2. callbacks'[i].request = r
    BY <1>1 DEF Queueing
  <2>3. callbacks'[i] = [request |-> q, result |-> res] => callbacks'[i].request = q
    OBVIOUS
  <2> QED
    BY <2>1, <2>2, <2>3 DEF Queueing
<1>2. Answered(r)' => Answered(r) \/ (r = q /\ q # None)
  BY <1>1 DEF Answered, Queueing
<1>3. ASSUME AnsweredOnce(r), r = q => ~Answered(r),
             NEW i \in 1 .. Len(callbacks'), NEW j \in 1 .. Len(callbacks'),
             Queueing(i, r)', Queueing(j, r)'
      PROVE  i = j
  BY <1>1, <1>3 DEF AnsweredOnce, Answered
<1>4. AnsweredOnce(r) /\ (r = q => ~Answered(r)) => AnsweredOnce(r)'
  BY <1>3 DEF AnsweredOnce, Queueing
<1> QED
  BY <1>2, <1>4

\* The first callback is taken.
LEMMA AnsweredTaken ==
  ASSUME TypeOK, callbacks # <<>>, callbacks' = Tail(callbacks), NEW r
  PROVE  /\ Answered(r)' => Answered(r)
         /\ AnsweredOnce(r) => AnsweredOnce(r)'
         /\ Head(callbacks).request = r => Answered(r) /\ (AnsweredOnce(r) => ~Answered(r)')
<1>1. /\ Head(callbacks) = callbacks[1] /\ 1 \in 1 .. Len(callbacks) /\ Len(callbacks') \in Nat
      /\ \A i \in 1 .. Len(callbacks') : i + 1 \in 1 .. Len(callbacks) /\ callbacks'[i] = callbacks[i + 1]
  <2>1. callbacks \in Seq(Answers)
    BY DEF TypeOK, Answers
  <2> QED
    BY <2>1, TailShape
<1>2. \A i \in 1 .. Len(callbacks') : i + 1 \in 1 .. Len(callbacks) /\ (Queueing(i, r)' <=> Queueing(i + 1, r))
  BY <1>1 DEF Queueing
<1>3. Answered(r)' => Answered(r)
  BY <1>2 DEF Answered, Queueing
<1>4. ASSUME AnsweredOnce(r), NEW i \in 1 .. Len(callbacks'), NEW j \in 1 .. Len(callbacks'),
             Queueing(i, r)', Queueing(j, r)'
      PROVE  i = j
  <2>1. i + 1 = j + 1
    BY <1>2, <1>4 DEF AnsweredOnce
  <2> QED
    BY <1>1, <2>1
<1>5. AnsweredOnce(r) => AnsweredOnce(r)'
  BY <1>4 DEF AnsweredOnce, Queueing
<1>6. ASSUME Head(callbacks).request = r
      PROVE  Answered(r) /\ Queueing(1, r)
  BY <1>1, <1>6 DEF Answered, Queueing
<1>7. ASSUME Head(callbacks).request = r, AnsweredOnce(r),
             NEW i \in 1 .. Len(callbacks'), Queueing(i, r)'
      PROVE  FALSE
  <2>1. i + 1 = 1
    BY <1>1, <1>2, <1>6, <1>7 DEF AnsweredOnce
  <2> QED
    BY <1>1, <2>1
<1>8. Head(callbacks).request = r => (AnsweredOnce(r) => ~Answered(r)')
  BY <1>7 DEF Answered, Queueing
<1> QED
  BY <1>3, <1>5, <1>6, <1>8

\* Nothing is asked, answered or called that was not, and no callback moves to an
\* instance.
LEMMA SettledQuiet ==
  ASSUME Settled, CallbacksStay, UNCHANGED <<callbacks, answer>>,
         stack' = stack \/ stack' = <<>>,
         \A r : (Asked(r)' => Asked(r)) /\ (AskedOnce(r) => AskedOnce(r)')
  PROVE  Settled'
<1>1. ASSUME NEW r \in Request PROVE InOnePlace(r)'
  <2>1. InOnePlace(r)
    BY DEF Settled, CallbacksApart
  <2>2. Called(r)' => Called(r)
    BY DEF Called
  <2>3. Kept(r)' => Kept(r)
    BY DEF Kept, CallbacksStay
  <2>4. (Answered(r)' <=> Answered(r)) /\ (AnsweredOnce(r)' <=> AnsweredOnce(r))
    BY DEF Answered, AnsweredOnce, Queueing
  <2> QED
    BY <2>1, <2>2, <2>3, <2>4 DEF InOnePlace
<1>2. CallbacksRight'
  <2>1. \A k \in Key : Exists(k)' /\ inst'[k].callback # None => KeyOf[inst'[k].callback] = k
    BY DEF Settled, CallbacksRight, CallbacksStay
  <2>2. \A i \in 1 .. Len(stack') : stack'[i].callback # None =>
       i = Len(stack') /\ stack'[i].key = KeyOf[stack'[i].callback]
    BY DEF Settled, CallbacksRight
  <2> QED
    BY <2>1, <2>2 DEF CallbacksRight
<1> QED
  BY <1>1, <1>2 DEF Settled, CallbacksApart

\* What a worker does to the callbacks: nothing.
LEMMA WorkerStays ==
  ASSUME Typed, NEW w \in Worker, WorkerStep(w)
  PROVE  CallbacksStay
<1>1. CASE UNCHANGED inst
  BY <1>1, SameStays
<1>2. CASE TestTaken(w) \/ LockBusy(w) \/ StoreProduct(w)
  <2>1. At(w) \in Pointer /\ TypeOK
    BY <1>2, WorkerPointer DEF TestTaken, LockBusy, StoreProduct, WorkerAt
  <2>2. CASE ~Alive(At(w))
    <3>1. UNCHANGED inst
      BY <1>2, <2>2 DEF TestTaken, LockBusy, StoreProduct
    <3> QED
      BY <3>1, SameStays
  <2>3. CASE Alive(At(w))
    <3> DEFINE i == inst[At(w).key]
    <3>1. i \in Instance
      BY <2>1, <2>3, AlivePointer
    <3>2. \/ UNCHANGED inst
          \/ inst' = [inst EXCEPT ![At(w).key] = [i EXCEPT !.taken = TRUE]]
          \/ inst' = [inst EXCEPT ![At(w).key] = [i EXCEPT !.taken = FALSE]]
          \/ inst' = [inst EXCEPT ![At(w).key] = [i EXCEPT !.product = TRUE]]
      BY <1>2, <2>3 DEF TestTaken, LockBusy, StoreProduct
    <3>3. \A n \in {[i EXCEPT !.taken = TRUE], [i EXCEPT !.taken = FALSE], [i EXCEPT !.product = TRUE]} :
            n \in Instance /\ n.gen = i.gen /\ n.callback = i.callback
      <4> HIDE DEF i
      <4> QED
        BY <3>1 DEF Instance
    <3> HIDE DEF i
    <3> QED
      BY <2>1, <2>3, <3>2, <3>3, RenewStays, SameStays DEF i
  <2> QED
    BY <2>2, <2>3
<1> QED
  BY <1>1, <1>2 DEF WorkerStep, Pop, TryLock, Repost, Fail, Succeed, Unlock, maintainerVars

\* Nor does it ask for anything.
LEMMA SettledWorkerStep ==
  ASSUME Typed, Settled, NEW w \in Worker, WorkerStep(w)
  PROVE  Settled' /\ UNCHANGED answer
<1>1. CallbacksStay
  BY WorkerStays
<1>2. UNCHANGED <<stack, callbacks, answer>>
  BY DEF WorkerStep, Pop, TestTaken, TryLock, LockBusy, Repost, Fail, StoreProduct, Succeed, Unlock,
     maintainerVars
<1>3. ASSUME NEW r PROVE (Asked(r)' => Asked(r)) /\ (AskedOnce(r) => AskedOnce(r)')
  <2>1. CASE UNCHANGED tasks
    BY <2>1 DEF Asked, AskedOnce, Among, Construct
  <2>2. CASE Fail(w) \/ Succeed(w)
    <3>1. TypeOK /\ At(w) \in Pointer
      BY <2>2, WorkerPointer DEF Fail, Succeed, WorkerAt
    <3>2. \E b \in BOOLEAN : tasks' = Append(tasks, Notify(At(w), b))
      BY <2>2 DEF Fail, Succeed, Announce
    <3> QED
      BY <3>1, <3>2, AskedReport
  <2> QED
    BY <2>1, <2>2 DEF WorkerStep, Pop, TestTaken, TryLock, LockBusy, Repost, StoreProduct, Unlock
<1> QED
  BY <1>1, <1>2, <1>3, SettledQuiet

\* The steps of the maintainer that leave the callbacks where they are.
LEMMA SettledQuietStep ==
  ASSUME Typed, Settled,
         \/ TakeStaleNotify \/ TakeNotify \/ LookAtOutput \/ EndKill
         \/ \E s \in Single : \E p \in waiting[s] : PostFromNeck(s, p)
         \/ EndTask \/ EndBatch \/ UNCHANGED vars
  PROVE  Settled' /\ UNCHANGED answer
<1>1. UNCHANGED <<stack, callbacks, answer>>
  BY DEF TakeStaleNotify, TakeNotify, NextTask, LookAtOutput, EndKill, PostFromNeck, EndTask, EndBatch,
     vars, maintainerVars
<1>2. ASSUME NEW r PROVE (Asked(r)' => Asked(r)) /\ (AskedOnce(r) => AskedOnce(r)')
  <2>1. CASE UNCHANGED tasks
    BY <2>1 DEF Asked, AskedOnce, Among, Construct
  <2>2. CASE NextTask
    BY <2>2, AskedTaken DEF Typed
  <2> QED
    BY <2>1, <2>2 DEF TakeStaleNotify, TakeNotify, LookAtOutput, EndKill, PostFromNeck, EndTask,
       EndBatch, vars
<1>3. CallbacksStay
  <2>1. CASE UNCHANGED inst
    BY <2>1, SameStays
  <2>2. CASE TakeNotify
    <3> DEFINE p == Head(tasks).inst
               new == [inst[p.key] EXCEPT !.single = FALSE]
    <3>1. TypeOK /\ p \in Pointer /\ Alive(p)
      BY <2>2, NextTaskType DEF TakeNotify, Typed
    <3>2. inst[p.key] \in Instance /\ inst' = [inst EXCEPT ![p.key] = new]
      BY <2>2, <3>1, AlivePointer DEF TakeNotify
    <3>3. new \in Instance /\ new.gen = inst[p.key].gen /\ new.callback = inst[p.key].callback
      BY <3>2 DEF Instance
    <3> HIDE DEF new, p
    <3> QED
      BY <3>1, <3>2, <3>3, RenewStays
  <2>3. CASE EndBatch
    <3>1. ASSUME NEW k \in Key, Exists(k)'
          PROVE  Exists(k) /\ inst'[k].callback = inst[k].callback
      <4>1. CASE inst'[k] = inst[k]
        BY <3>1, <4>1 DEF Exists
      <4>2. CASE Evictable(k) /\ inst'[k] = [inst[k] EXCEPT !.indulgence = @ - 1]
        <5>1. inst[k] \in Instance /\ Exists(k)
          BY <4>2, InstanceParts DEF Evictable, Typed
        <5> QED
          BY <4>2, <5>1 DEF Instance
      <4> QED
        BY <2>3, <3>1, <4>1, <4>2 DEF EndBatch, Exists
    <3> QED
      BY <3>1 DEF CallbacksStay
  <2> QED
    BY <2>1, <2>2, <2>3 DEF TakeStaleNotify, LookAtOutput, EndKill, PostFromNeck, EndTask, vars,
       maintainerVars
<1> QED
  BY <1>1, <1>2, <1>3, SettledQuiet

\* The callback of an instance goes to the queue, and the instance has it no more.
LEMMA SettledPosted ==
  ASSUME Typed, Settled, NEW p \in Pointer, Alive(p), NEW res \in {"frame", "error"},
         Post(inst[p.key].callback, res),
         \A k \in Key : k # p.key => inst'[k] = inst[k],
         Exists(p.key)' => inst'[p.key].callback = None,
         UNCHANGED <<stack, tasks, answer>>
  PROVE  Settled'
<1> DEFINE q == inst[p.key].callback
<1>1. TypeOK /\ p.key \in Key /\ Exists(p.key) /\ q \in Request \cup {None}
  BY AlivePointer DEF Typed, Instance
<1>2. q # None => KeyOf[q] = p.key
  BY <1>1 DEF Settled, CallbacksRight
<1>3. ASSUME NEW r \in Request PROVE InOnePlace(r)'
  <2>1. InOnePlace(r) /\ r # None
    BY RequestAssumption DEF Settled, CallbacksApart
  <2>2. (Asked(r)' <=> Asked(r)) /\ (AskedOnce(r)' <=> AskedOnce(r)) /\ (Called(r)' <=> Called(r))
    BY DEF Asked, AskedOnce, Among, Called, Construct
  <2>3. Kept(r)' => Kept(r) /\ r # q
    <3>1. ASSUME NEW k \in Key, Exists(k)', inst'[k].callback = r
          PROVE  Exists(k) /\ inst[k].callback = r /\ k # p.key
      BY <2>1, <3>1 DEF Exists
    <3>2. ASSUME NEW k \in Key, Exists(k), inst[k].callback = r, k # p.key
          PROVE  r # q
      BY <1>2, <2>1, <3>2 DEF Settled, CallbacksRight
    <3> QED
      BY <3>1, <3>2 DEF Kept
  <2>4. r = q => Kept(r)
    BY <1>1 DEF Kept
  <2>5. /\ Answered(r)' => Answered(r) \/ r = q
        /\ AnsweredOnce(r) /\ (r = q => ~Answered(r)) => AnsweredOnce(r)'
    BY <1>1, AnsweredPost
  <2> QED
    BY <2>1, <2>2, <2>3, <2>4, <2>5 DEF InOnePlace
<1>4. CallbacksRight'
  <2>1. ASSUME NEW k \in Key, Exists(k)', inst'[k].callback # None
        PROVE  KeyOf[inst'[k].callback] = k
    <3>1. k # p.key
      BY <2>1
    <3> QED
      BY <2>1, <3>1 DEF Settled, CallbacksRight, Exists
  <2> QED
    BY <2>1 DEF Settled, CallbacksRight
<1> QED
  BY <1>3, <1>4 DEF Settled, CallbacksApart

\* The callback of an instance that is done with is answered.
LEMMA SettledAnswerCallback ==
  ASSUME Typed, Settled, AnswerCallback
  PROVE  Settled' /\ UNCHANGED answer
<1> DEFINE new == [inst[current.key] EXCEPT !.callback = None]
<1>1. TypeOK /\ current \in Pointer /\ Alive(current)
  BY DEF AnswerCallback, Typed, CurrentPlaced
<1>2. inst[current.key] \in Instance /\ inst' = [inst EXCEPT ![current.key] = new]
  BY <1>1, AlivePointer DEF AnswerCallback
<1>3. new \in Instance /\ new.gen = inst[current.key].gen /\ new.callback = None
  BY <1>2 DEF Instance
<1> HIDE DEF new
<1>4. inst'[current.key] = new /\ \A k \in Key : k # current.key => inst'[k] = inst[k]
  BY <1>1, <1>2, <1>3, Renew
<1>5. Post(inst[current.key].callback, "frame") /\ UNCHANGED <<stack, tasks, answer>>
  BY DEF AnswerCallback
<1> QED
  BY <1>1, <1>3, <1>4, <1>5, SettledPosted

\* So is that of one that is killed.
LEMMA SettledKillNext ==
  ASSUME Typed, Settled, KillNext
  PROVE  Settled' /\ UNCHANGED answer
<1>1. PICK p \in Pointer : p = Head(todo)
  BY TailShape DEF KillNext, Typed, TypeOK
<1>2. UNCHANGED <<stack, tasks, answer>>
  BY DEF KillNext
<1>3. CASE Alive(p)
  <2>1. Post(inst[p.key].callback, "error") /\ inst' = [inst EXCEPT ![p.key] = None]
    BY <1>1, <1>3 DEF KillNext
  <2>2. p.key \in Key
    BY DEF Pointer
  <2>3. inst'[p.key] = None /\ \A k \in Key : k # p.key => inst'[k] = inst[k]
    BY <2>1, <2>2 DEF Typed, TypeOK
  <2>4. ~Exists(p.key)'
    BY <2>3 DEF Exists
  <2> QED
    BY <1>2, <1>3, <2>1, <2>3, <2>4, SettledPosted
<1>4. CASE ~Alive(p)
  <2>1. UNCHANGED <<inst, callbacks>>
    BY <1>1, <1>4 DEF KillNext
  <2>2. \A r : (Asked(r)' => Asked(r)) /\ (AskedOnce(r) => AskedOnce(r)')
    BY <1>2 DEF Asked, AskedOnce, Among, Construct
  <2> QED
    BY <1>2, <2>1, <2>2, SameStays, SettledQuiet
<1> QED
  BY <1>3, <1>4

\* A request is made: its callback is in a task.
LEMMA SettledGetFrame ==
  ASSUME Typed, Settled, NEW q \in Request, GetFrame(q)
  PROVE  Settled'
<1>1. /\ answer[q] = "unasked" /\ answer' = [answer EXCEPT ![q] = "waiting"]
      /\ tasks' = Append(tasks, Construct(q)) /\ UNCHANGED <<inst, stack, callbacks>> /\ TypeOK
  BY DEF GetFrame, maintainerVars, Typed
<1>2. ASSUME NEW r \in Request PROVE InOnePlace(r)'
  <2>1. InOnePlace(r) /\ InOnePlace(q)
    BY DEF Settled, CallbacksApart
  <2>2. /\ Called(r)' <=> Called(r)
        /\ Kept(r)' <=> Kept(r)
        /\ Answered(r)' <=> Answered(r)
        /\ AnsweredOnce(r)' <=> AnsweredOnce(r)
    BY <1>1 DEF Called, Kept, Exists, Answered, AnsweredOnce, Queueing
  <2>3. /\ Asked(r)' => Asked(r) \/ r = q
        /\ AskedOnce(r) /\ (r = q => ~Asked(r)) => AskedOnce(r)'
    BY <1>1, AskedNew
  <2>4. r # q => answer'[r] = answer[r]
    BY <1>1 DEF TypeOK
  <2>5. answer'[q] = "waiting"
    BY <1>1 DEF TypeOK
  <2> QED
    BY <1>1, <2>1, <2>2, <2>3, <2>4, <2>5 DEF InOnePlace
<1>3. CallbacksRight'
  BY <1>1 DEF Settled, CallbacksRight, Exists
<1> QED
  BY <1>2, <1>3 DEF Settled, CallbacksApart

\* A callback is invoked: the request is waiting, and not after.
LEMMA SettledInvokeCallback ==
  ASSUME Typed, Settled, InvokeCallback
  PROVE  /\ Settled'
         /\ Head(callbacks).request \in Request
         /\ answer[Head(callbacks).request] = "waiting"
<1>1. /\ callbacks # <<>> /\ callbacks' = Tail(callbacks)
      /\ answer' = [answer EXCEPT ![Head(callbacks).request] = Head(callbacks).result]
      /\ UNCHANGED <<inst, stack, tasks>> /\ TypeOK
  BY DEF InvokeCallback, maintainerVars, Typed
<1>2. PICK q \in Request : q = Head(callbacks).request
  <2>1. callbacks \in Seq(Answers)
    BY <1>1 DEF TypeOK, Answers
  <2>2. Head(callbacks) \in Answers
    BY <1>1, <2>1, TailShape
  <2> QED
    BY <2>2 DEF Answers
<1>3. Answered(q) /\ (AnsweredOnce(q) => ~Answered(q)')
  BY <1>1, <1>2, AnsweredTaken
<1>4. answer[q] = "waiting"
  BY <1>3 DEF Settled, CallbacksApart, InOnePlace
<1>5. ASSUME NEW r \in Request PROVE InOnePlace(r)'
  <2>1. InOnePlace(r)
    BY DEF Settled, CallbacksApart
  <2>2. /\ Called(r)' <=> Called(r)
        /\ Kept(r)' <=> Kept(r)
        /\ Asked(r)' <=> Asked(r)
        /\ AskedOnce(r)' <=> AskedOnce(r)
    BY <1>1 DEF Called, Kept, Exists, Asked, AskedOnce, Among, Construct
  <2>3. (Answered(r)' => Answered(r)) /\ (AnsweredOnce(r) => AnsweredOnce(r)')
    BY <1>1, AnsweredTaken
  <2>4. r # q => answer'[r] = answer[r]
    BY <1>1, <1>2 DEF TypeOK
  <2> QED
    BY <1>3, <2>1, <2>2, <2>3, <2>4 DEF InOnePlace
<1>6. CallbacksRight'
  BY <1>1 DEF Settled, CallbacksRight, Exists
<1>7. Settled'
  BY <1>5, <1>6 DEF Settled, CallbacksApart
<1> QED
  BY <1>2, <1>4, <1>7

\* construct goes on to the next dependency: the call that is pushed has no callback.
LEMMA DescendCallbacks ==
  ASSUME NEW st \in Seq(Calls), st # <<>>
  PROVE  \A i \in 1 .. Len(Descend(st)) : Descend(st)[i].callback # None =>
           \E j \in 1 .. Len(st) : Descend(st)[i] = st[j] /\ Len(Descend(st)) - i = Len(st) - j
<1>1. PICK d \in {0, 1} :
           /\ Len(Descend(st)) = Len(st) + d
           /\ \A j \in 1 .. Len(st) : Descend(st)[j + d] = st[j]
           /\ d = 1 => Descend(st)[1].callback = None
  BY DescendParts
<1>2. Len(st) \in Nat
  OBVIOUS
<1> DEFINE t == Descend(st)
<1> HIDE DEF t
<1>3. ASSUME NEW i \in 1 .. Len(t), t[i].callback # None
      PROVE  \E j \in 1 .. Len(st) : t[i] = st[j] /\ Len(t) - i = Len(st) - j
  <2>1. d = 0 \/ i # 1
    BY <1>1, <1>3 DEF t
  <2>2. i - d \in 1 .. Len(st) /\ (i - d) + d = i /\ Len(t) - i = Len(st) - (i - d)
    BY <1>1, <1>2, <2>1 DEF t
  <2>3. t[i] = st[i - d]
    BY <1>1, <2>2 DEF t
  <2> QED
    BY <2>2, <2>3
<1> QED
  BY <1>3 DEF t

\* A call returns: what is left of the callbacks are those of the calls outside it.
LEMMA ReturnCallbacks ==
  ASSUME Typed, mpc = "construct", NEW p \in Pointer, Return(p)
  PROVE  \A i \in 1 .. Len(stack') : stack'[i].callback # None =>
           \E j \in 2 .. Len(stack) :
             /\ stack'[i].callback = stack[j].callback /\ stack'[i].key = stack[j].key
             /\ Len(stack') - i = Len(stack) - j
<1> DEFINE t == Tail(stack)
<1>1. /\ t \in Seq(Calls) /\ Len(t) = Len(stack) - 1 /\ Len(stack) \in Nat \ {0}
      /\ \A i \in 1 .. Len(stack) - 1 : t[i] = stack[i + 1]
  BY CallParts, TailShape
<1> HIDE DEF t
<1>2. CASE t = <<>>
  BY <1>2 DEF Return, t
<1>3. CASE t # <<>>
  <2> DEFINE caller == Head(t)
             again  == [caller EXCEPT !.inputs = @ \cup {p}, !.deps = Tail(@)]
             st     == <<again>> \o Tail(t)
  <2>1. stack' = Descend(st)
    BY <1>3 DEF Return, t
  <2>2. /\ caller = t[1] /\ caller \in Calls
        /\ Tail(t) \in Seq(Calls) /\ Len(Tail(t)) = Len(t) - 1 /\ Len(t) \in Nat \ {0}
        /\ \A i \in 1 .. Len(t) - 1 : Tail(t)[i] = t[i + 1]
    BY <1>1, <1>3, TailShape
  <2>3. caller.deps \in Seq(Key) /\ Tail(caller.deps) \in Seq(Key)
    <3>1. caller = stack[2] /\ 2 \in 1 .. Len(stack)
      BY <1>1, <2>2
    <3>2. caller.deps \in Seq(Key) /\ caller.deps # <<>>
      BY <2>2, <3>1 DEF Calls, Typed, CallsPlaced
    <3> QED
      BY <3>2, TailShape
  <2>4. again \in Calls /\ again.key = caller.key /\ again.callback = caller.callback
    BY <2>2, <2>3 DEF Calls
  <2> HIDE DEF again, caller
  <2>5. /\ st \in Seq(Calls) /\ Len(st) = Len(t) /\ st # <<>>
        /\ st[1] = again /\ \A i \in 1 .. Len(t) - 1 : st[i + 1] = t[i + 1]
    BY <2>2, <2>4, ConsShape
  <2> HIDE DEF st
  <2>6. \A j \in 1 .. Len(t) : st[j].key = t[j].key /\ st[j].callback = t[j].callback
    <3> TAKE j \in 1 .. Len(t)
    <3>1. CASE j = 1
      BY <3>1, <2>2, <2>4, <2>5
    <3>2. CASE j # 1
      <4>1. j - 1 \in 1 .. Len(t) - 1 /\ (j - 1) + 1 = j
        BY <3>2, <2>2
      <4> QED
        BY <4>1, <2>5
    <3> QED
      BY <3>1, <3>2
  <2>7. ASSUME NEW i \in 1 .. Len(stack'), stack'[i].callback # None
        PROVE  \E j \in 2 .. Len(stack) :
                 /\ stack'[i].callback = stack[j].callback /\ stack'[i].key = stack[j].key
                 /\ Len(stack') - i = Len(stack) - j
    <3>1. PICK j \in 1 .. Len(st) : stack'[i] = st[j] /\ Len(stack') - i = Len(st) - j
      BY <2>1, <2>5, <2>7, DescendCallbacks
    <3>2. stack'[i].callback = t[j].callback /\ stack'[i].key = t[j].key /\ t[j] = stack[j + 1]
      BY <1>1, <2>5, <2>6, <3>1
    <3>3. j + 1 \in 2 .. Len(stack) /\ Len(stack) - (j + 1) = Len(st) - j
      BY <1>1, <2>5
    <3> QED
      BY <3>1, <3>2, <3>3
  <2> QED
    BY <2>7
<1> QED
  BY <1>2, <1>3

\* A call opens, and keeps its callback.
LEMMA OpenCallbacks ==
  ASSUME Typed, OpenInstance
  PROVE  \A i \in 1 .. Len(stack') : stack'[i].callback # None =>
           \E j \in 1 .. Len(stack) :
             /\ stack'[i].callback = stack[j].callback /\ stack'[i].key = stack[j].key
             /\ Len(stack') - i = Len(stack) - j
<1> DEFINE call  == Head(stack)
           again == call.key \in history /\ ~call.missed
           gen   == made[call.key] + 1
           new   == [call EXCEPT !.missed = @ \/ again, !.open = TRUE,
                                 !.gen = gen, !.deps = Deps[call.key]]
           t     == Tail(stack)
           st    == <<new>> \o t
<1>1. TypeOK /\ mpc = "construct" /\ gen <= MaxGeneration /\ stack' = Descend(st)
  BY DEF OpenInstance, Typed
<1>2. call = stack[1] /\ call \in Calls /\ call.key \in Key /\ Len(stack) \in Nat \ {0}
  BY <1>1, CallParts
<1>3. /\ t \in Seq(Calls) /\ Len(t) = Len(stack) - 1
      /\ \A i \in 1 .. Len(stack) - 1 : t[i] = stack[i + 1]
  BY <1>1, CallParts, TailShape
<1>4. gen \in Generation
  <2>1. made[call.key] \in Generation \cup {0}
    BY <1>1, <1>2 DEF TypeOK
  <2> QED
    BY <1>1, <2>1, NextGeneration
<1>5. Deps[call.key] \in Seq(Key)
  BY <1>2, GraphAssumption
<1>6. new \in Calls /\ new.key = call.key /\ new.callback = call.callback
  <2>1. (call.missed \/ again) \in BOOLEAN
    OBVIOUS
  <2> HIDE DEF again, gen
  <2> QED
    BY <1>2, <1>4, <1>5, <2>1 DEF Calls
<1> HIDE DEF new, t
<1>7. /\ st \in Seq(Calls) /\ Len(st) = Len(stack) /\ st # <<>> /\ st[1] = new
      /\ \A i \in 1 .. Len(stack) - 1 : st[i + 1] = t[i]
  <2>1. /\ st \in Seq(Calls) /\ Len(st) = Len(t) + 1 /\ st[1] = new
        /\ \A i \in 1 .. Len(t) : st[i + 1] = t[i]
    BY <1>3, <1>6, ConsShape
  <2> HIDE DEF st
  <2> QED
    BY <2>1, <1>2, <1>3
<1> HIDE DEF st
<1>8. ASSUME NEW j \in 1 .. Len(st)
      PROVE  j \in 1 .. Len(stack) /\ st[j].key = stack[j].key /\ st[j].callback = stack[j].callback
  <2>1. CASE j = 1
    BY <2>1, <1>2, <1>6, <1>7
  <2>2. CASE j # 1
    <3>1. j - 1 \in 1 .. Len(stack) - 1 /\ (j - 1) + 1 = j
      BY <2>2, <1>2, <1>7
    <3> QED
      BY <3>1, <1>3, <1>7
  <2> QED
    BY <2>1, <2>2
<1>9. ASSUME NEW i \in 1 .. Len(stack'), stack'[i].callback # None
      PROVE  \E j \in 1 .. Len(stack) :
               /\ stack'[i].callback = stack[j].callback /\ stack'[i].key = stack[j].key
               /\ Len(stack') - i = Len(stack) - j
  <2>1. PICK j \in 1 .. Len(st) : stack'[i] = st[j] /\ Len(stack') - i = Len(st) - j
    BY <1>1, <1>7, <1>9, DescendCallbacks
  <2> QED
    BY <2>1, <1>7, <1>8
<1> QED
  BY <1>9

\* The callback goes from the task to the outermost call.
LEMMA SettledTakeConstruct ==
  ASSUME Typed, Graph, Settled, TakeConstruct
  PROVE  Settled' /\ UNCHANGED answer
<1>1. /\ TypeOK /\ NextTask /\ Head(tasks).kind = "construct"
      /\ stack = <<>> /\ UNCHANGED <<inst, callbacks, answer>>
  BY DEF TakeConstruct, NextTask, Graph, CallsRight, Typed
<1>2. PICK q \in Request : q = Head(tasks).request
  BY <1>1, NextTaskType
<1>3. Head(tasks) = Construct(q)
  <2>1. Head(tasks) \in Tasks
    BY <1>1, TailShape DEF NextTask, TypeOK
  <2> QED
    BY <1>1, <1>2, <2>1 DEF Tasks, Construct
<1> DEFINE c == Call(KeyOf[q], q, FALSE)
<1>4. stack' = <<c>> /\ c.callback = q /\ c.key = KeyOf[q]
  BY <1>2 DEF TakeConstruct, Call
<1> HIDE DEF c
<1>5. Len(stack') = 1 /\ stack'[1] = c
  BY <1>4
<1>6. ASSUME NEW r \in Request PROVE InOnePlace(r)'
  <2>1. InOnePlace(r) /\ InOnePlace(q)
    BY DEF Settled, CallbacksApart
  <2>2. /\ Kept(r)' <=> Kept(r)
        /\ Answered(r)' <=> Answered(r)
        /\ AnsweredOnce(r)' <=> AnsweredOnce(r)
    BY <1>1 DEF Kept, Exists, Answered, AnsweredOnce, Queueing
  <2>3. (Asked(r)' => Asked(r)) /\ (AskedOnce(r) => AskedOnce(r)')
    BY <1>1, AskedTaken
  <2>4. Asked(q) /\ (AskedOnce(q) => ~Asked(q)')
    BY <1>1, <1>3, AskedTaken
  <2>5. Called(r)' => r = q
    BY <1>4, <1>5 DEF Called
  <2>6. answer'[r] = answer[r]
    BY <1>1
  <2> QED
    BY <2>1, <2>2, <2>3, <2>4, <2>5, <2>6 DEF InOnePlace
<1>7. CallbacksRight'
  BY <1>1, <1>4, <1>5 DEF Settled, CallbacksRight, Exists
<1> QED
  BY <1>1, <1>6, <1>7 DEF Settled, CallbacksApart

\* A call opens.
LEMMA SettledOpenInstance ==
  ASSUME Typed, Settled, OpenInstance
  PROVE  Settled' /\ UNCHANGED answer
<1>1. UNCHANGED <<inst, tasks, callbacks, answer>> /\ Len(stack) \in Nat
  BY CallParts DEF OpenInstance
<1>2. \A i \in 1 .. Len(stack') : stack'[i].callback # None =>
           \E j \in 1 .. Len(stack) :
             /\ stack'[i].callback = stack[j].callback /\ stack'[i].key = stack[j].key
             /\ Len(stack') - i = Len(stack) - j
  BY OpenCallbacks
<1>3. ASSUME NEW r \in Request PROVE InOnePlace(r)'
  <2>1. InOnePlace(r) /\ r # None
    BY RequestAssumption DEF Settled, CallbacksApart
  <2>2. /\ Kept(r)' <=> Kept(r)
        /\ Answered(r)' <=> Answered(r)
        /\ AnsweredOnce(r)' <=> AnsweredOnce(r)
        /\ Asked(r)' <=> Asked(r)
        /\ AskedOnce(r)' <=> AskedOnce(r)
        /\ answer'[r] = answer[r]
    BY <1>1 DEF Kept, Exists, Answered, AnsweredOnce, Queueing, Asked, AskedOnce, Among, Construct
  <2>3. Called(r)' => Called(r)
    BY <1>2, <2>1 DEF Called
  <2> QED
    BY <2>1, <2>2, <2>3 DEF InOnePlace
<1>4. CallbacksRight'
  <2>1. ASSUME NEW i \in 1 .. Len(stack'), stack'[i].callback # None
        PROVE  i = Len(stack') /\ stack'[i].key = KeyOf[stack'[i].callback]
    <3>1. PICK j \in 1 .. Len(stack) :
             /\ stack'[i].callback = stack[j].callback /\ stack'[i].key = stack[j].key
             /\ Len(stack') - i = Len(stack) - j
      BY <1>2, <2>1
    <3>2. j = Len(stack) /\ stack[j].key = KeyOf[stack[j].callback]
      BY <2>1, <3>1 DEF Settled, CallbacksRight
    <3>3. Len(stack') \in Nat
      BY OpenShape
    <3> QED
      BY <1>1, <3>1, <3>2, <3>3
  <2> QED
    BY <1>1, <2>1 DEF CallbacksRight, Settled, Exists
<1> QED
  BY <1>1, <1>3, <1>4 DEF Settled, CallbacksApart

\* A call returns: it was the outermost one, or its callers keep theirs.
LEMMA SettledReturn ==
  ASSUME Typed, Settled, mpc = "construct", NEW p \in Pointer, Return(p)
  PROVE  /\ \A r \in Request : Called(r)' => Called(r) /\ stack[1].callback = None
         /\ \A i \in 1 .. Len(stack') : stack'[i].callback # None =>
              i = Len(stack') /\ stack'[i].key = KeyOf[stack'[i].callback]
<1>1. \A i \in 1 .. Len(stack') : stack'[i].callback # None =>
           \E j \in 2 .. Len(stack) :
             /\ stack'[i].callback = stack[j].callback /\ stack'[i].key = stack[j].key
             /\ Len(stack') - i = Len(stack) - j
  BY ReturnCallbacks
<1>2. Len(stack) \in Nat \ {0} /\ Len(stack') \in Nat /\ 1 \in 1 .. Len(stack)
  BY CallParts, ReturnShape
<1>3. ASSUME NEW i \in 1 .. Len(stack'), stack'[i].callback # None
      PROVE  /\ i = Len(stack') /\ stack'[i].key = KeyOf[stack'[i].callback]
             /\ Called(stack'[i].callback) /\ stack[1].callback = None
  <2>1. PICK j \in 2 .. Len(stack) :
             /\ stack'[i].callback = stack[j].callback /\ stack'[i].key = stack[j].key
             /\ Len(stack') - i = Len(stack) - j
    BY <1>1, <1>3
  <2>2. j \in 1 .. Len(stack)
    BY <1>2
  <2>3. j = Len(stack) /\ stack[j].key = KeyOf[stack[j].callback]
    BY <1>3, <2>1, <2>2 DEF Settled, CallbacksRight
  <2>4. 1 # Len(stack)
    BY <1>2, <2>3
  <2>5. stack[1].callback = None
    BY <1>2, <2>4 DEF Settled, CallbacksRight
  <2>6. Called(stack'[i].callback)
    BY <2>1, <2>2 DEF Called
  <2>7. i = Len(stack')
    BY <1>2, <2>1, <2>3
  <2> QED
    BY <2>1, <2>3, <2>5, <2>6, <2>7
<1>4. ASSUME NEW r \in Request, Called(r)' PROVE Called(r) /\ stack[1].callback = None
  <2>1. PICK i \in 1 .. Len(stack') : stack'[i].callback = r
    BY <1>4 DEF Called
  <2>2. r # None
    BY RequestAssumption
  <2> QED
    BY <1>3, <2>1, <2>2
<1> QED
  BY <1>3, <1>4

\* The callback of the innermost call is one that is called.
LEMMA InnermostCallback ==
  ASSUME Typed, Settled, mpc = "construct", NEW q \in Request, q = stack[1].callback
  PROVE  Called(q) /\ KeyOf[q] = stack[1].key
<1>1. 1 \in 1 .. Len(stack) /\ q # None
  BY CallParts, RequestAssumption
<1> QED
  BY <1>1 DEF Called, Settled, CallbacksRight

\* The callback goes from the call to the instance it has made.
LEMMA SettledCloseInstance ==
  ASSUME Typed, Settled, CloseInstance
  PROVE  Settled' /\ UNCHANGED answer
<1>1. /\ mpc = "construct" /\ Return(PointerOf(stack[1])) /\ PointerOf(stack[1]) \in Pointer
      /\ Head(stack) = stack[1] /\ UNCHANGED <<tasks, callbacks, answer>>
  BY CallParts DEF CloseInstance
<1>2. PICK k0 \in Key : k0 = stack[1].key
  BY <1>1, CallParts
<1>3. PICK c \in Request \cup {None} : c = stack[1].callback
  BY <1>1, CallParts
<1>4. \A k \in Key : k # k0 => (Exists(k)' <=> Exists(k))
  BY <1>1, <1>2, CloseShape
<1>5. inst'[k0].callback = c /\ \A k \in Key : k # k0 /\ Exists(k) => inst'[k].callback = inst[k].callback
  BY <1>1, <1>2, <1>3, CloseLinks
<1>6. \A r \in Request : r = c => Called(r) /\ KeyOf[r] = k0
  BY <1>1, <1>2, <1>3, InnermostCallback
<1>7. ASSUME NEW r \in Request PROVE InOnePlace(r)'
  <2>1. InOnePlace(r) /\ r # None
    BY RequestAssumption DEF Settled, CallbacksApart
  <2>2. /\ Answered(r)' <=> Answered(r)
        /\ AnsweredOnce(r)' <=> AnsweredOnce(r)
        /\ Asked(r)' <=> Asked(r)
        /\ AskedOnce(r)' <=> AskedOnce(r)
        /\ answer'[r] = answer[r]
    BY <1>1 DEF Answered, AnsweredOnce, Queueing, Asked, AskedOnce, Among, Construct
  <2>3. Called(r)' => Called(r) /\ r # c
    BY <1>1, <1>3, <2>1, SettledReturn
  <2>4. Kept(r)' => Kept(r) \/ r = c
    BY <1>4, <1>5 DEF Kept
  <2>5. r = c => Called(r)
    BY <1>6
  <2> QED
    BY <2>1, <2>2, <2>3, <2>4, <2>5 DEF InOnePlace
<1>8. CallbacksRight'
  <2>1. ASSUME NEW k \in Key, Exists(k)', inst'[k].callback # None
        PROVE  KeyOf[inst'[k].callback] = k
    <3>1. CASE k = k0
      BY <1>5, <1>6, <2>1, <3>1
    <3>2. CASE k # k0
      BY <1>4, <1>5, <2>1, <3>2 DEF Settled, CallbacksRight
    <3> QED
      BY <3>1, <3>2
  <2> QED
    BY <1>1, <2>1, SettledReturn DEF CallbacksRight
<1> QED
  BY <1>1, <1>7, <1>8 DEF Settled, CallbacksApart

\* The callback goes from the call to the instance that is there, in the place of
\* one that is there already, or to the queue.
LEMMA SettledReuseInstance ==
  ASSUME Typed, Settled, ReuseInstance
  PROVE  /\ Settled'
         /\ UNCHANGED answer \/ \E r \in Request : Service!Supersede(r)
<1>1. /\ TypeOK /\ mpc = "construct" /\ Head(stack) = stack[1] /\ UNCHANGED tasks
      /\ Return(PointerTo(Head(stack).key)) /\ Exists(Head(stack).key)
  BY CallParts DEF ReuseInstance, Typed
<1>2. PICK p \in Pointer : p = PointerTo(Head(stack).key)
  BY ReuseLinks
<1>3. p.key = stack[1].key /\ p.key \in Key /\ Exists(p.key) /\ Return(p)
  BY <1>1, <1>2, ReuseLinks DEF Pointer
<1>4. PICK c \in Request \cup {None} : c = stack[1].callback
  BY <1>1, CallParts
<1>5. PICK old \in Request \cup {None} : old = inst[p.key].callback
  <2>1. inst[p.key] \in Instance
    BY <1>1, <1>3, InstanceParts
  <2> QED
    BY <2>1 DEF Instance
<1>6. PICK post \in Request \cup {None} :
        /\ Post(post, "frame")
        /\ \/ post = None /\ c # None /\ ~inst[p.key].product
              /\ inst'[p.key].callback = c
              /\ answer' = IF old # None THEN [answer EXCEPT ![old] = "superseded"] ELSE answer
           \/ post = c /\ (c = None \/ inst[p.key].product)
              /\ inst'[p.key].callback = old /\ answer' = answer
  <2>1. inst'[p.key].callback = IF c # None /\ ~inst[p.key].product THEN c ELSE old
    BY <1>2, <1>4, <1>5, ReuseLinks
  <2>2. CASE c # None /\ ~inst[p.key].product
    <3>1. Post(None, "frame")
      BY <1>1, <1>3, <1>4, <2>2 DEF ReuseInstance
    <3>2. answer' = IF old # None THEN [answer EXCEPT ![old] = "superseded"] ELSE answer
      BY <1>1, <1>3, <1>4, <1>5, <2>2 DEF ReuseInstance
    <3> QED
      BY <2>1, <2>2, <3>1, <3>2
  <2>3. CASE ~(c # None /\ ~inst[p.key].product)
    <3>1. Post(c, "frame") /\ answer' = answer
      BY <1>1, <1>3, <1>4, <2>3 DEF ReuseInstance
    <3> QED
      BY <2>1, <2>3, <3>1
  <2> QED
    BY <2>2, <2>3
<1>7. \A k \in Key : (Exists(k)' <=> Exists(k)) /\ (k # p.key => inst'[k] = inst[k])
  BY <1>2, ReuseLinks
<1>8. \A r \in Request : r = c => Called(r) /\ KeyOf[r] = p.key
  BY <1>1, <1>3, <1>4, InnermostCallback
<1>9. \A r \in Request : r = old => Kept(r) /\ KeyOf[r] = p.key
  <2>1. \A r \in Request : r # None
    BY RequestAssumption
  <2> QED
    BY <1>3, <1>5, <2>1 DEF Kept, Settled, CallbacksRight
<1>10. \A r \in Request : Called(r)' => Called(r) /\ r # c
  <2>1. \A r \in Request : r # None
    BY RequestAssumption
  <2> QED
    BY <1>1, <1>3, <1>4, <2>1, SettledReturn
<1>11. ASSUME NEW r \in Request, Kept(r)'
       PROVE  \/ inst'[p.key].callback = r
              \/ Kept(r) /\ r # old
  <2>1. PICK k \in Key : Exists(k)' /\ inst'[k].callback = r
    BY <1>11 DEF Kept
  <2>2. CASE k # p.key
    <3>1. Exists(k) /\ inst[k].callback = r /\ r # None
      BY <1>7, <2>1, <2>2, RequestAssumption
    <3>2. KeyOf[r] = k /\ Kept(r)
      BY <3>1 DEF Settled, CallbacksRight, Kept
    <3> QED
      BY <1>9, <2>2, <3>2
  <2> QED
    BY <2>1, <2>2
<1>12. ASSUME NEW r \in Request PROVE InOnePlace(r)'
  <2>1. InOnePlace(r) /\ r # None
    BY RequestAssumption DEF Settled, CallbacksApart
  <2>2. (Asked(r)' <=> Asked(r)) /\ (AskedOnce(r)' <=> AskedOnce(r))
    BY <1>1 DEF Asked, AskedOnce, Among, Construct
  <2>3. /\ Answered(r)' => Answered(r) \/ (r = post /\ post # None)
        /\ AnsweredOnce(r) /\ (r = post => ~Answered(r)) => AnsweredOnce(r)'
    BY <1>1, <1>6, AnsweredPost
  <2>4. CASE post = None /\ c # None /\ inst'[p.key].callback = c
             /\ answer' = IF old # None THEN [answer EXCEPT ![old] = "superseded"] ELSE answer
    <3>1. Kept(r)' => r = c \/ (Kept(r) /\ r # old)
      BY <1>11, <2>4
    <3>2. r # old => answer'[r] = answer[r]
      BY <1>1, <2>4 DEF TypeOK
    <3>3. Kept(r)' => ~Called(r)'
      BY <1>10, <2>1, <3>1 DEF InOnePlace
    <3>4. r = old => Kept(r) /\ ~Called(r) /\ ~Answered(r) /\ ~Asked(r)
      BY <1>9, <2>1 DEF InOnePlace
    <3>5. (r = old => ~Asked(r)' /\ ~Called(r)' /\ ~Kept(r)' /\ ~Answered(r)')
      BY <1>8, <1>10, <2>1, <2>2, <2>3, <2>4, <3>1, <3>4
    <3> QED
      BY <1>8, <1>10, <2>1, <2>2, <2>3, <2>4, <3>1, <3>2, <3>3, <3>5 DEF InOnePlace
  <2>5. CASE post = c /\ inst'[p.key].callback = old /\ answer' = answer
    <3>1. Kept(r)' => Kept(r)
      BY <1>9, <1>11, <2>5
    <3> QED
      BY <1>8, <1>10, <2>1, <2>2, <2>3, <2>5, <3>1 DEF InOnePlace
  <2> QED
    BY <1>6, <2>4, <2>5
<1>13. CallbacksRight'
  <2>1. ASSUME NEW k \in Key, Exists(k)', inst'[k].callback # None
        PROVE  KeyOf[inst'[k].callback] = k
    <3>1. CASE k = p.key
      <4>1. inst'[k].callback \in {c, old} /\ inst'[k].callback \in Request
        BY <1>6, <2>1, <3>1
      <4> QED
        BY <1>8, <1>9, <3>1, <4>1
    <3>2. CASE k # p.key
      BY <1>7, <2>1, <3>2 DEF Settled, CallbacksRight
    <3> QED
      BY <3>1, <3>2
  <2> QED
    BY <1>1, <1>3, <2>1, SettledReturn DEF CallbacksRight
<1>14. UNCHANGED answer \/ \E r \in Request : Service!Supersede(r)
  <2>1. CASE answer' = answer
    BY <2>1
  <2>2. CASE c # None /\ old # None /\ answer' = [answer EXCEPT ![old] = "superseded"]
    <3>1. old \in Request /\ c \in Request
      BY <2>2
    <3>2. /\ Called(c) /\ Kept(old) /\ KeyOf[c] = p.key /\ KeyOf[old] = p.key
          /\ InOnePlace(c) /\ InOnePlace(old)
      BY <1>8, <1>9, <3>1 DEF Settled, CallbacksApart
    <3>3. c # old /\ answer[c] = "waiting" /\ answer[old] = "waiting"
      BY <3>2 DEF InOnePlace
    <3>4. Service!Supersede(old)
      BY <2>2, <3>1, <3>2, <3>3 DEF Service!Supersede
    <3> QED
      BY <3>1, <3>4
  <2> QED
    BY <1>6, <2>1, <2>2
<1>15. Settled'
  BY <1>12, <1>13 DEF Settled, CallbacksApart
<1> QED
  BY <1>14, <1>15

\* Whatever anyone does.
LEMMA SettledNext == Typed /\ Graph /\ Settled /\ [Next]_vars => Settled'
<1> SUFFICES ASSUME Typed, Graph, Settled, [Next]_vars PROVE Settled'
  OBVIOUS
<1>1. ASSUME NEW q \in Request, GetFrame(q) PROVE Settled'
  BY <1>1, SettledGetFrame
<1>2. ASSUME NEW w \in Worker, WorkerStep(w) PROVE Settled'
  BY <1>2, SettledWorkerStep
<1>3. CASE InvokeCallback
  BY <1>3, SettledInvokeCallback
<1>4. CASE TakeConstruct \/ ReuseInstance \/ OpenInstance \/ CloseInstance
  BY <1>4, SettledTakeConstruct, SettledReuseInstance, SettledOpenInstance, SettledCloseInstance
<1>5. CASE AnswerCallback \/ KillNext
  BY <1>5, SettledAnswerCallback, SettledKillNext
<1>6. CASE \/ TakeStaleNotify \/ TakeNotify \/ LookAtOutput \/ EndKill
           \/ \E s \in Single : \E p \in waiting[s] : PostFromNeck(s, p)
           \/ EndTask \/ EndBatch \/ UNCHANGED vars
  BY <1>6, SettledQuietStep
<1> QED
  BY <1>1, <1>2, <1>3, <1>4, <1>5, <1>6 DEF Next, Maintainer

\* Nobody has asked for anything.
LEMMA SettledInit == Init => Settled
<1> SUFFICES ASSUME Init PROVE Settled
  OBVIOUS
<1>1. /\ \A k \in Key : ~Exists(k)
      /\ stack = <<>> /\ tasks = <<>> /\ callbacks = <<>>
  BY DEF Init, Exists
<1>2. ASSUME NEW r \in Request PROVE InOnePlace(r)
  <2>1. ~Asked(r) /\ AskedOnce(r)
    BY <1>1 DEF Asked, AskedOnce, Among
  <2>2. ~Called(r) /\ ~Kept(r) /\ ~Answered(r) /\ AnsweredOnce(r)
    BY <1>1 DEF Called, Kept, Answered, AnsweredOnce
  <2> QED
    BY <2>1, <2>2 DEF InOnePlace
<1>3. CallbacksRight
  BY <1>1 DEF CallbacksRight
<1> QED
  BY <1>2, <1>3 DEF Settled, CallbacksApart

-----------------------------------------------------------------------------
(* what can fail *)

\* The frame of a call depends on that of the call inside it.
LEMMA CallerDepends ==
  ASSUME Typed, Graph, mpc = "construct", Len(stack) > 1
  PROVE  stack[1].key \in Edges(stack[2].key)
<1>1. Len(stack) \in Nat /\ 2 \in 1 .. Len(stack)
  BY CallParts
<1>2. /\ CallRight(stack[2]) /\ Head(stack[2].deps) = stack[1].key
      /\ stack[2].open /\ stack[2].deps # <<>> /\ stack[2].deps \in Seq(Key)
  BY <1>1, CallTypes DEF Graph, CallsRight, Typed, CallsPlaced
<1>3. Among(stack[1].key, stack[2].deps)
  BY <1>2, AmongTail
<1>4. stack[1].key \in Key
  BY CallParts
<1>5. Among(stack[1].key, Deps[stack[2].key])
  BY <1>2, <1>3, <1>4 DEF CallRight
<1> QED
  BY <1>5 DEF Among, Edges

\* A frame depends on those its instance is an output of.
LEMMA DependNext ==
  ASSUME Typed, Orderly, Graph, OutputsDepend, [Next]_vars
  PROVE  OutputsDepend'
<1>1. CASE InstancesAlike
  <2>1. ASSUME NEW p \in Pointer, NEW q \in Pointer, Output(p, q)' PROVE Output(p, q)
    BY <1>1, <2>1, LinksAlike DEF Output
  <2> QED
    BY <2>1 DEF OutputsDepend
<1>2. CASE ReuseInstance
  <2>1. PICK p \in Pointer :
        /\ p.key = stack[1].key /\ Alive(p)
        /\ \A k \in Key :
             /\ Exists(k)' <=> Exists(k)
             /\ Exists(k) => inst'[k].gen = inst[k].gen
             /\ k # p.key => inst'[k] = inst[k]
        /\ \A x : Among(x, inst'[p.key].outputs) <=>
             Among(x, inst[p.key].outputs) \/ (Len(stack) > 1 /\ x = PointerOf(stack[2]))
    BY <1>2, ReuseLinks
  <2>2. ASSUME NEW q \in Pointer, NEW r \in Pointer, Output(q, r)'
        PROVE  q.key \in Edges(r.key)
    <3>1. q.key \in Key /\ Alive(q) /\ Among(r, inst'[q.key].outputs)
      <4>1. q.key \in Key
        BY DEF Pointer
      <4>2. Alive(q)' /\ Among(r, inst'[q.key].outputs)
        BY <2>2 DEF Output, Among
      <4> QED
        BY <2>1, <4>1, <4>2 DEF Alive
    <3>2. CASE Output(q, r)
      BY <3>2 DEF OutputsDepend
    <3>3. CASE ~Output(q, r)
      <4>1. q.key = p.key
        BY <2>1, <3>1, <3>3 DEF Output
      <4>2. Len(stack) > 1 /\ r = PointerOf(stack[2])
        BY <2>1, <3>1, <3>3, <4>1 DEF Output
      <4>3. r.key = stack[2].key
        BY <4>2 DEF PointerOf
      <4> QED
        BY <1>2, <2>1, <4>1, <4>2, <4>3, CallerDepends DEF ReuseInstance
    <3> QED
      BY <3>2, <3>3
  <2> QED
    BY <2>2 DEF OutputsDepend
<1>3. CASE CloseInstance
  <2>1. PointerOf(stack[1]) \in Pointer /\ mpc = "construct"
    BY <1>3, CallParts DEF CloseInstance
  <2>2. PICK p \in Pointer : p = PointerOf(stack[1])
    BY <2>1
  <2>3. /\ p.key = stack[1].key
        /\ \A q, r \in Pointer : Output(q, r)' <=>
             Output(q, r) \/ Told(q, r, p) \/ (q \in Before(p) /\ r = p)
    BY <1>3, <2>2, CloseView
  <2>4. ASSUME NEW q \in Pointer, NEW r \in Pointer, Output(q, r)'
        PROVE  q.key \in Edges(r.key)
    <3>1. CASE Output(q, r)
      BY <3>1 DEF OutputsDepend
    <3>2. CASE Told(q, r, p)
      <4>1. q = p /\ Len(stack) > 1 /\ r = PointerOf(stack[2])
        BY <3>2 DEF Told
      <4>2. r.key = stack[2].key
        BY <4>1 DEF PointerOf
      <4> QED
        BY <2>1, <2>3, <4>1, <4>2, CallerDepends
    <3>3. CASE q \in Before(p) /\ r = p
      <4>1. PICK j \in Previous(p.key) : q = PointerTo(j)
        BY <3>3 DEF Before
      <4>2. q.key = j
        BY <4>1 DEF PointerTo
      <4> QED
        BY <3>3, <4>2 DEF Previous, Edges
    <3> QED
      BY <2>3, <2>4, <3>1, <3>2, <3>3
  <2> QED
    BY <2>4 DEF OutputsDepend
<1>4. ASSUME NEW w \in Worker, WorkerStep(w) PROVE InstancesAlike
  BY <1>4, GraphWorkerStep
<1>5. CASE KillNext \/ EndBatch
  BY <1>1, <1>5, GraphKillNext, GraphEndBatch
<1>6. CASE TakeConstruct \/ OpenInstance
  <2>1. UNCHANGED inst
    BY <1>6 DEF TakeConstruct, OpenInstance
  <2> QED
    BY <1>1, <2>1, SameAlike
<1>7. CASE \/ \E r \in Request : GetFrame(r)
           \/ TakeStaleNotify \/ TakeNotify \/ LookAtOutput \/ AnswerCallback \/ EndKill
           \/ \E s \in Single : \E p \in waiting[s] : PostFromNeck(s, p)
           \/ EndTask \/ InvokeCallback \/ UNCHANGED vars
  BY <1>1, <1>7, GraphQuietStep
<1> QED
  BY <1>1, <1>2, <1>3, <1>4, <1>5, <1>6, <1>7 DEF Next, Maintainer

\* Nothing is blamed anew: no report of a failure comes, nothing more is to be
\* killed, and no error is posted.
LEMMA BlamedQuiet ==
  ASSUME Blamed,
         \A p \in Pointer : Failed(p)' => Failed(p) \/ p.key \in Fallible,
         \A p \in Pointer : Doomed(p)' => Failed(p) \/ Doomed(p) \/ p.key \in Fallible,
         \A i \in 1 .. Len(callbacks') : Wrong(i)' => KeyOf[callbacks'[i].request] \in Fallible
  PROVE  Blamed'
<1>1. \A p \in Pointer : Failed(p)' \/ Doomed(p)' => p.key \in Fallible
  BY DEF Blamed
<1> QED
  BY <1>1 DEF Blamed, Failed, Doomed, Wrong

\* The callbacks that are there stay, and the one that comes, if it is an error, is
\* of a frame that can fail.
LEMMA WrongPosted ==
  ASSUME Blamed, TypeOK, NEW q \in Request \cup {None}, NEW res \in {"frame", "error"},
         Post(q, res), res = "error" /\ q # None => KeyOf[q] \in Fallible
  PROVE  \A i \in 1 .. Len(callbacks') : Wrong(i)' => KeyOf[callbacks'[i].request] \in Fallible
<1> SUFFICES ASSUME NEW i \in 1 .. Len(callbacks'), Wrong(i)'
             PROVE  KeyOf[callbacks'[i].request] \in Fallible
  OBVIOUS
<1>1. callbacks'[i].result = "error"
  BY DEF Wrong
<1>2. \/ i \in 1 .. Len(callbacks) /\ callbacks'[i] = callbacks[i]
      \/ q # None /\ callbacks'[i] = [request |-> q, result |-> res]
  BY PostParts
<1>3. CASE i \in 1 .. Len(callbacks) /\ callbacks'[i] = callbacks[i]
  BY <1>1, <1>3 DEF Blamed, Wrong
<1>4. CASE q # None /\ callbacks'[i] = [request |-> q, result |-> res]
  <2>1. callbacks'[i].request = q /\ callbacks'[i].result = res
    BY <1>4
  <2> QED
    BY <1>1, <1>4, <2>1
<1> QED
  BY <1>2, <1>3, <1>4

\* No callback comes.
LEMMA WrongSame ==
  ASSUME Blamed, UNCHANGED callbacks
  PROVE  \A i \in 1 .. Len(callbacks') : Wrong(i)' => KeyOf[callbacks'[i].request] \in Fallible
BY DEF Blamed, Wrong

\* What depends on a frame that can fail can fail.
LEMMA FallibleClosed ==
  /\ \A k \in Key : k[1] \in MayFail => k \in Fallible
  /\ \A k \in Key : \A j \in Edges(k) : j \in Fallible => k \in Fallible
<1>1. ASSUME NEW k \in Key, k[1] \in MayFail PROVE k \in Fallible
  BY <1>1 DEF Fallible, ClosedUnderFailure
<1>2. ASSUME NEW k \in Key, NEW j \in Edges(k), j \in Fallible PROVE k \in Fallible
  <2>1. \A F \in SUBSET Key : ClosedUnderFailure(F) => j \in F
    BY <1>2 DEF Fallible
  <2>2. \A F \in SUBSET Key : ClosedUnderFailure(F) => k \in F
    BY <2>1 DEF ClosedUnderFailure
  <2> QED
    BY <2>2 DEF Fallible
<1> QED
  BY <1>1, <1>2

\* A worker reports as failed only a frame whose filter can fail.
LEMMA BlamedWorkerStep ==
  ASSUME Typed, Blamed, NEW w \in Worker, WorkerStep(w)
  PROVE  Blamed'
<1>1. UNCHANGED <<mpc, todo, callbacks>>
  BY DEF WorkerStep, Pop, TestTaken, TryLock, LockBusy, Repost, Fail, StoreProduct, Succeed, Unlock,
     maintainerVars
<1>2. \A p \in Pointer : Doomed(p)' => Doomed(p)
  BY <1>1 DEF Doomed
<1>3. ASSUME NEW p \in Pointer, Failed(p)' PROVE Failed(p) \/ p.key \in Fallible
  <2>1. CASE UNCHANGED tasks
    BY <1>3, <2>1 DEF Failed, Notify
  <2>2. ASSUME NEW exc \in BOOLEAN, Announce(w, exc), ~WorkerAt(w, "idle"),
               exc => SubstrateOf(At(w)) \in MayFail
        PROVE  Failed(p) \/ p.key \in Fallible
    <3>1. /\ \A x : Among(x, tasks') <=> Among(x, tasks) \/ x = Notify(At(w), exc)
          /\ At(w) \in Pointer
      BY <2>2, AnnounceParts, WorkerPointer
    <3>2. Among(Notify(p, TRUE), tasks')
      BY <1>3 DEF Failed, Notify
    <3>3. CASE Notify(p, TRUE) = Notify(At(w), exc)
      <4>1. p = At(w) /\ exc = TRUE
        BY <3>3, SameReport
      <4>2. p.key \in Key /\ p.key[1] \in MayFail
        BY <2>2, <3>1, <4>1 DEF SubstrateOf, Pointer
      <4> QED
        BY <4>2, FallibleClosed
    <3>4. CASE Notify(p, TRUE) # Notify(At(w), exc)
      BY <3>1, <3>2, <3>4 DEF Failed
    <3> QED
      BY <3>3, <3>4
  <2>3. CASE Fail(w)
    <3>1. Announce(w, TRUE) /\ ~WorkerAt(w, "idle") /\ SubstrateOf(At(w)) \in MayFail
      BY <2>3 DEF Fail, WorkerAt
    <3> QED
      BY <2>2, <3>1
  <2>4. CASE Succeed(w)
    <3>1. Announce(w, FALSE) /\ ~WorkerAt(w, "idle")
      BY <2>4 DEF Succeed, WorkerAt
    <3> QED
      BY <2>2, <3>1
  <2> QED
    BY <2>1, <2>3, <2>4 DEF WorkerStep, Pop, TestTaken, TryLock, LockBusy, Repost, StoreProduct, Unlock
<1>4. \A i \in 1 .. Len(callbacks') : Wrong(i)' => KeyOf[callbacks'[i].request] \in Fallible
  BY <1>1, WrongSame
<1> QED
  BY <1>2, <1>3, <1>4, BlamedQuiet

\* The steps that begin no killing and post no error.
LEMMA BlamedQuietStep ==
  ASSUME Typed, Settled, Blamed,
         \/ \E r \in Request : GetFrame(r)
         \/ TakeConstruct \/ TakeStaleNotify
         \/ ReuseInstance \/ OpenInstance \/ CloseInstance
         \/ LookAtOutput \/ AnswerCallback \/ EndKill
         \/ \E s \in Single : \E p \in waiting[s] : PostFromNeck(s, p)
         \/ EndTask \/ EndBatch \/ InvokeCallback \/ UNCHANGED vars
  PROVE  Blamed'
<1>1. NextTask \/ (\E r \in Request : GetFrame(r)) \/ UNCHANGED tasks
  BY DEF TakeConstruct, TakeStaleNotify, ReuseInstance, OpenInstance, CloseInstance, LookAtOutput,
     AnswerCallback, EndKill, PostFromNeck, EndTask, EndBatch, InvokeCallback, vars
<1>2. \A p \in Pointer : Failed(p)' => Failed(p)
  BY <1>1, AmongTasks DEF Failed, Notify
<1>3. mpc' = "kill" => UNCHANGED <<mpc, todo>>
  <2>1. CASE ReuseInstance \/ CloseInstance
    <3>1. (mpc' = mpc \/ mpc' = "neck") /\ mpc = "construct"
      BY <2>1 DEF ReuseInstance, CloseInstance, Return
    <3> QED
      BY <3>1
  <2> QED
    BY <2>1 DEF GetFrame, TakeConstruct, TakeStaleNotify, OpenInstance, LookAtOutput,
       AnswerCallback, EndKill, PostFromNeck, EndTask, EndBatch, InvokeCallback, vars, maintainerVars
<1>4. \A p \in Pointer : Doomed(p)' => Doomed(p)
  BY <1>3 DEF Doomed
<1>5. \A i \in 1 .. Len(callbacks') : Wrong(i)' => KeyOf[callbacks'[i].request] \in Fallible
  <2>1. CASE UNCHANGED callbacks
    BY <2>1, WrongSame
  <2>2. TypeOK
    BY DEF Typed
  <2>3. CASE ReuseInstance
    <3>1. PICK q \in Request \cup {None} : Post(q, "frame")
      <4>1. mpc = "construct"
        BY <2>3 DEF ReuseInstance
      <4>2. Head(stack).callback \in Request \cup {None}
        BY <4>1, CallParts
      <4> QED
        BY <2>3, <4>2 DEF ReuseInstance
    <3> QED
      BY <2>2, <3>1, WrongPosted
  <2>4. CASE AnswerCallback
    <3>1. PICK q \in Request \cup {None} : Post(q, "frame")
      <4>1. current \in Pointer /\ Alive(current)
        BY <2>4 DEF AnswerCallback, Typed, CurrentPlaced
      <4>2. inst[current.key].callback \in Request \cup {None}
        BY <2>2, <4>1, AlivePointer DEF Instance
      <4> QED
        BY <2>4, <4>2 DEF AnswerCallback
    <3> QED
      BY <2>2, <3>1, WrongPosted
  <2>5. CASE InvokeCallback
    <3>1. callbacks \in Seq(Answers) /\ callbacks # <<>> /\ callbacks' = Tail(callbacks)
      BY <2>2, <2>5 DEF TypeOK, Answers, InvokeCallback
    <3>2. \A i \in 1 .. Len(callbacks') : i + 1 \in 1 .. Len(callbacks) /\ callbacks'[i] = callbacks[i + 1]
      BY <3>1, TailShape
    <3>3. ASSUME NEW i \in 1 .. Len(callbacks'), Wrong(i)'
          PROVE  KeyOf[callbacks'[i].request] \in Fallible
      <4>1. i + 1 \in 1 .. Len(callbacks) /\ callbacks'[i] = callbacks[i + 1]
        BY <3>2
      <4>2. Wrong(i + 1)
        BY <3>3, <4>1 DEF Wrong
      <4> QED
        BY <4>1, <4>2 DEF Blamed
    <3> QED
      BY <3>3
  <2> QED
    BY <2>1, <2>3, <2>4, <2>5 DEF GetFrame, TakeConstruct, TakeStaleNotify, OpenInstance,
       CloseInstance, LookAtOutput, EndKill, PostFromNeck, EndTask, EndBatch, vars
<1> QED
  BY <1>2, <1>4, <1>5, BlamedQuiet

\* An instance is about to be killed because it has failed,
LEMMA BlamedTakeNotify ==
  ASSUME Typed, Blamed, TakeNotify
  PROVE  Blamed'
<1>1. PICK p \in Pointer : p = Head(tasks).inst
  BY SteadyTakeNotify
<1>2. NextTask /\ UNCHANGED callbacks /\ Head(tasks).kind = "notify" /\ TypeOK
  BY DEF TakeNotify, Typed
<1>3. \A q \in Pointer : Failed(q)' => Failed(q)
  BY <1>2, AmongTasks DEF Failed, Notify
<1>4. ASSUME NEW q \in Pointer, Doomed(q)' PROVE Failed(q)
  <2>1. Head(tasks).exc /\ todo' = <<p>>
    BY <1>1, <1>4 DEF TakeNotify, Doomed
  <2>2. q = p
    BY <1>4, <2>1 DEF Doomed, Among
  <2>3. Head(tasks) = Notify(p, TRUE)
    <3>1. Head(tasks) \in Tasks
      BY <1>2, TailShape DEF NextTask, TypeOK
    <3> QED
      BY <3>1, <1>1, <1>2, <2>1 DEF Tasks, Notify
  <2>4. Among(Head(tasks), tasks)
    BY <1>2, NextTaskType DEF Among
  <2> QED
    BY <2>2, <2>3, <2>4 DEF Failed
<1>5. \A i \in 1 .. Len(callbacks') : Wrong(i)' => KeyOf[callbacks'[i].request] \in Fallible
  BY <1>2, WrongSame
<1> QED
  BY <1>3, <1>4, <1>5, BlamedQuiet

\* or because one of its inputs is killed.
LEMMA BlamedKillNext ==
  ASSUME Typed, Settled, OutputsDepend, Blamed, KillNext
  PROVE  Blamed'
<1>1. PICK p \in Pointer : p = Head(todo)
  BY TailShape DEF KillNext, Typed, TypeOK
<1>2. /\ Doomed(p) /\ UNCHANGED tasks
      /\ \A q \in Pointer : Doomed(q)' => Doomed(q) \/ Output(p, q)
  BY <1>1, KillView
<1>3. p.key \in Fallible
  BY <1>2 DEF Blamed
<1>4. ASSUME NEW q \in Pointer, Output(p, q) PROVE q.key \in Fallible
  <2>1. p.key \in Edges(q.key) /\ q.key \in Key
    BY <1>4 DEF OutputsDepend, Pointer
  <2> QED
    BY <1>3, <2>1, FallibleClosed
<1>5. \A q \in Pointer : Failed(q)' => Failed(q)
  BY <1>2 DEF Failed, Notify
<1>6. \A i \in 1 .. Len(callbacks') : Wrong(i)' => KeyOf[callbacks'[i].request] \in Fallible
  <2>1. CASE Alive(p)
    <3>1. Post(inst[p.key].callback, "error") /\ TypeOK /\ Exists(p.key) /\ p.key \in Key
      BY <1>1, <2>1, AlivePointer DEF KillNext, Typed
    <3>2. PICK q \in Request \cup {None} : q = inst[p.key].callback
      BY <2>1, <3>1, AlivePointer DEF Instance
    <3>3. q # None => KeyOf[q] = p.key
      BY <3>1, <3>2 DEF Settled, CallbacksRight
    <3> QED
      BY <1>3, <3>1, <3>2, <3>3, WrongPosted
  <2>2. CASE ~Alive(p)
    <3>1. UNCHANGED callbacks
      BY <1>1, <2>2 DEF KillNext
    <3> QED
      BY <3>1, WrongSame
  <2> QED
    BY <2>1, <2>2
<1> QED
  BY <1>2, <1>4, <1>5, <1>6, BlamedQuiet

\* Whatever anyone does.
LEMMA BlamedNext ==
  ASSUME Typed, Settled, OutputsDepend, Blamed, [Next]_vars
  PROVE  Blamed'
<1>1. ASSUME NEW w \in Worker, WorkerStep(w) PROVE Blamed'
  BY <1>1, BlamedWorkerStep
<1>2. CASE TakeNotify \/ KillNext
  BY <1>2, BlamedTakeNotify, BlamedKillNext
<1>3. CASE \/ \E r \in Request : GetFrame(r)
           \/ TakeConstruct \/ TakeStaleNotify
           \/ ReuseInstance \/ OpenInstance \/ CloseInstance
           \/ LookAtOutput \/ AnswerCallback \/ EndKill
           \/ \E s \in Single : \E p \in waiting[s] : PostFromNeck(s, p)
           \/ EndTask \/ EndBatch \/ InvokeCallback \/ UNCHANGED vars
  BY <1>3, BlamedQuietStep
<1> QED
  BY <1>1, <1>2, <1>3 DEF Next, Maintainer

\* Nothing has been linked, has failed or is answered.
LEMMA BlamedInit ==
  ASSUME Init
  PROVE  OutputsDepend /\ Blamed
<1>1. \A p \in Pointer : ~Alive(p)
  BY DEF Init, Alive, Exists, Pointer
<1>2. tasks = <<>> /\ callbacks = <<>> /\ mpc = "waiting"
  BY DEF Init
<1>3. \A p \in Pointer : ~Failed(p) /\ ~Doomed(p)
  BY <1>2 DEF Failed, Doomed, Among
<1> QED
  BY <1>1, <1>2, <1>3 DEF OutputsDepend, Output, Blamed

-----------------------------------------------------------------------------
(* the service *)

\* What anyone does is a step of the service, or none.
LEMMA ServiceStep ==
  ASSUME Typed, Graph, Settled, Blamed, [Next]_vars
  PROVE  [Service!Next]_answer
<1>1. ASSUME NEW q \in Request, GetFrame(q) PROVE Service!Ask(q)
  BY <1>1 DEF GetFrame, Service!Ask
<1>2. CASE InvokeCallback
  <2>1. PICK q \in Request : q = Head(callbacks).request
    BY <1>2, SettledInvokeCallback
  <2>2. PICK res \in {"frame", "error"} :
          res = Head(callbacks).result /\ (res = "error" => KeyOf[q] \in Fallible)
    <3>1. callbacks \in Seq(Answers) /\ callbacks # <<>>
      BY <1>2 DEF InvokeCallback, Typed, TypeOK, Answers
    <3>2. Head(callbacks) = callbacks[1] /\ 1 \in 1 .. Len(callbacks) /\ Head(callbacks) \in Answers
      BY <3>1, TailShape
    <3>3. Head(callbacks).result \in {"frame", "error"}
      BY <3>2 DEF Answers
    <3>4. Head(callbacks).result = "error" => KeyOf[q] \in Fallible
      BY <2>1, <3>2 DEF Blamed, Wrong
    <3> QED
      BY <3>3, <3>4
  <2>3. answer[q] = "waiting" /\ answer' = [answer EXCEPT ![q] = res]
    BY <1>2, <2>1, <2>2, SettledInvokeCallback DEF InvokeCallback
  <2>4. Service!Deliver(q)
    BY <2>2, <2>3 DEF Service!Deliver
  <2> QED
    BY <2>4 DEF Service!Next, Service!Settle
<1>3. CASE ReuseInstance
  <2>1. UNCHANGED answer \/ \E r \in Request : Service!Supersede(r)
    BY <1>3, SettledReuseInstance
  <2> QED
    BY <2>1 DEF Service!Next, Service!Settle
<1>4. ASSUME NEW w \in Worker, WorkerStep(w) PROVE UNCHANGED answer
  BY <1>4, SettledWorkerStep
<1>5. CASE TakeConstruct \/ OpenInstance \/ CloseInstance \/ AnswerCallback \/ KillNext
  BY <1>5, SettledTakeConstruct, SettledOpenInstance, SettledCloseInstance,
     SettledAnswerCallback, SettledKillNext
<1>6. CASE \/ TakeStaleNotify \/ TakeNotify \/ LookAtOutput \/ EndKill
           \/ \E s \in Single : \E p \in waiting[s] : PostFromNeck(s, p)
           \/ EndTask \/ EndBatch \/ UNCHANGED vars
  BY <1>6, SettledQuietStep
<1>7. (\E q \in Request : Service!Ask(q)) => Service!Next
  BY DEF Service!Next
<1> QED
  BY <1>1, <1>2, <1>3, <1>4, <1>5, <1>6, <1>7 DEF Next, Maintainer

\* A request is answered once, and with a frame unless something it depends on can
\* fail, or it is superseded by another one that is waiting for the same frame:
\* what FrameService promises, without its fairness.
THEOREM ServesSafely == Spec => Service!Init /\ [][Service!Next]_answer
<1>1. Init => Served /\ Service!Init
  <2> SUFFICES ASSUME Init PROVE Served /\ Service!Init
    OBVIOUS
  <2>1. Typed /\ Orderly /\ Graph /\ Settled
    BY TypedInit, OrderlyInit, GraphInit, SettledInit
  <2>2. OutputsDepend /\ Blamed
    BY BlamedInit
  <2>3. Service!Init
    BY DEF Init, Service!Init
  <2> QED
    BY <2>1, <2>2, <2>3 DEF Served
<1>2. Served /\ [Next]_vars => Served'
  <2> SUFFICES ASSUME Served, [Next]_vars PROVE Served'
    OBVIOUS
  <2>1. Typed' /\ Orderly' /\ Graph' /\ Settled'
    BY TypedNext, OrderlyNext, GraphNext, SettledNext DEF Served
  <2>2. OutputsDepend' /\ Blamed'
    BY DependNext, BlamedNext DEF Served
  <2> QED
    BY <2>1, <2>2 DEF Served
<1>3. Served /\ [Next]_vars => [Service!Next]_answer
  BY ServiceStep DEF Served
<1> QED
  BY <1>1, <1>2, <1>3, PTL DEF Spec
=============================================================================
