------------------------------ MODULE Reaction ------------------------------
(***************************************************************************)
(* The reaction of CatSyn/src/substrate.cpp: clients ask for frames, the   *)
(* maintainer thread builds an instance of each frame and of the frames it *)
(* depends on and posts those that can be computed, worker threads compute *)
(* them and notify the maintainer, and the callback thread hands the       *)
(* results to the clients.                                                 *)
(*                                                                         *)
(* The threads share the three queues and the fields `product` and `taken` *)
(* of the instances; the maintainer alone owns the rest.  One action is    *)
(* what a thread does between two accesses that another thread can see:    *)
(* the maintainer's handlers are cut at every look at a product, and the   *)
(* recursion of construct is an explicit stack.                            *)
(*                                                                         *)
(* An instance is created at an address, and addresses are reused; here a  *)
(* pointer is the key of the frame with the number of the instance made    *)
(* for it, so that a pointer to an instance that was freed is recognised   *)
(* as such and never takes effect.  The maintainer's `instances` and       *)
(* `alive` agree whenever another thread, or the maintainer itself, looks, *)
(* so `inst` stands for both.  The order of the work queue is left open.   *)
(***************************************************************************)
EXTENDS Integers, Sequences, FiniteSets

CONSTANTS
  Substrate,            \* the registered filters
  FrameCount,           \* frames are numbered from 0 to FrameCount - 1
  Deps,                 \* Deps[k]: the sequence of frames that frame k depends on
  Linear,               \* substrates with ffMakeLinear
  Single,               \* substrates with ffSingleThreaded
  Guarded,              \* substrates with a thread-initialisation lock (IFilter1)
  MayFail,              \* substrates whose process_frame may throw
  Worker,
  Request, KeyOf,       \* calls of get_frame, and the frame each asks for
  HistoryLimit,         \* 65535 in the code
  MissPerIndulgence,    \* 8 in the code
  MaxGeneration,        \* bound on the instances made for one frame
  None                  \* no request, no instance, no pointer

Frame == 0 .. FrameCount - 1
Key == Substrate \X Frame

ASSUME GraphAssumption ==
  /\ FrameCount \in Nat
  /\ IsFiniteSet(Substrate)
  /\ Deps \in [Key -> Seq(Key)]
  /\ Linear \subseteq Substrate /\ Single \subseteq Substrate
  /\ Guarded \subseteq Substrate /\ MayFail \subseteq Substrate
ASSUME RequestAssumption ==
  /\ IsFiniteSet(Request)
  /\ KeyOf \in [Request -> Key]
  /\ None \notin Request
ASSUME LimitAssumption ==
  /\ HistoryLimit \in Nat
  /\ MissPerIndulgence \in Nat \ {0}
  /\ MaxGeneration \in Nat

Generation == 1 .. MaxGeneration
Pointer == [key : Key, gen : Generation]

\* FrameInstance, with the number that stands for its address.
Instance ==
  [gen : Generation, product : BOOLEAN, callback : Request \cup {None},
   inputs : SUBSET Pointer, outputs : Seq(Pointer), taken : BOOLEAN,
   single : BOOLEAN, indulgence : Nat]

ASSUME NoneAssumption == None \notin Pointer \cup Instance

VARIABLES
  \* the maintainer
  inst,         \* inst[k]: the live instance of frame k, or None
  made,         \* made[k]: how many instances of k have been made
  history,      \* the frames constructed since the history was last cleared
  miss,         \* miss[s]: how often frames of s had to be constructed again
  busy,         \* neck[s].first: a frame of s is posted or being computed
  waiting,      \* neck[s].second: the frames of s that are ready and held back
  mpc,          \* where the maintainer stands
  stack,        \* the calls of construct in progress, the innermost first
  current,      \* the instance whose Notify is being handled
  todo,         \* outputs still to be looked at, or instances still to be killed
  constructed,  \* the batch contained a Construct
  \* the queues
  tasks,        \* maintain_queue
  callbacks,    \* callback_queue
  work,         \* work[p]: how many times p is in work_queue
  \* the workers and the clients
  worker,       \* where each worker stands, on which instance, in which lock mode
  inited,       \* inited[w]: the guarded substrates w has initialised itself for
  answer        \* what became of each request

maintainerVars == <<inst, made, history, miss, busy, waiting, mpc, stack,
                    current, todo, constructed>>
workerVars == <<worker, inited>>
vars == <<maintainerVars, tasks, callbacks, work, workerVars, answer>>

Init ==
  /\ inst = [k \in Key |-> None]
  /\ made = [k \in Key |-> 0]
  /\ history = {}
  /\ miss = [s \in Substrate |-> 0]
  /\ busy = {}
  /\ waiting = [s \in Substrate |-> {}]
  /\ mpc = "waiting"
  /\ stack = <<>>
  /\ current = None
  /\ todo = <<>>
  /\ constructed = FALSE
  /\ tasks = <<>>
  /\ callbacks = <<>>
  /\ work = [p \in Pointer |-> 0]
  /\ worker = [w \in Worker |-> [pc |-> "idle", at |-> None, mode |-> "none"]]
  /\ inited = [w \in Worker |-> {}]
  /\ answer = [r \in Request |-> "unasked"]

-----------------------------------------------------------------------------
SubstrateOf(p) == p.key[1]
Exists(k) == inst[k] # None
PointerTo(k) == [key |-> k, gen |-> inst[k].gen]

\* alive.find(inst)
Alive(p) == Exists(p.key) /\ inst[p.key].gen = p.gen
Finished(p) == Alive(p) /\ inst[p.key].product

Construct(r) == [kind |-> "construct", request |-> r]
Notify(p, exc) == [kind |-> "notify", inst |-> p, exc |-> exc]

\* get_frame: a request is a Construct task.
GetFrame(r) ==
  /\ answer[r] = "unasked"
  /\ answer' = [answer EXCEPT ![r] = "waiting"]
  /\ tasks' = Append(tasks, Construct(r))
  /\ UNCHANGED <<maintainerVars, callbacks, work, workerVars>>

\* The callback thread invokes the callbacks in the order they were posted.
InvokeCallback ==
  /\ callbacks # <<>>
  /\ answer' = [answer EXCEPT ![Head(callbacks).request] = Head(callbacks).result]
  /\ callbacks' = Tail(callbacks)
  /\ UNCHANGED <<maintainerVars, tasks, work, workerVars>>

\* post_callback, of an empty callback too.
Post(r, result) ==
  callbacks' = IF r = None THEN callbacks
               ELSE Append(callbacks, [request |-> r, result |-> result])

\* post_work: a frame of a single-threaded filter goes to its neck.
PostWork(p, single) ==
  IF single
    THEN /\ waiting' = [waiting EXCEPT ![SubstrateOf(p)] = @ \cup {p}]
         /\ UNCHANGED work
    ELSE /\ work' = [work EXCEPT ![p] = @ + 1]
         /\ UNCHANGED waiting

-----------------------------------------------------------------------------
(* construct *)

Call(k, r, missed) ==
  [key |-> k, callback |-> r, missed |-> missed,
   open |-> FALSE, gen |-> 0, inputs |-> {}, deps |-> <<>>]

\* An open call with dependencies left goes on to construct the next of them.
Descend(st) ==
  IF Head(st).deps = <<>> THEN st
  ELSE <<Call(Head(Head(st).deps), None, Head(st).missed)>> \o st

PointerOf(call) == [key |-> call.key, gen |-> call.gen]

\* The innermost call returns p: the caller takes it as an input, and the loop
\* over its dependencies goes on.
Return(p) ==
  IF Tail(stack) = <<>>
    THEN stack' = <<>> /\ mpc' = "neck"
    ELSE LET caller == Head(Tail(stack)) IN
         /\ stack' = Descend(<<[caller EXCEPT !.inputs = @ \cup {p}, !.deps = Tail(@)]>>
                               \o Tail(Tail(stack)))
         /\ UNCHANGED mpc

\* The instance returned learns that the caller's instance is one of its outputs.
Caller == IF Tail(stack) = <<>> THEN <<>> ELSE <<PointerOf(Head(Tail(stack)))>>

\* A frame that has an instance: a callback is answered at once from a finished
\* one and left with an unfinished one, in the place of any left there before.
ReuseInstance ==
  /\ mpc = "construct" /\ ~Head(stack).open
  /\ LET call == Head(stack)
         old  == inst[call.key].callback
         keep == call.callback # None /\ ~inst[call.key].product
     IN
     /\ Exists(call.key)
     /\ Post(IF keep THEN None ELSE call.callback, "frame")
     /\ inst' = [inst EXCEPT ![call.key].callback = IF keep THEN call.callback ELSE @,
                             ![call.key].outputs = @ \o Caller]
     /\ answer' = IF keep /\ old # None THEN [answer EXCEPT ![old] = "superseded"]
                  ELSE answer
     /\ Return(PointerTo(call.key))
  /\ UNCHANGED <<made, history, miss, busy, waiting, current, todo, constructed,
                 tasks, work, workerVars>>

\* A frame that has none: a frame constructed before counts as a miss of its
\* filter, unless the call is already part of one; get_frame_data names the
\* dependencies.
OpenInstance ==
  /\ mpc = "construct" /\ ~Head(stack).open
  /\ LET call  == Head(stack)
         again == call.key \in history /\ ~call.missed
         gen   == made[call.key] + 1
     IN
     /\ ~Exists(call.key)
     /\ gen <= MaxGeneration
     /\ miss' = IF again THEN [miss EXCEPT ![call.key[1]] = @ + 1] ELSE miss
     /\ history' = history \cup {call.key}
     /\ made' = [made EXCEPT ![call.key] = gen]
     /\ stack' = Descend(<<[call EXCEPT !.missed = @ \/ again, !.open = TRUE,
                                       !.gen = gen, !.deps = Deps[call.key]]>>
                         \o Tail(stack))
  /\ UNCHANGED <<inst, busy, waiting, mpc, current, todo, constructed,
                 tasks, callbacks, work, workerVars, answer>>

\* The frame before, an input of the frames of a linear filter if it is there.
Previous(k) ==
  {j \in Key : k[1] \in Linear /\ j = <<k[1], k[2] - 1>> /\ Exists(j)}

\* check_all_inputs_ready
Ready(inputs) == \A i \in inputs : Finished(i)

\* All dependencies are there: the instance goes live, and is posted if it can
\* be computed at once.
CloseInstance ==
  /\ mpc = "construct" /\ Head(stack).open
  /\ LET call   == Head(stack)
         p      == PointerOf(call)
         single == call.key[1] \in Single
         inputs == call.inputs \cup {PointerTo(j) : j \in Previous(call.key)}
     IN
     /\ inst' = [k \in Key |->
          IF k = call.key
            THEN [gen |-> call.gen, product |-> FALSE, callback |-> call.callback,
                  inputs |-> inputs, outputs |-> Caller, taken |-> FALSE, single |-> single,
                  indulgence |-> miss[k[1]] \div MissPerIndulgence]
          ELSE IF k \in Previous(call.key)
            THEN [inst[k] EXCEPT !.outputs = Append(@, p)]
          ELSE inst[k]]
     /\ IF Ready(inputs) THEN PostWork(p, single) ELSE UNCHANGED <<work, waiting>>
     /\ Return(p)
  /\ UNCHANGED <<made, history, miss, busy, current, todo, constructed,
                 tasks, callbacks, workerVars, answer>>

-----------------------------------------------------------------------------
(* maintainer: the tasks of a batch *)

\* consume_all hands over the next task, waiting for the first of a batch.
NextTask ==
  /\ mpc \in {"waiting", "batch"}
  /\ tasks # <<>>
  /\ tasks' = Tail(tasks)

TakeConstruct ==
  /\ NextTask /\ Head(tasks).kind = "construct"
  /\ mpc' = "construct"
  /\ LET r == Head(tasks).request IN stack' = <<Call(KeyOf[r], r, FALSE)>>
  /\ constructed' = TRUE
  /\ UNCHANGED <<inst, made, history, miss, busy, waiting, current, todo,
                 callbacks, work, workerVars, answer>>

\* A Notify of an instance that is no longer alive is dropped.
TakeStaleNotify ==
  /\ NextTask /\ Head(tasks).kind = "notify"
  /\ ~Alive(Head(tasks).inst)
  /\ mpc' = "neck"
  /\ UNCHANGED <<inst, made, history, miss, busy, waiting, stack, current, todo,
                 constructed, callbacks, work, workerVars, answer>>

\* Mutant: the neck is released, but the frame stays in its waiting set.
ReleaseNeck_Keep(p) ==
  /\ busy' = IF inst[p.key].single THEN busy \ {SubstrateOf(p)} ELSE busy
  /\ UNCHANGED waiting

\* The frame of a single-threaded filter is done with: its filter is free, and
\* it is not to be posted again should another input have put it back.
ReleaseNeck(p) ==
  LET s == SubstrateOf(p) IN
  IF inst[p.key].single
    THEN busy' = busy \ {s} /\ waiting' = [waiting EXCEPT ![s] = @ \ {p}]
    ELSE UNCHANGED <<busy, waiting>>

\* Otherwise the outputs are looked at one by one, or, if process_frame threw,
\* the instance is killed with all that depend on it.
TakeNotify ==
  /\ NextTask /\ Head(tasks).kind = "notify"
  /\ LET p == Head(tasks).inst IN
     /\ Alive(p)
     /\ ReleaseNeck(p)
     /\ inst' = [inst EXCEPT ![p.key].single = FALSE]
     /\ current' = p
     /\ IF Head(tasks).exc
          THEN mpc' = "kill" /\ todo' = <<p>>
          ELSE mpc' = "outputs" /\ todo' = inst[p.key].outputs
  /\ UNCHANGED <<made, history, miss, stack, constructed,
                 callbacks, work, workerVars, answer>>

\* An output that is alive and unfinished is posted once its inputs are ready.
LookAtOutput ==
  /\ mpc = "outputs" /\ todo # <<>>
  /\ LET p == Head(todo) IN
     IF Alive(p) /\ ~inst[p.key].product /\ Ready(inst[p.key].inputs)
       THEN PostWork(p, inst[p.key].single)
       ELSE UNCHANGED <<work, waiting>>
  /\ todo' = Tail(todo)
  /\ UNCHANGED <<inst, made, history, miss, busy, mpc, stack, current, constructed,
                 tasks, callbacks, workerVars, answer>>

\* After the outputs, the instance's own callback.
AnswerCallback ==
  /\ mpc = "outputs" /\ todo = <<>>
  /\ Post(inst[current.key].callback, "frame")
  /\ inst' = [inst EXCEPT ![current.key].callback = None]
  /\ current' = None
  /\ mpc' = "neck"
  /\ UNCHANGED <<made, history, miss, busy, waiting, stack, todo, constructed,
                 tasks, work, workerVars, answer>>

\* Mutant: the callback of an instance that is killed is forgotten.
KillNext_Silent ==
  /\ mpc = "kill" /\ todo # <<>>
  /\ LET p == Head(todo) IN
     IF Alive(p)
       THEN /\ inst' = [inst EXCEPT ![p.key] = None]
            /\ todo' = inst[p.key].outputs \o Tail(todo)
       ELSE todo' = Tail(todo) /\ UNCHANGED inst
  /\ UNCHANGED <<made, history, miss, busy, waiting, mpc, stack, current, constructed,
                 tasks, callbacks, work, workerVars, answer>>

\* kill_tree: the instance's callback is given the exception, then each output
\* that is still alive is killed in the same way, and the instance is removed.
KillNext ==
  /\ mpc = "kill" /\ todo # <<>>
  /\ LET p == Head(todo) IN
     IF Alive(p)
       THEN /\ Post(inst[p.key].callback, "error")
            /\ inst' = [inst EXCEPT ![p.key] = None]
            /\ todo' = inst[p.key].outputs \o Tail(todo)
       ELSE todo' = Tail(todo) /\ UNCHANGED <<inst, callbacks>>
  /\ UNCHANGED <<made, history, miss, busy, waiting, mpc, stack, current, constructed,
                 tasks, work, workerVars, answer>>

EndKill ==
  /\ mpc = "kill" /\ todo = <<>>
  /\ mpc' = "neck"
  /\ current' = None
  /\ UNCHANGED <<inst, made, history, miss, busy, waiting, stack, todo, constructed,
                 tasks, callbacks, work, workerVars, answer>>

\* The necks that can go on: nothing of the filter is out, and a frame waits.
Idle(s) == s \notin busy /\ waiting[s] # {}

\* Mutant: the neck is not marked as busy.
PostFromNeck_Unmarked(s, p) ==
  /\ mpc = "neck"
  /\ Idle(s) /\ p \in waiting[s]
  /\ work' = [work EXCEPT ![p] = @ + 1]
  /\ waiting' = [waiting EXCEPT ![s] = @ \ {p}]
  /\ UNCHANGED <<inst, made, history, miss, busy, mpc, stack, current, todo, constructed,
                 tasks, callbacks, workerVars, answer>>

\* After every task each idle neck posts one of its frames.
PostFromNeck(s, p) ==
  /\ mpc = "neck"
  /\ Idle(s) /\ p \in waiting[s]
  /\ work' = [work EXCEPT ![p] = @ + 1]
  /\ waiting' = [waiting EXCEPT ![s] = @ \ {p}]
  /\ busy' = busy \cup {s}
  /\ UNCHANGED <<inst, made, history, miss, mpc, stack, current, todo, constructed,
                 tasks, callbacks, workerVars, answer>>

EndTask ==
  /\ mpc = "neck"
  /\ ~\E s \in Substrate : Idle(s)
  /\ mpc' = "batch"
  /\ UNCHANGED <<inst, made, history, miss, busy, waiting, stack, current, todo,
                 constructed, tasks, callbacks, work, workerVars, answer>>

-----------------------------------------------------------------------------
(* maintainer: the end of a batch *)

\* Mutant: an instance some output still waits for is not spared.
Evictable_Outputs(k) ==
  /\ Exists(k)
  /\ inst[k].product /\ inst[k].callback = None /\ ~inst[k].single

\* An instance may go when it is finished and notified, and no output still
\* waits for it.
Evictable(k) ==
  /\ Exists(k)
  /\ inst[k].product /\ inst[k].callback = None /\ ~inst[k].single
  /\ \A i \in 1 .. Len(inst[k].outputs) :
       LET p == inst[k].outputs[i] IN ~Alive(p) \/ Finished(p)

\* The queue is empty.  If the batch constructed anything the instances are
\* swept: those that may go do so once their indulgence is used up.
EndBatch ==
  /\ mpc = "batch"
  /\ tasks = <<>>
  /\ mpc' = "waiting"
  /\ constructed' = FALSE
  /\ IF constructed
       THEN /\ inst' = [k \in Key |->
                  IF ~Evictable(k) THEN inst[k]
                  ELSE IF inst[k].indulgence > 0
                         THEN [inst[k] EXCEPT !.indulgence = @ - 1]
                         ELSE None]
            /\ history' = IF Cardinality(history) > HistoryLimit THEN {} ELSE history
       ELSE UNCHANGED <<inst, history>>
  /\ UNCHANGED <<made, miss, busy, waiting, stack, current, todo,
                 tasks, callbacks, work, workerVars, answer>>

-----------------------------------------------------------------------------
(* worker *)

At(w) == worker[w].at
WorkerAt(w, pc) == worker[w].pc = pc
WorkerGoto(w, pc) == worker' = [worker EXCEPT ![w].pc = pc]
WorkerRest(w) == worker' = [worker EXCEPT ![w] = [pc |-> "idle", at |-> None, mode |-> "none"]]

\* The next frame of the work queue, any of those in it.
Pop(w, p) ==
  /\ WorkerAt(w, "idle")
  /\ work[p] > 0
  /\ work' = [work EXCEPT ![p] = @ - 1]
  /\ worker' = [worker EXCEPT ![w] = [pc |-> "popped", at |-> p, mode |-> "none"]]
  /\ UNCHANGED <<maintainerVars, tasks, callbacks, inited, answer>>

\* Mutant: `taken` is looked at but not set.
TestTaken_Load(w) ==
  /\ WorkerAt(w, "popped")
  /\ IF Alive(At(w)) /\ ~inst[At(w).key].taken
       THEN /\ WorkerGoto(w, IF SubstrateOf(At(w)) \in Guarded THEN "taken" ELSE "run")
            /\ UNCHANGED inst
       ELSE WorkerRest(w) /\ UNCHANGED inst
  /\ UNCHANGED <<made, history, miss, busy, waiting, mpc, stack, current, todo, constructed,
                 tasks, callbacks, work, inited, answer>>

\* taken.test_and_set: a frame that another worker has taken is left to it.  So
\* is one whose instance is gone, a second copy that stayed in the queue: there
\* the code reads freed memory.
TestTaken(w) ==
  /\ WorkerAt(w, "popped")
  /\ IF Alive(At(w)) /\ ~inst[At(w).key].taken
       THEN /\ WorkerGoto(w, IF SubstrateOf(At(w)) \in Guarded THEN "taken" ELSE "run")
            /\ inst' = [inst EXCEPT ![At(w).key].taken = TRUE]
       ELSE WorkerRest(w) /\ UNCHANGED inst
  /\ UNCHANGED <<made, history, miss, busy, waiting, mpc, stack, current, todo, constructed,
                 tasks, callbacks, work, inited, answer>>

\* The other workers that hold the lock of substrate s, in one of the modes.
Holders(w, s, modes) ==
  {v \in Worker \ {w} : worker[v].mode \in modes /\ SubstrateOf(At(v)) = s}

\* Mutant: a worker that has not initialised itself takes the shared mode too.
TryLock_Shared(w) ==
  /\ WorkerAt(w, "taken")
  /\ LET s == SubstrateOf(At(w)) IN
     /\ Holders(w, s, {"exclusive"}) = {}
     /\ worker' = [worker EXCEPT ![w].pc = "run", ![w].mode =
          IF s \in inited[w] THEN "shared" ELSE "exclusive"]
     /\ inited' = [inited EXCEPT ![w] = @ \cup {s}]
  /\ UNCHANGED <<maintainerVars, tasks, callbacks, work, answer>>

\* The lock (Wedge): shared for a worker that has initialised itself for the
\* filter, exclusive for one that has yet to.
TryLock(w) ==
  /\ WorkerAt(w, "taken")
  /\ LET s == SubstrateOf(At(w)) IN
     IF s \in inited[w]
       THEN /\ Holders(w, s, {"exclusive"}) = {}
            /\ worker' = [worker EXCEPT ![w].pc = "run", ![w].mode = "shared"]
            /\ UNCHANGED inited
       ELSE /\ Holders(w, s, {"shared", "exclusive"}) = {}
            /\ worker' = [worker EXCEPT ![w].pc = "run", ![w].mode = "exclusive"]
            /\ inited' = [inited EXCEPT ![w] = @ \cup {s}]
  /\ UNCHANGED <<maintainerVars, tasks, callbacks, work, answer>>

\* The attempt fails: because of a holder, or, in exclusive mode, because the
\* word still counts a shared attempt that is itself about to fail.  The frame
\* is released, to be queued again.
LockBusy(w) ==
  /\ WorkerAt(w, "taken")
  /\ LET s == SubstrateOf(At(w)) IN
     \/ Holders(w, s, {"exclusive"}) # {}
     \/ /\ s \notin inited[w]
        /\ \/ Holders(w, s, {"shared"}) # {}
           \/ \E v \in Worker \ {w} :
                WorkerAt(v, "taken") /\ SubstrateOf(At(v)) = s /\ s \in inited[v]
  /\ inst' = IF Alive(At(w)) THEN [inst EXCEPT ![At(w).key].taken = FALSE] ELSE inst
  /\ WorkerGoto(w, "repost")
  /\ UNCHANGED <<made, history, miss, busy, waiting, mpc, stack, current, todo, constructed,
                 tasks, callbacks, work, inited, answer>>

Repost(w) ==
  /\ WorkerAt(w, "repost")
  /\ work' = [work EXCEPT ![At(w)] = @ + 1]
  /\ WorkerRest(w)
  /\ UNCHANGED <<maintainerVars, tasks, callbacks, inited, answer>>

\* A task is the last thing a worker does to an instance; it then gives back
\* the lock, if it has one.
Announce(w, exc) ==
  /\ tasks' = Append(tasks, Notify(At(w), exc))
  /\ IF worker[w].mode = "none" THEN WorkerRest(w) ELSE WorkerGoto(w, "unlock")

\* process_frame throws.
Fail(w) ==
  /\ WorkerAt(w, "run")
  /\ SubstrateOf(At(w)) \in MayFail
  /\ Announce(w, TRUE)
  /\ UNCHANGED <<maintainerVars, callbacks, work, inited, answer>>

\* Mutant: the product is not stored before the notification.
StoreProduct_Late(w) ==
  /\ WorkerAt(w, "run")
  /\ WorkerGoto(w, "stored")
  /\ UNCHANGED <<maintainerVars, tasks, callbacks, work, inited, answer>>

\* process_frame returns, and its product is stored where the maintainer and
\* other workers see it.
StoreProduct(w) ==
  /\ WorkerAt(w, "run")
  /\ inst' = IF Alive(At(w)) THEN [inst EXCEPT ![At(w).key].product = TRUE] ELSE inst
  /\ WorkerGoto(w, "stored")
  /\ UNCHANGED <<made, history, miss, busy, waiting, mpc, stack, current, todo, constructed,
                 tasks, callbacks, work, inited, answer>>

Succeed(w) ==
  /\ WorkerAt(w, "stored")
  /\ Announce(w, FALSE)
  /\ UNCHANGED <<maintainerVars, callbacks, work, inited, answer>>

Unlock(w) ==
  /\ WorkerAt(w, "unlock")
  /\ WorkerRest(w)
  /\ UNCHANGED <<maintainerVars, tasks, callbacks, work, inited, answer>>

-----------------------------------------------------------------------------
Maintainer ==
  \/ TakeConstruct \/ TakeStaleNotify \/ TakeNotify
  \/ ReuseInstance \/ OpenInstance \/ CloseInstance
  \/ LookAtOutput \/ AnswerCallback
  \/ KillNext \/ EndKill
  \/ \E s \in Single : \E p \in waiting[s] : PostFromNeck(s, p)
  \/ EndTask \/ EndBatch

WorkerStep(w) ==
  \/ \E p \in Pointer : Pop(w, p)
  \/ TestTaken(w) \/ TryLock(w) \/ LockBusy(w) \/ Repost(w)
  \/ Fail(w) \/ StoreProduct(w) \/ Succeed(w) \/ Unlock(w)

Next ==
  \/ \E r \in Request : GetFrame(r)
  \/ Maintainer
  \/ \E w \in Worker : WorkerStep(w)
  \/ InvokeCallback

\* Every thread of the reaction runs; nobody is obliged to ask for a frame.
Spec ==
  /\ Init /\ [][Next]_vars
  /\ WF_vars(Maintainer)
  /\ \A w \in Worker : WF_vars(WorkerStep(w))
  /\ WF_vars(InvokeCallback)

-----------------------------------------------------------------------------
Calls ==
  [key : Key, callback : Request \cup {None}, missed : BOOLEAN, open : BOOLEAN,
   gen : Generation \cup {0}, inputs : SUBSET Pointer, deps : Seq(Key)]
Tasks ==
  [kind : {"construct"}, request : Request]
    \cup [kind : {"notify"}, inst : Pointer, exc : BOOLEAN]
Modes == {"none", "shared", "exclusive"}
WorkerStates == {"idle", "popped", "taken", "repost", "run", "stored", "unlock"}

TypeOK ==
  /\ inst \in [Key -> Instance \cup {None}]
  /\ made \in [Key -> Generation \cup {0}]
  /\ history \in SUBSET Key
  /\ miss \in [Substrate -> Nat]
  /\ busy \in SUBSET Single
  /\ waiting \in [Substrate -> SUBSET Pointer]
  /\ mpc \in {"waiting", "batch", "construct", "outputs", "kill", "neck"}
  /\ stack \in Seq(Calls)
  /\ current \in Pointer \cup {None}
  /\ todo \in Seq(Pointer)
  /\ constructed \in BOOLEAN
  /\ tasks \in Seq(Tasks)
  /\ callbacks \in Seq([request : Request, result : {"frame", "error"}])
  /\ work \in [Pointer -> Nat]
  /\ worker \in [Worker -> [pc : WorkerStates, at : Pointer \cup {None}, mode : Modes]]
  /\ inited \in [Worker -> SUBSET Guarded]
  /\ answer \in [Request -> {"unasked", "waiting", "frame", "error", "superseded"}]

\* The workers in the filter's code.
Running(w) == WorkerAt(w, "run")

\* A worker that computes a frame is the only one to do so, it computes it for
\* the first time, and all the frames it reads are there and stay alive, even
\* when a frame is in the work queue twice because two of its inputs were
\* finished at once or because it names an input twice.
InputsReady ==
  \A w \in Worker : Running(w) =>
    /\ Alive(At(w)) /\ ~inst[At(w).key].product
    /\ \A i \in inst[At(w).key].inputs : Finished(i)
    /\ \A v \in Worker \ {w} : Running(v) => At(v) # At(w)

\* No two workers compute frames of one single-threaded filter at once, whichever way
\* the frames came past its neck: constructed, let out by the report of the one before,
\* put back because the filter's lock was busy, or after a failure killed their tree.
SingleThreaded ==
  \A s \in Single : \A v, w \in Worker :
    Running(v) /\ Running(w) /\ SubstrateOf(At(v)) = s /\ SubstrateOf(At(w)) = s => v = w

\* A frame of a single-threaded filter is posted at most once at a time, and
\* its instance outlives its stay in the queue and with the worker.  (Frames of
\* other filters can be posted twice, and there it may not.)
SingleNeverDangles ==
  \A p \in Pointer : SubstrateOf(p) \in Single =>
    /\ work[p] <= 1
    /\ work[p] = 1 => Alive(p) /\ ~\E w \in Worker : WorkerAt(w, "popped") /\ At(w) = p
    /\ \A w \in Worker : WorkerAt(w, "popped") /\ At(w) = p => Alive(p)

\* p is queued, held back, with a worker, or failed and about to be killed.
InHand(p) ==
  \/ work[p] > 0
  \/ p \in waiting[SubstrateOf(p)]
  \/ \E w \in Worker : At(w) = p /\ ~WorkerAt(w, "unlock")
  \/ \E i \in 1 .. Len(tasks) : tasks[i] = Notify(p, TRUE)
  \/ mpc = "kill" /\ \E i \in 1 .. Len(todo) : todo[i] = p

\* Some input of p has been stored and the maintainer has yet to look at p
\* because of it.
Due(p) ==
  \E q \in inst[p.key].inputs :
    \/ \E w \in Worker : At(w) = q /\ WorkerAt(w, "stored")
    \/ \E i \in 1 .. Len(tasks) : tasks[i] = Notify(q, FALSE)
    \/ mpc = "outputs" /\ current = q /\ \E i \in 1 .. Len(todo) : todo[i] = p

\* No frame is forgotten: the inputs of an unfinished frame stay alive, and once
\* they are all finished the frame is in hand or about to be looked at.
NothingForgotten ==
  \A k \in Key : Exists(k) /\ ~inst[k].product /\ mpc # "kill" =>
    /\ \A i \in inst[k].inputs : Alive(i)
    /\ Ready(inst[k].inputs) => InHand(PointerTo(k)) \/ Due(PointerTo(k))

\* While a worker initialises itself for a filter no other one runs it.
InitialisesAlone ==
  \A v, w \in Worker :
    Running(v) /\ Running(w) /\ v # w /\ SubstrateOf(At(v)) = SubstrateOf(At(w)) =>
      worker[v].mode # "exclusive"

\* The frames that frame k depends on directly, by way of its filter and, when
\* the filter is linear, of the order of its frames.
Edges(k) ==
  {Deps[k][i] : i \in 1 .. Len(Deps[k])}
    \cup {j \in Key : k[1] \in Linear /\ j = <<k[1], k[2] - 1>>}

\* The frames whose computation can fail: those of a filter that can, and those
\* that depend on one whose computation can, and no more.
ClosedUnderFailure(F) == \A k \in Key : k[1] \in MayFail \/ Edges(k) \cap F # {} => k \in F
Fallible == {k \in Key : \A F \in SUBSET Key : ClosedUnderFailure(F) => k \in F}

\* Every request is answered once, with an error only if something it depends
\* on can fail, unless another one for the same frame superseded it.
Service == INSTANCE FrameService
ServesFrames == Service!Spec
=============================================================================
