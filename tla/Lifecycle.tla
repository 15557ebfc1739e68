----------------------------- MODULE Lifecycle -----------------------------
(***************************************************************************)
(* The life of a nucleus as its clients see it: the first request starts   *)
(* the threads (Metalloporphyrin's getFrame and getFrameAsync, react), a    *)
(* client of getFrame sleeps until the callback thread wakes it, and the   *)
(* destructor of the nucleus stops the queues and joins the threads.       *)
(*                                                                         *)
(* The queues are those of FifoQueue and PriorityQueue, the scheduler is   *)
(* cut down to what a client can tell: a request needs some instances,     *)
(* independent of each other; it is answered when all of them are there,   *)
(* or when the first of them fails, while the others are still under way.  *)
(***************************************************************************)
EXTENDS Integers, Sequences, FiniteSets, Functions

CONSTANTS
  Client,       \* the threads that ask for frames, each one once
  Async,        \* those that use getFrameAsync
  Worker,       \* the worker threads
  Instance,     \* what their requests need: pairs of a client and a number
  MayFail,      \* the clients whose frames can fail
  Sharing,      \* which nodes they may ask: functions from clients to nodes
  Patient       \* TRUE: clients of a node leave its first request to one of them

Nobody == "nobody"

ASSUME ClientAssumption ==
  Async \subseteq Client /\ MayFail \subseteq Client /\ Nobody \notin Client
ASSUME InstanceAssumption == Instance \subseteq Client \X Nat
ASSUME SharingAssumption == \A s \in Sharing : DOMAIN s = Client
ASSUME PatientAssumption == Patient \in BOOLEAN

VARIABLES
  pc,           \* where each client stands in getFrame
  starter,      \* who holds starting_mutex
  reactions,    \* how often the threads were created
  node,         \* the node each client asks
  output,       \* its output: the number of the last one made, 0 is null
  loaded,       \* the output each client calls get_frame on
  frame,        \* what a client got: frame_ref, or the text in errorMsg
  unheard,      \* the clients that were notified before they slept
  maintainQ, maintainer,    \* the queue and the mode of its thread
  callbackQ, callbacker,
  invoking,     \* the request whose callback runs
  workQ, worker,            \* the queue, and the mode of each worker
  held,                     \* the instance a busy worker computes
  workStopped,
  ready, answered,          \* instances reported there; requests answered
  swallowed, overslept,     \* a stop got lost in a drain; a worker missed it
  phase,        \* how far the destructor is
  quiet         \* it began when all was answered, and nothing had failed

clientVars == <<pc, starter, reactions, node, output, loaded>>
answerVars == <<frame, unheard>>
maintainVars == <<maintainQ, maintainer, ready, answered, swallowed>>
callbackVars == <<callbackQ, callbacker, invoking>>
workVars == <<workQ, worker, held, workStopped, overslept>>
endVars == <<phase, quiet>>
vars == <<clientVars, answerVars, maintainVars, callbackVars, workVars, endVars>>

Needs(c) == {i \in Instance : i[1] = c}

Node == UNION {Range(s) : s \in Sharing}
NoInst == <<Nobody, Nobody>>
Stop == [is |-> "stop"]
Invoke(c, failed) == [is |-> "invoke", for |-> c, exc |-> failed]
Construct(c) == [is |-> "construct", for |-> c]
Notify(i, failed) == [is |-> "notify", inst |-> i, exc |-> failed]

Init ==
  /\ pc = [c \in Client |-> "idle"]
  /\ starter = Nobody /\ reactions = 0
  /\ node \in Sharing
  /\ output = [n \in Node |-> 0] /\ loaded = [c \in Client |-> 0]
  /\ frame = [c \in Client |-> "none"] /\ unheard = {}
  /\ maintainQ = <<>> /\ maintainer = "none"
  /\ callbackQ = <<>> /\ callbacker = "none" /\ invoking = Stop
  /\ workQ = {} /\ worker = [w \in Worker |-> "none"]
  /\ held = [w \in Worker |-> NoInst]
  /\ workStopped = FALSE
  /\ ready = {} /\ answered = {}
  /\ swallowed = FALSE /\ overslept = FALSE
  /\ phase = "alive" /\ quiet = FALSE

Goto(c, to) == pc' = [pc EXCEPT ![c] = to]

\* is_reacting
Reacting == maintainer # "none"

Inside == {"lock", "react", "spawn", "unlock", "output", "create", "ask", "sleep"}

-----------------------------------------------------------------------------
(* getFrame and getFrameAsync *)

\* The look at is_reacting that no lock covers.
Enter(c) ==
  /\ phase = "alive"
  /\ pc[c] = "idle"
  /\ Patient /\ output[node[c]] = 0 =>
       \A d \in Client : node[d] = node[c] => pc[d] \notin Inside
  /\ Goto(c, IF Reacting THEN "output" ELSE "lock")
  /\ UNCHANGED <<starter, reactions, node, output, loaded, answerVars, maintainVars,
                 callbackVars, workVars, endVars>>

LockStarting(c) ==
  /\ pc[c] = "lock" /\ starter = Nobody
  /\ starter' = c
  /\ Goto(c, "react")
  /\ UNCHANGED <<reactions, node, output, loaded, answerVars, maintainVars, callbackVars,
                 workVars, endVars>>

\* Mutant: react does not look again; its callers did.
React_Trust(c) ==
  /\ pc[c] = "react"
  /\ reactions' = reactions + 1 /\ maintainer' = "waiting"
  /\ Goto(c, "spawn")
  /\ UNCHANGED <<starter, node, output, loaded, answerVars, maintainQ, ready, answered,
                 swallowed, callbackVars, workVars, endVars>>

\* react looks again; from its first assignment on everybody sees it reacting.
React(c) ==
  /\ pc[c] = "react"
  /\ IF Reacting
       THEN Goto(c, "unlock") /\ UNCHANGED <<reactions, maintainer>>
       ELSE /\ reactions' = reactions + 1 /\ maintainer' = "waiting"
            /\ Goto(c, "spawn")
  /\ UNCHANGED <<starter, node, output, loaded, answerVars, maintainQ, ready, answered,
                 swallowed, callbackVars, workVars, endVars>>

\* The callback thread and the workers come after it.
Spawn(c) ==
  /\ pc[c] = "spawn"
  /\ callbacker' = "waiting" /\ worker' = [w \in Worker |-> "idle"]
  /\ Goto(c, "unlock")
  /\ UNCHANGED <<starter, reactions, node, output, loaded, answerVars, maintainVars,
                 callbackQ, invoking, workQ, held, workStopped, overslept, endVars>>

UnlockStarting(c) ==
  /\ pc[c] = "unlock"
  /\ starter' = Nobody
  /\ Goto(c, "output")
  /\ UNCHANGED <<reactions, node, output, loaded, answerVars, maintainVars, callbackVars,
                 workVars, endVars>>

\* if (!node->output)
LoadOutput(c) ==
  /\ pc[c] = "output"
  /\ Goto(c, IF output[node[c]] = 0 THEN "create" ELSE "ask")
  /\ loaded' = [loaded EXCEPT ![c] = output[node[c]]]
  /\ UNCHANGED <<starter, reactions, node, output, answerVars, maintainVars, callbackVars,
                 workVars, endVars>>

\* node->output.put() releases the output that is there.
CreateOutput(c) ==
  /\ pc[c] = "create"
  /\ output' = [output EXCEPT ![node[c]] = @ + 1]
  /\ loaded' = [loaded EXCEPT ![c] = output[node[c]] + 1]
  /\ Goto(c, "ask")
  /\ UNCHANGED <<starter, reactions, node, answerVars, maintainVars, callbackVars,
                 workVars, endVars>>

\* Output::get_frame; getFrameAsync is done.
AskFrame(c) ==
  /\ pc[c] = "ask"
  /\ maintainQ' = Append(maintainQ, Construct(c))
  /\ Goto(c, IF c \in Async THEN "done" ELSE "sleep")
  /\ UNCHANGED <<starter, reactions, node, output, loaded, answerVars, maintainer, ready,
                 answered, swallowed, callbackVars, workVars, endVars>>

\* cv.wait without a predicate: whoever notified before is not heard.
Sleep(c) ==
  /\ pc[c] = "sleep"
  /\ Goto(c, "asleep")
  /\ UNCHANGED <<starter, reactions, node, output, loaded, answerVars, maintainVars,
                 callbackVars, workVars, endVars>>

\* Woken, getFrame returns, and its stack is gone.
Return(c) ==
  /\ pc[c] = "woken"
  /\ Goto(c, "done")
  /\ UNCHANGED <<starter, reactions, node, output, loaded, answerVars, maintainVars,
                 callbackVars, workVars, endVars>>

Calling(c) ==
  \/ LockStarting(c) \/ React(c) \/ Spawn(c) \/ UnlockStarting(c)
  \/ LoadOutput(c) \/ CreateOutput(c) \/ AskFrame(c) \/ Sleep(c) \/ Return(c)

-----------------------------------------------------------------------------
(* The maintainer *)

TakeAs(kind) ==
  /\ maintainer \in {"waiting", "draining"}
  /\ maintainQ # <<>> /\ Head(maintainQ).is = kind
  /\ maintainQ' = Tail(maintainQ)

Answers(c, failed) ==
  /\ answered' = answered \cup {c}
  /\ callbackQ' = Append(callbackQ, Invoke(c, failed))

TakeConstruct ==
  /\ TakeAs("construct")
  /\ maintainer' = "draining"
  /\ workQ' = workQ \cup Needs(Head(maintainQ).for)
  /\ UNCHANGED <<ready, answered, swallowed, clientVars, answerVars, callbacker,
                 callbackQ, invoking, worker, held, workStopped, overslept, endVars>>

\* Mutant: a client is answered with the first of its instances.
TakeNotify_First ==
  /\ TakeAs("notify")
  /\ maintainer' = "draining"
  /\ LET t == Head(maintainQ)  c == t.inst[1] IN
       /\ ready' = ready \cup {t.inst}
       /\ IF c \notin answered THEN Answers(c, t.exc) ELSE UNCHANGED <<answered, callbackQ>>
  /\ UNCHANGED <<swallowed, clientVars, answerVars, callbacker, invoking, workVars, endVars>>

\* A report: the request is answered when it is the last one of a request or
\* an error, and was not answered with an error before.
TakeNotify ==
  /\ TakeAs("notify")
  /\ maintainer' = "draining"
  /\ LET t == Head(maintainQ)  c == t.inst[1] IN
       /\ ready' = IF t.exc THEN ready ELSE ready \cup {t.inst}
       /\ IF c \notin answered /\ (t.exc \/ Needs(c) \subseteq ready')
            THEN Answers(c, t.exc) ELSE UNCHANGED <<answered, callbackQ>>
  /\ UNCHANGED <<swallowed, clientVars, answerVars, callbacker, invoking, workVars, endVars>>

\* StopRequested leaves the thread, and with it go the instances; behind a
\* task of the same batch the stop only ends the batch.
TakeStop ==
  /\ TakeAs("stop")
  /\ maintainer' = IF maintainer = "waiting" THEN "over" ELSE "waiting"
  /\ swallowed' = (maintainer = "draining")
  /\ UNCHANGED <<ready, answered, clientVars, answerVars, callbackVars, workVars, endVars>>

EndBatch ==
  /\ maintainer = "draining" /\ maintainQ = <<>>
  /\ maintainer' = "waiting"
  /\ UNCHANGED <<maintainQ, ready, answered, swallowed, clientVars, answerVars,
                 callbackVars, workVars, endVars>>

Maintainer == TakeConstruct \/ TakeNotify \/ TakeStop \/ EndBatch

-----------------------------------------------------------------------------
(* The workers *)

Pop(w) ==
  /\ worker[w] \in {"idle", "asleep"}
  /\ \E i \in workQ :
       /\ workQ' = workQ \ {i}
       /\ held' = [held EXCEPT ![w] = i]
  /\ worker' = [worker EXCEPT ![w] = "busy"]
  /\ UNCHANGED <<workStopped, overslept, clientVars, answerVars, maintainVars,
                 callbackVars, endVars>>

\* The product is stored, or the exception caught, and the report posted.
Report(w) ==
  /\ worker[w] = "busy"
  /\ \E failed \in BOOLEAN :
       /\ failed => held[w][1] \in MayFail
       /\ maintainQ' = Append(maintainQ, Notify(held[w], failed))
  /\ worker' = [worker EXCEPT ![w] = "idle"] /\ held' = [held EXCEPT ![w] = NoInst]
  /\ UNCHANGED <<workQ, workStopped, overslept, maintainer, ready, answered,
                 swallowed, clientVars, answerVars, callbackVars, endVars>>

\* With nothing left a worker sees that it is to stop, or, when another one
\* does, may miss it and sleep on (PriorityQueue shows how).
EndWorker(w) ==
  /\ workStopped /\ workQ = {} /\ worker[w] = "idle"
  /\ \/ worker' = [worker EXCEPT ![w] = "over"] /\ UNCHANGED overslept
     \/ /\ \E v \in Worker \ {w} : worker[v] # "asleep"
        /\ worker' = [worker EXCEPT ![w] = "asleep"]
        /\ overslept' = TRUE
  /\ UNCHANGED <<workQ, held, workStopped, clientVars, answerVars, maintainVars,
                 callbackVars, endVars>>

Working(w) == Pop(w) \/ Report(w) \/ EndWorker(w)

-----------------------------------------------------------------------------
(* The callback thread *)

\* Mutant: the callback notifies before it writes.
TakeCallback_NotifyFirst ==
  /\ callbacker = "waiting"
  /\ callbackQ # <<>> /\ Head(callbackQ).is = "invoke"
  /\ callbackQ' = Tail(callbackQ)
  /\ invoking' = Head(callbackQ)
  /\ callbacker' = "writing"
  /\ pc' = [pc EXCEPT ![Head(callbackQ).for] = IF @ = "asleep" THEN "woken" ELSE @]
  /\ UNCHANGED <<starter, reactions, node, output, loaded, answerVars, maintainVars,
                 workVars, endVars>>

TakeCallback ==
  /\ callbacker = "waiting"
  /\ callbackQ # <<>> /\ Head(callbackQ).is = "invoke"
  /\ callbackQ' = Tail(callbackQ)
  /\ invoking' = Head(callbackQ)
  /\ callbacker' = "writing"
  /\ UNCHANGED <<clientVars, answerVars, maintainVars, workVars, endVars>>

\* frame_ref or errorMsg, or the user's own callback.
WriteResult ==
  /\ callbacker = "writing"
  /\ frame' = [frame EXCEPT ![invoking.for] = IF invoking.exc THEN "error" ELSE "frame"]
  /\ callbacker' = IF invoking.for \in Async THEN "waiting" ELSE "notifying"
  /\ invoking' = IF invoking.for \in Async THEN Stop ELSE invoking
  /\ UNCHANGED <<unheard, callbackQ, clientVars, maintainVars, workVars, endVars>>

\* cv.notify_one: who does not sleep yet will not hear of it.
Notifies(c) ==
  /\ pc' = [pc EXCEPT ![c] = IF @ = "asleep" THEN "woken" ELSE @]
  /\ unheard' = IF pc[c] = "asleep" THEN unheard ELSE unheard \cup {c}

\* Mutant: the notification is part of the branch without an exception.
NotifyWaiter_NotError ==
  /\ callbacker = "notifying"
  /\ IF invoking.exc THEN UNCHANGED <<pc, unheard>> ELSE Notifies(invoking.for)
  /\ callbacker' = "waiting" /\ invoking' = Stop
  /\ UNCHANGED <<starter, reactions, node, output, loaded, callbackQ, frame,
                 maintainVars, workVars, endVars>>

\* Under m: cv.notify_one
NotifyWaiter ==
  /\ callbacker = "notifying"
  /\ Notifies(invoking.for)
  /\ callbacker' = "waiting" /\ invoking' = Stop
  /\ UNCHANGED <<starter, reactions, node, output, loaded, callbackQ, frame,
                 maintainVars, workVars, endVars>>

EndCallbacker ==
  /\ callbacker = "waiting"
  /\ callbackQ # <<>> /\ Head(callbackQ).is = "stop"
  /\ callbackQ' = Tail(callbackQ)
  /\ callbacker' = "over"
  /\ UNCHANGED <<invoking, clientVars, answerVars, maintainVars, workVars, endVars>>

Callbacker == TakeCallback \/ WriteResult \/ NotifyWaiter \/ EndCallbacker

-----------------------------------------------------------------------------
(* ~Nucleus, and the destructors of its members, the last one first *)

Asked(c) == pc[c] \in {"sleep", "asleep", "woken", "done"}

\* The owner lets go of the nucleus while nobody is in a call, but for those
\* that sleep in one.
Destroy ==
  /\ phase = "alive"
  /\ \A c \in Client : pc[c] \notin Inside
  /\ phase' = "stopMaintain"
  /\ quiet' = \A c \in Client : Asked(c) => frame[c] = "frame"
  /\ UNCHANGED <<clientVars, answerVars, maintainVars, callbackVars, workVars>>

StopMaintain ==
  /\ phase = "stopMaintain" /\ phase' = "stopCallback"
  /\ maintainQ' = Append(maintainQ, Stop)
  /\ UNCHANGED <<maintainer, ready, answered, swallowed, quiet, clientVars,
                 answerVars, callbackVars, workVars>>

StopCallback ==
  /\ phase = "stopCallback" /\ phase' = "stopWork"
  /\ callbackQ' = Append(callbackQ, Stop)
  /\ UNCHANGED <<callbacker, invoking, quiet, clientVars, answerVars, maintainVars, workVars>>

\* Mutant: the work queue is not stopped.
StopWork_Skip ==
  /\ phase = "stopWork" /\ phase' = "joinWorkers"
  /\ UNCHANGED <<quiet, clientVars, answerVars, maintainVars, callbackVars, workVars>>

StopWork ==
  /\ phase = "stopWork" /\ phase' = "joinWorkers"
  /\ workStopped' = TRUE
  /\ UNCHANGED <<workQ, worker, held, overslept, quiet, clientVars, answerVars,
                 maintainVars, callbackVars>>

Ended == {"none", "over"}

JoinWorkers ==
  /\ phase = "joinWorkers" /\ phase' = "joinCallback"
  /\ \A w \in Worker : worker[w] \in Ended
  /\ UNCHANGED <<quiet, clientVars, answerVars, maintainVars, callbackVars, workVars>>

JoinCallbacker ==
  /\ phase = "joinCallback" /\ phase' = "joinMaintain"
  /\ callbacker \in Ended
  /\ UNCHANGED <<quiet, clientVars, answerVars, maintainVars, callbackVars, workVars>>

\* With the last thread go the queues.
JoinMaintainer ==
  /\ phase = "joinMaintain" /\ phase' = "gone"
  /\ maintainer \in Ended
  /\ UNCHANGED <<quiet, clientVars, answerVars, maintainVars, callbackVars, workVars>>

Destroying ==
  \/ StopMaintain \/ StopCallback \/ StopWork
  \/ JoinWorkers \/ JoinCallbacker \/ JoinMaintainer

-----------------------------------------------------------------------------
Next ==
  \/ \E c \in Client : Enter(c) \/ Calling(c)
  \/ Maintainer
  \/ \E w \in Worker : Working(w)
  \/ Callbacker
  \/ Destroy
  \/ Destroying

\* Every thread goes on; nobody need ask for a frame or destroy the nucleus.
\* starting_mutex is given back, so that even a client that finds it held at
\* each of its looks gets it.
Spec ==
  /\ Init /\ [][Next]_vars
  /\ \A c \in Client : WF_vars(Calling(c)) /\ SF_vars(LockStarting(c))
  /\ WF_vars(Maintainer) /\ WF_vars(Callbacker) /\ WF_vars(Destroying)
  /\ \A w \in Worker : WF_vars(Working(w))

-----------------------------------------------------------------------------
\* However many clients find the nucleus at rest, its threads are made once: the
\* one that comes second to the lock looks again (substrate.cpp:63).  And an
\* output is not released under a client that is about to use it, if the
\* clients of a node leave its first request to one of them.
SetUpOnce ==
  /\ reactions <= 1
  /\ Patient => \A c \in Client : pc[c] = "ask" => loaded[c] = output[node[c]]

\* The callback writes to the stack of a getFrame that has not returned.
StackAlive ==
  callbacker \in {"writing", "notifying"} /\ invoking.for \notin Async =>
    pc[invoking.for] \in {"sleep", "asleep"}

\* The maintainer takes its instances with it.  No worker has or will get one
\* of them, if the destructor found every request answered and none failed.
\* (After an error the siblings of the frame that failed may still be queued.)
InstancesOutliveWork ==
  maintainer = "over" /\ quiet =>
    workQ = {} /\ \A w \in Worker : worker[w] # "busy"

\* A client that sleeps in getFrame wakes up, unless the notification was over
\* before it slept, or the nucleus is being destroyed.
SleepersWake ==
  \A c \in Client :
    pc[c] = "asleep" ~>
      pc[c] # "asleep" \/ c \in unheard \/ phase # "alive"

\* The destructor comes to its end, unless the maintainer's drain swallowed its
\* stop or a worker overslept it.
DestructorEnds ==
  phase # "alive" ~> phase = "gone" \/ swallowed \/ overslept
=============================================================================
