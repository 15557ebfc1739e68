--------------------------- MODULE LifecycleProofs ---------------------------
(***************************************************************************)
(* The safety of Lifecycle for any clients, workers, nodes and requests:   *)
(* the threads are made once, a callback finds the stack it writes to, and *)
(* a destructor that found all answered leaves no work to the workers when *)
(* the instances go.                                                       *)
(***************************************************************************)
EXTENDS Lifecycle, SequenceTheorems, TLAPS

USE ClientAssumption, InstanceAssumption, SharingAssumption

\* A queue holds some of the tasks in S; it holds no two of them.
Has(q, S) == \E k \in 1 .. Len(q) : q[k] \in S
AtMostOne(q, S) == \A k, l \in 1 .. Len(q) : q[k] \in S /\ q[l] \in S => k = l

\* The two reports on an instance, and the two answers to a client.
Failed(i) == Notify(i, TRUE)
Came(i) == Notify(i, FALSE)
Refusal(c) == Invoke(c, TRUE)
Delivery(c) == Invoke(c, FALSE)

\* The tasks that speak of an instance; those that answer a client.
About(i) == {Construct(i[1]), Failed(i), Came(i)}
AnswersTo(c) == {Refusal(c), Delivery(c)}

Task ==
  {Stop} \cup {Construct(c) : c \in Client}
    \cup {Failed(i) : i \in Instance} \cup {Came(i) : i \in Instance}
Call == {Refusal(c) : c \in Client} \cup {Delivery(c) : c \in Client}

Places == Inside \cup {"idle", "asleep", "woken", "done"}

Typed ==
  /\ pc \in [Client -> Places]
  /\ reactions \in Nat /\ node \in Sharing
  /\ output \in [Node -> Nat] /\ loaded \in [Client -> Nat]
  /\ frame \in [Client -> {"none", "frame", "error"}]
  /\ maintainQ \in Seq(Task) /\ maintainer \in {"none", "waiting", "draining", "over"}
  /\ callbackQ \in Seq(Call \cup {Stop})
  /\ callbacker \in {"none", "waiting", "writing", "notifying", "over"}
  /\ callbacker \in {"writing", "notifying"} => invoking \in Call
  /\ workQ \subseteq Instance
  /\ worker \in [Worker -> {"none", "idle", "asleep", "busy", "over"}]
  /\ held \in [Worker -> Instance \cup {NoInst}]
  /\ \A w \in Worker : worker[w] = "busy" => held[w] \in Instance
  /\ ready \subseteq Instance /\ answered \subseteq Client
  /\ phase \in {"alive", "stopMaintain", "stopCallback", "stopWork", "joinWorkers",
                "joinCallback", "joinMaintain", "gone"}
  /\ quiet \in BOOLEAN

\* starting_mutex is held by the client that is between its lock and its unlock,
\* and the threads are made by the first that finds none.
Starting == {"react", "spawn", "unlock"}
LockHeld == \A c \in Client : pc[c] \in Starting <=> starter = c
MadeOnce == reactions <= 1 /\ (~Reacting => reactions = 0)

\* As long as a node has no output, one client at most is in a call for it.
OneFirst ==
  Patient => \A c, d \in Client :
    node[c] = node[d] /\ output[node[c]] = 0 /\ pc[c] \in Inside /\ pc[d] \in Inside => c = d
OutputKept ==
  Patient => \A c \in Client :
    /\ pc[c] = "create" => output[node[c]] = 0
    /\ pc[c] = "ask" => loaded[c] = output[node[c]]

\* An instance is named once: by its request, in the work queue, by the worker
\* that computes it, by a report, or as one that is there.
Computes(w, i) == worker[w] = "busy" /\ held[w] = i
Apart(i) ==
  /\ AtMostOne(maintainQ, About(i))
  /\ \A v, w \in Worker : Computes(v, i) /\ Computes(w, i) => v = w
  /\ i \in workQ => i \notin ready /\ ~Has(maintainQ, About(i)) /\ \A w \in Worker : ~Computes(w, i)
  /\ \A w \in Worker : Computes(w, i) => i \notin ready /\ ~Has(maintainQ, About(i))
  /\ Has(maintainQ, About(i)) => i \notin ready
EachOnce == \A i \in Instance : Apart(i)

\* It is named after it was asked for only.
Named(i) ==
  i \in workQ \/ i \in ready \/ Has(maintainQ, About(i)) \/ \E w \in Worker : Computes(w, i)
NamedAsked == \A i \in Instance : Named(i) => Asked(i[1])

\* A client is answered once, after it asked and before it wakes.
Writing(c) == callbacker = "writing" /\ invoking \in AnswersTo(c)
Serving(c) == callbacker \in {"writing", "notifying"} /\ invoking \in AnswersTo(c)
Pending(c) == Has(callbackQ, AnswersTo(c))
AnsweredOnceBy(c) ==
  /\ AtMostOne(callbackQ, AnswersTo(c)) /\ ~(Pending(c) /\ Serving(c))
  /\ Pending(c) \/ Serving(c) => c \in answered
  /\ Pending(c) \/ Writing(c) \/ c \notin answered => frame[c] = "none"
  /\ c \in answered => Asked(c)
AnsweredOnce == \A c \in Client : AnsweredOnceBy(c)
Waits(c) ==
  Asked(c) /\ (Pending(c) \/ Serving(c) \/ c \notin answered) => pc[c] \in {"sleep", "asleep"}
WakesLast == \A c \in Client \ Async : Waits(c)

\* A client that gets its frame needs nothing more.
Gets(c) ==
  \/ Has(callbackQ, {Delivery(c)})
  \/ callbacker = "writing" /\ invoking = Delivery(c)
  \/ frame[c] = "frame"
Complete == \A c \in Client : Gets(c) => Needs(c) \subseteq ready

\* The destructor found nobody in a call, and if it was quiet, all had their frames.
Quiet ==
  /\ phase # "alive" => \A c \in Client : pc[c] \notin Inside
  /\ quiet => phase # "alive" /\ \A c \in Client : Asked(c) => frame[c] = "frame"

SetUp == LockHeld /\ MadeOnce /\ OneFirst /\ OutputKept
Answering == AnsweredOnce /\ WakesLast /\ Complete

IInv == Typed /\ SetUp /\ EachOnce /\ NamedAsked /\ Answering /\ Quiet

-----------------------------------------------------------------------------
(* queues *)

LEMMA HasAppend ==
  ASSUME NEW Q, NEW q \in Seq(Q), NEW t \in Q, NEW S
  PROVE  /\ Append(q, t) \in Seq(Q)
         /\ Has(Append(q, t), S) <=> Has(q, S) \/ t \in S
         /\ AtMostOne(q, S) /\ ~(Has(q, S) /\ t \in S) => AtMostOne(Append(q, t), S)
<1> DEFINE p == Append(q, t)
<1>1. /\ p \in Seq(Q) /\ Len(q) \in Nat /\ Len(p) = Len(q) + 1
      /\ p[Len(q) + 1] = t /\ \A k \in 1 .. Len(q) : p[k] = q[k]
  OBVIOUS
<1> HIDE DEF p
<1>2. \A k \in 1 .. Len(p) : k \in 1 .. Len(q) \/ k = Len(q) + 1
  BY <1>1
<1>3. \A k \in 1 .. Len(q) : k \in 1 .. Len(p)
  BY <1>1
<1>4. Len(q) + 1 \in 1 .. Len(p)
  BY <1>1
<1>5. Has(p, S) <=> Has(q, S) \/ t \in S
  BY <1>1, <1>2, <1>3, <1>4 DEF Has
<1>6. AtMostOne(q, S) /\ ~(Has(q, S) /\ t \in S) => AtMostOne(p, S)
  BY <1>1, <1>2 DEF Has, AtMostOne
<1> QED
  BY <1>1, <1>5, <1>6 DEF p

LEMMA Appended ==
  ASSUME NEW Q, NEW q \in Seq(Q), NEW t \in Q
  PROVE  Append(q, t) \in Seq(Q)
OBVIOUS

LEMMA HasTail ==
  ASSUME NEW Q, NEW q \in Seq(Q), q # <<>>, NEW S
  PROVE  /\ Head(q) \in Q /\ Tail(q) \in Seq(Q)
         /\ Has(q, S) <=> Head(q) \in S \/ Has(Tail(q), S)
         /\ AtMostOne(q, S) => AtMostOne(Tail(q), S) /\ ~(Head(q) \in S /\ Has(Tail(q), S))
<1> DEFINE p == Tail(q)
<1>1. /\ p \in Seq(Q) /\ Len(q) \in Nat \ {0} /\ Len(p) = Len(q) - 1
      /\ Head(q) = q[1] /\ Head(q) \in Q /\ \A k \in 1 .. Len(p) : p[k] = q[k + 1]
  BY HeadTailProperties
<1> HIDE DEF p
<1>2. \A k \in 1 .. Len(p) : k + 1 \in 1 .. Len(q) /\ k + 1 # 1
  BY <1>1
<1>3. \A k \in 1 .. Len(q) : k = 1 \/ (k - 1 \in 1 .. Len(p) /\ q[k] = p[k - 1])
  <2> SUFFICES ASSUME NEW k \in 1 .. Len(q), k # 1 PROVE k - 1 \in 1 .. Len(p) /\ q[k] = p[k - 1]
    OBVIOUS
  <2>1. k - 1 \in 1 .. Len(p) /\ (k - 1) + 1 = k
    BY <1>1
  <2> QED
    BY <1>1, <2>1
<1>4. 1 \in 1 .. Len(q)
  BY <1>1
<1>5. Has(q, S) <=> Head(q) \in S \/ Has(p, S)
  BY <1>1, <1>2, <1>3, <1>4 DEF Has
<1>6. ASSUME AtMostOne(q, S) PROVE AtMostOne(p, S) /\ ~(Head(q) \in S /\ Has(p, S))
  <2>1. ASSUME NEW k \in 1 .. Len(p), NEW l \in 1 .. Len(p), p[k] \in S, p[l] \in S PROVE k = l
    <3>1. k + 1 = l + 1
      BY <1>1, <1>2, <1>6, <2>1 DEF AtMostOne
    <3> QED
      BY <3>1
  <2>2. ASSUME Head(q) \in S, NEW k \in 1 .. Len(p), p[k] \in S PROVE FALSE
    BY <1>1, <1>2, <1>4, <1>6, <2>2 DEF AtMostOne
  <2> QED
    BY <2>1, <2>2 DEF AtMostOne, Has
<1> QED
  BY <1>1, <1>5, <1>6 DEF p

\* What each kind of task says, and about which instances.
LEMMA Requests ==
  ASSUME NEW c \in Client
  PROVE  /\ Construct(c) \in Task /\ Construct(c).is = "construct" /\ Construct(c).for = c
         /\ \A j \in Instance : Construct(c) \in About(j) <=> j[1] = c
<1>1. \A d : Construct(d).is = "construct" /\ Construct(d).for = d
  BY DEF Construct
<1>2. \A j \in Instance : Failed(j).is = "notify" /\ Came(j).is = "notify"
  BY DEF Failed, Came, Notify
<1>3. Construct(c) \in Task
  BY DEF Task
<1> QED
  BY <1>1, <1>2, <1>3 DEF About

LEMMA ReportRecords ==
  ASSUME NEW i
  PROVE  /\ Failed(i) = [is |-> "notify", inst |-> i, exc |-> TRUE]
         /\ Came(i) = [is |-> "notify", inst |-> i, exc |-> FALSE]
BY Zenon DEF Failed, Came, Notify

LEMMA ReportFields ==
  ASSUME NEW i
  PROVE  /\ Failed(i).is = "notify" /\ Failed(i).inst = i
         /\ Came(i).is = "notify" /\ Came(i).inst = i
BY ReportRecords

LEMMA ReportFailure ==
  ASSUME NEW i
  PROVE  Failed(i).exc = TRUE /\ Came(i).exc = FALSE
BY ReportRecords

LEMMA ReportsApart ==
  ASSUME NEW i, NEW j, NEW c
  PROVE  /\ Failed(i) # Construct(c) /\ Came(i) # Construct(c)
         /\ Failed(i) = Failed(j) => i = j
         /\ Came(i) = Came(j) => i = j
         /\ Failed(i) = Came(j) => i = j
<1>1. Construct(c).is = "construct"
  BY DEF Construct
<1>2. Failed(i).is = "notify" /\ Came(i).is = "notify"
  BY ReportFields
<1>3. Failed(i).inst = i /\ Came(i).inst = i /\ Failed(j).inst = j /\ Came(j).inst = j
  BY ReportFields
<1>4. Failed(i) # Construct(c) /\ Came(i) # Construct(c)
  BY <1>1, <1>2
<1> QED
  BY <1>3, <1>4, Zenon

LEMMA Reports ==
  ASSUME NEW i \in Instance
  PROVE  /\ Failed(i) \in Task /\ Came(i) \in Task
         /\ \A j \in Instance : /\ Failed(i) \in About(j) <=> j = i
                                /\ Came(i) \in About(j) <=> j = i
<1>1. Failed(i) \in Task /\ Came(i) \in Task
  BY DEF Task
<1>2. ASSUME NEW j \in Instance
      PROVE  (Failed(i) \in About(j) <=> j = i) /\ (Came(i) \in About(j) <=> j = i)
  <2>1. /\ Failed(i) # Construct(j[1]) /\ Came(i) # Construct(j[1])
        /\ Failed(i) = Failed(j) => i = j
        /\ Came(i) = Came(j) => i = j
        /\ Failed(i) = Came(j) => i = j
        /\ Failed(j) = Came(i) => i = j
    BY ReportsApart, Zenon
  <2> QED
    BY <2>1 DEF About
<1> QED
  BY <1>1, <1>2

LEMMA Stops ==
  Stop \in Task /\ Stop.is = "stop" /\ \A j \in Instance : Stop \notin About(j)
<1>1. Stop.is = "stop" /\ Stop \in Task
  BY DEF Stop, Task
<1>2. ASSUME NEW j \in Instance PROVE Stop \notin About(j)
  <2>1. Construct(j[1]).is = "construct"
    BY DEF Construct
  <2>2. Failed(j).is = "notify" /\ Came(j).is = "notify"
    BY ReportFields
  <2> QED
    BY <1>1, <2>1, <2>2 DEF About
<1> QED
  BY <1>1, <1>2

LEMMA CallRecords ==
  ASSUME NEW c
  PROVE  /\ Refusal(c) = [is |-> "invoke", for |-> c, exc |-> TRUE]
         /\ Delivery(c) = [is |-> "invoke", for |-> c, exc |-> FALSE]
BY Zenon DEF Refusal, Delivery, Invoke

LEMMA CallFields ==
  ASSUME NEW c
  PROVE  /\ Refusal(c).is = "invoke" /\ Refusal(c).for = c
         /\ Delivery(c).is = "invoke" /\ Delivery(c).for = c
BY CallRecords

LEMMA CallFailure ==
  ASSUME NEW c
  PROVE  Refusal(c).exc = TRUE /\ Delivery(c).exc = FALSE
BY CallRecords

LEMMA CallsApart ==
  ASSUME NEW c, NEW d
  PROVE  /\ Refusal(c) # Delivery(d)
         /\ Refusal(c) = Refusal(d) => c = d
         /\ Delivery(c) = Delivery(d) => c = d
<1>1. Refusal(c).exc # Delivery(d).exc
  <2>1. Refusal(c).exc = TRUE /\ Delivery(d).exc = FALSE
    BY CallFailure
  <2> QED
    BY <2>1, Zenon
<1>2. Refusal(c).for = c /\ Delivery(c).for = c /\ Refusal(d).for = d /\ Delivery(d).for = d
  BY CallFields
<1> QED
  BY <1>1, <1>2, Zenon

LEMMA Calls ==
  ASSUME NEW c \in Client
  PROVE  /\ Refusal(c) \in Call /\ Delivery(c) \in Call
         /\ Stop.is = "stop" /\ Stop \notin AnswersTo(c)
         /\ \A d \in Client : /\ Refusal(c) \in AnswersTo(d) <=> c = d
                              /\ Delivery(c) \in AnswersTo(d) <=> c = d
                              /\ Delivery(c) = Delivery(d) => c = d
<1>1. Refusal(c) \in Call /\ Delivery(c) \in Call
  BY DEF Call
<1>2. Stop.is = "stop"
  BY DEF Stop
<1>3. Refusal(c).is = "invoke" /\ Delivery(c).is = "invoke"
  BY CallFields
<1>4. Stop \notin AnswersTo(c)
  BY <1>2, <1>3 DEF AnswersTo
<1>5. ASSUME NEW d \in Client
      PROVE  /\ Refusal(c) \in AnswersTo(d) <=> c = d
             /\ Delivery(c) \in AnswersTo(d) <=> c = d
             /\ Delivery(c) = Delivery(d) => c = d
  <2>1. /\ Refusal(c) = Refusal(d) => c = d
        /\ Delivery(c) = Delivery(d) => c = d
        /\ Refusal(c) # Delivery(d)
        /\ Delivery(c) # Refusal(d)
    BY CallsApart, Zenon
  <2> QED
    BY <2>1 DEF AnswersTo
<1> QED
  BY <1>1, <1>2, <1>4, <1>5

\* The task a thread takes is one of its kind.
LEMMA TakenTask ==
  ASSUME Typed, NEW kind, TakeAs(kind)
  PROVE  /\ maintainQ # <<>> /\ maintainQ \in Seq(Task) /\ maintainQ' = Tail(maintainQ)
         /\ kind = "construct" => \E c \in Client : Head(maintainQ) = Construct(c)
         /\ kind = "notify" => \E i \in Instance : \/ Head(maintainQ) = Failed(i)
                                                   \/ Head(maintainQ) = Came(i)
         /\ kind = "stop" => Head(maintainQ) = Stop
<1>1. maintainQ # <<>> /\ Head(maintainQ).is = kind /\ maintainQ' = Tail(maintainQ)
  BY DEF TakeAs
<1>2. maintainQ \in Seq(Task)
  BY DEF Typed
<1>3. Head(maintainQ) \in Task
  BY <1>1, <1>2, HasTail
<1>4. \/ Head(maintainQ) = Stop
      \/ \E c \in Client : Head(maintainQ) = Construct(c)
      \/ \E i \in Instance : Head(maintainQ) = Failed(i) \/ Head(maintainQ) = Came(i)
  BY <1>3 DEF Task
<1>5. CASE Head(maintainQ) = Stop
  <2>1. kind = "stop"
    BY <1>1, <1>5, Stops
  <2> QED
    BY <1>1, <1>2, <1>5, <2>1
<1>6. ASSUME NEW c \in Client, Head(maintainQ) = Construct(c) PROVE kind = "construct"
  BY <1>1, <1>6, Requests
<1>7. ASSUME NEW i \in Instance, Head(maintainQ) = Failed(i) \/ Head(maintainQ) = Came(i)
      PROVE  kind = "notify"
  <2>1. Failed(i).is = "notify" /\ Came(i).is = "notify"
    BY ReportFields
  <2> QED
    BY <1>1, <1>7, <2>1, Zenon
<1> QED
  BY <1>1, <1>2, <1>4, <1>5, <1>6, <1>7

LEMMA TakenCall ==
  ASSUME Typed, callbackQ # <<>>
  PROVE  /\ callbackQ \in Seq(Call \cup {Stop})
         /\ Head(callbackQ).is = "invoke" =>
              \E c \in Client : Head(callbackQ) = Refusal(c) \/ Head(callbackQ) = Delivery(c)
         /\ Head(callbackQ).is = "stop" => Head(callbackQ) = Stop
<1>1. callbackQ \in Seq(Call \cup {Stop})
  BY DEF Typed
<1>2. Head(callbackQ) \in Call \cup {Stop}
  BY <1>1, HasTail
<1>3. \/ Head(callbackQ) = Stop
      \/ \E c \in Client : Head(callbackQ) = Refusal(c) \/ Head(callbackQ) = Delivery(c)
  BY <1>2 DEF Call
<1>4. Stop.is = "stop"
  BY DEF Stop
<1>5. ASSUME NEW c \in Client, Head(callbackQ) = Refusal(c) \/ Head(callbackQ) = Delivery(c)
      PROVE  Head(callbackQ).is = "invoke"
  <2>1. Refusal(c).is = "invoke" /\ Delivery(c).is = "invoke"
    BY CallFields
  <2> QED
    BY <1>5, <2>1, Zenon
<1> QED
  BY <1>1, <1>3, <1>4, <1>5

\* What the maintainer does with a report: of an error, or of an instance that is there.
Fails(i) ==
  /\ Head(maintainQ) = Failed(i)
  /\ ready' = ready
  /\ \/ /\ i[1] \notin answered
        /\ answered' = answered \cup {i[1]} /\ callbackQ' = Append(callbackQ, Refusal(i[1]))
     \/ /\ i[1] \in answered
        /\ answered' = answered /\ callbackQ' = callbackQ
Succeeds(i) ==
  /\ Head(maintainQ) = Came(i)
  /\ ready' = ready \cup {i}
  /\ \/ /\ i[1] \notin answered /\ Needs(i[1]) \subseteq ready'
        /\ answered' = answered \cup {i[1]} /\ callbackQ' = Append(callbackQ, Delivery(i[1]))
     \/ answered' = answered /\ callbackQ' = callbackQ

LEMMA ReportTaken ==
  ASSUME Typed, TakeNotify
  PROVE  \E i \in Instance : Fails(i) \/ Succeeds(i)
<1>1. PICK i \in Instance : Head(maintainQ) = Failed(i) \/ Head(maintainQ) = Came(i)
  BY TakenTask DEF TakeNotify
<1> DEFINE e == Head(maintainQ).exc
           c == i[1]
<1>2. Head(maintainQ).inst = i
  <2>1. Failed(i).inst = i /\ Came(i).inst = i
    BY ReportFields
  <2> QED
    BY <1>1, <2>1, Zenon
<1>3. /\ ready' = IF e THEN ready ELSE ready \cup {i}
      /\ IF c \notin answered /\ (e \/ Needs(c) \subseteq ready')
           THEN answered' = answered \cup {c} /\ callbackQ' = Append(callbackQ, Invoke(c, e))
           ELSE answered' = answered /\ callbackQ' = callbackQ
  BY <1>2, Zenon DEF TakeNotify, Answers
<1>4. CASE Head(maintainQ) = Failed(i)
  <2>1. e = TRUE
    <3>1. Failed(i).exc = TRUE
      BY ReportFailure
    <3> QED
      BY <1>4, <3>1, Zenon
  <2>2. /\ ready' = ready
        /\ IF c \notin answered
             THEN answered' = answered \cup {c} /\ callbackQ' = Append(callbackQ, Refusal(c))
             ELSE answered' = answered /\ callbackQ' = callbackQ
    BY <1>3, <2>1, Zenon DEF Refusal
  <2> QED
    BY <1>4, <2>2, Zenon DEF Fails
<1>5. CASE Head(maintainQ) = Came(i)
  <2>1. e = FALSE
    <3>1. Came(i).exc = FALSE
      BY ReportFailure
    <3> QED
      BY <1>5, <3>1, Zenon
  <2>2. /\ ready' = ready \cup {i}
        /\ IF c \notin answered /\ Needs(c) \subseteq ready'
             THEN answered' = answered \cup {c} /\ callbackQ' = Append(callbackQ, Delivery(c))
             ELSE answered' = answered /\ callbackQ' = callbackQ
    BY <1>3, <2>1, Zenon DEF Delivery
  <2> QED
    BY <1>5, <2>2, Zenon DEF Succeeds
<1> QED
  BY <1>1, <1>4, <1>5, Zenon

\* A worker reports the instance it holds.
LEMMA Reported ==
  ASSUME NEW w \in Worker, Report(w)
  PROVE  \/ maintainQ' = Append(maintainQ, Failed(held[w]))
         \/ maintainQ' = Append(maintainQ, Came(held[w]))
<1>1. PICK e \in BOOLEAN : maintainQ' = Append(maintainQ, Notify(held[w], e))
  BY Zenon DEF Report
<1>2. e = TRUE \/ e = FALSE
  BY Zenon
<1> QED
  BY <1>1, <1>2, Zenon DEF Failed, Came

-----------------------------------------------------------------------------
(* types *)

LEMMA NodeOf ==
  ASSUME Typed, NEW c \in Client
  PROVE  node[c] \in Node
<1>1. node \in Sharing /\ DOMAIN node = Client
  BY DEF Typed
<1>2. node[c] \in Range(node)
  BY <1>1 DEF Range
<1> QED
  BY <1>1, <1>2 DEF Node

LEMMA PlaceNames ==
  /\ "output" \in Places /\ "lock" \in Places /\ "react" \in Places /\ "asleep" \in Places
  /\ "done" \in Places /\ "unlock" \in Places /\ "spawn" \in Places
BY DEF Places, Inside

LEMMA GotoTyped ==
  ASSUME Typed, NEW c \in Client, NEW p \in Places, Goto(c, p)
  PROVE  pc' \in [Client -> Places]
BY DEF Typed, Goto

LEMMA ClientTyped ==
  ASSUME Typed, NEW c \in Client, Enter(c) \/ Calling(c)
  PROVE  Typed'
<1> USE DEF Goto, answerVars, maintainVars, callbackVars, workVars, endVars
<1>1. ASSUME pc' \in [Client -> Places], output' \in [Node -> Nat], loaded' \in [Client -> Nat],
             reactions' \in Nat, maintainQ' \in Seq(Task), maintainer' \in {"none", "waiting", "draining", "over"},
             callbacker' = callbacker \/ callbacker' = "waiting",
             worker' = worker \/ worker' = [w \in Worker |-> "idle"],
             UNCHANGED <<node, answerVars, ready, answered, callbackQ, invoking, workQ, held, endVars>>
      PROVE  Typed'
  BY <1>1 DEF Typed
<1>2. CASE Enter(c) \/ LockStarting(c) \/ UnlockStarting(c) \/ Sleep(c) \/ Return(c)
  <2>1. \/ Goto(c, "output") \/ Goto(c, "lock") \/ Goto(c, "react") \/ Goto(c, "asleep")
        \/ Goto(c, "done")
    BY <1>2, Zenon DEF Enter, LockStarting, UnlockStarting, Sleep, Return
  <2>2. pc' \in [Client -> Places]
    BY <2>1, GotoTyped, PlaceNames
  <2> QED
    BY <1>1, <1>2, <2>2 DEF Enter, LockStarting, UnlockStarting, Sleep, Return, Typed
<1>3. CASE LoadOutput(c) \/ CreateOutput(c)
  <2>1. pc' \in [Client -> Places]
    BY <1>3 DEF LoadOutput, CreateOutput, Typed, Places, Inside
  <2>2. node[c] \in Node /\ output[node[c]] \in Nat
    BY NodeOf DEF Typed
  <2>3. loaded' \in [Client -> Nat] /\ output' \in [Node -> Nat]
    BY <1>3, <2>2 DEF LoadOutput, CreateOutput, Typed
  <2> QED
    BY <1>1, <1>3, <2>1, <2>3 DEF LoadOutput, CreateOutput, Typed
<1>4. CASE React(c) \/ Spawn(c)
  <2>1. pc' \in [Client -> Places]
    <3>1. Goto(c, "unlock") \/ Goto(c, "spawn")
      BY <1>4, Zenon DEF React, Spawn
    <3> QED
      BY <3>1, GotoTyped, PlaceNames
  <2> QED
    BY <1>1, <1>4, <2>1 DEF React, Spawn, Typed
<1>5. CASE AskFrame(c)
  <2>1. pc' \in [Client -> Places]
    BY <1>5 DEF AskFrame, Typed, Places, Inside
  <2>2. maintainQ' \in Seq(Task)
    BY <1>5, Appended DEF AskFrame, Typed, Task
  <2> QED
    BY <1>1, <1>5, <2>1, <2>2 DEF AskFrame, Typed
<1> QED
  BY <1>2, <1>3, <1>4, <1>5 DEF Calling

LEMMA MaintainerTyped ==
  ASSUME Typed, Maintainer
  PROVE  Typed'
<1> USE DEF clientVars, answerVars, callbackVars, workVars, endVars
<1>1. CASE TakeConstruct
  <2>1. maintainQ' \in Seq(Task)
    <3>1. maintainQ # <<>> /\ maintainQ' = Tail(maintainQ) /\ maintainQ \in Seq(Task)
      BY <1>1 DEF TakeConstruct, TakeAs, Typed
    <3> QED
      BY <3>1, HasTail
  <2>2. workQ' \subseteq Instance
    BY <1>1 DEF TakeConstruct, Needs, Typed
  <2> QED
    BY <1>1, <2>1, <2>2 DEF TakeConstruct, Typed
<1>2. CASE TakeNotify
  <2>1. PICK i \in Instance : Fails(i) \/ Succeeds(i)
    BY <1>2, ReportTaken
  <2>2. maintainQ' \in Seq(Task)
    BY <1>2, TakenTask, HasTail DEF TakeNotify, TakeAs
  <2>3. i[1] \in Client
    OBVIOUS
  <2>4. Refusal(i[1]) \in Call /\ Delivery(i[1]) \in Call
    BY <2>3, Calls
  <2>5. /\ ready' \subseteq Instance /\ answered' \subseteq Client
        /\ \/ callbackQ' = callbackQ \/ callbackQ' = Append(callbackQ, Refusal(i[1]))
           \/ callbackQ' = Append(callbackQ, Delivery(i[1]))
    BY <2>1, <2>3 DEF Fails, Succeeds, Answers, Typed
  <2>6. callbackQ' \in Seq(Call \cup {Stop})
    <3>1. callbackQ \in Seq(Call \cup {Stop})
      BY DEF Typed
    <3>2. Append(callbackQ, Refusal(i[1])) \in Seq(Call \cup {Stop})
      BY <2>4, <3>1, Appended
    <3>3. Append(callbackQ, Delivery(i[1])) \in Seq(Call \cup {Stop})
      BY <2>4, <3>1, Appended
    <3> QED
      BY <2>5, <3>1, <3>2, <3>3, Zenon
  <2> QED
    BY <1>2, <2>2, <2>5, <2>6 DEF TakeNotify, Typed
<1>3. CASE TakeStop
  <2>1. maintainQ' \in Seq(Task)
    <3>1. maintainQ # <<>> /\ maintainQ' = Tail(maintainQ) /\ maintainQ \in Seq(Task)
      BY <1>3 DEF TakeStop, TakeAs, Typed
    <3> QED
      BY <3>1, HasTail
  <2> QED
    BY <1>3, <2>1 DEF TakeStop, Typed
<1>4. CASE EndBatch
  BY <1>4 DEF EndBatch, Typed
<1> QED
  BY <1>1, <1>2, <1>3, <1>4 DEF Maintainer

LEMMA WorkerTyped ==
  ASSUME Typed, NEW w \in Worker, Working(w)
  PROVE  Typed'
<1> USE DEF clientVars, answerVars, maintainVars, callbackVars, endVars
<1>1. CASE Pop(w)
  <2>1. PICK i \in workQ : workQ' = workQ \ {i} /\ held' = [held EXCEPT ![w] = i]
    BY <1>1 DEF Pop
  <2> QED
    BY <1>1, <2>1 DEF Pop, Typed
<1>2. CASE Report(w)
  <2>1. \/ maintainQ' = Append(maintainQ, Failed(held[w]))
        \/ maintainQ' = Append(maintainQ, Came(held[w]))
    BY <1>2, Reported
  <2>2. Failed(held[w]) \in Task /\ Came(held[w]) \in Task
    <3>1. held[w] \in Instance
      BY <1>2 DEF Report, Typed
    <3> QED
      BY <3>1, Reports
  <2>3. maintainQ' \in Seq(Task)
    <3>1. maintainQ \in Seq(Task)
      BY DEF Typed
    <3>2. Append(maintainQ, Failed(held[w])) \in Seq(Task)
      BY <2>2, <3>1, Appended
    <3>3. Append(maintainQ, Came(held[w])) \in Seq(Task)
      BY <2>2, <3>1, Appended
    <3> QED
      BY <2>1, <3>2, <3>3, Zenon
  <2> QED
    BY <1>2, <2>3 DEF Report, Typed
<1>3. CASE EndWorker(w)
  <2>1. /\ worker' = [worker EXCEPT ![w] = "over"] \/ worker' = [worker EXCEPT ![w] = "asleep"]
        /\ worker[w] = "idle"
        /\ UNCHANGED <<workQ, held, clientVars, answerVars, maintainVars, callbackVars, endVars>>
    BY <1>3, Zenon DEF EndWorker
  <2>2. worker' \in [Worker -> {"none", "idle", "asleep", "busy", "over"}]
    BY <2>1 DEF Typed
  <2>3. \A v \in Worker : worker'[v] = "busy" => held'[v] \in Instance
    BY <2>1 DEF Typed
  <2> QED
    BY <2>1, <2>2, <2>3 DEF Typed
<1> QED
  BY <1>1, <1>2, <1>3 DEF Working

LEMMA CallbackerTyped ==
  ASSUME Typed, Callbacker
  PROVE  Typed'
<1> USE DEF clientVars, answerVars, maintainVars, workVars, endVars
<1>1. CASE TakeCallback
  <2>1. PICK c \in Client : Head(callbackQ) = Refusal(c) \/ Head(callbackQ) = Delivery(c)
    BY <1>1, TakenCall DEF TakeCallback
  <2>2. callbackQ' \in Seq(Call \cup {Stop})
    BY <1>1, TakenCall, HasTail DEF TakeCallback
  <2>3. invoking' \in Call
    BY <1>1, <2>1, Calls DEF TakeCallback
  <2> QED
    BY <1>1, <2>2, <2>3 DEF TakeCallback, Typed
<1>2. CASE WriteResult
  BY <1>2 DEF WriteResult, Typed
<1>3. CASE NotifyWaiter
  BY <1>3 DEF NotifyWaiter, Notifies, Typed, Places
<1>4. CASE EndCallbacker
  <2>1. callbackQ' \in Seq(Call \cup {Stop})
    BY <1>4, TakenCall, HasTail DEF EndCallbacker
  <2> QED
    BY <1>4, <2>1 DEF EndCallbacker, Typed
<1> QED
  BY <1>1, <1>2, <1>3, <1>4 DEF Callbacker

LEMMA DestructorTyped ==
  ASSUME Typed, Destroy \/ Destroying
  PROVE  Typed'
<1> USE DEF clientVars, answerVars, maintainVars, callbackVars, workVars
<1>1. CASE Destroy
  BY <1>1 DEF Destroy, Typed
<1>2. CASE StopMaintain
  <2>1. maintainQ' \in Seq(Task)
    BY <1>2, Appended DEF StopMaintain, Typed, Task
  <2> QED
    BY <1>2, <2>1 DEF StopMaintain, Typed
<1>3. CASE StopCallback
  <2>1. callbackQ' \in Seq(Call \cup {Stop})
    BY <1>3, Appended DEF StopCallback, Typed
  <2> QED
    BY <1>3, <2>1 DEF StopCallback, Typed
<1>4. CASE StopWork \/ JoinWorkers \/ JoinCallbacker \/ JoinMaintainer
  BY <1>4 DEF StopWork, JoinWorkers, JoinCallbacker, JoinMaintainer, Typed
<1> QED
  BY <1>1, <1>2, <1>3, <1>4 DEF Destroying

-----------------------------------------------------------------------------
(* how a client moves *)

\* Another thread may wake a client, and nothing else.
Woken(d) == pc'[d] = pc[d] \/ (pc[d] = "asleep" /\ pc'[d] = "woken")

LEMMA ClientMoves ==
  ASSUME Typed, NEW c \in Client, Enter(c) \/ Calling(c)
  PROVE  /\ \A d \in Client : d # c => pc'[d] = pc[d]
         /\ \/ pc[c] = "idle" /\ phase = "alive" /\ pc'[c] \in {"output", "lock"}
            \/ pc[c] \in Inside \ {"ask", "sleep"} /\ pc'[c] \in Inside \ {"sleep"}
            \/ pc[c] = "ask" /\ AskFrame(c) /\ pc'[c] = (IF c \in Async THEN "done" ELSE "sleep")
            \/ pc[c] = "sleep" /\ pc'[c] = "asleep"
            \/ pc[c] = "woken" /\ pc'[c] = "done"
         /\ UNCHANGED <<node, frame, callbackQ, invoking, workQ, held, ready, answered, phase, quiet>>
         /\ callbacker' = callbacker \/ callbacker' = "waiting"
         /\ \A w \in Worker : worker'[w] = worker[w] \/ worker'[w] = "idle"
         /\ maintainQ' = maintainQ \/ AskFrame(c)
<1> USE DEF Goto, answerVars, maintainVars, callbackVars, workVars, endVars, Inside
<1>1. pc \in [Client -> Places]
  BY DEF Typed
<1>2. CASE Enter(c)
  BY <1>1, <1>2 DEF Enter
<1>3. CASE LockStarting(c)
  BY <1>1, <1>3 DEF LockStarting
<1>4. CASE React(c)
  BY <1>1, <1>4 DEF React
<1>5. CASE Spawn(c)
  BY <1>1, <1>5 DEF Spawn
<1>6. CASE UnlockStarting(c)
  BY <1>1, <1>6 DEF UnlockStarting
<1>7. CASE LoadOutput(c)
  BY <1>1, <1>7 DEF LoadOutput
<1>8. CASE CreateOutput(c)
  BY <1>1, <1>8 DEF CreateOutput
<1>9. CASE AskFrame(c)
  BY <1>1, <1>9 DEF AskFrame
<1>10. CASE Sleep(c)
  BY <1>1, <1>10 DEF Sleep
<1>11. CASE Return(c)
  BY <1>1, <1>11 DEF Return
<1> QED
  BY <1>2, <1>3, <1>4, <1>5, <1>6, <1>7, <1>8, <1>9, <1>10, <1>11 DEF Calling

LEMMA OthersMove ==
  ASSUME Typed,
         \/ Maintainer \/ (\E w \in Worker : Working(w)) \/ Callbacker \/ Destroy \/ Destroying
  PROVE  /\ \A d \in Client : Woken(d)
         /\ UNCHANGED <<starter, reactions, node, output, loaded>>
         /\ maintainer' = maintainer \/ (maintainer # "none" /\ maintainer' # "none")
<1>1. ASSUME UNCHANGED clientVars, maintainer' = maintainer \/ (maintainer # "none" /\ maintainer' # "none")
      PROVE  /\ \A d \in Client : Woken(d)
             /\ UNCHANGED <<starter, reactions, node, output, loaded>>
             /\ maintainer' = maintainer \/ (maintainer # "none" /\ maintainer' # "none")
  <2>1. UNCHANGED <<pc, starter, reactions, node, output, loaded>>
    BY <1>1 DEF clientVars
  <2>2. \A d \in Client : Woken(d)
    BY <2>1 DEF Woken
  <2> QED
    BY <1>1, <2>1, <2>2
<1>2. CASE Maintainer
  <2>1. CASE TakeConstruct
    BY <1>1, <2>1 DEF TakeConstruct, TakeAs
  <2>2. CASE TakeNotify
    <3>1. UNCHANGED clientVars /\ maintainer' = "draining" /\ maintainer # "none"
      BY <2>2 DEF TakeNotify, TakeAs
    <3> QED
      BY <1>1, <3>1
  <2>3. CASE TakeStop
    BY <1>1, <2>3 DEF TakeStop, TakeAs
  <2>4. CASE EndBatch
    BY <1>1, <2>4 DEF EndBatch
  <2> QED
    BY <1>2, <2>1, <2>2, <2>3, <2>4 DEF Maintainer
<1>3. CASE \E w \in Worker : Working(w)
  <2>1. UNCHANGED <<clientVars, maintainer>>
    BY <1>3 DEF Working, Pop, Report, EndWorker, maintainVars
  <2> QED
    BY <1>1, <2>1
<1>4. CASE Callbacker
  <2>1. CASE NotifyWaiter
    <3>1. pc \in [Client -> Places]
      BY DEF Typed
    <3>2. pc' = [pc EXCEPT ![invoking.for] = IF @ = "asleep" THEN "woken" ELSE @]
      BY <2>1 DEF NotifyWaiter, Notifies
    <3>3. ASSUME NEW d \in Client PROVE Woken(d)
      <4>1. CASE d = invoking.for
        <5>1. pc'[d] = IF pc[d] = "asleep" THEN "woken" ELSE pc[d]
          BY <3>1, <3>2, <4>1
        <5> QED
          BY <5>1 DEF Woken
      <4>2. CASE d # invoking.for
        <5>1. pc'[d] = pc[d]
          BY <3>1, <3>2, <4>2
        <5> QED
          BY <5>1 DEF Woken
      <4> QED
        BY <4>1, <4>2
    <3> QED
      BY <2>1, <3>3 DEF NotifyWaiter, maintainVars
  <2>2. CASE TakeCallback \/ WriteResult \/ EndCallbacker
    <3>1. UNCHANGED <<clientVars, maintainer>>
      BY <2>2 DEF TakeCallback, WriteResult, EndCallbacker, maintainVars
    <3> QED
      BY <1>1, <3>1
  <2> QED
    BY <1>4, <2>1, <2>2 DEF Callbacker
<1>5. CASE Destroy \/ Destroying
  <2>1. UNCHANGED <<clientVars, maintainer>>
    BY <1>5 DEF Destroy, Destroying, StopMaintain, StopCallback, StopWork,
                JoinWorkers, JoinCallbacker, JoinMaintainer, maintainVars
  <2> QED
    BY <1>1, <2>1
<1> QED
  BY <1>2, <1>3, <1>4, <1>5

-----------------------------------------------------------------------------
(* the start: the lock, the threads, the outputs *)

LEMMA SetUpOthers ==
  ASSUME Typed, SetUp,
         \A d \in Client : Woken(d),
         UNCHANGED <<starter, reactions, node, output, loaded>>,
         maintainer' = maintainer \/ (maintainer # "none" /\ maintainer' # "none")
  PROVE  SetUp'
<1> USE DEF SetUp
<1>1. \A d \in Client : /\ \A p \in Starting \cup Inside : pc'[d] = p <=> pc[d] = p
                        /\ pc'[d] \in Starting <=> pc[d] \in Starting
                        /\ pc'[d] \in Inside <=> pc[d] \in Inside
  BY DEF Woken, Starting, Inside
<1>2. LockHeld'
  BY <1>1 DEF LockHeld
<1>3. MadeOnce'
  BY DEF MadeOnce, Reacting
<1>4. OneFirst'
  BY <1>1 DEF OneFirst
<1>5. OutputKept'
  BY <1>1 DEF OutputKept, Inside
<1> QED
  BY <1>2, <1>3, <1>4, <1>5

LEMMA SetUpClient ==
  ASSUME Typed, SetUp, NEW c \in Client, Enter(c) \/ Calling(c)
  PROVE  SetUp'
<1> USE DEF SetUp
<1> USE DEF Goto, answerVars, maintainVars, callbackVars, workVars, endVars
<1>1. /\ pc \in [Client -> Places] /\ reactions \in Nat /\ node[c] \in Node
      /\ output \in [Node -> Nat] /\ loaded \in [Client -> Nat]
      /\ \A d \in Client : node[d] \in Node /\ output[node[d]] \in Nat
  BY NodeOf DEF Typed
<1>2. CASE Enter(c)
  <2>1. /\ \A d \in Client : d # c => pc'[d] = pc[d]
        /\ pc'[c] \in {"output", "lock"} /\ pc[c] = "idle"
        /\ UNCHANGED <<starter, reactions, node, output, loaded, maintainer>>
    BY <1>1, <1>2 DEF Enter
  <2>2. Patient /\ output[node[c]] = 0 => \A d \in Client : node[d] = node[c] => pc[d] \notin Inside
    BY <1>2 DEF Enter
  <2>3. LockHeld' /\ MadeOnce'
    BY <2>1 DEF LockHeld, MadeOnce, Reacting, Starting
  <2>4. OneFirst'
    BY <2>1, <2>2 DEF OneFirst
  <2>5. OutputKept'
    BY <2>1 DEF OutputKept
  <2> QED
    BY <2>3, <2>4, <2>5
<1>3. CASE LockStarting(c) \/ UnlockStarting(c) \/ React(c) \/ Spawn(c)
  <2>1. /\ \A d \in Client : d # c => pc'[d] = pc[d]
        /\ pc[c] \in Inside \ {"create", "ask"} /\ pc'[c] \in Inside \ {"create", "ask"}
        /\ UNCHANGED <<node, output, loaded>>
    BY <1>1, <1>3 DEF LockStarting, UnlockStarting, React, Spawn, Inside
  <2>2. LockHeld'
    <3>1. CASE LockStarting(c)
      BY <1>1, <3>1 DEF LockStarting, LockHeld, Starting
    <3>2. CASE UnlockStarting(c)
      BY <1>1, <3>2 DEF UnlockStarting, LockHeld, Starting
    <3>3. CASE React(c) \/ Spawn(c)
      BY <1>1, <3>3 DEF React, Spawn, LockHeld, Starting
    <3> QED
      BY <1>3, <3>1, <3>2, <3>3
  <2>3. MadeOnce'
    BY <1>1, <1>3 DEF LockStarting, UnlockStarting, React, Spawn, MadeOnce, Reacting
  <2>4. OneFirst'
    BY <2>1 DEF OneFirst
  <2>5. OutputKept'
    BY <2>1 DEF OutputKept
  <2> QED
    BY <2>2, <2>3, <2>4, <2>5
<1>4. CASE LoadOutput(c)
  <2>1. /\ \A d \in Client : d # c => pc'[d] = pc[d] /\ loaded'[d] = loaded[d]
        /\ pc[c] = "output" /\ pc'[c] = (IF output[node[c]] = 0 THEN "create" ELSE "ask")
        /\ loaded'[c] = output[node[c]]
        /\ UNCHANGED <<starter, reactions, node, output, maintainer>>
    BY <1>1, <1>4 DEF LoadOutput
  <2>2. LockHeld' /\ MadeOnce'
    BY <2>1 DEF LockHeld, MadeOnce, Reacting, Starting
  <2>3. OneFirst'
    BY <2>1 DEF OneFirst, Inside
  <2>4. OutputKept'
    BY <2>1 DEF OutputKept
  <2> QED
    BY <2>2, <2>3, <2>4
<1>5. CASE CreateOutput(c)
  <2>1. /\ \A d \in Client : d # c => pc'[d] = pc[d] /\ loaded'[d] = loaded[d]
        /\ pc[c] = "create" /\ pc'[c] = "ask"
        /\ \A n \in Node : n # node[c] => output'[n] = output[n]
        /\ output'[node[c]] = output[node[c]] + 1 /\ loaded'[c] = output'[node[c]]
        /\ UNCHANGED <<starter, reactions, node, maintainer>>
    BY <1>1, <1>5 DEF CreateOutput
  <2>2. LockHeld' /\ MadeOnce'
    BY <2>1 DEF LockHeld, MadeOnce, Reacting, Starting
  <2>3. OneFirst'
    <3>1. \A d \in Client : output'[node[d]] = 0 => node[d] # node[c] /\ output[node[d]] = 0
      BY <1>1, <2>1
    <3>2. \A d \in Client : pc'[d] \in Inside => pc[d] \in Inside
      BY <2>1 DEF Inside
    <3> QED
      BY <2>1, <3>1, <3>2 DEF OneFirst
  <2>4. ASSUME Patient, NEW d \in Client, d # c, node[d] = node[c] PROVE pc[d] \notin {"create", "ask"}
    <3>1. output[node[c]] = 0
      BY <2>1, <2>4 DEF OutputKept
    <3> QED
      BY <2>1, <2>4, <3>1 DEF OneFirst, Inside
  <2>5. OutputKept'
    <3> SUFFICES ASSUME Patient, NEW d \in Client
                 PROVE  (pc[d] = "create" => output[node[d]] = 0)'
                        /\ (pc[d] = "ask" => loaded[d] = output[node[d]])'
      BY DEF OutputKept
    <3>1. CASE d = c
      BY <2>1, <3>1
    <3>2. CASE d # c /\ node[d] = node[c]
      BY <2>1, <2>4, <3>2
    <3>3. CASE d # c /\ node[d] # node[c]
      BY <1>1, <2>1, <3>3 DEF OutputKept
    <3> QED
      BY <3>1, <3>2, <3>3
  <2> QED
    BY <2>2, <2>3, <2>5
<1>6. CASE AskFrame(c) \/ Sleep(c) \/ Return(c)
  <2>1. /\ \A d \in Client : d # c => pc'[d] = pc[d]
        /\ pc[c] \in {"ask", "sleep", "woken"} /\ pc'[c] \in {"done", "sleep", "asleep"}
        /\ pc[c] = "woken" => pc'[c] = "done"
        /\ UNCHANGED <<starter, reactions, node, output, loaded, maintainer>>
    BY <1>1, <1>6 DEF AskFrame, Sleep, Return
  <2>2. LockHeld' /\ MadeOnce'
    BY <2>1 DEF LockHeld, MadeOnce, Reacting, Starting
  <2>3. OneFirst'
    <3>1. \A d \in Client : pc'[d] \in Inside => pc[d] \in Inside
      BY <2>1 DEF Inside
    <3> QED
      BY <2>1, <3>1 DEF OneFirst
  <2>4. OutputKept'
    BY <2>1 DEF OutputKept
  <2> QED
    BY <2>2, <2>3, <2>4
<1> QED
  BY <1>2, <1>3, <1>4, <1>5, <1>6 DEF Calling

-----------------------------------------------------------------------------
(* where an instance is *)

LEMMA AskedKept ==
  ASSUME NEW d, pc'[d] = pc[d] \/ Woken(d)
  PROVE  (Asked(d) <=> Asked(d)')
BY DEF Woken, Asked

\* A step that moves no task about it, and gives it to nobody.
Stays(i) ==
  /\ AtMostOne(maintainQ, About(i))'
  /\ Has(maintainQ, About(i))' <=> Has(maintainQ, About(i))
  /\ i \in workQ' <=> i \in workQ
  /\ i \in ready' <=> i \in ready
  /\ \A w \in Worker : Computes(w, i)' => Computes(w, i)

LEMMA StaysApart ==
  ASSUME NEW i \in Instance, Apart(i), Stays(i)
  PROVE  Apart(i)' /\ (Named(i)' => Named(i))
BY DEF Apart, Stays, Named

\* Most steps leave the queue of the maintainer alone, or put a Stop in it.
LEMMA PlacesQuiet ==
  ASSUME Typed, EachOnce, NamedAsked,
         maintainQ' = maintainQ \/ maintainQ' = Append(maintainQ, Stop),
         workQ' = workQ, ready' = ready,
         \A w \in Worker : \A i \in Instance : Computes(w, i)' => Computes(w, i),
         \A d \in Client : Asked(d) => Asked(d)'
  PROVE  EachOnce' /\ NamedAsked'
<1>1. ASSUME NEW i \in Instance PROVE Apart(i)' /\ (Named(i)' => Named(i)) /\ (Asked(i[1]) => Asked(i[1])')
  <2>1. Apart(i) /\ i[1] \in Client
    BY DEF EachOnce
  <2>2. AtMostOne(maintainQ, About(i)) /\ maintainQ \in Seq(Task)
    BY <2>1 DEF Apart, Typed
  <2>3. /\ AtMostOne(Append(maintainQ, Stop), About(i))
        /\ Has(Append(maintainQ, Stop), About(i)) <=> Has(maintainQ, About(i))
    BY <2>2, Stops, HasAppend
  <2>4. About(i)' = About(i)
    BY DEF About
  <2>5. AtMostOne(maintainQ, About(i))' /\ (Has(maintainQ, About(i))' <=> Has(maintainQ, About(i)))
    <3>1. CASE maintainQ' = maintainQ
      BY <2>2, <2>4, <3>1 DEF AtMostOne, Has
    <3>2. CASE maintainQ' = Append(maintainQ, Stop)
      BY <2>3, <2>4, <3>2 DEF AtMostOne, Has
    <3> QED
      BY <3>1, <3>2
  <2>6. Stays(i)
    BY <2>5 DEF Stays
  <2> QED
    BY <2>1, <2>6, StaysApart
<1> QED
  BY <1>1 DEF EachOnce, NamedAsked

\* The maintainer took a task that is not about it.
LEMMA Passed ==
  ASSUME Typed, NEW i \in Instance, Apart(i),
         maintainQ # <<>>, maintainQ' = Tail(maintainQ), Head(maintainQ) \notin About(i)
  PROVE  AtMostOne(maintainQ, About(i))' /\ (Has(maintainQ, About(i))' <=> Has(maintainQ, About(i)))
<1>1. AtMostOne(maintainQ, About(i)) /\ maintainQ \in Seq(Task)
  BY DEF Apart, Typed
<1>2. /\ AtMostOne(Tail(maintainQ), About(i))
      /\ Has(Tail(maintainQ), About(i)) <=> Has(maintainQ, About(i))
  BY <1>1, HasTail
<1> QED
  BY <1>2 DEF AtMostOne, Has, About

\* It took the one that is.
LEMMA Consumed ==
  ASSUME Typed, NEW i \in Instance, Apart(i),
         maintainQ # <<>>, maintainQ' = Tail(maintainQ), Head(maintainQ) \in About(i)
  PROVE  /\ AtMostOne(maintainQ, About(i))' /\ ~Has(maintainQ, About(i))'
         /\ Has(maintainQ, About(i)) /\ i \notin workQ /\ i \notin ready
         /\ \A w \in Worker : ~Computes(w, i)
<1>1. AtMostOne(maintainQ, About(i)) /\ maintainQ \in Seq(Task)
  BY DEF Apart, Typed
<1>2. /\ AtMostOne(Tail(maintainQ), About(i)) /\ ~Has(Tail(maintainQ), About(i))
      /\ Has(maintainQ, About(i))
  BY <1>1, HasTail
<1>3. /\ AtMostOne(maintainQ, About(i))' /\ ~Has(maintainQ, About(i))'
  BY <1>2 DEF AtMostOne, Has, About
<1> QED
  BY <1>2, <1>3 DEF Apart

\* A task about it came into the queue, where there was none.
LEMMA Arrived ==
  ASSUME Typed, NEW i \in Instance, NEW t \in Task, t \in About(i),
         maintainQ' = Append(maintainQ, t), ~Has(maintainQ, About(i))
  PROVE  AtMostOne(maintainQ, About(i))' /\ Has(maintainQ, About(i))'
<1>1. AtMostOne(maintainQ, About(i)) /\ maintainQ \in Seq(Task)
  BY DEF AtMostOne, Has, Typed
<1>2. AtMostOne(Append(maintainQ, t), About(i)) /\ Has(Append(maintainQ, t), About(i))
  BY <1>1, HasAppend
<1> QED
  BY <1>2 DEF AtMostOne, Has, About

\* A task that is not about it came.
LEMMA Ignored ==
  ASSUME Typed, NEW i \in Instance, Apart(i), NEW t \in Task, t \notin About(i),
         maintainQ' = Append(maintainQ, t)
  PROVE  AtMostOne(maintainQ, About(i))' /\ (Has(maintainQ, About(i))' <=> Has(maintainQ, About(i)))
<1>1. AtMostOne(maintainQ, About(i)) /\ maintainQ \in Seq(Task)
  BY DEF Apart, Typed
<1>2. /\ AtMostOne(Append(maintainQ, t), About(i))
      /\ Has(Append(maintainQ, t), About(i)) <=> Has(maintainQ, About(i))
  BY <1>1, HasAppend
<1> QED
  BY <1>2 DEF AtMostOne, Has, About

LEMMA PlacesAsk ==
  ASSUME Typed, EachOnce, NamedAsked, NEW c \in Client, AskFrame(c)
  PROVE  EachOnce' /\ NamedAsked'
<1> USE DEF Goto, workVars
<1>1. /\ pc \in [Client -> Places] /\ pc[c] = "ask" /\ maintainQ' = Append(maintainQ, Construct(c))
      /\ UNCHANGED <<workQ, worker, held, ready>>
      /\ \A d \in Client : d # c => pc'[d] = pc[d]
      /\ pc'[c] \in {"done", "sleep"}
  BY DEF AskFrame, Typed
<1>2. Construct(c) \in Task /\ \A i \in Instance : Construct(c) \in About(i) <=> i[1] = c
  BY Requests
<1>3. ASSUME NEW i \in Instance PROVE Apart(i)' /\ (Named(i)' => Asked(i[1])')
  <2>1. i[1] \in Client /\ Apart(i) /\ (Named(i) => Asked(i[1]))
    BY DEF EachOnce, NamedAsked
  <2>2. CASE i[1] = c
    <3>1. ~Named(i)
      BY <1>1, <2>1, <2>2 DEF Asked
    <3>2. AtMostOne(maintainQ, About(i))' /\ Has(maintainQ, About(i))'
      BY <1>1, <1>2, <2>2, <3>1, Arrived DEF Named
    <3>3. i \notin workQ' /\ i \notin ready' /\ \A w \in Worker : ~Computes(w, i)'
      BY <1>1, <3>1 DEF Named, Computes
    <3>4. Asked(i[1])'
      BY <1>1, <2>2 DEF Asked
    <3> QED
      BY <3>2, <3>3, <3>4 DEF Apart
  <2>3. CASE i[1] # c
    <3>1. Stays(i)
      BY <1>1, <1>2, <2>1, <2>3, Ignored DEF Stays, Computes
    <3>2. Asked(i[1])' <=> Asked(i[1])
      BY <1>1, <2>1, <2>3 DEF Asked
    <3> QED
      BY <2>1, <3>1, <3>2, StaysApart
  <2> QED
    BY <2>2, <2>3
<1> QED
  BY <1>3 DEF EachOnce, NamedAsked

LEMMA PlacesMaintainer ==
  ASSUME Typed, EachOnce, NamedAsked, Maintainer
  PROVE  EachOnce' /\ NamedAsked'
<1> USE DEF clientVars, workVars
<1>1. \A d : Asked(d)' <=> Asked(d)
  BY DEF Maintainer, TakeConstruct, TakeNotify, TakeStop, EndBatch, Asked
<1>2. CASE TakeConstruct
  <2>1. PICK c \in Client : Head(maintainQ) = Construct(c)
    BY <1>2, TakenTask DEF TakeConstruct
  <2>2. /\ maintainQ # <<>> /\ maintainQ' = Tail(maintainQ)
        /\ Head(maintainQ).for = c
        /\ workQ' = workQ \cup Needs(Head(maintainQ).for)
        /\ UNCHANGED <<worker, held, ready>>
    BY <1>2, <2>1, Requests DEF TakeConstruct, TakeAs
  <2>3. ASSUME NEW i \in Instance PROVE Apart(i)' /\ (Named(i)' => Asked(i[1])')
    <3>1. i[1] \in Client /\ Apart(i) /\ (Named(i) => Asked(i[1]))
      BY DEF EachOnce, NamedAsked
    <3>2. CASE i[1] = c
      <4>1. Head(maintainQ) \in About(i)
        BY <2>1, <3>2, Requests
      <4>2. /\ AtMostOne(maintainQ, About(i))' /\ ~Has(maintainQ, About(i))'
            /\ Has(maintainQ, About(i)) /\ i \notin workQ /\ i \notin ready
            /\ \A w \in Worker : ~Computes(w, i)
        BY <2>2, <3>1, <4>1, Consumed
      <4>3. i \notin ready' /\ \A w \in Worker : ~Computes(w, i)'
        BY <2>2, <4>2 DEF Computes
      <4>4. Asked(i[1])'
        BY <1>1, <3>1, <4>2 DEF Named
      <4> QED
        BY <4>2, <4>3, <4>4 DEF Apart
    <3>3. CASE i[1] # c
      <4>1. Head(maintainQ) \notin About(i)
        BY <2>1, <3>3, Requests
      <4>2. i \in workQ' <=> i \in workQ
        BY <2>2, <3>3 DEF Needs
      <4>3. Stays(i)
        BY <2>2, <3>1, <4>1, <4>2, Passed DEF Stays, Computes
      <4> QED
        BY <1>1, <3>1, <4>3, StaysApart
    <3> QED
      BY <3>2, <3>3
  <2> QED
    BY <2>3 DEF EachOnce, NamedAsked
<1>3. CASE TakeNotify
  <2>1. PICK j \in Instance : Fails(j) \/ Succeeds(j)
    BY <1>3, ReportTaken
  <2>2. /\ maintainQ # <<>> /\ maintainQ' = Tail(maintainQ)
        /\ UNCHANGED <<workQ, worker, held>>
    BY <1>3 DEF TakeNotify, TakeAs
  <2>3. /\ Head(maintainQ) = Failed(j) \/ Head(maintainQ) = Came(j)
        /\ ready' = ready \/ ready' = ready \cup {j}
    BY <2>1 DEF Fails, Succeeds
  <2>4. \A i \in Instance : Head(maintainQ) \in About(i) <=> i = j
    BY <2>3, Reports
  <2>5. ASSUME NEW i \in Instance PROVE Apart(i)' /\ (Named(i)' => Asked(i[1])')
    <3>1. i[1] \in Client /\ Apart(i) /\ (Named(i) => Asked(i[1]))
      BY DEF EachOnce, NamedAsked
    <3>2. CASE i = j
      <4>1. Head(maintainQ) \in About(i)
        BY <2>4, <3>2
      <4>2. /\ AtMostOne(maintainQ, About(i))' /\ ~Has(maintainQ, About(i))'
            /\ Has(maintainQ, About(i)) /\ i \notin workQ /\ i \notin ready
            /\ \A w \in Worker : ~Computes(w, i)
        BY <2>2, <3>1, <4>1, Consumed
      <4>3. i \notin workQ' /\ \A w \in Worker : ~Computes(w, i)'
        BY <2>2, <4>2 DEF Computes
      <4>4. Asked(i[1])'
        BY <1>1, <3>1, <4>2 DEF Named
      <4> QED
        BY <4>2, <4>3, <4>4 DEF Apart
    <3>3. CASE i # j
      <4>1. Head(maintainQ) \notin About(i) /\ (i \in ready' <=> i \in ready)
        BY <2>3, <2>4, <3>3
      <4>2. Stays(i)
        BY <2>2, <3>1, <4>1, Passed DEF Stays, Computes
      <4> QED
        BY <1>1, <3>1, <4>2, StaysApart
    <3> QED
      BY <3>2, <3>3
  <2> QED
    BY <2>5 DEF EachOnce, NamedAsked
<1>4. CASE TakeStop
  <2>1. /\ maintainQ # <<>> /\ maintainQ' = Tail(maintainQ) /\ Head(maintainQ) = Stop
        /\ UNCHANGED <<workQ, worker, held, ready>>
    BY <1>4, TakenTask DEF TakeStop, TakeAs
  <2>2. ASSUME NEW i \in Instance PROVE Apart(i)' /\ (Named(i)' => Asked(i[1])')
    <3>1. Apart(i) /\ (Named(i) => Asked(i[1]))
      BY DEF EachOnce, NamedAsked
    <3>2. Head(maintainQ) \notin About(i)
      BY <2>1, Stops
    <3>3. Stays(i)
      BY <2>1, <3>1, <3>2, Passed DEF Stays, Computes
    <3> QED
      BY <1>1, <3>1, <3>3, StaysApart
  <2> QED
    BY <2>2 DEF EachOnce, NamedAsked
<1>5. CASE EndBatch
  <2>1. UNCHANGED <<maintainQ, workQ, worker, held, ready>>
    BY <1>5 DEF EndBatch
  <2> QED
    BY <1>1, <2>1, PlacesQuiet DEF Computes
<1> QED
  BY <1>2, <1>3, <1>4, <1>5 DEF Maintainer

LEMMA PlacesWorker ==
  ASSUME Typed, EachOnce, NamedAsked, NEW w \in Worker, Working(w)
  PROVE  EachOnce' /\ NamedAsked'
<1> USE DEF clientVars, maintainVars
<1>1. \A d : Asked(d)' <=> Asked(d)
  BY DEF Working, Pop, Report, EndWorker, Asked
<1>2. worker \in [Worker -> {"none", "idle", "asleep", "busy", "over"}] /\ held \in [Worker -> Instance \cup {NoInst}]
  BY DEF Typed
<1>3. CASE Pop(w)
  <2>1. PICK j \in workQ : workQ' = workQ \ {j} /\ held' = [held EXCEPT ![w] = j]
    BY <1>3 DEF Pop
  <2>2. /\ worker[w] # "busy" /\ worker' = [worker EXCEPT ![w] = "busy"]
        /\ UNCHANGED <<maintainQ, ready>>
    BY <1>3 DEF Pop
  <2>3. j \in Instance
    BY DEF Typed
  <2>4. \A i \in Instance, v \in Worker : Computes(v, i)' <=> \/ v = w /\ i = j
                                                              \/ v # w /\ Computes(v, i)
    BY <1>2, <2>1, <2>2 DEF Computes
  <2>5. \A i \in Instance : ~Computes(w, i)
    BY <2>2 DEF Computes
  <2>6. ASSUME NEW i \in Instance PROVE Apart(i)' /\ (Named(i)' => Asked(i[1])')
    <3>1. Apart(i) /\ (Named(i) => Asked(i[1]))
      BY DEF EachOnce, NamedAsked
    <3>2. /\ AtMostOne(maintainQ, About(i))' /\ (Has(maintainQ, About(i))' <=> Has(maintainQ, About(i)))
      BY <2>2, <3>1 DEF AtMostOne, Has, About, Apart
    <3>3. CASE i = j
      <4>1. i \notin ready /\ ~Has(maintainQ, About(i)) /\ \A v \in Worker : ~Computes(v, i)
        BY <3>1, <3>3 DEF Apart
      <4>2. i \notin workQ' /\ \A v \in Worker : Computes(v, i)' => v = w
        BY <2>1, <2>4, <3>3, <4>1
      <4>3. Asked(i[1])'
        BY <1>1, <3>1, <3>3 DEF Named
      <4> QED
        BY <2>2, <3>2, <4>1, <4>2, <4>3 DEF Apart
    <3>4. CASE i # j
      <4>1. Stays(i)
        BY <2>1, <2>2, <2>4, <3>2, <3>4 DEF Stays
      <4> QED
        BY <1>1, <3>1, <4>1, StaysApart
    <3> QED
      BY <3>3, <3>4
  <2> QED
    BY <2>6 DEF EachOnce, NamedAsked
<1>4. CASE Report(w)
  <2> DEFINE j == held[w]
  <2>1. /\ worker[w] = "busy" /\ worker' = [worker EXCEPT ![w] = "idle"]
        /\ held' = [held EXCEPT ![w] = NoInst] /\ UNCHANGED <<workQ, ready>>
    BY <1>4 DEF Report
  <2>2. j \in Instance
    BY <2>1 DEF Typed
  <2>3. PICK t \in {Failed(j), Came(j)} : maintainQ' = Append(maintainQ, t)
    BY <1>4, Reported
  <2>4. t \in Task /\ \A i \in Instance : t \in About(i) <=> i = j
    BY <2>2, Reports
  <2>5. \A i \in Instance, v \in Worker : Computes(v, i)' <=> v # w /\ Computes(v, i)
    BY <1>2, <2>1 DEF Computes
  <2>6. Computes(w, j)
    BY <2>1 DEF Computes
  <2> HIDE DEF j
  <2>7. ASSUME NEW i \in Instance PROVE Apart(i)' /\ (Named(i)' => Asked(i[1])')
    <3>1. Apart(i) /\ (Named(i) => Asked(i[1]))
      BY DEF EachOnce, NamedAsked
    <3>2. CASE i = j
      <4>1. /\ i \notin ready /\ i \notin workQ /\ ~Has(maintainQ, About(i))
            /\ \A v \in Worker : Computes(v, i) => v = w
        BY <2>6, <3>1, <3>2 DEF Apart
      <4>2. AtMostOne(maintainQ, About(i))' /\ Has(maintainQ, About(i))'
        BY <2>3, <2>4, <3>2, <4>1, Arrived
      <4>3. i \notin workQ' /\ i \notin ready' /\ \A v \in Worker : ~Computes(v, i)'
        BY <2>1, <2>5, <4>1
      <4>4. Asked(i[1])'
        BY <1>1, <2>6, <3>1, <3>2 DEF Named
      <4> QED
        BY <4>2, <4>3, <4>4 DEF Apart
    <3>3. CASE i # j
      <4>1. Stays(i)
        BY <2>1, <2>3, <2>4, <2>5, <3>1, <3>3, Ignored DEF Stays
      <4> QED
        BY <1>1, <3>1, <4>1, StaysApart
    <3> QED
      BY <3>2, <3>3
  <2> QED
    BY <2>7 DEF EachOnce, NamedAsked
<1>5. CASE EndWorker(w)
  <2>1. /\ UNCHANGED <<maintainQ, workQ, held, ready>>
        /\ worker' = [worker EXCEPT ![w] = "over"] \/ worker' = [worker EXCEPT ![w] = "asleep"]
    BY <1>5 DEF EndWorker
  <2>2. \A v \in Worker : \A i \in Instance : Computes(v, i)' => Computes(v, i)
    BY <1>2, <2>1 DEF Computes
  <2> QED
    BY <1>1, <2>1, <2>2, PlacesQuiet
<1> QED
  BY <1>3, <1>4, <1>5 DEF Working

-----------------------------------------------------------------------------
(* the answers *)

\* A step that brings a client no answer, and takes none from it.
Undisturbed(c) ==
  /\ AtMostOne(callbackQ, AnswersTo(c))'
  /\ Pending(c)' <=> Pending(c)
  /\ Serving(c)' => Serving(c)
  /\ Writing(c)' => Writing(c)
  /\ Gets(c)' => Gets(c)
  /\ frame'[c] = frame[c]
  /\ c \in answered' <=> c \in answered
  /\ ready \subseteq ready'
  /\ Asked(c) => Asked(c)'
  /\ c \notin Async /\ Asked(c)' => Asked(c) \/ pc'[c] = "sleep"
  /\ pc[c] \in {"sleep", "asleep"} => pc'[c] \in {"sleep", "asleep"}

LEMMA Undisturbing ==
  ASSUME Answering, NEW c \in Client, Undisturbed(c)
  PROVE  /\ AnsweredOnceBy(c)'
         /\ c \notin Async => Waits(c)'
         /\ Gets(c)' => (Needs(c) \subseteq ready)'
<1>1. AnsweredOnceBy(c) /\ (c \notin Async => Waits(c)) /\ (Gets(c) => Needs(c) \subseteq ready)
  BY DEF Answering, AnsweredOnce, WakesLast, Complete
<1>2. AnsweredOnceBy(c)'
  BY <1>1 DEF AnsweredOnceBy, Undisturbed
<1>3. ASSUME c \notin Async PROVE Waits(c)'
  BY <1>1, <1>3 DEF Waits, Undisturbed
<1>4. Needs(c)' = Needs(c)
  BY DEF Needs
<1> QED
  BY <1>1, <1>2, <1>3, <1>4 DEF Undisturbed

LEMMA AnsweringAll ==
  ASSUME \A c \in Client : /\ AnsweredOnceBy(c)'
                           /\ c \notin Async => Waits(c)'
                           /\ Gets(c)' => (Needs(c) \subseteq ready)'
  PROVE  Answering'
BY DEF Answering, AnsweredOnce, WakesLast, Complete

LEMMA SameCalls ==
  ASSUME NEW c \in Client, Answering, callbackQ' = callbackQ, frame' = frame,
         callbacker' = callbacker \/ callbacker' = "waiting", invoking' = invoking
  PROVE  /\ AtMostOne(callbackQ, AnswersTo(c))'
         /\ Pending(c)' <=> Pending(c)
         /\ Serving(c)' => Serving(c)
         /\ Writing(c)' => Writing(c)
         /\ Gets(c)' => Gets(c)
         /\ frame'[c] = frame[c]
<1>1. AtMostOne(callbackQ, AnswersTo(c))
  BY DEF Answering, AnsweredOnce, AnsweredOnceBy
<1>2. AnswersTo(c)' = AnswersTo(c) /\ Delivery(c)' = Delivery(c)
  BY DEF AnswersTo, Delivery, Refusal, Invoke
<1>3. AtMostOne(callbackQ, AnswersTo(c))' /\ (Pending(c)' <=> Pending(c))
  BY <1>1, <1>2 DEF AtMostOne, Pending, Has
<1>4. (Serving(c)' => Serving(c)) /\ (Writing(c)' => Writing(c))
  BY <1>2 DEF Serving, Writing
<1>5. Gets(c)' => Gets(c)
  BY <1>2 DEF Gets, Has
<1> QED
  BY <1>3, <1>4, <1>5

LEMMA AnswersClient ==
  ASSUME Typed, Answering, NEW c \in Client, Enter(c) \/ Calling(c)
  PROVE  Answering'
<1>1. ASSUME NEW d \in Client PROVE Undisturbed(d)
  <2>1. /\ Asked(d) => Asked(d)'
        /\ d \notin Async /\ Asked(d)' => Asked(d) \/ pc'[d] = "sleep"
        /\ pc[d] \in {"sleep", "asleep"} => pc'[d] \in {"sleep", "asleep"}
    <3>1. CASE d = c
      BY <3>1, ClientMoves DEF Asked, Inside
    <3>2. CASE d # c
      BY <3>2, ClientMoves DEF Asked
    <3> QED
      BY <3>1, <3>2
  <2>2. /\ UNCHANGED <<frame, callbackQ, invoking, ready, answered>>
        /\ callbacker' = callbacker \/ callbacker' = "waiting"
    BY ClientMoves
  <2> QED
    BY <2>1, <2>2, SameCalls DEF Undisturbed
<1> QED
  BY <1>1, Undisturbing, AnsweringAll

\* The steps of the others that do not speak of answers.
LEMMA AnswersOthers ==
  ASSUME Typed, Answering, pc' = pc, answered' = answered, ready' = ready,
         UNCHANGED <<frame, callbackQ, callbacker, invoking>>
  PROVE  Answering'
<1>1. ASSUME NEW d \in Client PROVE Undisturbed(d)
  BY SameCalls DEF Undisturbed, Asked
<1> QED
  BY <1>1, Undisturbing, AnsweringAll

LEMMA AnswersReport ==
  ASSUME Typed, EachOnce, NamedAsked, Answering, TakeNotify
  PROVE  Answering'
<1>1. PICK i \in Instance : Fails(i) \/ Succeeds(i)
  BY ReportTaken
<1> DEFINE c == i[1]
<1>2. /\ UNCHANGED <<pc, frame, callbacker, invoking>>
  BY DEF TakeNotify, clientVars, answerVars
<1>3. ready \subseteq ready'
  BY <1>1 DEF Fails, Succeeds
<1>4. c \in Client /\ Asked(c)
  <2>1. c \in Client
    OBVIOUS
  <2>2. maintainQ # <<>> /\ maintainQ \in Seq(Task)
    BY DEF TakeNotify, TakeAs, Typed
  <2>3. Head(maintainQ) \in About(i)
    BY <1>1 DEF Fails, Succeeds, About
  <2>4. Has(maintainQ, About(i))
    BY <2>2, <2>3, HasTail
  <2> QED
    BY <2>1, <2>4 DEF NamedAsked, Named
<1>5. CASE answered' = answered /\ callbackQ' = callbackQ
  <2>1. ASSUME NEW d \in Client PROVE Undisturbed(d)
    BY <1>2, <1>3, <1>5, SameCalls DEF Undisturbed, Asked
  <2> QED
    BY <2>1, Undisturbing, AnsweringAll
<1>6. ASSUME NEW t \in {Refusal(c), Delivery(c)}, callbackQ' = Append(callbackQ, t),
             c \notin answered, answered' = answered \cup {c},
             t = Delivery(c) => Needs(c) \subseteq ready'
      PROVE  Answering'
  <2>1. t \in Call \cup {Stop} /\ callbackQ \in Seq(Call \cup {Stop})
    BY <1>4, Calls DEF Typed
  <2>2. \A d \in Client : t \in AnswersTo(d) <=> c = d
    BY <1>4, Calls
  <2>3. \A d \in Client : t = Delivery(d) => c = d /\ t = Delivery(c)
    BY <2>2 DEF AnswersTo
  <2>4. ASSUME NEW d \in Client
        PROVE  /\ AnswersTo(d)' = AnswersTo(d) /\ Delivery(d)' = Delivery(d)
               /\ Pending(d)' <=> Pending(d) \/ c = d
               /\ Has(callbackQ, {Delivery(d)})' <=> Has(callbackQ, {Delivery(d)}) \/ t = Delivery(d)
               /\ AtMostOne(callbackQ, AnswersTo(d)) /\ ~(Pending(d) /\ c = d) =>
                    AtMostOne(callbackQ, AnswersTo(d))'
               /\ Serving(d)' <=> Serving(d)
               /\ Writing(d)' <=> Writing(d)
               /\ Asked(d)' <=> Asked(d)
    <3>1. AnswersTo(d)' = AnswersTo(d) /\ Delivery(d)' = Delivery(d)
      BY DEF AnswersTo, Delivery, Refusal, Invoke
    <3>2. /\ Has(Append(callbackQ, t), AnswersTo(d)) <=> Has(callbackQ, AnswersTo(d)) \/ t \in AnswersTo(d)
          /\ AtMostOne(callbackQ, AnswersTo(d)) /\ ~(Has(callbackQ, AnswersTo(d)) /\ t \in AnswersTo(d)) =>
               AtMostOne(Append(callbackQ, t), AnswersTo(d))
      BY <2>1, HasAppend
    <3>3. Has(Append(callbackQ, t), {Delivery(d)}) <=> Has(callbackQ, {Delivery(d)}) \/ t \in {Delivery(d)}
      BY <2>1, HasAppend
    <3>4. (Serving(d)' <=> Serving(d)) /\ (Writing(d)' <=> Writing(d)) /\ (Asked(d)' <=> Asked(d))
      BY <1>2, <3>1 DEF Serving, Writing, Asked
    <3>5. Pending(d)' <=> Has(Append(callbackQ, t), AnswersTo(d))
      BY <1>6, <3>1 DEF Pending, Has
    <3>6. AtMostOne(callbackQ, AnswersTo(d))' <=> AtMostOne(Append(callbackQ, t), AnswersTo(d))
      BY <1>6, <3>1 DEF AtMostOne
    <3>7. Has(callbackQ, {Delivery(d)})' <=> Has(Append(callbackQ, t), {Delivery(d)})
      BY <1>6, <3>1 DEF Has
    <3> QED
      BY <2>2, <3>1, <3>2, <3>3, <3>4, <3>5, <3>6, <3>7 DEF Pending
  <2>5. ASSUME NEW d \in Client, d # c PROVE Undisturbed(d)
    <3>1. AnsweredOnceBy(d)
      BY DEF Answering, AnsweredOnce
    <3>2. AtMostOne(callbackQ, AnswersTo(d))'
      BY <2>4, <2>5, <3>1 DEF AnsweredOnceBy
    <3>3. Gets(d)' => Gets(d)
      BY <1>2, <2>3, <2>4, <2>5 DEF Gets
    <3> QED
      BY <1>2, <1>3, <1>6, <2>4, <2>5, <3>2, <3>3 DEF Undisturbed, Asked
  <2>6. AnsweredOnceBy(c) /\ ~Pending(c) /\ ~Serving(c) /\ frame[c] = "none" /\ (c \notin Async => Waits(c))
    BY <1>4, <1>6 DEF Answering, AnsweredOnce, AnsweredOnceBy, WakesLast
  <2>7. AnsweredOnceBy(c)'
    <3>1. AtMostOne(callbackQ, AnswersTo(c))' /\ ~Serving(c)' /\ Asked(c)' /\ frame'[c] = "none" /\ c \in answered'
      BY <1>2, <1>4, <1>6, <2>4, <2>6 DEF AnsweredOnceBy
    <3> QED
      BY <3>1 DEF AnsweredOnceBy
  <2>8. ASSUME c \notin Async PROVE Waits(c)'
    <3>1. pc[c] \in {"sleep", "asleep"}
      BY <1>4, <1>6, <2>6, <2>8 DEF Waits
    <3> QED
      BY <1>2, <3>1 DEF Waits
  <2>9. ASSUME Gets(c)' PROVE (Needs(c) \subseteq ready)'
    <3>1. t = Delivery(c)
      <4>1. ~Has(callbackQ, {Delivery(c)})
        BY <2>6 DEF Pending, Has, AnswersTo
      <4>2. frame'[c] # "frame"
        BY <1>2, <2>6
      <4>3. ~(callbacker' = "writing" /\ invoking' = Delivery(c)')
        BY <1>2, <1>4, <2>4, <2>6 DEF Serving, AnswersTo
      <4> QED
        BY <1>4, <2>4, <2>9, <4>1, <4>2, <4>3 DEF Gets
    <3> QED
      BY <1>6, <3>1 DEF Needs
  <2> QED
    BY <2>5, <2>7, <2>8, <2>9, Undisturbing, AnsweringAll
<1> HIDE DEF c
<1>7. CASE Fails(i)
  <2>1. Refusal(c) # Delivery(c)
    BY CallsApart, Zenon
  <2>2. \/ answered' = answered /\ callbackQ' = callbackQ
        \/ c \notin answered /\ answered' = answered \cup {c} /\ callbackQ' = Append(callbackQ, Refusal(c))
    BY <1>7, Zenon DEF Fails, c
  <2> QED
    BY <1>5, <1>6, <2>1, <2>2, Zenon
<1>8. CASE Succeeds(i)
  <2>1. \/ answered' = answered /\ callbackQ' = callbackQ
        \/ /\ c \notin answered /\ answered' = answered \cup {c} /\ callbackQ' = Append(callbackQ, Delivery(c))
           /\ Needs(c) \subseteq ready'
    BY <1>8, Zenon DEF Succeeds, c
  <2> QED
    BY <1>5, <1>6, <2>1, Zenon
<1> QED
  BY <1>1, <1>7, <1>8

LEMMA CallTaken ==
  ASSUME Typed, Answering, callbackQ # <<>>, callbackQ' = Tail(callbackQ), NEW c \in Client
  PROVE  /\ AtMostOne(callbackQ, AnswersTo(c))'
         /\ Pending(c) <=> Head(callbackQ) \in AnswersTo(c) \/ Pending(c)'
         /\ ~(Head(callbackQ) \in AnswersTo(c) /\ Pending(c)')
         /\ Has(callbackQ, {Delivery(c)}) <=> Head(callbackQ) = Delivery(c) \/ Has(callbackQ, {Delivery(c)})'
<1>1. AnswersTo(c)' = AnswersTo(c) /\ Delivery(c)' = Delivery(c)
  BY DEF AnswersTo, Delivery, Refusal, Invoke
<1>2. AtMostOne(callbackQ, AnswersTo(c)) /\ callbackQ \in Seq(Call \cup {Stop})
  BY DEF Answering, AnsweredOnce, AnsweredOnceBy, Typed
<1>3. /\ AtMostOne(Tail(callbackQ), AnswersTo(c))
      /\ Has(callbackQ, AnswersTo(c)) <=> Head(callbackQ) \in AnswersTo(c) \/ Has(Tail(callbackQ), AnswersTo(c))
      /\ ~(Head(callbackQ) \in AnswersTo(c) /\ Has(Tail(callbackQ), AnswersTo(c)))
  BY <1>2, HasTail
<1>4. Has(callbackQ, {Delivery(c)}) <=> Head(callbackQ) \in {Delivery(c)} \/ Has(Tail(callbackQ), {Delivery(c)})
  BY <1>2, HasTail
<1>5. /\ AtMostOne(callbackQ, AnswersTo(c))' <=> AtMostOne(Tail(callbackQ), AnswersTo(c))
      /\ Pending(c)' <=> Has(Tail(callbackQ), AnswersTo(c))
      /\ Has(callbackQ, {Delivery(c)})' <=> Has(Tail(callbackQ), {Delivery(c)})
  BY <1>1 DEF AtMostOne, Pending, Has
<1> QED
  BY <1>3, <1>4, <1>5 DEF Pending

\* Whom the call is for that the callback thread has.
LEMMA CallOf ==
  ASSUME Typed, callbacker \in {"writing", "notifying"}
  PROVE  \E c \in Client : /\ invoking = Refusal(c) \/ invoking = Delivery(c)
                           /\ invoking.for = c
                           /\ \A d \in Client : invoking \in AnswersTo(d) <=> c = d
<1>1. PICK c \in Client : invoking = Refusal(c) \/ invoking = Delivery(c)
  BY DEF Typed, Call
<1>2. invoking.for = c
  <2>1. Refusal(c).for = c /\ Delivery(c).for = c
    BY CallFields
  <2> QED
    BY <1>1, <2>1, Zenon
<1>3. \A d \in Client : invoking \in AnswersTo(d) <=> c = d
  BY <1>1, Calls
<1> QED
  BY <1>1, <1>2, <1>3

LEMMA AnswersTaken ==
  ASSUME Typed, Answering, TakeCallback
  PROVE  Answering'
<1>1. /\ callbackQ # <<>> /\ callbackQ' = Tail(callbackQ) /\ Head(callbackQ).is = "invoke"
      /\ callbacker = "waiting" /\ callbacker' = "writing" /\ invoking' = Head(callbackQ)
      /\ UNCHANGED <<pc, frame, ready, answered>>
  BY DEF TakeCallback, clientVars, answerVars, maintainVars
<1>2. PICK c \in Client : Head(callbackQ) = Refusal(c) \/ Head(callbackQ) = Delivery(c)
  BY <1>1, TakenCall
<1>3. \A d \in Client : Head(callbackQ) \in AnswersTo(d) <=> c = d
  BY <1>2, Calls
<1>4. ASSUME NEW d \in Client
      PROVE  /\ AnswersTo(d)' = AnswersTo(d) /\ Delivery(d)' = Delivery(d) /\ Delivery(d) \in AnswersTo(d)
             /\ Asked(d)' <=> Asked(d)
             /\ Serving(d)' <=> c = d
  <2>1. AnswersTo(d)' = AnswersTo(d) /\ Delivery(d)' = Delivery(d)
    BY DEF AnswersTo, Delivery, Refusal, Invoke
  <2>2. Delivery(d) \in AnswersTo(d)
    BY DEF AnswersTo
  <2> QED
    BY <1>1, <1>3, <2>1, <2>2 DEF Asked, Serving
<1>5. ASSUME NEW d \in Client PROVE Gets(d)' => Gets(d)
  <2>1. Has(callbackQ, {Delivery(d)}) <=> Head(callbackQ) = Delivery(d) \/ Has(callbackQ, {Delivery(d)})'
    BY <1>1, CallTaken
  <2> QED
    BY <1>1, <1>4, <2>1 DEF Gets
<1>6. ASSUME NEW d \in Client, d # c PROVE Undisturbed(d)
  <2>1. AtMostOne(callbackQ, AnswersTo(d))' /\ (Pending(d)' <=> Pending(d))
    BY <1>1, <1>3, <1>6, CallTaken
  <2>2. ~Serving(d)' /\ ~Writing(d)'
    BY <1>4, <1>6 DEF Serving, Writing
  <2> QED
    BY <1>1, <1>4, <1>5, <2>1, <2>2 DEF Undisturbed
<1>7. AnsweredOnceBy(c) /\ Pending(c) /\ ~Pending(c)' /\ AtMostOne(callbackQ, AnswersTo(c))'
  BY <1>1, <1>3, CallTaken DEF Answering, AnsweredOnce
<1>8. c \in answered' /\ frame'[c] = "none" /\ Asked(c)'
  BY <1>1, <1>4, <1>7 DEF AnsweredOnceBy
<1>9. AnsweredOnceBy(c)'
  BY <1>7, <1>8 DEF AnsweredOnceBy
<1>10. ASSUME c \notin Async PROVE Waits(c)'
  <2>1. Waits(c) /\ Asked(c)
    BY <1>4, <1>8, <1>10 DEF Answering, WakesLast
  <2> QED
    BY <1>1, <1>7, <2>1 DEF Waits
<1>11. Gets(c)' => (Needs(c) \subseteq ready)'
  BY <1>1, <1>5 DEF Answering, Complete, Needs
<1> QED
  BY <1>6, <1>9, <1>10, <1>11, Undisturbing, AnsweringAll

LEMMA AnswersWritten ==
  ASSUME Typed, Answering, WriteResult
  PROVE  Answering'
<1>1. PICK c \in Client : /\ invoking = Refusal(c) \/ invoking = Delivery(c)
                          /\ invoking.for = c
                          /\ \A d \in Client : invoking \in AnswersTo(d) <=> c = d
  BY CallOf DEF WriteResult
<1>2. /\ callbacker = "writing"
      /\ \/ callbacker' = "notifying" /\ invoking' = invoking
         \/ callbacker' = "waiting"
      /\ frame \in [Client -> {"none", "frame", "error"}]
      /\ UNCHANGED <<pc, callbackQ, ready, answered>>
  BY DEF WriteResult, clientVars, maintainVars, Typed
<1>3. /\ \A d \in Client : d # c => frame'[d] = frame[d]
      /\ frame'[c] = IF invoking.exc THEN "error" ELSE "frame"
  BY <1>1, <1>2 DEF WriteResult
<1>4. invoking = Refusal(c) => frame'[c] = "error"
  <2>1. Refusal(c).exc = TRUE
    BY CallFailure
  <2> QED
    BY <1>3, <2>1, Zenon
<1>5. ASSUME NEW d \in Client
      PROVE  /\ AnswersTo(d)' = AnswersTo(d) /\ Delivery(d)' = Delivery(d)
             /\ Asked(d)' <=> Asked(d)
             /\ Pending(d)' <=> Pending(d)
             /\ AtMostOne(callbackQ, AnswersTo(d))'
             /\ Has(callbackQ, {Delivery(d)})' <=> Has(callbackQ, {Delivery(d)})
             /\ Serving(d)' => c = d
             /\ ~Writing(d)'
  <2>1. AnswersTo(d)' = AnswersTo(d) /\ Delivery(d)' = Delivery(d)
    BY DEF AnswersTo, Delivery, Refusal, Invoke
  <2>2. AtMostOne(callbackQ, AnswersTo(d))
    BY DEF Answering, AnsweredOnce, AnsweredOnceBy
  <2>3. /\ Pending(d)' <=> Pending(d)
        /\ AtMostOne(callbackQ, AnswersTo(d))'
        /\ Has(callbackQ, {Delivery(d)})' <=> Has(callbackQ, {Delivery(d)})
    BY <1>2, <2>1, <2>2 DEF Pending, Has, AtMostOne
  <2>4. Serving(d)' => c = d
    BY <1>1, <1>2, <2>1 DEF Serving
  <2>5. ~Writing(d)' /\ (Asked(d)' <=> Asked(d))
    BY <1>2 DEF Writing, Asked
  <2> QED
    BY <2>1, <2>3, <2>4, <2>5
<1>6. ASSUME NEW d \in Client, d # c PROVE Undisturbed(d)
  <2>1. Gets(d)' => Gets(d)
    BY <1>2, <1>3, <1>5, <1>6 DEF Gets
  <2> QED
    BY <1>2, <1>3, <1>5, <1>6, <2>1 DEF Undisturbed
<1>7. AnsweredOnceBy(c) /\ Serving(c) /\ ~Pending(c) /\ c \in answered /\ Asked(c)
  BY <1>1, <1>2 DEF Answering, AnsweredOnce, AnsweredOnceBy, Serving
<1>8. AnsweredOnceBy(c)'
  BY <1>2, <1>5, <1>7 DEF AnsweredOnceBy
<1>9. ASSUME c \notin Async PROVE Waits(c)'
  <2>1. Waits(c)
    BY <1>9 DEF Answering, WakesLast
  <2> QED
    BY <1>2, <1>7, <2>1 DEF Waits
<1>10. ASSUME Gets(c)' PROVE (Needs(c) \subseteq ready)'
  <2>1. invoking = Delivery(c) \/ Has(callbackQ, {Delivery(c)})
    BY <1>1, <1>2, <1>4, <1>5, <1>10 DEF Gets
  <2>2. Gets(c)
    BY <1>2, <2>1 DEF Gets
  <2> QED
    BY <1>2, <2>2 DEF Answering, Complete, Needs
<1> QED
  BY <1>6, <1>8, <1>9, <1>10, Undisturbing, AnsweringAll

LEMMA AnswersNotified ==
  ASSUME Typed, Answering, NotifyWaiter
  PROVE  Answering'
<1>1. PICK c \in Client : /\ invoking = Refusal(c) \/ invoking = Delivery(c)
                          /\ invoking.for = c
                          /\ \A d \in Client : invoking \in AnswersTo(d) <=> c = d
  BY CallOf DEF NotifyWaiter
<1>2. /\ callbacker = "notifying" /\ callbacker' = "waiting"
      /\ pc \in [Client -> Places]
      /\ UNCHANGED <<frame, callbackQ, ready, answered>>
  BY DEF NotifyWaiter, maintainVars, Typed
<1>3. /\ \A d \in Client : d # c => pc'[d] = pc[d]
      /\ pc'[c] = IF pc[c] = "asleep" THEN "woken" ELSE pc[c]
  BY <1>1, <1>2 DEF NotifyWaiter, Notifies
<1>4. ASSUME NEW d \in Client
      PROVE  /\ Asked(d)' <=> Asked(d)
             /\ Pending(d)' <=> Pending(d)
             /\ AtMostOne(callbackQ, AnswersTo(d))'
             /\ Gets(d)' => Gets(d)
             /\ ~Serving(d)' /\ ~Writing(d)'
  <2>1. AnswersTo(d)' = AnswersTo(d) /\ Delivery(d)' = Delivery(d)
    BY DEF AnswersTo, Delivery, Refusal, Invoke
  <2>2. AtMostOne(callbackQ, AnswersTo(d))
    BY DEF Answering, AnsweredOnce, AnsweredOnceBy
  <2>3. /\ Pending(d)' <=> Pending(d)
        /\ AtMostOne(callbackQ, AnswersTo(d))'
        /\ Has(callbackQ, {Delivery(d)})' <=> Has(callbackQ, {Delivery(d)})
    BY <1>2, <2>1, <2>2 DEF Pending, Has, AtMostOne
  <2>4. ~Serving(d)' /\ ~Writing(d)' /\ (Gets(d)' => Gets(d))
    BY <1>2, <2>1, <2>3 DEF Serving, Writing, Gets
  <2>5. Asked(d)' <=> Asked(d)
    BY <1>3 DEF Asked
  <2> QED
    BY <2>3, <2>4, <2>5
<1>5. ASSUME NEW d \in Client, d # c PROVE Undisturbed(d)
  BY <1>2, <1>3, <1>4, <1>5 DEF Undisturbed
<1>6. AnsweredOnceBy(c) /\ ~Pending(c) /\ c \in answered /\ Asked(c)
  BY <1>1, <1>2 DEF Answering, AnsweredOnce, AnsweredOnceBy, Serving
<1>7. AnsweredOnceBy(c)'
  BY <1>2, <1>4, <1>6 DEF AnsweredOnceBy
<1>8. Waits(c)'
  BY <1>2, <1>4, <1>6 DEF Waits
<1>9. Gets(c)' => (Needs(c) \subseteq ready)'
  BY <1>2, <1>4 DEF Answering, Complete, Needs
<1> QED
  BY <1>5, <1>7, <1>8, <1>9, Undisturbing, AnsweringAll

LEMMA AnswersStopped ==
  ASSUME Typed, Answering, EndCallbacker \/ StopCallback
  PROVE  Answering'
<1>1. UNCHANGED <<pc, frame, ready, answered, invoking>>
  BY DEF EndCallbacker, StopCallback, clientVars, answerVars, maintainVars
<1>2. callbackQ \in Seq(Call \cup {Stop})
  BY DEF Typed
<1>3. ASSUME NEW d \in Client PROVE Undisturbed(d)
  <2>1. AnswersTo(d)' = AnswersTo(d) /\ Delivery(d)' = Delivery(d) /\ Stop \notin AnswersTo(d)
        /\ Delivery(d) \in AnswersTo(d)
    <3>1. AnswersTo(d)' = AnswersTo(d) /\ Delivery(d)' = Delivery(d)
      BY DEF AnswersTo, Delivery, Refusal, Invoke
    <3>2. Stop \notin AnswersTo(d)
      BY Calls
    <3>3. Delivery(d) \in AnswersTo(d)
      BY DEF AnswersTo
    <3> QED
      BY <3>1, <3>2, <3>3
  <2>2. AtMostOne(callbackQ, AnswersTo(d))
    BY DEF Answering, AnsweredOnce, AnsweredOnceBy
  <2>3. /\ AtMostOne(callbackQ, AnswersTo(d))' /\ (Pending(d)' <=> Pending(d))
        /\ Has(callbackQ, {Delivery(d)})' <=> Has(callbackQ, {Delivery(d)})
    <3>1. CASE EndCallbacker
      <4>1. callbackQ # <<>> /\ callbackQ' = Tail(callbackQ) /\ Head(callbackQ) = Stop
        BY <3>1, TakenCall DEF EndCallbacker
      <4>2. Head(callbackQ) \notin AnswersTo(d) /\ Head(callbackQ) # Delivery(d)
        BY <2>1, <4>1
      <4> QED
        BY <4>1, <4>2, CallTaken
    <3>2. CASE StopCallback
      <4>1. callbackQ' = Append(callbackQ, Stop)
        BY <3>2 DEF StopCallback
      <4>2. Stop \in Call \cup {Stop}
        OBVIOUS
      <4>3. /\ AtMostOne(Append(callbackQ, Stop), AnswersTo(d))
            /\ Has(Append(callbackQ, Stop), AnswersTo(d)) <=> Has(callbackQ, AnswersTo(d))
        BY <1>2, <2>1, <2>2, <4>2, HasAppend
      <4>4. Has(Append(callbackQ, Stop), {Delivery(d)}) <=> Has(callbackQ, {Delivery(d)}) \/ Stop \in {Delivery(d)}
        BY <1>2, <4>2, HasAppend
      <4>5. Stop # Delivery(d)
        BY <2>1
      <4>6. Stop' = Stop
        BY DEF Stop
      <4> QED
        BY <2>1, <4>1, <4>3, <4>4, <4>5, <4>6 DEF AtMostOne, Pending, Has
    <3> QED
      BY <3>1, <3>2
  <2>4. (Serving(d)' => Serving(d)) /\ (Writing(d)' => Writing(d)) /\ (Gets(d)' => Gets(d))
    <3>1. callbacker' = callbacker \/ callbacker' = "over"
      BY DEF EndCallbacker, StopCallback
    <3> QED
      BY <1>1, <2>1, <2>3, <3>1 DEF Serving, Writing, Gets
  <2> QED
    BY <1>1, <2>3, <2>4 DEF Undisturbed, Asked
<1> QED
  BY <1>3, Undisturbing, AnsweringAll

-----------------------------------------------------------------------------
(* the end *)

LEMMA QuietClient ==
  ASSUME Typed, Quiet, NEW c \in Client, Enter(c) \/ Calling(c)
  PROVE  Quiet'
<1>1. CASE phase = "alive"
  BY <1>1, ClientMoves DEF Quiet
<1>2. CASE phase # "alive"
  <2>1. \A d \in Client : pc[d] \notin Inside
    BY <1>2 DEF Quiet
  <2>2. pc[c] = "woken" /\ pc'[c] = "done"
    BY <1>2, <2>1, ClientMoves DEF Inside
  <2>3. \A d \in Client : pc'[d] \notin Inside /\ (Asked(d)' <=> Asked(d))
    BY <2>1, <2>2, ClientMoves DEF Asked, Inside
  <2> QED
    BY <2>3, ClientMoves DEF Quiet
<1> QED
  BY <1>1, <1>2

LEMMA QuietOthers ==
  ASSUME Typed, Quiet, phase = "alive" => phase' = "alive",  phase # "alive" => phase' # "alive",
         quiet' = quiet, \A d \in Client : Woken(d),
         \A d \in Client : frame[d] = "frame" => frame'[d] = "frame"
  PROVE  Quiet'
<1>1. \A d \in Client : (pc'[d] \in Inside <=> pc[d] \in Inside) /\ (Asked(d)' <=> Asked(d))
  BY DEF Woken, Asked, Inside
<1> QED
  BY <1>1 DEF Quiet

LEMMA QuietDestructor ==
  ASSUME Typed, Quiet, Destroy \/ Destroying
  PROVE  Quiet'
<1>1. UNCHANGED <<pc, frame>>
  BY DEF Destroy, Destroying, StopMaintain, StopCallback, StopWork,
         JoinWorkers, JoinCallbacker, JoinMaintainer, clientVars, answerVars
<1>2. CASE Destroy
  <2>1. /\ \A c \in Client : pc[c] \notin Inside
        /\ phase' = "stopMaintain"
        /\ quiet' = \A c \in Client : Asked(c) => frame[c] = "frame"
    BY <1>2 DEF Destroy
  <2>2. phase' # "alive"
    BY <2>1
  <2>3. quiet' => \A c \in Client : Asked(c) => frame[c] = "frame"
    BY <2>1, Zenon
  <2> QED
    BY <1>1, <2>1, <2>2, <2>3 DEF Quiet, Asked
<1>3. CASE Destroying
  <2>1. phase # "alive" /\ phase' # "alive" /\ quiet' = quiet
    BY <1>3 DEF Destroying, StopMaintain, StopCallback, StopWork,
                JoinWorkers, JoinCallbacker, JoinMaintainer
  <2> QED
    BY <1>1, <2>1 DEF Quiet, Asked
<1> QED
  BY <1>2, <1>3

LEMMA QuietCallbacker ==
  ASSUME Typed, Quiet, Answering, Callbacker
  PROVE  Quiet'
<1>1. /\ \A d \in Client : Woken(d)
      /\ UNCHANGED <<phase, quiet>>
  <2>1. UNCHANGED <<phase, quiet>>
    BY DEF Callbacker, TakeCallback, WriteResult, NotifyWaiter, EndCallbacker, endVars
  <2> QED
    BY <2>1, OthersMove
<1>2. CASE TakeCallback \/ NotifyWaiter \/ EndCallbacker
  <2>1. frame' = frame
    BY <1>2 DEF TakeCallback, NotifyWaiter, EndCallbacker, answerVars
  <2> QED
    BY <1>1, <2>1, QuietOthers
<1>3. CASE WriteResult
  <2>1. PICK c \in Client : /\ invoking.for = c
                            /\ \A d \in Client : invoking \in AnswersTo(d) <=> c = d
    BY <1>3, CallOf DEF WriteResult
  <2>2. Writing(c) /\ Serving(c)
    BY <1>3, <2>1 DEF WriteResult, Writing, Serving
  <2>3. frame[c] = "none"
    BY <2>2 DEF Answering, AnsweredOnce, AnsweredOnceBy
  <2>4. \A d \in Client : d # c => frame'[d] = frame[d]
    BY <1>3, <2>1 DEF WriteResult, Typed
  <2> QED
    BY <1>1, <2>3, <2>4, QuietOthers
<1> QED
  BY <1>2, <1>3 DEF Callbacker

-----------------------------------------------------------------------------
(* all of it *)

LEMMA InitIInv ==
  ASSUME Init
  PROVE  IInv
<1> USE DEF Init
<1>1. Typed
  <2>1. <<>> \in Seq(Task) /\ <<>> \in Seq(Call \cup {Stop})
    OBVIOUS
  <2> QED
    BY <2>1 DEF Typed, Places
<1>2. SetUp
  BY DEF SetUp, LockHeld, MadeOnce, OneFirst, OutputKept, Starting, Inside, Reacting
<1>3. \A i \in Instance : ~Has(maintainQ, About(i)) /\ AtMostOne(maintainQ, About(i))
  BY DEF Has, AtMostOne
<1>4. \A i \in Instance : \A w \in Worker : ~Computes(w, i)
  BY DEF Computes
<1>5. EachOnce /\ NamedAsked
  BY <1>3, <1>4 DEF EachOnce, Apart, NamedAsked, Named
<1>6. \A S : ~Has(callbackQ, S) /\ AtMostOne(callbackQ, S)
  BY DEF Has, AtMostOne
<1>7. \A c \in Client : ~Serving(c) /\ ~Writing(c) /\ ~Pending(c) /\ ~Gets(c) /\ ~Asked(c)
  BY <1>6 DEF Serving, Writing, Pending, Gets, Asked
<1>8. Answering
  BY <1>6, <1>7 DEF Answering, AnsweredOnce, AnsweredOnceBy, WakesLast, Waits, Complete
<1>9. Quiet
  BY DEF Quiet
<1> QED
  BY <1>1, <1>2, <1>5, <1>8, <1>9 DEF IInv

LEMMA StepIInv ==
  ASSUME IInv, Next
  PROVE  IInv'
<1> USE DEF IInv
<1>1. ASSUME NEW c \in Client, Enter(c) \/ Calling(c) PROVE IInv'
  <2>1. Typed' /\ SetUp' /\ Answering' /\ Quiet'
    BY <1>1, ClientTyped, SetUpClient, AnswersClient, QuietClient
  <2>2. EachOnce' /\ NamedAsked'
    <3>1. CASE AskFrame(c)
      BY <3>1, PlacesAsk
    <3>2. CASE maintainQ' = maintainQ
      <4>1. /\ UNCHANGED <<workQ, ready, held>>
            /\ \A w \in Worker : worker'[w] = worker[w] \/ worker'[w] = "idle"
        BY <1>1, ClientMoves
      <4>2. \A d \in Client : Asked(d) => Asked(d)'
        <5>1. ASSUME NEW d \in Client, Asked(d) PROVE Asked(d)'
          <6>1. CASE d = c
            BY <1>1, <5>1, <6>1, ClientMoves DEF Asked, Inside
          <6>2. CASE d # c
            BY <1>1, <5>1, <6>2, ClientMoves DEF Asked
          <6> QED
            BY <6>1, <6>2
        <5> QED
          BY <5>1
      <4>3. \A w \in Worker : \A i \in Instance : Computes(w, i)' => Computes(w, i)
        BY <4>1 DEF Computes
      <4> QED
        BY <3>2, <4>1, <4>2, <4>3, PlacesQuiet
    <3> QED
      BY <1>1, <3>1, <3>2, ClientMoves
  <2> QED
    BY <2>1, <2>2
<1>2. ASSUME \/ Maintainer \/ (\E w \in Worker : Working(w)) \/ Callbacker \/ Destroy \/ Destroying
      PROVE  SetUp' /\ \A d \in Client : Woken(d)
  BY <1>2, OthersMove, SetUpOthers
<1>3. CASE Maintainer
  <2>1. Typed' /\ EachOnce' /\ NamedAsked'
    BY <1>3, MaintainerTyped, PlacesMaintainer
  <2>2. UNCHANGED <<frame, phase, quiet>>
    BY <1>3 DEF Maintainer, TakeConstruct, TakeNotify, TakeStop, EndBatch, answerVars, endVars
  <2>3. Quiet'
    BY <1>2, <1>3, <2>2, QuietOthers
  <2>4. Answering'
    <3>1. CASE TakeNotify
      BY <3>1, AnswersReport
    <3>2. CASE TakeConstruct \/ TakeStop \/ EndBatch
      <4>1. UNCHANGED <<pc, answered, ready, frame, callbackQ, callbacker, invoking>>
        BY <3>2 DEF TakeConstruct, TakeStop, EndBatch, clientVars, answerVars, callbackVars
      <4> QED
        BY <4>1, AnswersOthers
    <3> QED
      BY <1>3, <3>1, <3>2 DEF Maintainer
  <2> QED
    BY <1>2, <1>3, <2>1, <2>3, <2>4
<1>4. ASSUME NEW w \in Worker, Working(w) PROVE IInv'
  <2>1. Typed' /\ EachOnce' /\ NamedAsked'
    BY <1>4, WorkerTyped, PlacesWorker
  <2>2. UNCHANGED <<pc, answered, ready, frame, callbackQ, callbacker, invoking, phase, quiet>>
    BY <1>4 DEF Working, Pop, Report, EndWorker, clientVars, answerVars, maintainVars, callbackVars, endVars
  <2>3. Quiet'
    BY <1>2, <1>4, <2>2, QuietOthers
  <2>4. Answering'
    BY <2>2, AnswersOthers
  <2> QED
    BY <1>2, <1>4, <2>1, <2>3, <2>4
<1>5. CASE Callbacker
  <2>1. Typed' /\ Quiet'
    BY <1>5, CallbackerTyped, QuietCallbacker
  <2>2. Answering'
    BY <1>5, AnswersTaken, AnswersWritten, AnswersNotified, AnswersStopped DEF Callbacker
  <2>3. UNCHANGED <<maintainQ, workQ, worker, held, ready>>
    BY <1>5 DEF Callbacker, TakeCallback, WriteResult, NotifyWaiter, EndCallbacker, maintainVars, workVars
  <2>4. /\ \A w \in Worker : \A i \in Instance : Computes(w, i)' => Computes(w, i)
        /\ \A d \in Client : Asked(d) => Asked(d)'
    BY <1>2, <1>5, <2>3 DEF Computes, Woken, Asked
  <2>5. EachOnce' /\ NamedAsked'
    BY <2>3, <2>4, PlacesQuiet
  <2> QED
    BY <1>2, <1>5, <2>1, <2>2, <2>5
<1>6. CASE Destroy \/ Destroying
  <2>1. Typed' /\ Quiet'
    BY <1>6, DestructorTyped, QuietDestructor
  <2>2. /\ UNCHANGED <<pc, frame, answered, ready, workQ, worker, held, callbacker, invoking>>
        /\ maintainQ' = maintainQ \/ maintainQ' = Append(maintainQ, Stop)
        /\ callbackQ' = callbackQ \/ StopCallback
    BY <1>6 DEF Destroy, Destroying, StopMaintain, StopCallback, StopWork,
         JoinWorkers, JoinCallbacker, JoinMaintainer, clientVars, answerVars, maintainVars, callbackVars, workVars
  <2>3. Answering'
    BY <2>2, AnswersOthers, AnswersStopped
  <2>4. EachOnce' /\ NamedAsked'
    BY <2>2, PlacesQuiet DEF Computes, Asked
  <2> QED
    BY <1>2, <1>6, <2>1, <2>3, <2>4
<1> QED
  BY <1>1, <1>3, <1>4, <1>5, <1>6 DEF Next

LEMMA StutterIInv ==
  ASSUME IInv, UNCHANGED vars
  PROVE  IInv'
<1>1. UNCHANGED <<pc, starter, reactions, node, output, loaded, frame, maintainQ, maintainer,
                  callbackQ, callbacker, invoking, workQ, worker, held, ready, answered, phase, quiet>>
  BY DEF vars, clientVars, answerVars, maintainVars, callbackVars, workVars, endVars
<1>2. Typed'
  BY <1>1 DEF IInv, Typed
<1>3. SetUp'
  BY <1>1, SetUpOthers DEF IInv, Woken
<1>4. EachOnce' /\ NamedAsked'
  BY <1>1, PlacesQuiet DEF IInv, Computes, Asked
<1>5. Answering'
  BY <1>1, AnswersOthers DEF IInv
<1>6. Quiet'
  BY <1>1, QuietOthers DEF IInv, Woken
<1> QED
  BY <1>2, <1>3, <1>4, <1>5, <1>6 DEF IInv

THEOREM Invariance == Spec => []IInv
<1>1. Init => IInv
  BY InitIInv
<1>2. IInv /\ [Next]_vars => IInv'
  BY StepIInv, StutterIInv
<1> QED
  BY <1>1, <1>2, PTL DEF Spec

\* However many clients find the nucleus at rest, whatever their steps: the threads
\* are made once, and a client that is about to ask holds its node's output, if the
\* clients of a node leave its first request to one of them (substrate.cpp:63).
THEOREM ThreadsMadeOnce == Spec => []SetUpOnce
<1>1. IInv => SetUpOnce
  BY DEF IInv, SetUp, MadeOnce, OutputKept, SetUpOnce
<1> QED
  BY <1>1, Invariance, PTL

\* The callback of a getFrame writes to, and notifies on, a stack that is still there.
THEOREM CallersThere == Spec => []StackAlive
<1>1. IInv => StackAlive
  <2> SUFFICES ASSUME IInv, callbacker \in {"writing", "notifying"}, invoking.for \notin Async
               PROVE  pc[invoking.for] \in {"sleep", "asleep"}
    BY DEF StackAlive
  <2>1. PICK c \in Client : /\ invoking.for = c
                            /\ \A d \in Client : invoking \in AnswersTo(d) <=> c = d
    BY CallOf DEF IInv
  <2>2. Serving(c)
    BY <2>1 DEF Serving
  <2>3. Asked(c)
    BY <2>2 DEF IInv, Answering, AnsweredOnce, AnsweredOnceBy
  <2> QED
    BY <2>1, <2>2, <2>3 DEF IInv, Answering, WakesLast, Waits
<1> QED
  BY <1>1, Invariance, PTL

\* When the destructor found every request answered and none failed, no worker has
\* an instance, or will get one, at any moment after; so not when they are gone.
THEOREM NoWorkLeft == Spec => []InstancesOutliveWork
<1>1. IInv => InstancesOutliveWork
  <2> SUFFICES ASSUME IInv, quiet
               PROVE  workQ = {} /\ \A w \in Worker : worker[w] # "busy"
    BY DEF InstancesOutliveWork
  <2>1. ASSUME NEW i \in Instance, Named(i) PROVE i \in ready
    <3>1. i[1] \in Client /\ Asked(i[1])
      BY <2>1 DEF IInv, NamedAsked
    <3>2. frame[i[1]] = "frame"
      BY <3>1 DEF IInv, Quiet
    <3>3. Needs(i[1]) \subseteq ready
      BY <3>1, <3>2 DEF IInv, Answering, Complete, Gets
    <3> QED
      BY <3>3 DEF Needs
  <2>2. workQ = {}
    <3>1. ASSUME NEW i \in workQ PROVE FALSE
      <4>1. i \in Instance
        BY DEF IInv, Typed
      <4>2. i \in ready
        BY <2>1, <4>1 DEF Named
      <4> QED
        BY <4>1, <4>2 DEF IInv, EachOnce, Apart
    <3> QED
      BY <3>1
  <2>3. ASSUME NEW w \in Worker, worker[w] = "busy" PROVE FALSE
    <3>1. held[w] \in Instance /\ Computes(w, held[w])
      BY <2>3 DEF IInv, Typed, Computes
    <3>2. held[w] \in ready
      BY <2>1, <3>1 DEF Named
    <3> QED
      BY <3>1, <3>2 DEF IInv, EachOnce, Apart
  <2> QED
    BY <2>2, <2>3
<1> QED
  BY <1>1, Invariance, PTL

=============================================================================
