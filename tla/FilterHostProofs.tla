-------------------------- MODULE FilterHostProofs --------------------------
(***************************************************************************)
(* If each function of a filter is correct alone, the filter is correct    *)
(* whatever runs at the same time: with any number of frames in progress,  *)
(* any order of calls, inputs that fail, and the end of the instance.      *)
(***************************************************************************)
EXTENDS FilterHost, SequenceTheorems, NaturalsInduction, WellFoundedInduction, TLAPS

\* Every set of numbers that is not empty has a least one.
LEMMA LeastNatural ==
  ASSUME NEW T \in SUBSET Nat, T # {}
  PROVE  \E m \in T : \A n \in T : m <= n
<1>1. PICK m \in T : \A n \in T : <<n, m>> \notin OpToRel(<, Nat)
  BY NatLessThanWellFounded, WFMin
<1>2. \A n \in T : ~(n < m)
  BY <1>1 DEF OpToRel
<1>3. \A n \in T : n \in Nat
  OBVIOUS
<1> QED
  BY <1>2, <1>3

-----------------------------------------------------------------------------
(* A function alone *)

\* How it can stand after k calls, where W has how it can before.
WaysLayer(inst, start, path, W, k) ==
  IF k = 0 THEN {start}
  ELSE {After(inst, s, path[k]) : s \in {s \in W[k - 1] : Possible(inst, s, path[k])}}

\* There is such a function for every path.
LEMMA WaysExist ==
  ASSUME NEW inst, NEW start, NEW path, Len(path) \in Nat
  PROVE  \E W : W = [k \in 0 .. Len(path) |-> WaysLayer(inst, start, path, W, k)]
<1> DEFINE Defined(n) == \E W : W = [k \in 0 .. n |-> WaysLayer(inst, start, path, W, k)]
<1>1. Defined(0)
  <2> DEFINE W0 == [k \in 0 .. 0 |-> {start}]
  <2>1. W0 = [k \in 0 .. 0 |-> WaysLayer(inst, start, path, W0, k)]
    BY DEF WaysLayer
  <2> QED
    BY <2>1
<1>2. ASSUME NEW n \in 0 .. Len(path), n # 0, Defined(n - 1)
      PROVE  Defined(n)
  <2>1. PICK V : V = [k \in 0 .. n - 1 |-> WaysLayer(inst, start, path, V, k)]
    BY <1>2
  <2> DEFINE W == [k \in 0 .. n |-> WaysLayer(inst, start, path, V, k)]
  <2>2. ASSUME NEW k \in 0 .. n - 1 PROVE W[k] = V[k]
    <3>1. k \in 0 .. n
      OBVIOUS
    <3> QED
      BY <2>1, <3>1
  <2>3. ASSUME NEW k \in 0 .. n
        PROVE  WaysLayer(inst, start, path, V, k) = WaysLayer(inst, start, path, W, k)
    <3>1. CASE k = 0
      BY <3>1 DEF WaysLayer
    <3>2. CASE k # 0
      <4>0. k - 1 \in 0 .. n - 1
        BY <3>2
      <4> HIDE DEF W
      <4>1. V[k - 1] = W[k - 1]
        BY <2>2, <4>0
      <4> QED
        BY <3>2, <4>1 DEF WaysLayer
    <3> QED
      BY <3>1, <3>2
  <2>4. W = [k \in 0 .. n |-> WaysLayer(inst, start, path, W, k)]
    BY <2>3
  <2> QED
    BY <2>4
<1> HIDE DEF Defined
<1>3. \A n \in 0 .. Len(path) : Defined(n)
  <2> SUFFICES ASSUME NEW n \in 0 .. Len(path), ~Defined(n) PROVE FALSE
    OBVIOUS
  <2> DEFINE T == {i \in 0 .. Len(path) : ~Defined(i)}
  <2>1. PICK m \in T : \A i \in T : m <= i
    BY LeastNatural, T \in SUBSET Nat
  <2>2. m # 0
    BY <2>1, <1>1
  <2>3. m - 1 \in 0 .. Len(path) /\ m - 1 \notin T
    BY <2>1, <2>2
  <2> QED
    BY <2>1, <2>2, <2>3, <1>2
<1> QED
  BY <1>3 DEF Defined

LEMMA AloneEquation ==
  ASSUME NEW inst, NEW start, NEW path, Len(path) \in Nat
  PROVE  Alone(inst, start, path)
           = [k \in 0 .. Len(path) |-> WaysLayer(inst, start, path, Alone(inst, start, path), k)]
<1>1. Alone(inst, start, path)
        = CHOOSE W : W = [k \in 0 .. Len(path) |-> WaysLayer(inst, start, path, W, k)]
  BY DEF Alone, WaysLayer
<1> QED
  BY <1>1, WaysExist

\* It stands as at the start before its first call, and after a call that it can make as
\* the call leaves it.
LEMMA AloneBegins ==
  ASSUME NEW inst, NEW start, NEW path, Len(path) \in Nat
  PROVE  start \in Alone(inst, start, path)[0]
<1> DEFINE W == Alone(inst, start, path)
<1>1. W = [k \in 0 .. Len(path) |-> WaysLayer(inst, start, path, W, k)]
  BY AloneEquation
<1> HIDE DEF W
<1>2. W[0] = {start}
  BY <1>1 DEF WaysLayer
<1> QED
  BY <1>2 DEF W

LEMMA AloneGoesOn ==
  ASSUME NEW inst, NEW start, NEW path, Len(path) \in Nat, NEW k \in 0 .. Len(path) - 1,
         NEW s \in Alone(inst, start, path)[k], Possible(inst, s, path[k + 1])
  PROVE  After(inst, s, path[k + 1]) \in Alone(inst, start, path)[k + 1]
<1> DEFINE W == Alone(inst, start, path)
<1>1. W = [i \in 0 .. Len(path) |-> WaysLayer(inst, start, path, W, i)]
  BY AloneEquation
<1>2. s \in W[k]
  OBVIOUS
<1> HIDE DEF W
<1>3. k + 1 \in 0 .. Len(path) /\ k + 1 # 0 /\ (k + 1) - 1 = k
  OBVIOUS
<1>4. W[k + 1] = {After(inst, t, path[k + 1]) : t \in {t \in W[k] : Possible(inst, t, path[k + 1])}}
  BY <1>1, <1>3 DEF WaysLayer
<1> QED
  BY <1>2, <1>4 DEF W

\* A record of how a function stands.
IsState(s) ==
  s = [stage |-> s.stage, node |-> s.node, frame |-> s.frame, asked |-> s.asked,
       text |-> s.text, kept |-> s.kept]

MadeFrom(s, srcs) == UNION {s.frame[srcs[i]] : i \in DOMAIN srcs}

\* What becomes of the record with each call.
LEMMA AfterNodes ==
  ASSUME NEW inst, NEW s, IsState(s), NEW call
  PROVE  LET t == After(inst, s, call) IN
         /\ call[1] = "propGetNode" => t = [s EXCEPT !.node = With(s.node, call[2], call[2])]
         /\ call[1] = "cloneNodeRef" =>
              t = [s EXCEPT !.node = With(s.node, call[2], NodeOf(inst, s, call[3]))]
         /\ call[1] \in {"freeNode", "takeOver"} => t = [s EXCEPT !.node = Without(s.node, call[2])]
BY DEF After, IsState

\* s when the node in its variable v is freed.
Losing(s, v) == [s EXCEPT !.node = Without(s.node, v)]

LEMMA AfterFreeNode ==
  ASSUME NEW inst, NEW s, IsState(s), NEW call, call[1] = "freeNode"
  PROVE  After(inst, s, call) = Losing(s, call[2])
BY DEF After, IsState, Losing

LEMMA AfterNothing ==
  ASSUME NEW inst, NEW s, IsState(s), NEW call,
         call[1] \in {"propSetNode", "setError", "createFilter", "freeKept"}
  PROVE  After(inst, s, call) = s
BY DEF After, IsState

\* s with a frame more, in its variable v and made of parts.
Gets(s, v, parts) == [s EXCEPT !.frame = With(s.frame, v, parts)]

Making == {"getFrame", "getFrameFilter", "newVideoFrame", "copyFrame", "propGetFrame", "cloneKept"}

\* What the frame is made of that a call makes.
Made(inst, s, call) ==
  CASE call[1] = "getFrame" -> {<<NodeOf(inst, s, call[3]), 0>>}
    [] call[1] = "getFrameFilter" -> {Input(inst, s, call)}
    [] call[1] = "newVideoFrame" -> MadeFrom(s, call[3])
    [] call[1] = "copyFrame" -> s.frame[call[3]]
    [] call[1] = "propGetFrame" -> {<<"map", 0>>}
    [] OTHER -> {}

LEMMA AfterMaking ==
  ASSUME NEW inst, NEW s, IsState(s), NEW call, call[1] \in Making
  PROVE  After(inst, s, call) = Gets(s, call[2], Made(inst, s, call))
BY DEF After, IsState, MadeFrom, Input, Making, Made, Gets

LEMMA AfterFreeFrame ==
  ASSUME NEW inst, NEW s, IsState(s), NEW call, call[1] = "freeFrame"
  PROVE  After(inst, s, call) = [s EXCEPT !.frame = Without(s.frame, call[2])]
BY DEF After, IsState

LEMMA AfterCompute ==
  ASSUME NEW inst, NEW s, IsState(s), NEW call, call[1] = "compute"
  PROVE  After(inst, s, call) = [s EXCEPT !.frame = [s.frame EXCEPT ![call[2]] =
                                           s.frame[call[2]] \cup MadeFrom(s, call[3])]]
BY DEF After, IsState, MadeFrom

\* s when the frame in its variable v is kept.
Keeping(s, v) == [s EXCEPT !.frame = Without(s.frame, v), !.kept = TRUE]

LEMMA AfterKeep ==
  ASSUME NEW inst, NEW s, IsState(s), NEW call, call[1] = "keep"
  PROVE  After(inst, s, call) = Keeping(s, call[2])
BY DEF After, IsState, Keeping

LEMMA AfterReturn ==
  ASSUME NEW inst, NEW s, IsState(s), NEW call, call[1] = "return"
  PROVE  After(inst, s, call) = Gets([s EXCEPT !.frame = Without(s.frame, call[2])], "returned",
                                      s.frame[call[2]])
BY DEF After, IsState, Gets

LEMMA AfterRequest ==
  ASSUME NEW inst, NEW s, IsState(s), NEW call, call[1] = "requestFrameFilter"
  PROVE  After(inst, s, call) = [s EXCEPT !.asked = s.asked \cup {<<NodeOf(inst, s, call[2]), call[3]>>}]
BY DEF After, IsState

LEMMA AfterError ==
  ASSUME NEW inst, NEW s, IsState(s), NEW call, call[1] = "setFilterError"
  PROVE  After(inst, s, call) = [s EXCEPT !.text = call[2]]
BY DEF After, IsState

LEMMA AfterClear ==
  ASSUME NEW inst, NEW s, IsState(s), NEW call, call[1] = "clearMap"
  PROVE  After(inst, s, call) = [s EXCEPT !.text = IF s.text = "map" THEN "gone" ELSE s.text]
BY DEF After, IsState

LEMMA AfterIsState ==
  ASSUME NEW inst, NEW s, IsState(s), NEW call
  PROVE  /\ IsState(After(inst, s, call))
         /\ After(inst, s, call).stage = s.stage
BY DEF After, IsState

-----------------------------------------------------------------------------
(* The handles of one owner among all handles *)

\* Among the handles in h, those of owner o are in the variables of f.
Holds(h, o, f) ==
  \A v : /\ <<o, v>> \in DOMAIN h <=> v \in DOMAIN f
         /\ v \in DOMAIN f => h[<<o, v>>] = f[v]

LEMMA HoldsAdded ==
  ASSUME NEW h, NEW o, NEW f, Holds(h, o, f), NEW v, NEW x
  PROVE  /\ Holds(With(h, <<o, v>>, x), o, With(f, v, x))
         /\ \A p, g : p # o /\ Holds(h, p, g) => Holds(With(h, <<o, v>>, x), p, g)
BY DEF Holds, With

LEMMA HoldsRemoved ==
  ASSUME NEW h, NEW o, NEW f, Holds(h, o, f), NEW v
  PROVE  /\ Holds(Without(h, <<o, v>>), o, Without(f, v))
         /\ \A p, g : p # o /\ Holds(h, p, g) => Holds(Without(h, <<o, v>>), p, g)
BY DEF Holds, Without

LEMMA HoldsChanged ==
  ASSUME NEW h, NEW o, NEW f, Holds(h, o, f), NEW v \in DOMAIN f, NEW x
  PROVE  /\ Holds([h EXCEPT ![<<o, v>>] = x], o, [f EXCEPT ![v] = x])
         /\ \A p, g : p # o /\ Holds(h, p, g) => Holds([h EXCEPT ![<<o, v>>] = x], p, g)
BY DEF Holds

-----------------------------------------------------------------------------
(* What a call does, seen by the function that makes it and by the others  *)

\* Function c, of a frame or that of the creation, stands like s.
Stands(c, inst, s) ==
  /\ IsState(s) /\ Holds(node, c, s.node) /\ Holds(frame, c, s.frame)
  /\ \/ c = Create /\ inst = <<>> /\ s.stage = "creating"
     \/ /\ c \in Frames /\ c # Create /\ Holds(node, Create, inst)
        /\ s.stage \in {"initial", "processing"} /\ stage[c] = s.stage
        /\ asked[c] = s.asked /\ text[c] = s.text /\ (s.kept => kept # {})

\* It goes on and then stands like t; nothing else changes.
ComesTo(c, t) ==
  /\ GoesOn(c)
  /\ Holds(node', c, t.node) /\ Holds(frame', c, t.frame)
  /\ \A p, f : p # c /\ Holds(node, p, f) => Holds(node', p, f)
  /\ \A p, f : p # c /\ Holds(frame, p, f) => Holds(frame', p, f)
  /\ \A h \in DOMAIN node' : h \in DOMAIN node \/ \E v : h = <<c, v>>
  /\ \A h \in DOMAIN frame' : h \in DOMAIN frame \/ \E v : h = <<c, v>>
  /\ DOMAIN asked' = DOMAIN asked /\ DOMAIN text' = DOMAIN text
  /\ \A n \in Frames : /\ asked'[n] = IF n = c THEN t.asked ELSE asked[n]
                       /\ text'[n] = IF n = c THEN t.text ELSE text[n]
  /\ kept' = kept \/ (Coming(c)[1] = "keep" /\ kept' = {{}})
  /\ c \in Frames /\ t.kept => kept' # {}
  /\ UNCHANGED <<filter, phase, stage, product, source>>

Typed ==
  /\ DOMAIN stage = Frames /\ DOMAIN asked = Frames /\ DOMAIN text = Frames
  /\ Frames \subseteq Nat

\* Where the function finds a node.
LEMMA Found ==
  ASSUME NEW c, NEW inst, NEW s, Stands(c, inst, s)
  PROVE  /\ \A v : HasNode(c, v) <=> v \in DOMAIN s.node \cup DOMAIN inst
         /\ \A v : HasNode(c, v) => node[Node(c, v)] = NodeOf(inst, s, v)
         /\ \A v \in DOMAIN s.node : Node(c, v) = <<c, v>>
         /\ \A v : HasFrame(c, v) <=> v \in DOMAIN s.frame
         /\ \A v \in DOMAIN s.frame : frame[<<c, v>>] = s.frame[v]
<1>1. DOMAIN <<>> = {}
  OBVIOUS
<1> QED
  BY <1>1 DEF Stands, Holds, HasNode, HasFrame, Node, NodeOf

LEMMA NodeCalls ==
  ASSUME Typed, NEW c, NEW inst, NEW s, Stands(c, inst, s), Proper(filter, inst, s, Coming(c)),
         \/ propGetNode(c) \/ cloneNodeRef(c) \/ freeNode(c) \/ takeOver(c)
         \/ propSetNode(c) \/ setError(c)
  PROVE  Possible(inst, s, Coming(c)) /\ ComesTo(c, After(inst, s, Coming(c)))
<1> DEFINE call == Coming(c)
           t == After(inst, s, call)
<1>0. IsState(s) /\ IsState(t) /\ Holds(node, c, s.node) /\ Holds(frame, c, s.frame)
  BY AfterIsState DEF Stands
<1>a. /\ \A n \in Frames : n = c => asked[n] = s.asked /\ text[n] = s.text
      /\ c \in Frames /\ s.kept => kept # {}
  BY DEF Stands, Typed, Create
<1>b. ASSUME OnlyNodes, GoesOn(c), [s EXCEPT !.node = t.node] = t,
             Holds(node', c, t.node),
             \A p, f : p # c /\ Holds(node, p, f) => Holds(node', p, f),
             \A h \in DOMAIN node' : h \in DOMAIN node \/ \E v : h = <<c, v>>
      PROVE  ComesTo(c, t)
  <2>1. t.frame = s.frame /\ t.asked = s.asked /\ t.text = s.text /\ t.kept = s.kept
    BY <1>0, <1>b DEF IsState
  <2> HIDE DEF t
  <2> QED
    BY <1>0, <1>a, <1>b, <2>1 DEF ComesTo, OnlyNodes
<1> HIDE DEF t
<1>1. CASE propGetNode(c)
  <2>1. t = [s EXCEPT !.node = With(s.node, call[2], call[2])]
    BY <1>1, <1>0, AfterNodes DEF propGetNode, Does, Reaches, t
  <2>2. t.node = With(s.node, call[2], call[2]) /\ [s EXCEPT !.node = t.node] = t
    BY <2>1, <1>0 DEF IsState
  <2>3. node' = With(node, <<c, call[2]>>, call[2])
    BY <1>1 DEF propGetNode, Arg
  <2>4. /\ Holds(node', c, t.node)
        /\ \A p, f : p # c /\ Holds(node, p, f) => Holds(node', p, f)
    BY <1>0, <2>2, <2>3, HoldsAdded
  <2>5. \A h \in DOMAIN node' : h \in DOMAIN node \/ \E v : h = <<c, v>>
    BY <2>3 DEF With
  <2>6. ComesTo(c, t)
    BY <1>1, <1>b, <2>2, <2>4, <2>5 DEF propGetNode, Does
  <2> QED
    BY <1>1, <2>6 DEF propGetNode, Does, Reaches, Possible, HoldsUsed, NodesUsed, FramesUsed, t
<1>2. CASE cloneNodeRef(c)
  <2> DEFINE x == NodeOf(inst, s, call[3])
  <2>0. HasNode(c, call[3]) /\ call[3] \in DOMAIN s.node \cup DOMAIN inst
        /\ node[Node(c, call[3])] = x
    BY <1>2, Found DEF cloneNodeRef, Arg
  <2> HIDE DEF x
  <2>1. t = [s EXCEPT !.node = With(s.node, call[2], x)]
    BY <1>2, <1>0, AfterNodes DEF cloneNodeRef, Does, Reaches, t, x
  <2>2. t.node = With(s.node, call[2], x) /\ [s EXCEPT !.node = t.node] = t
    BY <2>1, <1>0 DEF IsState
  <2>3. node' = With(node, <<c, call[2]>>, x)
    BY <1>2, <2>0 DEF cloneNodeRef, Arg
  <2>4. /\ Holds(node', c, t.node)
        /\ \A p, f : p # c /\ Holds(node, p, f) => Holds(node', p, f)
    BY <1>0, <2>2, <2>3, HoldsAdded
  <2>5. \A h \in DOMAIN node' : h \in DOMAIN node \/ \E v : h = <<c, v>>
    BY <2>3 DEF With
  <2>6. ComesTo(c, t)
    BY <1>2, <1>b, <2>2, <2>4, <2>5 DEF cloneNodeRef, Does
  <2> QED
    BY <1>2, <2>0, <2>6 DEF cloneNodeRef, Does, Reaches, Possible, HoldsUsed, NodesUsed, FramesUsed, t
<1>3. CASE freeNode(c) \/ takeOver(c)
  <2>0. /\ HasNode(c, call[2]) /\ call[1] \in {"freeNode", "takeOver"}
        /\ GoesOn(c) /\ OnlyNodes /\ node' = Without(node, Node(c, call[2]))
    BY <1>3 DEF freeNode, takeOver, Does, Reaches, Arg
  <2>a. call[2] \in DOMAIN s.node /\ Node(c, call[2]) = <<c, call[2]>>
    BY <2>0, Found DEF Proper
  <2>1. t = [s EXCEPT !.node = Without(s.node, call[2])]
    BY <2>0, <1>0, AfterNodes DEF t
  <2>2. t.node = Without(s.node, call[2]) /\ [s EXCEPT !.node = t.node] = t
    BY <2>1, <1>0 DEF IsState
  <2>3. node' = Without(node, <<c, call[2]>>)
    BY <2>0, <2>a
  <2>4. /\ Holds(node', c, t.node)
        /\ \A p, f : p # c /\ Holds(node, p, f) => Holds(node', p, f)
    BY <1>0, <2>2, <2>3, HoldsRemoved
  <2>5. \A h \in DOMAIN node' : h \in DOMAIN node \/ \E v : h = <<c, v>>
    BY <2>3 DEF Without
  <2>6. ComesTo(c, t)
    BY <2>0, <1>b, <2>2, <2>4, <2>5
  <2> QED
    BY <2>0, <2>a, <2>6 DEF Possible, HoldsUsed, NodesUsed, FramesUsed, t
<1>4. CASE propSetNode(c) \/ setError(c)
  <2>0. /\ call[1] = "propSetNode" => HasNode(c, call[2])
        /\ call[1] \in {"propSetNode", "setError"}
        /\ GoesOn(c) /\ OnlyNodes /\ node' = node
    BY <1>4 DEF propSetNode, setError, Does, Reaches, Arg
  <2>1. t = s
    BY <2>0, <1>0, AfterNothing DEF t
  <2>2. [s EXCEPT !.node = t.node] = t
    BY <2>1, <1>0 DEF IsState
  <2>6. ComesTo(c, t)
    BY <2>0, <1>b, <2>1, <2>2, <1>0
  <2> QED
    BY <2>0, <2>6, Found DEF Possible, HoldsUsed, NodesUsed, FramesUsed, t
<1> QED
  BY <1>1, <1>2, <1>3, <1>4 DEF t

\* The frame calls leave everything but the frames, and what is kept, alone.
LEMMA FrameCallComesTo ==
  ASSUME Typed, NEW c, NEW inst, NEW s, Stands(c, inst, s), NEW t, IsState(t),
         OnlyFrames, GoesOn(c), [s EXCEPT !.frame = t.frame, !.kept = t.kept] = t,
         Holds(frame', c, t.frame),
         \A p, f : p # c /\ Holds(frame, p, f) => Holds(frame', p, f),
         \A h \in DOMAIN frame' : h \in DOMAIN frame \/ \E v : h = <<c, v>>,
         kept' = kept \/ (Coming(c)[1] = "keep" /\ kept' = {{}}),
         t.kept => s.kept \/ kept' = {{}}
  PROVE  ComesTo(c, t)
<1>1. IsState(s) /\ Holds(node, c, s.node)
  BY DEF Stands
<1>2. /\ \A n \in Frames : n = c => asked[n] = s.asked /\ text[n] = s.text
      /\ c \in Frames /\ s.kept => kept # {}
  BY DEF Stands, Typed, Create
<1>3. t.node = s.node /\ t.asked = s.asked /\ t.text = s.text
  BY <1>1 DEF IsState
<1>4. c \in Frames /\ t.kept => kept' # {}
  BY <1>2
<1> QED
  BY <1>1, <1>2, <1>3, <1>4 DEF ComesTo, OnlyFrames

LEMMA AssignComesTo ==
  ASSUME Typed, NEW c, NEW inst, NEW s, Stands(c, inst, s), NEW v, NEW x, NEW t,
         t = Gets(s, v, x),
         Assign(c, v, x), GoesOn(c), OnlyFrames, UNCHANGED kept
  PROVE  ComesTo(c, t)
<1>1. IsState(s) /\ Holds(frame, c, s.frame)
  BY DEF Stands
<1>2. /\ IsState(t) /\ t.frame = With(s.frame, v, x) /\ t.kept = s.kept
      /\ [s EXCEPT !.frame = t.frame, !.kept = t.kept] = t
  BY <1>1 DEF IsState, Gets
<1>3. frame' = With(frame, <<c, v>>, x)
  BY DEF Assign
<1>4. /\ Holds(frame', c, t.frame)
      /\ \A p, f : p # c /\ Holds(frame, p, f) => Holds(frame', p, f)
  BY <1>1, <1>2, <1>3, HoldsAdded
<1>5. \A h \in DOMAIN frame' : h \in DOMAIN frame \/ \E w : h = <<c, w>>
  BY <1>3 DEF With
<1> QED
  BY <1>2, <1>4, <1>5, FrameCallComesTo

\* The frames of several variables.
LEMMA FoundParts ==
  ASSUME NEW c, NEW inst, NEW s, Stands(c, inst, s), NEW srcs, HasFrames(c, srcs)
  PROVE  /\ Parts(c, srcs) = MadeFrom(s, srcs)
         /\ {srcs[i] : i \in DOMAIN srcs} \subseteq DOMAIN s.frame
<1>1. \A i \in DOMAIN srcs : srcs[i] \in DOMAIN s.frame /\ frame[<<c, srcs[i]>>] = s.frame[srcs[i]]
  BY Found DEF HasFrames
<1>2. Parts(c, srcs) = UNION {s.frame[srcs[i]] : i \in DOMAIN srcs}
  BY <1>1 DEF Parts
<1> QED
  BY <1>1, <1>2 DEF MadeFrom

LEMMA MakingCalls ==
  ASSUME Typed, NEW c, NEW inst, NEW s, Stands(c, inst, s), Proper(filter, inst, s, Coming(c)),
         kept \subseteq {{}},
         \/ getFrame(c) \/ getFrameFilter(c) \/ newVideoFrame(c) \/ copyFrame(c)
         \/ propGetFrame(c) \/ cloneKept(c)
  PROVE  Possible(inst, s, Coming(c)) /\ ComesTo(c, After(inst, s, Coming(c)))
<1> DEFINE call == Coming(c)
           x == Made(inst, s, call)
<1>1. IsState(s) /\ OnlyFrames /\ GoesOn(c) /\ UNCHANGED kept /\ call[1] \in Making
  BY DEF Stands, getFrame, getFrameFilter, newVideoFrame, copyFrame, propGetFrame, cloneKept,
         Does, Reaches, Making
<1>2. Assign(c, call[2], x) => ComesTo(c, After(inst, s, call))
  BY <1>1, AfterMaking, AssignComesTo
<1> HIDE DEF x
<1>3. CASE getFrame(c)
  <2>1. /\ call[1] = "getFrame" /\ HasNode(c, call[3])
        /\ Assign(c, call[2], {<<node[Node(c, call[3])], 0>>})
    BY <1>3 DEF getFrame, Does, Reaches, Arg
  <2>2. node[Node(c, call[3])] = NodeOf(inst, s, call[3]) /\ call[3] \in DOMAIN s.node \cup DOMAIN inst
    BY <2>1, Found
  <2>3. x = {<<NodeOf(inst, s, call[3]), 0>>}
    BY <2>1 DEF Made, x
  <2> QED
    BY <1>2, <2>1, <2>2, <2>3 DEF Possible, HoldsUsed, NodesUsed, FramesUsed
<1>4. CASE getFrameFilter(c)
  <2>1. /\ call[1] = "getFrameFilter" /\ HasNode(c, call[3])
        /\ Assign(c, call[2], {<<node[Node(c, call[3])], call[4]>>})
    BY <1>4 DEF getFrameFilter, Does, Reaches, Arg
  <2>2. node[Node(c, call[3])] = NodeOf(inst, s, call[3]) /\ call[3] \in DOMAIN s.node \cup DOMAIN inst
    BY <2>1, Found
  <2>3. x = {Input(inst, s, call)}
    BY <2>1 DEF Made, x
  <2>4. Input(inst, s, call) \in s.asked
    BY <2>1, <2>2 DEF Proper
  <2>5. Assign(c, call[2], x)
    BY <2>1, <2>2, <2>3 DEF Input
  <2> QED
    BY <1>2, <2>1, <2>2, <2>4, <2>5 DEF Possible, HoldsUsed, NodesUsed, FramesUsed
<1>5. CASE newVideoFrame(c)
  <2>1. call[1] = "newVideoFrame" /\ HasFrames(c, call[3]) /\ Assign(c, call[2], Parts(c, call[3]))
    BY <1>5 DEF newVideoFrame, Does, Reaches, Arg
  <2>2. Parts(c, call[3]) = MadeFrom(s, call[3])
    BY <2>1, FoundParts
  <2>3. x = MadeFrom(s, call[3])
    BY <2>1 DEF Made, x
  <2> QED
    BY <1>2, <2>1, <2>2, <2>3, FoundParts DEF Possible, HoldsUsed, NodesUsed, FramesUsed
<1>6. CASE copyFrame(c)
  <2>1. call[1] = "copyFrame" /\ HasFrame(c, call[3]) /\ Assign(c, call[2], frame[<<c, call[3]>>])
    BY <1>6 DEF copyFrame, Does, Reaches, Arg
  <2>2. call[3] \in DOMAIN s.frame /\ frame[<<c, call[3]>>] = s.frame[call[3]]
    BY <2>1, Found
  <2>3. x = s.frame[call[3]]
    BY <2>1 DEF Made, x
  <2> QED
    BY <1>2, <2>1, <2>2, <2>3 DEF Possible, HoldsUsed, NodesUsed, FramesUsed
<1>7. CASE propGetFrame(c)
  <2>1. call[1] = "propGetFrame" /\ Assign(c, call[2], {<<"map", 0>>})
    BY <1>7 DEF propGetFrame, Does, Reaches, Arg
  <2>2. x = {<<"map", 0>>}
    BY <2>1 DEF Made, x
  <2> QED
    BY <1>2, <2>1, <2>2 DEF Possible, HoldsUsed, NodesUsed, FramesUsed
<1>8. CASE cloneKept(c)
  <2>1. call[1] = "cloneKept" /\ \E parts \in kept : Assign(c, call[2], parts)
    BY <1>8 DEF cloneKept, Does, Reaches, Arg
  <2>2. \A parts \in kept : parts = {}
    OBVIOUS
  <2>3. x = {}
    BY <2>1 DEF Made, x
  <2> QED
    BY <1>2, <2>1, <2>2, <2>3 DEF Possible, HoldsUsed, NodesUsed, FramesUsed
<1> QED
  BY <1>3, <1>4, <1>5, <1>6, <1>7, <1>8

LEMMA UsingCalls ==
  ASSUME Typed, NEW c, NEW inst, NEW s, Stands(c, inst, s), Proper(filter, inst, s, Coming(c)),
         freeFrame(c) \/ compute(c) \/ keep(c) \/ return(c)
  PROVE  Possible(inst, s, Coming(c)) /\ ComesTo(c, After(inst, s, Coming(c)))
<1> DEFINE call == Coming(c)
           t == After(inst, s, call)
<1>s. IsState(s)
  BY DEF Stands
<1>1. /\ IsState(s) /\ Holds(frame, c, s.frame) /\ OnlyFrames /\ GoesOn(c)
      /\ call[1] \in {"freeFrame", "compute", "keep", "return"}
      /\ HasFrame(c, call[2]) /\ call[2] \in DOMAIN s.frame
      /\ frame[<<c, call[2]>>] = s.frame[call[2]]
  BY Found DEF Stands, freeFrame, compute, keep, return, Does, Reaches, Arg
<1>2. IsState(t)
  BY <1>1, AfterIsState
<1> HIDE DEF t
<1>4. CASE freeFrame(c)
  <2>1. call[1] = "freeFrame" /\ frame' = Without(frame, <<c, call[2]>>) /\ kept' = kept
    BY <1>4 DEF freeFrame, Does, Reaches, Arg
  <2>a. t = [s EXCEPT !.frame = Without(s.frame, call[2])]
    BY <1>s, <2>1, AfterFreeFrame DEF t
  <2>2. /\ t.frame = Without(s.frame, call[2]) /\ t.kept = s.kept
        /\ [s EXCEPT !.frame = t.frame, !.kept = t.kept] = t
    BY <1>1, <2>a DEF IsState
  <2>3. /\ Holds(frame', c, t.frame)
        /\ \A p, f : p # c /\ Holds(frame, p, f) => Holds(frame', p, f)
    BY <1>1, <2>1, <2>2, HoldsRemoved
  <2>4. \A h \in DOMAIN frame' : h \in DOMAIN frame \/ \E w : h = <<c, w>>
    BY <2>1 DEF Without
  <2>5. ComesTo(c, t)
    BY <1>1, <1>2, <2>1, <2>2, <2>3, <2>4, FrameCallComesTo
  <2> QED
    BY <1>1, <2>1, <2>5 DEF Possible, HoldsUsed, NodesUsed, FramesUsed, t
<1>5. CASE compute(c)
  <2>1. /\ call[1] = "compute" /\ HasFrames(c, call[3]) /\ kept' = kept
        /\ frame' = [frame EXCEPT ![<<c, call[2]>>] = @ \cup Parts(c, call[3])]
    BY <1>5 DEF compute, Does, Reaches, Arg
  <2>2. /\ Parts(c, call[3]) = MadeFrom(s, call[3])
        /\ {call[3][i] : i \in DOMAIN call[3]} \subseteq DOMAIN s.frame
    BY <2>1, FoundParts
  <2> DEFINE x == s.frame[call[2]] \cup MadeFrom(s, call[3])
  <2>3. frame' = [frame EXCEPT ![<<c, call[2]>>] = x]
    BY <1>1, <2>1, <2>2
  <2>a. t = [s EXCEPT !.frame = [s.frame EXCEPT ![call[2]] = s.frame[call[2]] \cup MadeFrom(s, call[3])]]
    BY <1>s, <2>1, AfterCompute DEF t
  <2>b. t = [s EXCEPT !.frame = [s.frame EXCEPT ![call[2]] = x]]
    BY <1>1, <2>a DEF IsState
  <2> HIDE DEF x
  <2>4. /\ t.frame = [s.frame EXCEPT ![call[2]] = x] /\ t.kept = s.kept
        /\ [s EXCEPT !.frame = t.frame, !.kept = t.kept] = t
    BY <1>1, <2>b DEF IsState
  <2> DEFINE h1 == [frame EXCEPT ![<<c, call[2]>>] = x]
             f1 == [s.frame EXCEPT ![call[2]] = x]
  <2>c. Holds(h1, c, f1) /\ \A p, f : p # c /\ Holds(frame, p, f) => Holds(h1, p, f)
    BY <1>1, HoldsChanged
  <2> HIDE DEF h1, f1
  <2>5. /\ Holds(frame', c, t.frame)
        /\ \A p, f : p # c /\ Holds(frame, p, f) => Holds(frame', p, f)
    BY <2>3, <2>4, <2>c DEF h1, f1
  <2>6. \A h \in DOMAIN frame' : h \in DOMAIN frame \/ \E w : h = <<c, w>>
    BY <2>3
  <2>7. ComesTo(c, t)
    BY <1>1, <1>2, <2>1, <2>4, <2>5, <2>6, FrameCallComesTo
  <2> QED
    BY <1>1, <2>1, <2>2, <2>7 DEF Possible, HoldsUsed, NodesUsed, FramesUsed, t
<1>6. CASE keep(c)
  <2>1. /\ call[1] = "keep" /\ frame' = Without(frame, <<c, call[2]>>)
        /\ kept' = {frame[<<c, call[2]>>]}
    BY <1>6 DEF keep, Does, Reaches, Arg
  <2>a. kept' = {{}}
    <3>1. s.frame[call[2]] = {}
      BY <1>1, <2>1 DEF Proper
    <3> QED
      BY <1>1, <2>1, <3>1
  <2>b. t = Keeping(s, call[2])
    BY <1>s, <2>1, AfterKeep DEF t
  <2>2. /\ t.frame = Without(s.frame, call[2])
        /\ [s EXCEPT !.frame = t.frame, !.kept = t.kept] = t
    BY <1>1, <2>b DEF IsState, Keeping
  <2>3. /\ Holds(frame', c, t.frame)
        /\ \A p, f : p # c /\ Holds(frame, p, f) => Holds(frame', p, f)
    BY <1>1, <2>1, <2>2, HoldsRemoved
  <2>4. \A h \in DOMAIN frame' : h \in DOMAIN frame \/ \E w : h = <<c, w>>
    BY <2>1 DEF Without
  <2>5. ComesTo(c, t)
    BY <1>1, <1>2, <2>1, <2>a, <2>2, <2>3, <2>4, FrameCallComesTo
  <2> QED
    BY <1>1, <2>1, <2>5 DEF Possible, HoldsUsed, NodesUsed, FramesUsed, t
<1>7. CASE return(c)
  <2> DEFINE x == s.frame[call[2]]
             h1 == Without(frame, <<c, call[2]>>)
             f1 == Without(s.frame, call[2])
  <2>1. call[1] = "return" /\ frame' = With(h1, <<c, "returned">>, x) /\ kept' = kept
    BY <1>7, <1>1 DEF return, Does, Reaches, Arg
  <2>a. t = Gets([s EXCEPT !.frame = f1], "returned", x)
    BY <1>s, <2>1, AfterReturn DEF t
  <2>2. /\ t.frame = With(f1, "returned", x) /\ t.kept = s.kept
        /\ [s EXCEPT !.frame = t.frame, !.kept = t.kept] = t
    BY <1>1, <2>a DEF IsState, Gets
  <2>3. Holds(h1, c, f1) /\ \A p, f : p # c /\ Holds(frame, p, f) => Holds(h1, p, f)
    BY <1>1, HoldsRemoved
  <2>4. \A h \in DOMAIN frame' : h \in DOMAIN frame \/ \E w : h = <<c, w>>
    BY <2>1 DEF With, Without
  <2> HIDE DEF h1, f1, x
  <2>5. /\ Holds(frame', c, t.frame)
        /\ \A p, f : p # c /\ Holds(h1, p, f) => Holds(frame', p, f)
    BY <2>1, <2>2, <2>3, HoldsAdded
  <2>6. ComesTo(c, t)
    BY <1>1, <1>2, <2>1, <2>2, <2>3, <2>4, <2>5, FrameCallComesTo
  <2> QED
    BY <1>1, <2>1, <2>6 DEF Possible, HoldsUsed, NodesUsed, FramesUsed, t
<1> QED
  BY <1>4, <1>5, <1>6, <1>7 DEF t

\* A request, an error and a cleared map; asking in arAllFramesReady ends the program.
LEMMA OtherCalls ==
  ASSUME Typed, NEW c, NEW inst, NEW s, Stands(c, inst, s), Proper(filter, inst, s, Coming(c)),
         requestFrameFilter(c) \/ setFilterError(c) \/ clearMap(c)
  PROVE  \/ Possible(inst, s, Coming(c)) /\ ComesTo(c, After(inst, s, Coming(c)))
         \/ Terminate /\ Known("terminates") /\ UNCHANGED <<filter, asked, product>>
<1> DEFINE call == Coming(c)
           t == After(inst, s, call)
<1>s. IsState(s)
  BY DEF Stands
<1>1. /\ IsState(s) /\ IsState(t) /\ Holds(node, c, s.node) /\ Holds(frame, c, s.frame)
      /\ call[1] \in {"requestFrameFilter", "setFilterError", "clearMap"}
      /\ call[1] \in Vocabulary[s.stage]
  BY AfterIsState DEF Stands, requestFrameFilter, setFilterError, clearMap, Does, Reaches, Proper
<1>2. s.stage # "creating"
  BY <1>1 DEF Vocabulary
<1>3. /\ c \in Frames /\ stage[c] = s.stage /\ asked[c] = s.asked /\ text[c] = s.text
      /\ s.kept => kept # {}
  BY <1>2 DEF Stands
<1> HIDE DEF t
<1>5. CASE requestFrameFilter(c)
  <2>1. /\ call[1] = "requestFrameFilter" /\ HasNode(c, call[2])
        /\ UNCHANGED <<filter, node, frame, kept, stage, text, product, source>>
    BY <1>5 DEF requestFrameFilter, Reaches, Arg
  <2>2. call[2] \in DOMAIN s.node \cup DOMAIN inst /\ node[Node(c, call[2])] = NodeOf(inst, s, call[2])
    BY <2>1, Found
  <2>3. CASE s.stage # "initial"
    <3>1. Terminate /\ UNCHANGED asked
      BY <1>5, <1>3, <2>3 DEF requestFrameFilter
    <3>2. Known("terminates")
      BY <2>1, <2>3 DEF Proper, Known
    <3> QED
      BY <2>1, <3>1, <3>2
  <2>4. CASE s.stage = "initial"
    <3> DEFINE x == NodeOf(inst, s, call[2])
    <3>1. /\ asked' = [asked EXCEPT ![c] = @ \cup {<<x, call[3]>>}]
          /\ GoesOn(c) /\ phase' = phase
      BY <1>5, <1>3, <2>2, <2>4 DEF requestFrameFilter, Arg
    <3>2. /\ t.asked = s.asked \cup {<<x, call[3]>>} /\ t.node = s.node /\ t.frame = s.frame
          /\ t.text = s.text /\ t.kept = s.kept
      <4>1. t = [s EXCEPT !.asked = s.asked \cup {<<NodeOf(inst, s, call[2]), call[3]>>}]
        BY <1>1, <2>1, AfterRequest DEF t
      <4> QED
        BY <1>1, <4>1 DEF IsState
    <3> HIDE DEF x
    <3>3. asked'[c] = t.asked /\ DOMAIN asked' = DOMAIN asked
          /\ \A n \in Frames : n # c => asked'[n] = asked[n]
      BY <1>3, <3>1, <3>2 DEF Typed
    <3>4. ComesTo(c, t)
      BY <1>1, <1>3, <2>1, <3>1, <3>2, <3>3 DEF ComesTo
    <3> QED
      BY <2>1, <2>2, <2>4, <3>4 DEF Possible, HoldsUsed, NodesUsed, FramesUsed, t
  <2> QED
    BY <2>3, <2>4
<1>6. CASE setFilterError(c) \/ clearMap(c)
  <2> DEFINE x == IF call[1] = "setFilterError" THEN call[2] ELSE IF s.text = "map" THEN "gone" ELSE s.text
  <2>1. /\ call[1] \in {"setFilterError", "clearMap"} /\ GoesOn(c)
        /\ UNCHANGED <<filter, phase, node, frame, kept, asked, stage, product, source>>
    BY <1>6 DEF setFilterError, clearMap, Does, Reaches
  <2>2. text' = [text EXCEPT ![c] = x]
    BY <1>3, <1>6, <2>1 DEF setFilterError, clearMap, Does, Reaches, Arg, Typed
  <2>3. /\ t.text = x /\ t.node = s.node /\ t.frame = s.frame /\ t.asked = s.asked
        /\ t.kept = s.kept
    <3>1. t = [s EXCEPT !.text = x]
      <4>1. CASE call[1] = "setFilterError"
        BY <1>1, <4>1, AfterError DEF t
      <4>2. CASE call[1] = "clearMap"
        <5>1. t = [s EXCEPT !.text = IF s.text = "map" THEN "gone" ELSE s.text]
          BY <1>s, <4>2, AfterClear DEF t
        <5>2. x = IF s.text = "map" THEN "gone" ELSE s.text
          BY <4>2
        <5> QED
          BY <1>1, <5>1, <5>2 DEF IsState
      <4> QED
        BY <2>1, <4>1, <4>2
    <3> QED
      BY <1>1, <3>1 DEF IsState
  <2> HIDE DEF x
  <2>4. text'[c] = t.text /\ DOMAIN text' = DOMAIN text
        /\ \A n \in Frames : n # c => text'[n] = text[n]
    BY <1>3, <2>2, <2>3 DEF Typed
  <2>5. ComesTo(c, t)
    BY <1>1, <1>3, <2>1, <2>3, <2>4 DEF ComesTo
  <2> QED
    BY <2>1, <2>5 DEF Possible, HoldsUsed, NodesUsed, FramesUsed, t
<1> QED
  BY <1>5, <1>6 DEF t

-----------------------------------------------------------------------------
(* The inductive invariant *)

IsPath(path) == \E S : path \in Seq(S)

\* Function c is on its way path, on which it began as start: it stands as it would
\* alone after the calls it has made.
RunsOn(c, inst, start, path) ==
  /\ Running(c) /\ IsPath(path) /\ AllProper(filter, inst, start, path)
  /\ \E k \in 0 .. Len(path) :
       /\ todo[c] = SubSeq(path, k + 1, Len(path))
       /\ \E s \in Alone(inst, start, path)[k] : Stands(c, inst, s)

\* Frame n holds what it should between two functions, or nothing.
Rests(n, s) ==
  /\ IsState(s) /\ Holds(node, n, s.node) /\ Holds(frame, n, s.frame)
  /\ asked[n] = s.asked /\ text[n] = s.text /\ (s.kept => kept # {})
Idle(n) == Rests(n, Fresh("initial"))

\* Its inputs may be awaited like s.
Waits(n, inst, s) ==
  \/ s \in Awaited(filter, inst, n) /\ ("first" \in DOMAIN s.frame => source)
  \/ source /\ s = Fresh("processing")

Spent(n) ==
  \/ Known("leak")
  \/ /\ \A v : <<n, v>> \notin DOMAIN node
     /\ \A v : <<n, v>> \in DOMAIN frame => v = "first"

\* Frame n of a live instance with the nodes inst.
FrameFits(n, inst) ==
  /\ stage[n] \in Stages
  /\ stage[n] = "none" => Idle(n)
  /\ stage[n] = "initial" =>
       /\ ~source
       /\ \E path \in filter.frame[n].initial :
            RunsOn(n, inst, Enter(Fresh("initial"), path), Body(path))
  /\ stage[n] = "asked" => \E s : Waits(n, inst, s) /\ Rests(n, s)
  /\ stage[n] = "processing" =>
       \E s : \E path \in filter.frame[n].initial \cup filter.frame[n].ready :
         /\ AnswerProper(filter, inst, n, s, path)
         /\ RunsOn(n, inst, Enter(s, path), Body(path))
  /\ stage[n] \in {"done", "failed", "dropped"} => Spent(n)

Creating ==
  /\ DOMAIN todo = {Create} /\ kept = {} /\ source = FALSE
  /\ \A n \in Frames : stage[n] = "none" /\ Idle(n)
  /\ \E path \in filter.create :
       /\ RunsOn(Create, <<>>, Fresh("creating"), path)
       /\ Makes(path) => todo[Create] # <<>>

Live(inst) ==
  /\ inst \in Instances(filter) /\ Holds(node, Create, inst)
  /\ Known("leak") \/ \A v : <<Create, v>> \notin DOMAIN frame
  /\ DOMAIN todo = {n \in Frames : stage[n] \in {"initial", "processing"}}
  /\ \A n \in Frames : FrameFits(n, inst)
  /\ \A m, n \in Frames : stage[m] = "initial" /\ stage[n] = "initial" => m = n
  /\ source => BecomesSource(filter, inst)

\* What is left when the instance goes: its nodes, and the frames that were lost.
Settled ==
  /\ \A n \in Frames : Running(n) = FALSE
  /\ \/ Known("leak")
     \/ /\ \A h \in DOMAIN node : h[1] = Create
        /\ \A h \in DOMAIN frame : h[2] = "first"

Freeing(inst) ==
  /\ inst \in Instances(filter) /\ DOMAIN todo = {Free} /\ Settled
  /\ \E k \in 0 .. Len(filter.free) :
       /\ todo[Free] = SubSeq(filter.free, k + 1, Len(filter.free))
       /\ \/ Known("leak") \/ kept = {}
          \/ \E i \in k + 1 .. Len(filter.free) : filter.free[i] = <<"freeKept">>
       /\ \E s \in Alone(<<>>, [Fresh("freeing") EXCEPT !.node = inst], filter.free)[k] :
            IsState(s) /\ s.stage = "freeing" /\ Holds(node, Create, s.node)

Gone ==
  /\ DOMAIN todo = {}
  /\ \/ Known("leak")
     \/ kept = {} /\ DOMAIN node = {} /\ \A h \in DOMAIN frame : h[2] = "first"

InPhase ==
  \/ phase = "creating" /\ Creating
  \/ phase = "live" /\ \E inst : Live(inst)
  \/ phase = "freeing" /\ \E inst : Freeing(inst)
  \/ phase \in {"over", "freed"} /\ Gone
  \/ phase = "terminated" /\ DOMAIN todo = {} /\ Known("terminates")

\* A handle belongs to the creation or to a frame.
Owner(h) == \E o \in Frames \cup {Create} : \E v : h = <<o, v>>

AskedRight == \A n \in Frames : InClips(filter, asked[n] \ filter.over)
ProductRight ==
  \A n \in DOMAIN product \cap DOMAIN filter.wanted :
    product[n] \cap filter.over = {} => product[n] = filter.wanted[n]

Always ==
  /\ FilterProper(filter) /\ Typed
  /\ \A h \in DOMAIN node \cup DOMAIN frame : Owner(h)
  /\ kept \subseteq {{}} /\ (kept # {} => Keeps(filter))
  /\ AskedRight /\ ProductRight

IInv == Always /\ InPhase

-----------------------------------------------------------------------------
(* One call of a running function *)

LEMMA RestOfPath ==
  ASSUME NEW path, IsPath(path), NEW k \in 0 .. Len(path)
  PROVE  /\ Len(path) \in Nat
         /\ SubSeq(path, k + 1, Len(path)) = <<>> <=> k = Len(path)
         /\ k # Len(path) =>
              /\ k \in 0 .. Len(path) - 1
              /\ Head(SubSeq(path, k + 1, Len(path))) = path[k + 1]
              /\ Tail(SubSeq(path, k + 1, Len(path))) = SubSeq(path, (k + 1) + 1, Len(path))
<1>0. PICK S : path \in Seq(S)
  BY DEF IsPath
<1>1. Len(path) \in Nat
  BY <1>0, LenProperties
<1>2. CASE k = Len(path)
  BY <1>1, <1>2, SubSeqEmpty
<1>3. CASE k # Len(path)
  <2>1. k + 1 \in 1 .. Len(path) /\ Len(path) \in k + 1 .. Len(path)
    BY <1>1, <1>3
  <2>2. \A i \in k + 1 .. Len(path) : path[i] \in S
    BY <1>0, <1>1, ElementOfSeq
  <2>3. Len(SubSeq(path, k + 1, Len(path))) # 0
    BY <1>1, <2>1, <2>2, SubSeqProperties
  <2>4. Len(<<>>) = 0
    OBVIOUS
  <2>5. /\ Head(SubSeq(path, k + 1, Len(path))) = path[k + 1]
        /\ Tail(SubSeq(path, k + 1, Len(path))) = SubSeq(path, (k + 1) + 1, Len(path))
    BY <1>0, <2>1, HeadTailOfSubSeq
  <2>6. SubSeq(path, k + 1, Len(path)) # <<>>
    BY <2>3, <2>4
  <2>7. k \in 0 .. Len(path) - 1
    BY <1>1, <1>3
  <2> QED
    BY <1>1, <1>3, <2>5, <2>6, <2>7
<1> QED
  BY <1>2, <1>3

LEMMA AtCall ==
  ASSUME NEW c, NEW inst, NEW start, NEW path, RunsOn(c, inst, start, path), todo[c] # <<>>
  PROVE  \E k \in 0 .. Len(path) - 1 : \E s \in Alone(inst, start, path)[k] :
           /\ Stands(c, inst, s) /\ Proper(filter, inst, s, Coming(c))
           /\ Coming(c) = path[k + 1] /\ Tail(todo[c]) = SubSeq(path, (k + 1) + 1, Len(path))
<1>1. PICK k \in 0 .. Len(path) :
        /\ todo[c] = SubSeq(path, k + 1, Len(path))
        /\ \E s \in Alone(inst, start, path)[k] : Stands(c, inst, s)
  BY DEF RunsOn
<1>2. PICK s \in Alone(inst, start, path)[k] : Stands(c, inst, s)
  BY <1>1
<1>3. /\ Len(path) \in Nat /\ k \in 0 .. Len(path) - 1 /\ Coming(c) = path[k + 1]
      /\ Tail(todo[c]) = SubSeq(path, (k + 1) + 1, Len(path))
  BY <1>1, RestOfPath DEF RunsOn, Coming
<1>4. Proper(filter, inst, s, path[k + 1])
  <2>1. k + 1 \in 1 .. Len(path) /\ (k + 1) - 1 = k
    BY <1>3
  <2> QED
    BY <1>2, <2>1 DEF RunsOn, AllProper
<1> QED
  BY <1>2, <1>3, <1>4

LEMMA AtReturn ==
  ASSUME NEW c, NEW inst, NEW start, NEW path, RunsOn(c, inst, start, path), todo[c] = <<>>
  PROVE  \E s \in AtEnd(inst, start, path) : Stands(c, inst, s)
<1>1. PICK k \in 0 .. Len(path) :
        /\ todo[c] = SubSeq(path, k + 1, Len(path))
        /\ \E s \in Alone(inst, start, path)[k] : Stands(c, inst, s)
  BY DEF RunsOn
<1>2. k = Len(path)
  BY <1>1, RestOfPath DEF RunsOn
<1> QED
  BY <1>1, <1>2 DEF AtEnd

LEMMA StandsAfter ==
  ASSUME NEW c, NEW inst, NEW s, Stands(c, inst, s), NEW t, ComesTo(c, t),
         IsState(t), t.stage = s.stage
  PROVE  Stands(c, inst, t)'
<1>1. IsState(t) /\ Holds(node', c, t.node) /\ Holds(frame', c, t.frame)
  BY DEF ComesTo
<1>2. CASE c = Create /\ inst = <<>> /\ s.stage = "creating"
  BY <1>1, <1>2 DEF Stands
<1>3. CASE /\ c \in Frames /\ c # Create /\ Holds(node, Create, inst)
           /\ s.stage \in {"initial", "processing"} /\ stage[c] = s.stage
  <2>1. c \in Frames' /\ stage'[c] = t.stage
    BY <1>3 DEF ComesTo, Frames
  <2>2. Holds(node', Create, inst)
    BY <1>3 DEF ComesTo
  <2>3. asked'[c] = t.asked /\ text'[c] = t.text /\ (t.kept => kept' # {})
    BY <1>3 DEF ComesTo
  <2> QED
    BY <1>1, <1>3, <2>1, <2>2, <2>3 DEF Stands
<1> QED
  BY <1>2, <1>3 DEF Stands

Calls(c) ==
  \/ propGetNode(c) \/ cloneNodeRef(c) \/ freeNode(c) \/ propSetNode(c) \/ takeOver(c)
  \/ setError(c) \/ getFrame(c) \/ getFrameFilter(c) \/ newVideoFrame(c)
  \/ copyFrame(c) \/ propGetFrame(c) \/ compute(c) \/ freeFrame(c)
  \/ keep(c) \/ cloneKept(c) \/ freeKept(c) \/ return(c)
  \/ requestFrameFilter(c) \/ setFilterError(c) \/ clearMap(c)

LEMMA CallComing ==
  ASSUME NEW c, Calls(c)
  PROVE  todo[c] # <<>> /\ Coming(c)[1] # "createFilter"
BY DEF Calls, propGetNode, cloneNodeRef, freeNode, propSetNode, takeOver, setError, getFrame,
       getFrameFilter, newVideoFrame, copyFrame, propGetFrame, compute, freeFrame, keep, cloneKept,
       freeKept, return, requestFrameFilter, setFilterError, clearMap, Does, Reaches

\* A function on its way makes its next call, and is on its way; or the program ends.
LEMMA OneCall ==
  ASSUME Typed, kept \subseteq {{}}, NEW c, NEW inst, NEW start, NEW path,
         RunsOn(c, inst, start, path), Calls(c)
  PROVE  \/ RunsOn(c, inst, start, path)' /\ \E t : ComesTo(c, t)
         \/ Terminate /\ Known("terminates") /\ UNCHANGED <<filter, asked, product>>
<1>1. todo[c] # <<>>
  BY CallComing
<1>2. PICK k \in 0 .. Len(path) - 1 : \E s \in Alone(inst, start, path)[k] :
        /\ Stands(c, inst, s) /\ Proper(filter, inst, s, Coming(c))
        /\ Coming(c) = path[k + 1] /\ Tail(todo[c]) = SubSeq(path, (k + 1) + 1, Len(path))
  BY <1>1, AtCall
<1>3. PICK s \in Alone(inst, start, path)[k] :
        /\ Stands(c, inst, s) /\ Proper(filter, inst, s, Coming(c))
        /\ Coming(c) = path[k + 1] /\ Tail(todo[c]) = SubSeq(path, (k + 1) + 1, Len(path))
  BY <1>2
<1> DEFINE t == After(inst, s, path[k + 1])
<1>4. ~freeKept(c)
  <2>1. s.stage \in {"creating", "initial", "processing"} /\ Coming(c)[1] \in Vocabulary[s.stage]
    BY <1>3 DEF Stands, Proper
  <2>2. Coming(c)[1] # "freeKept"
    BY <2>1 DEF Vocabulary
  <2> QED
    BY <2>2 DEF freeKept, Does, Reaches
<1>5. \/ Possible(inst, s, path[k + 1]) /\ ComesTo(c, t)
      \/ Terminate /\ Known("terminates") /\ UNCHANGED <<filter, asked, product>>
  <2>1. CASE \/ propGetNode(c) \/ cloneNodeRef(c) \/ freeNode(c) \/ takeOver(c)
             \/ propSetNode(c) \/ setError(c)
    BY <1>3, <2>1, NodeCalls
  <2>2. CASE \/ getFrame(c) \/ getFrameFilter(c) \/ newVideoFrame(c) \/ copyFrame(c)
             \/ propGetFrame(c) \/ cloneKept(c)
    BY <1>3, <2>2, MakingCalls
  <2>3. CASE freeFrame(c) \/ compute(c) \/ keep(c) \/ return(c)
    BY <1>3, <2>3, UsingCalls
  <2>4. CASE requestFrameFilter(c) \/ setFilterError(c) \/ clearMap(c)
    BY <1>3, <2>4, OtherCalls
  <2> QED
    BY <1>4, <2>1, <2>2, <2>3, <2>4 DEF Calls
<1>6. ASSUME Possible(inst, s, path[k + 1]), ComesTo(c, t)
      PROVE  RunsOn(c, inst, start, path)'
  <2>1. IsState(t) /\ t.stage = s.stage
    BY <1>3, AfterIsState DEF Stands
  <2>2. Stands(c, inst, t)'
    BY <1>3, <1>6, <2>1, StandsAfter
  <2>3. Len(path) \in Nat
    BY RestOfPath, LenProperties DEF RunsOn, IsPath
  <2>4. t \in Alone(inst, start, path)[k + 1]
    BY <1>3, <1>6, <2>3, AloneGoesOn
  <2> HIDE DEF t
  <2>5. c \in DOMAIN todo' /\ todo'[c] = SubSeq(path, (k + 1) + 1, Len(path)) /\ filter' = filter
    BY <1>3, <1>6 DEF ComesTo, GoesOn, RunsOn, Running
  <2>6. k + 1 \in 0 .. Len(path)
    BY <2>3
  <2> QED
    BY <2>2, <2>4, <2>5, <2>6 DEF RunsOn, Running
<1> QED
  BY <1>5, <1>6

-----------------------------------------------------------------------------
(* The frames that a step leaves alone *)

Undisturbed(n) ==
  /\ filter' = filter
  /\ \A f : Holds(node, n, f) => Holds(node', n, f)
  /\ \A f : Holds(frame, n, f) => Holds(frame', n, f)
  /\ \A v : <<n, v>> \in DOMAIN node' => <<n, v>> \in DOMAIN node
  /\ \A v : <<n, v>> \in DOMAIN frame' => <<n, v>> \in DOMAIN frame
  /\ n \in DOMAIN todo => n \in DOMAIN todo' /\ todo'[n] = todo[n]
  /\ stage'[n] = stage[n] /\ asked'[n] = asked[n] /\ text'[n] = text[n]
  /\ kept # {} => kept' # {}
  /\ source => source'
  /\ stage[n] = "initial" => source' = source

LEMMA RunsStill ==
  ASSUME NEW n \in Frames, n # Create, Undisturbed(n), NEW inst, Holds(node', Create, inst),
         NEW start, NEW path, RunsOn(n, inst, start, path)
  PROVE  RunsOn(n, inst, start, path)'
<1>1. PICK k \in 0 .. Len(path) :
        /\ todo[n] = SubSeq(path, k + 1, Len(path))
        /\ \E s \in Alone(inst, start, path)[k] : Stands(n, inst, s)
  BY DEF RunsOn
<1>2. PICK s \in Alone(inst, start, path)[k] : Stands(n, inst, s)
  BY <1>1
<1>3. Stands(n, inst, s)'
  BY <1>2 DEF Stands, Undisturbed, Frames
<1>4. n \in DOMAIN todo' /\ todo'[n] = todo[n] /\ filter' = filter
  BY DEF RunsOn, Running, Undisturbed
<1> QED
  BY <1>1, <1>3, <1>4 DEF RunsOn, Running

LEMMA RestsStill ==
  ASSUME NEW n, Undisturbed(n), NEW s, Rests(n, s)
  PROVE  Rests(n, s)'
BY DEF Rests, Undisturbed

LEMMA FitsStill ==
  ASSUME NEW n \in Frames, n # Create, Undisturbed(n), NEW inst, Holds(node', Create, inst),
         FrameFits(n, inst)
  PROVE  FrameFits(n, inst)'
<1>1. stage'[n] = stage[n] /\ filter' = filter
  BY DEF Undisturbed
<1>2. stage'[n] \in Stages
  BY <1>1 DEF FrameFits
<1>3. CASE stage[n] = "none"
  <2>1. Idle(n)'
    BY <1>3, RestsStill DEF FrameFits, Idle
  <2> QED
    BY <1>1, <1>2, <1>3, <2>1 DEF FrameFits
<1>4. CASE stage[n] = "initial"
  <2>1. PICK path \in filter.frame[n].initial :
          RunsOn(n, inst, Enter(Fresh("initial"), path), Body(path))
    BY <1>4 DEF FrameFits
  <2>2. RunsOn(n, inst, Enter(Fresh("initial"), path), Body(path))'
    BY <2>1, RunsStill
  <2>3. ~source'
    BY <1>4 DEF FrameFits, Undisturbed
  <2> QED
    BY <1>1, <1>2, <1>4, <2>2, <2>3 DEF FrameFits
<1>5. CASE stage[n] = "asked"
  <2>1. PICK s : Waits(n, inst, s) /\ Rests(n, s)
    BY <1>5 DEF FrameFits
  <2>2. Waits(n, inst, s)' /\ Rests(n, s)'
    BY <2>1, RestsStill DEF Waits, Undisturbed
  <2> QED
    BY <1>1, <1>2, <1>5, <2>2 DEF FrameFits
<1>6. CASE stage[n] = "processing"
  <2>1. PICK s : \E path \in filter.frame[n].initial \cup filter.frame[n].ready :
          /\ AnswerProper(filter, inst, n, s, path)
          /\ RunsOn(n, inst, Enter(s, path), Body(path))
    BY <1>6 DEF FrameFits
  <2>2. PICK path \in filter.frame[n].initial \cup filter.frame[n].ready :
          /\ AnswerProper(filter, inst, n, s, path)
          /\ RunsOn(n, inst, Enter(s, path), Body(path))
    BY <2>1
  <2>3. RunsOn(n, inst, Enter(s, path), Body(path))'
    BY <2>2, RunsStill
  <2> QED
    BY <1>1, <1>2, <1>6, <2>2, <2>3 DEF FrameFits
<1>7. CASE stage[n] \in {"done", "failed", "dropped"}
  <2>1. Spent(n)'
    BY <1>7 DEF FrameFits, Spent, Undisturbed, Known
  <2> QED
    BY <1>1, <1>2, <1>7, <2>1 DEF FrameFits
<1> QED
  BY <1>3, <1>4, <1>5, <1>6, <1>7 DEF FrameFits, Stages

\* A call of one frame's function leaves the other frames alone.
LEMMA OthersUndisturbed ==
  ASSUME Typed, NEW c, NEW t, ComesTo(c, t), NEW n \in Frames, n # c
  PROVE  Undisturbed(n)
<1>1. \A v, w : <<n, v>> # <<c, w>>
  OBVIOUS
<1>2. /\ \A v : <<n, v>> \in DOMAIN node' => <<n, v>> \in DOMAIN node
      /\ \A v : <<n, v>> \in DOMAIN frame' => <<n, v>> \in DOMAIN frame
  BY <1>1 DEF ComesTo
<1>3. n \in DOMAIN todo => n \in DOMAIN todo' /\ todo'[n] = todo[n]
  BY DEF ComesTo, GoesOn
<1>4. kept # {} => kept' # {}
  BY DEF ComesTo
<1> QED
  BY <1>2, <1>3, <1>4 DEF Undisturbed, ComesTo

-----------------------------------------------------------------------------
(* The calls of the creation and of the frames preserve the invariant *)

LEMMA CallKeepsAlways ==
  ASSUME Always, NEW c \in Frames \cup {Create}, NEW t, ComesTo(c, t),
         Coming(c)[1] = "keep" => Keeps(filter), AskedRight'
  PROVE  Always'
<1>1. filter' = filter /\ UNCHANGED <<stage, product>>
  BY DEF ComesTo
<1>2. FilterProper(filter)' /\ Typed' /\ ProductRight'
  BY <1>1 DEF Always, Typed, ComesTo, ProductRight, Frames
<1>3. \A h \in DOMAIN node' \cup DOMAIN frame' : Owner(h)'
  <2>1. \A v : Owner(<<c, v>>)
    BY DEF Owner
  <2>2. \A h \in DOMAIN node' \cup DOMAIN frame' : Owner(h)
    BY <2>1 DEF ComesTo, Always
  <2> QED
    BY <1>1, <2>2 DEF Owner, Frames
<1>4. kept' \subseteq {{}} /\ (kept' # {} => Keeps(filter'))
  BY <1>1 DEF ComesTo, Always
<1> QED
  BY <1>2, <1>3, <1>4 DEF Always

\* A path of a frame's function, of which one call is coming.
LEMMA ComingOfBody ==
  ASSUME NEW path, IsPath(path), NEW c, NEW i \in DOMAIN Body(path), Coming(c) = Body(path)[i]
  PROVE  \E j \in DOMAIN path : Coming(c) = path[j]
<1>0. PICK S : path \in Seq(S)
  BY DEF IsPath
<1>1. CASE Body(path) = path
  BY <1>1
<1>2. CASE Body(path) # path
  <2>1. path # <<>> /\ Body(path) = Tail(path)
    BY <1>2 DEF Body
  <2>2. /\ Tail(path) \in Seq(S) /\ Len(Tail(path)) = Len(path) - 1 /\ Len(path) \in Nat
        /\ \A j \in 1 .. Len(Tail(path)) : Tail(path)[j] = path[j + 1]
    BY <1>0, <2>1, HeadTailProperties, LenProperties
  <2>3. i \in 1 .. Len(Tail(path))
    BY <2>1, <2>2, LenProperties
  <2>4. i + 1 \in DOMAIN path
    BY <1>0, <2>2, <2>3, LenProperties
  <2> QED
    BY <2>1, <2>2, <2>3, <2>4
<1> QED
  BY <1>1, <1>2

LEMMA BodyIsPath ==
  ASSUME NEW path, IsPath(path)
  PROVE  IsPath(Body(path))
<1>0. PICK S : path \in Seq(S)
  BY DEF IsPath
<1> QED
  BY <1>0, HeadTailProperties DEF IsPath, Body

\* A frame's function keeps a frame only if the filter is one that does.
LEMMA KeepsKnown ==
  ASSUME FilterProper(filter), NEW n \in Frames,
         NEW path \in filter.frame[n].initial \cup filter.frame[n].ready, NEW inst, NEW start,
         RunsOn(n, inst, start, Body(path)), todo[n] # <<>>, Coming(n)[1] = "keep"
  PROVE  Keeps(filter)
<1>1. PICK k \in 0 .. Len(Body(path)) - 1 : Coming(n) = Body(path)[k + 1]
  BY AtCall
<1>2. IsPath(path)
  BY DEF FilterProper, IsSequence, IsPath, Frames
<1>3. k + 1 \in DOMAIN Body(path)
  <2>1. PICK S : Body(path) \in Seq(S)
    BY <1>2, BodyIsPath DEF IsPath
  <2> QED
    BY <2>1, LenProperties
<1>4. \E j \in DOMAIN path : Coming(n) = path[j]
  BY <1>1, <1>2, <1>3, ComingOfBody
<1> QED
  BY <1>4 DEF Keeps, Frames

\* What is asked for is in the clips, if every request is proper.
LEMMA CallKeepsAsked ==
  ASSUME Typed, AskedRight, NEW c, NEW inst, NEW start, NEW path, RunsOn(c, inst, start, path),
         Calls(c)
  PROVE  AskedRight'
<1>1. filter' = filter
  BY DEF Calls, propGetNode, cloneNodeRef, freeNode, propSetNode, takeOver, setError, getFrame,
         getFrameFilter, newVideoFrame, copyFrame, propGetFrame, compute, freeFrame, keep,
         cloneKept, freeKept, return, requestFrameFilter, setFilterError, clearMap,
         OnlyNodes, OnlyFrames
<1>2. CASE asked' = asked
  BY <1>1, <1>2 DEF AskedRight, InClips, Known, Frames
<1>3. CASE asked' # asked
  <2>1. requestFrameFilter(c)
    BY <1>3 DEF Calls, propGetNode, cloneNodeRef, freeNode, propSetNode, takeOver, setError,
           getFrame, getFrameFilter, newVideoFrame, copyFrame, propGetFrame, compute, freeFrame,
           keep, cloneKept, freeKept, return, setFilterError, clearMap, OnlyNodes, OnlyFrames
  <2>2. /\ todo[c] # <<>> /\ Coming(c)[1] = "requestFrameFilter" /\ HasNode(c, Coming(c)[2])
        /\ asked' = [asked EXCEPT ![c] = @ \cup {<<node[Node(c, Coming(c)[2])], Coming(c)[3]>>}]
    BY <1>3, <2>1 DEF requestFrameFilter, Reaches, Arg
  <2>3. PICK k \in 0 .. Len(path) - 1 : \E s \in Alone(inst, start, path)[k] :
          Stands(c, inst, s) /\ Proper(filter, inst, s, Coming(c))
    BY <2>2, AtCall
  <2>4. PICK s : Stands(c, inst, s) /\ Proper(filter, inst, s, Coming(c))
    BY <2>3
  <2> DEFINE input == <<NodeOf(inst, s, Coming(c)[2]), Coming(c)[3]>>
  <2>5. Coming(c)[2] \in DOMAIN s.node \cup DOMAIN inst
        /\ node[Node(c, Coming(c)[2])] = NodeOf(inst, s, Coming(c)[2])
    BY <2>2, <2>4, Found
  <2>6. InClips(filter, {input} \ filter.over)
    BY <2>2, <2>4, <2>5 DEF Proper
  <2>7. \A n \in Frames : asked'[n] = asked[n] \/ asked'[n] = asked[n] \cup {input}
    BY <2>2, <2>5 DEF Typed
  <2> HIDE DEF input
  <2>8. \A n \in Frames : InClips(filter, asked'[n] \ filter.over)
    BY <2>6, <2>7 DEF AskedRight, InClips
  <2> QED
    BY <1>1, <2>8 DEF AskedRight, InClips, Known, Frames
<1> QED
  BY <1>2, <1>3

LEMMA TerminatedIsFine ==
  ASSUME Always, Terminate, Known("terminates"),
         UNCHANGED <<filter, asked, product, kept, stage>>, DOMAIN text' = DOMAIN text,
         \A h \in DOMAIN node' \cup DOMAIN frame' : Owner(h)
  PROVE  IInv'
<1>1. Typed' /\ AskedRight' /\ ProductRight' /\ FilterProper(filter)'
  BY DEF Always, Typed, AskedRight, ProductRight, Frames, Known
<1>2. Always'
  BY <1>1 DEF Always, Owner, Frames
<1>3. phase' = "terminated" /\ DOMAIN todo' = {} /\ Known("terminates")'
  BY DEF Terminate, Known
<1> QED
  BY <1>2, <1>3 DEF IInv, InPhase

\* The calls of a function that is on its way, and lives through them.
LEMMA CallAlways ==
  ASSUME Always, NEW c \in Frames \cup {Create}, NEW inst, NEW start, NEW path,
         RunsOn(c, inst, start, path), Calls(c),
         c \in Frames => \E p \in filter.frame[c].initial \cup filter.frame[c].ready : path = Body(p)
  PROVE  \/ Always' /\ RunsOn(c, inst, start, path)' /\ \E t : ComesTo(c, t)
         \/ IInv' /\ phase' = "terminated"
<1>1. Typed /\ kept \subseteq {{}} /\ AskedRight /\ FilterProper(filter)
  BY DEF Always
<1>2. AskedRight'
  BY <1>1, CallKeepsAsked
<1>3. \/ RunsOn(c, inst, start, path)' /\ \E t : ComesTo(c, t)
      \/ Terminate /\ Known("terminates") /\ UNCHANGED <<filter, asked, product>>
  BY <1>1, OneCall
<1>4. todo[c] # <<>>
  BY CallComing
<1>5. Coming(c)[1] = "keep" => Keeps(filter)
  <2>1. CASE c \in Frames
    BY <1>1, <1>4, <2>1, KeepsKnown
  <2>2. CASE c = Create
    <3>1. PICK s : Stands(c, inst, s) /\ Proper(filter, inst, s, Coming(c))
      BY <1>4, AtCall
    <3>2. s.stage = "creating"
      BY <1>1, <2>2, <3>1 DEF Stands
    <3> QED
      BY <3>1, <3>2 DEF Proper, Vocabulary
  <2> QED
    BY <2>1, <2>2
<1>6. ASSUME NEW t, ComesTo(c, t) PROVE Always'
  BY <1>2, <1>5, <1>6, CallKeepsAlways
<1>7. ASSUME Terminate, Known("terminates"), UNCHANGED <<filter, asked, product>>, ~\E t : ComesTo(c, t)
      PROVE  IInv' /\ phase' = "terminated"
  <2>1. requestFrameFilter(c)
    <3>1. phase' = "terminated" /\ todo' = <<>> /\ c \in DOMAIN todo /\ DOMAIN <<>> = {}
      BY <1>7 DEF Terminate, RunsOn, Running
    <3>2. ~GoesOn(c)
      BY <3>1 DEF GoesOn
    <3> QED
      BY <3>2 DEF Calls, propGetNode, cloneNodeRef, freeNode, propSetNode, takeOver, setError,
             getFrame, getFrameFilter, newVideoFrame, copyFrame, propGetFrame, compute, freeFrame,
             keep, cloneKept, freeKept, return, setFilterError, clearMap, Does
  <2>2. UNCHANGED <<filter, node, frame, kept, stage, text, product>>
    BY <2>1 DEF requestFrameFilter
  <2>3. \A h \in DOMAIN node' \cup DOMAIN frame' : Owner(h)
    BY <2>2 DEF Always
  <2>4. IInv'
    BY <1>7, <2>2, <2>3, TerminatedIsFine
  <2> QED
    BY <1>7, <2>4 DEF Terminate
<1>8. CASE \E t : ComesTo(c, t)
  <2>1. Always'
    BY <1>6, <1>8
  <2>2. ~Terminate
    <3>1. GoesOn(c)
      BY <1>8 DEF ComesTo
    <3>2. c \in DOMAIN todo /\ DOMAIN <<>> = {}
      BY DEF RunsOn, Running
    <3> QED
      BY <3>1, <3>2 DEF GoesOn, Terminate
  <2> QED
    BY <1>3, <1>8, <2>1, <2>2
<1>9. CASE ~\E t : ComesTo(c, t)
  BY <1>3, <1>7, <1>9
<1> QED
  BY <1>8, <1>9

LEMMA CallInCreating ==
  ASSUME IInv, phase = "creating", NEW c \in DOMAIN todo, Calls(c)
  PROVE  IInv'
<1>1. Always /\ Creating /\ c = Create /\ Frames \subseteq Nat /\ Create \notin Frames
  BY DEF IInv, InPhase, Creating, Always, Typed, Create
<1>2. PICK path \in filter.create :
        RunsOn(Create, <<>>, Fresh("creating"), path) /\ (Makes(path) => todo[Create] # <<>>)
  BY <1>1 DEF Creating
<1>3. \/ /\ Always' /\ RunsOn(Create, <<>>, Fresh("creating"), path)'
         /\ \E t : ComesTo(Create, t)
      \/ IInv' /\ phase' = "terminated"
  BY <1>1, <1>2, CallAlways
<1>4. SUFFICES ASSUME Always', RunsOn(Create, <<>>, Fresh("creating"), path)',
                      NEW t, ComesTo(Create, t)
               PROVE  Creating' /\ phase' = "creating"
  BY <1>3 DEF IInv, InPhase
<1>5. Makes(path) => todo'[Create] # <<>>
  <2>1. PICK k \in 0 .. Len(path) - 1 :
          Coming(Create) = path[k + 1] /\ Tail(todo[Create]) = SubSeq(path, (k + 1) + 1, Len(path))
    <3>1. todo[Create] # <<>>
      BY <1>1, CallComing
    <3> QED
      BY <1>2, <3>1, AtCall
  <2>2. Coming(Create)[1] # "createFilter"
    BY <1>1, CallComing
  <2>3. todo'[Create] = SubSeq(path, (k + 1) + 1, Len(path))
    BY <1>1, <1>4, <2>1 DEF ComesTo, GoesOn
  <2>4. IsPath(path) /\ Len(path) \in Nat
    BY <1>2, RestOfPath, LenProperties DEF RunsOn, IsPath
  <2>5. SUFFICES ASSUME Makes(path), todo'[Create] = <<>> PROVE FALSE
    OBVIOUS
  <2>6. k + 1 \in 0 .. Len(path)
    BY <2>4
  <2>7. k + 1 = Len(path)
    BY <2>3, <2>4, <2>5, <2>6, RestOfPath
  <2> QED
    BY <2>1, <2>2, <2>5, <2>7 DEF Makes
<1>6. DOMAIN todo' = {Create} /\ kept' = {} /\ source' = FALSE /\ phase' = "creating"
  <2>1. Coming(Create)[1] # "keep"
    <3>1. PICK s : Stands(Create, <<>>, s) /\ Proper(filter, <<>>, s, Coming(Create))
      <4>1. todo[Create] # <<>>
        BY <1>1, CallComing
      <4> QED
        BY <1>2, <4>1, AtCall
    <3>2. s.stage = "creating"
      BY <1>1, <3>1 DEF Stands
    <3> QED
      BY <3>1, <3>2 DEF Proper, Vocabulary
  <2> QED
    BY <1>1, <1>4, <2>1 DEF Creating, ComesTo, GoesOn
<1>7. ASSUME NEW n \in Frames PROVE stage'[n] = "none" /\ Idle(n)'
  <2>1. Undisturbed(n)
    BY <1>1, <1>4, OthersUndisturbed DEF Always
  <2>2. stage[n] = "none" /\ Idle(n)
    BY <1>1 DEF Creating
  <2>3. Idle(n)'
    BY <2>1, <2>2, RestsStill DEF Idle
  <2> QED
    BY <2>1, <2>2, <2>3 DEF Undisturbed
<1>8. filter' = filter
  BY <1>4 DEF ComesTo
<1> QED
  BY <1>2, <1>4, <1>5, <1>6, <1>7, <1>8 DEF Creating, Frames

LEMMA CallInLive ==
  ASSUME IInv, phase = "live", NEW c \in DOMAIN todo, Calls(c)
  PROVE  IInv'
<1>1. Always /\ Frames \subseteq Nat /\ Create \notin Frames
  BY DEF IInv, Always, Typed, Create
<1>2. PICK inst : Live(inst)
  BY DEF IInv, InPhase
<1>3. c \in Frames /\ stage[c] \in {"initial", "processing"} /\ FrameFits(c, inst)
  BY <1>2 DEF Live
<1>4. \E start : \E p \in filter.frame[c].initial \cup filter.frame[c].ready :
        RunsOn(c, inst, start, Body(p))
  BY <1>3 DEF FrameFits
<1>5. SUFFICES ASSUME Always', NEW t, ComesTo(c, t) PROVE Live(inst)' /\ phase' = "live"
  <2>1. PICK start : \E p \in filter.frame[c].initial \cup filter.frame[c].ready :
          RunsOn(c, inst, start, Body(p))
    BY <1>4
  <2>2. PICK p \in filter.frame[c].initial \cup filter.frame[c].ready :
          RunsOn(c, inst, start, Body(p))
    BY <2>1
  <2>3. \/ Always' /\ \E t : ComesTo(c, t)
        \/ IInv' /\ phase' = "terminated"
    BY <1>1, <1>3, <2>2, CallAlways
  <2> QED
    BY <2>3 DEF IInv, InPhase
<1>6. /\ filter' = filter /\ stage' = stage /\ source' = source /\ phase' = "live"
      /\ DOMAIN todo' = DOMAIN todo
  BY <1>5 DEF ComesTo, GoesOn
<1>7. Holds(node', Create, inst)
  BY <1>1, <1>2, <1>3, <1>5 DEF Live, ComesTo
<1>8. Known("leak")' \/ \A v : <<Create, v>> \notin DOMAIN frame'
  <2>1. \A v, w : <<Create, v>> # <<c, w>>
    BY <1>1, <1>3
  <2> QED
    BY <1>2, <1>5, <1>6, <2>1 DEF Live, ComesTo, Known
<1>9. ASSUME NEW n \in Frames PROVE FrameFits(n, inst)'
  <2>1. CASE n # c
    <3>1. Undisturbed(n)
      BY <1>1, <1>5, <2>1, OthersUndisturbed DEF Always
    <3> QED
      BY <1>1, <1>2, <1>7, <3>1, FitsStill DEF Live
  <2>2. CASE n = c /\ stage[c] = "initial"
    <3>1. PICK path \in filter.frame[c].initial :
            RunsOn(c, inst, Enter(Fresh("initial"), path), Body(path))
      BY <1>3, <2>2 DEF FrameFits
    <3>2. \/ RunsOn(c, inst, Enter(Fresh("initial"), path), Body(path))'
          \/ IInv' /\ phase' = "terminated"
      BY <1>1, <1>3, <3>1, CallAlways
    <3> QED
      BY <1>3, <1>6, <2>2, <3>2 DEF FrameFits
  <2>3. CASE n = c /\ stage[c] = "processing"
    <3>1. PICK s : \E path \in filter.frame[c].initial \cup filter.frame[c].ready :
            /\ AnswerProper(filter, inst, c, s, path)
            /\ RunsOn(c, inst, Enter(s, path), Body(path))
      BY <1>3, <2>3 DEF FrameFits
    <3>2. PICK path \in filter.frame[c].initial \cup filter.frame[c].ready :
            /\ AnswerProper(filter, inst, c, s, path)
            /\ RunsOn(c, inst, Enter(s, path), Body(path))
      BY <3>1
    <3>3. \/ RunsOn(c, inst, Enter(s, path), Body(path))'
          \/ IInv' /\ phase' = "terminated"
      BY <1>1, <1>3, <3>2, CallAlways
    <3> QED
      BY <1>3, <1>6, <2>3, <3>2, <3>3 DEF FrameFits
  <2> QED
    BY <1>3, <2>1, <2>2, <2>3
<1>10. Frames' = Frames
  BY <1>6 DEF Frames
<1> QED
  BY <1>2, <1>6, <1>7, <1>8, <1>9, <1>10 DEF Live

-----------------------------------------------------------------------------
(* The steps of the host preserve the invariant *)

LEMMA HostKeepsAlways ==
  ASSUME Always, UNCHANGED <<filter, asked, text, kept>>, DOMAIN stage' = Frames,
         \A h \in DOMAIN node' \cup DOMAIN frame' : Owner(h), ProductRight'
  PROVE  Always'
BY DEF Always, Typed, AskedRight, Known, Owner, Frames

LEMMA ProductStill ==
  ASSUME Always, UNCHANGED <<filter, product>>
  PROVE  ProductRight'
BY DEF Always, ProductRight

LEMMA CreateFilterStep ==
  ASSUME IInv, createFilter
  PROVE  IInv'
<1>1. Always /\ Frames \subseteq Nat /\ Create \notin Frames
  BY DEF IInv, Always, Typed, Create
<1>2. Creating /\ phase' = "live"
  <2>1. Create \in DOMAIN todo
    BY DEF createFilter, Running
  <2>2. Create # Free
    BY DEF Create, Free
  <2>3. ~\E inst : Live(inst)
    BY <1>1, <2>1 DEF Live
  <2> QED
    BY <2>1, <2>2, <2>3 DEF IInv, InPhase, Freeing, Gone, createFilter
<1>3. PICK path \in filter.create : RunsOn(Create, <<>>, Fresh("creating"), path)
  BY <1>2 DEF Creating
<1>4. PICK k \in 0 .. Len(path) :
        /\ todo[Create] = SubSeq(path, k + 1, Len(path))
        /\ \E s \in Alone(<<>>, Fresh("creating"), path)[k] : Stands(Create, <<>>, s)
  BY <1>3 DEF RunsOn
<1>5. PICK s \in Alone(<<>>, Fresh("creating"), path)[k] : Stands(Create, <<>>, s)
  BY <1>4
<1>6. /\ k + 1 = Len(path) /\ path[k + 1] = <<"createFilter">> /\ Len(path) \in Nat
      /\ path # <<>> /\ k \in 0 .. Len(path) - 1
  <2>1. todo[Create] = <<<<"createFilter">>>>
    BY DEF createFilter
  <2>2. todo[Create] # <<>> /\ Head(todo[Create]) = <<"createFilter">> /\ Tail(todo[Create]) = <<>>
    BY <2>1
  <2>3. IsPath(path)
    BY <1>3 DEF RunsOn
  <2>4. /\ Len(path) \in Nat /\ k \in 0 .. Len(path) - 1 /\ path[k + 1] = <<"createFilter">>
        /\ SubSeq(path, (k + 1) + 1, Len(path)) = <<>>
    BY <1>4, <2>2, <2>3, RestOfPath
  <2>5. k + 1 \in 0 .. Len(path)
    BY <2>4
  <2>6. k + 1 = Len(path)
    BY <2>3, <2>4, <2>5, RestOfPath
  <2>7. path # <<>>
    BY <2>4, <2>6
  <2> QED
    BY <2>4, <2>6, <2>7
<1>7. s \in AtEnd(<<>>, Fresh("creating"), path)
  <2>1. /\ IsState(s) /\ path[k + 1][1] = "createFilter"
    BY <1>5, <1>6 DEF Stands
  <2>2. Possible(<<>>, s, path[k + 1])
    BY <2>1 DEF Possible, HoldsUsed, NodesUsed, FramesUsed
  <2>3. After(<<>>, s, path[k + 1]) = s
    BY <2>1, AfterNothing
  <2> QED
    BY <1>5, <1>6, <2>2, <2>3, AloneGoesOn DEF AtEnd
<1>8. Makes(path)
  BY <1>6 DEF Makes
<1> DEFINE inst == s.node
<1>9. inst \in Instances(filter)
  BY <1>7, <1>8 DEF Instances
<1>10. Holds(node, Create, inst) /\ Holds(frame, Create, s.frame)
  BY <1>5 DEF Stands
<1>11. Known("leak") \/ DOMAIN s.frame = {}
  BY <1>1, <1>7, <1>8 DEF Always, FilterProper, CreateProper, Known
<1> HIDE DEF inst
<1>12. /\ UNCHANGED <<filter, node, frame, kept, asked, stage, text, product, source>>
       /\ DOMAIN todo' = {} /\ source = FALSE
       /\ \A n \in Frames : stage[n] = "none" /\ Idle(n)
  BY <1>2 DEF createFilter, Creating, Without
<1>13. Live(inst)'
  <2>1. ASSUME NEW n \in Frames PROVE FrameFits(n, inst)'
    <3>1. Idle(n)'
      BY <1>12 DEF Idle, Rests
    <3> QED
      BY <1>12, <3>1 DEF FrameFits, Stages
  <2>2. Known("leak")' \/ \A v : <<Create, v>> \notin DOMAIN frame'
    BY <1>10, <1>11, <1>12 DEF Holds, Known
  <2>3. DOMAIN todo' = {n \in Frames : stage[n] \in {"initial", "processing"}}
    BY <1>12
  <2> QED
    BY <1>9, <1>10, <1>12, <2>1, <2>2, <2>3 DEF Live, Frames
<1>14. Always'
  <2>1. \A h \in DOMAIN node' \cup DOMAIN frame' : Owner(h)
    BY <1>1, <1>12 DEF Always
  <2> QED
    BY <1>1, <1>12, <2>1, HostKeepsAlways, ProductStill DEF Always, Typed
<1> QED
  BY <1>2, <1>13, <1>14 DEF IInv, InPhase

LEMMA EndCreateStep ==
  ASSUME IInv, EndCreate
  PROVE  IInv'
<1>1. Always /\ Frames \subseteq Nat /\ Create \notin Frames
  BY DEF IInv, Always, Typed, Create
<1>2. Creating /\ phase' = "over"
  <2>1. Create \in DOMAIN todo
    BY DEF EndCreate, Running
  <2>2. Create # Free
    BY DEF Create, Free
  <2>3. ~\E inst : Live(inst)
    BY <1>1, <2>1 DEF Live
  <2> QED
    BY <2>1, <2>2, <2>3 DEF IInv, InPhase, Freeing, Gone, EndCreate
<1>3. PICK path \in filter.create :
        RunsOn(Create, <<>>, Fresh("creating"), path) /\ (Makes(path) => todo[Create] # <<>>)
  BY <1>2 DEF Creating
<1>4. todo[Create] = <<>> /\ ~Makes(path)
  BY <1>3 DEF EndCreate
<1>5. PICK s \in AtEnd(<<>>, Fresh("creating"), path) : Stands(Create, <<>>, s)
  BY <1>3, <1>4, AtReturn
<1>6. LeavesOnly(filter, s, {})
  BY <1>1, <1>4, <1>5 DEF Always, FilterProper, CreateProper
<1>7. /\ UNCHANGED <<filter, node, frame, kept, asked, stage, text, product, source>>
      /\ DOMAIN todo' = {} /\ kept = {} /\ \A n \in Frames : Idle(n)
  BY <1>2 DEF EndCreate, Creating, Without
<1>8. Known("leak") \/ (DOMAIN node = {} /\ DOMAIN frame = {})
  <2>1. CASE Known("leak")
    BY <2>1
  <2>2. SUFFICES ASSUME DOMAIN s.node = {}, DOMAIN s.frame = {}
                 PROVE  DOMAIN node = {} /\ DOMAIN frame = {}
    BY <1>6, <2>1 DEF LeavesOnly, Known
  <2>3. \A v : <<Create, v>> \notin DOMAIN node /\ <<Create, v>> \notin DOMAIN frame
    BY <1>5, <2>2 DEF Stands, Holds
  <2>4. \A n \in Frames : \A v : <<n, v>> \notin DOMAIN node /\ <<n, v>> \notin DOMAIN frame
    <3>1. DOMAIN <<>> = {}
      OBVIOUS
    <3> QED
      BY <1>7, <3>1 DEF Idle, Rests, Fresh, Holds
  <2>5. ASSUME NEW h, Owner(h) PROVE h \notin DOMAIN node /\ h \notin DOMAIN frame
    BY <2>3, <2>4, <2>5 DEF Owner
  <2> QED
    BY <1>1, <2>5 DEF Always
<1>9. Gone'
  BY <1>7, <1>8 DEF Gone, Known
<1>10. Always'
  <2>1. \A h \in DOMAIN node' \cup DOMAIN frame' : Owner(h)
    BY <1>1, <1>7 DEF Always
  <2> QED
    BY <1>1, <1>7, <2>1, HostKeepsAlways, ProductStill DEF Always, Typed
<1> QED
  BY <1>2, <1>9, <1>10 DEF IInv, InPhase

\* A step of the host about frame n.
LEMMA FrameStep ==
  ASSUME Always, phase = "live", NEW inst, Live(inst), NEW n \in Frames,
         UNCHANGED <<filter, phase, node, asked, text, kept>>,
         \A h \in DOMAIN frame' : h \in DOMAIN frame \/ \E v : h = <<n, v>>,
         \A m \in Frames \ {n} : Undisturbed(m),
         DOMAIN stage' = Frames,
         stage'[n] = "initial" => \A m \in Frames : stage[m] # "initial",
         DOMAIN todo' = IF stage'[n] \in {"initial", "processing"}
                          THEN DOMAIN todo \cup {n} ELSE DOMAIN todo \ {n},
         FrameFits(n, inst)', source' => BecomesSource(filter, inst), ProductRight'
  PROVE  IInv'
<1>1. Frames \subseteq Nat /\ Create \notin Frames /\ Typed
  BY DEF Always, Typed, Create
<1>2. Holds(node', Create, inst)
  BY DEF Live
<1>3. \A m \in Frames : FrameFits(m, inst)'
  BY <1>1, <1>2, FitsStill DEF Live
<1>4. Known("leak")' \/ \A v : <<Create, v>> \notin DOMAIN frame'
  <2>1. \A v, w : <<Create, v>> # <<n, w>>
    BY <1>1
  <2> QED
    BY <2>1 DEF Live, Known
<1>5. \A m \in Frames \ {n} : stage'[m] = stage[m]
  BY DEF Undisturbed
<1>6. DOMAIN todo' = {m \in Frames : stage'[m] \in {"initial", "processing"}}
  BY <1>5 DEF Live
<1>7. \A l, m \in Frames : stage'[l] = "initial" /\ stage'[m] = "initial" => l = m
  BY <1>5 DEF Live
<1>8. Live(inst)' /\ phase' = "live"
  BY <1>2, <1>3, <1>4, <1>6, <1>7 DEF Live, Frames
<1>9. \A h \in DOMAIN node' \cup DOMAIN frame' : Owner(h)
  BY DEF Always, Owner
<1>10. Always'
  BY <1>9, HostKeepsAlways
<1> QED
  BY <1>8, <1>10 DEF IInv, InPhase

LEMMA OthersStay ==
  ASSUME Always, NEW n \in Frames, UNCHANGED <<filter, node, asked, text, kept>>,
         frame' = frame \/ frame' = Without(frame, <<n, "returned">>),
         NEW x, stage' = [stage EXCEPT ![n] = x],
         source' = source,
         todo' = todo \/ todo' = Without(todo, n) \/ \E path : todo' = With(todo, n, path)
  PROVE  \A m \in Frames \ {n} : Undisturbed(m)
<1> TAKE m \in Frames \ {n}
<1>1. /\ \A f : Holds(frame, m, f) => Holds(frame', m, f)
      /\ \A v : <<m, v>> \in DOMAIN frame' => <<m, v>> \in DOMAIN frame
  BY DEF Holds, Without
<1>2. m \in DOMAIN todo => m \in DOMAIN todo' /\ todo'[m] = todo[m]
  BY DEF With, Without
<1>3. stage'[m] = stage[m]
  BY DEF Always, Typed
<1> QED
  BY <1>1, <1>2, <1>3 DEF Undisturbed

\* A function begins as the frame stood.
LEMMA Enters ==
  ASSUME NEW n \in Frames, n # Create, UNCHANGED <<filter, node, frame, asked, text, kept>>,
         NEW inst, Holds(node, Create, inst), NEW s, Rests(n, s),
         s.stage \in {"initial", "processing"}, stage'[n] = s.stage, NEW path, Open(path)
  PROVE  Stands(n, inst, Enter(s, path))'
<1>1. PICK e : e = Enter(s, path)
  OBVIOUS
<1>2. /\ IsState(e) /\ e.stage = s.stage /\ e.node = s.node /\ e.frame = s.frame
      /\ e.asked = s.asked /\ e.text = s.text
      /\ e.kept = (path # <<>> /\ Head(path)[1] = "ifKept")
  BY <1>1 DEF Rests, IsState, Enter
<1>3. e.kept => kept # {}
  BY <1>2 DEF Open
<1>4. Stands(n, inst, e)'
  BY <1>2, <1>3 DEF Stands, Rests, Frames
<1> QED
  BY <1>1, <1>4

\* A function begins on one of the paths that are open.
LEMMA Begins ==
  ASSUME FilterProper(filter), filter' = filter, NEW n \in Frames,
         NEW path \in filter.frame[n].initial \cup filter.frame[n].ready, Open(path),
         todo' = With(todo, n, Body(path)), NEW inst, NEW s,
         ProperOn(filter, inst, s, path),
         Stands(n, inst, Enter(s, path))'
  PROVE  RunsOn(n, inst, Enter(s, path), Body(path))'
<1>1. IsPath(path)
  BY DEF FilterProper, IsSequence, IsPath, Frames
<1>2. IsPath(Body(path))
  BY <1>1, BodyIsPath
<1> DEFINE b == Body(path)
           start == Enter(s, path)
<1>3. PICK S : b \in Seq(S)
  BY <1>2 DEF IsPath
<1>4. Len(b) \in Nat /\ 0 \in 0 .. Len(b) /\ b = SubSeq(b, 0 + 1, Len(b))
  BY <1>3, LenProperties, SubSeqFull
<1>5. start \in Alone(inst, start, b)[0]
  BY <1>4, AloneBegins
<1>6. n \in DOMAIN todo' /\ todo'[n] = b
  BY DEF With
<1>7. AllProper(filter, inst, start, b)
  BY DEF ProperOn
<1> HIDE DEF b, start
<1> QED
  BY <1>2, <1>4, <1>5, <1>6, <1>7 DEF RunsOn, Running, b, start

LEMMA GetFrameDataStep ==
  ASSUME IInv, NEW n \in Frames, get_frame_data(n)
  PROVE  IInv'
<1>1. Always /\ phase = "live" /\ n # Create
  BY DEF IInv, get_frame_data, Always, Typed, Create
<1>2. PICK inst : Live(inst)
  BY <1>1 DEF IInv, InPhase
<1>3. /\ stage[n] = "none" /\ n \notin DOMAIN todo /\ FrameFits(n, inst) /\ Idle(n)
      /\ \A m \in Frames : stage[m] # "initial"
  BY <1>2 DEF get_frame_data, Live, FrameFits
<1>4. UNCHANGED <<filter, phase, node, frame, kept, asked, text, product, source>>
  BY DEF get_frame_data
<1>5. DOMAIN stage = Frames /\ FilterProper(filter) /\ InstanceProper(filter, inst)
  BY <1>1, <1>2 DEF Always, Typed, FilterProper, Live
<1>6. source' => BecomesSource(filter, inst)
  BY <1>2, <1>4 DEF Live
<1>7. CASE source
  <2>1. stage' = [stage EXCEPT ![n] = "asked"] /\ todo' = todo
    BY <1>7 DEF get_frame_data
  <2>2. \A m \in Frames \ {n} : Undisturbed(m)
    BY <1>1, <1>4, <2>1, OthersStay
  <2>3. FrameFits(n, inst)'
    <3> DEFINE s == Fresh("processing")
    <3>1. Rests(n, s)'
      BY <1>3, <1>4 DEF Idle, Rests, Fresh, IsState
    <3>2. Waits(n, inst, s)'
      BY <1>4, <1>7 DEF Waits
    <3>3. stage'[n] = "asked"
      BY <1>5, <2>1
    <3> HIDE DEF s
    <3> QED
      BY <3>1, <3>2, <3>3 DEF FrameFits, Stages
  <2>4. DOMAIN stage' = Frames /\ stage'[n] = "asked" /\ DOMAIN todo' = DOMAIN todo \ {n}
    BY <1>3, <1>5, <2>1
  <2>5. ProductRight'
    BY <1>1, <1>4, ProductStill
  <2> QED
    BY <1>1, <1>2, <1>4, <1>6, <2>2, <2>3, <2>4, <2>5, FrameStep
<1>8. CASE ~source
  <2>1. stage' = [stage EXCEPT ![n] = "initial"] /\ Runs(n, filter.frame[n].initial)
    BY <1>8 DEF get_frame_data
  <2>2. PICK path \in filter.frame[n].initial : Open(path) /\ todo' = With(todo, n, Body(path))
    BY <2>1 DEF Runs
  <2>3. \A m \in Frames \ {n} : Undisturbed(m)
    BY <1>1, <1>4, <2>1, <2>2, OthersStay
  <2>4. DOMAIN stage' = Frames /\ stage'[n] = "initial" /\ DOMAIN todo' = DOMAIN todo \cup {n}
    BY <1>5, <2>1, <2>2 DEF With
  <2>5. ProperOn(filter, inst, Fresh("initial"), path)
    BY <1>5, <2>2 DEF InstanceProper, FrameProper, Frames
  <2>6. Stands(n, inst, Enter(Fresh("initial"), path))'
    <3>1. Rests(n, Fresh("initial")) /\ Fresh("initial").stage = "initial"
      BY <1>3 DEF Idle, Fresh
    <3>2. Holds(node, Create, inst)
      BY <1>2 DEF Live
    <3> QED
      BY <1>1, <1>4, <2>2, <2>4, <3>1, <3>2, Enters
  <2>7. RunsOn(n, inst, Enter(Fresh("initial"), path), Body(path))'
    BY <1>4, <1>5, <2>2, <2>5, <2>6, Begins
  <2>8. FrameFits(n, inst)'
    BY <1>4, <1>8, <2>2, <2>4, <2>7 DEF FrameFits, Stages
  <2>9. ProductRight'
    BY <1>1, <1>4, ProductStill
  <2> QED
    BY <1>1, <1>2, <1>3, <1>4, <1>6, <2>3, <2>4, <2>8, <2>9, FrameStep
<1> QED
  BY <1>7, <1>8

LEMMA EndInitialStep ==
  ASSUME IInv, NEW n \in Frames, EndInitial(n)
  PROVE  IInv'
<1>1. Always /\ n # Create /\ n # Free
  BY DEF IInv, Always, Typed, Create, Free
<1>2. phase = "live"
  <2>1. n \in DOMAIN todo
    BY DEF EndInitial, Running
  <2> QED
    BY <1>1, <2>1 DEF IInv, InPhase, Creating, Freeing, Gone
<1>3. PICK inst : Live(inst)
  BY <1>2 DEF IInv, InPhase
<1>4. /\ todo[n] = <<>> /\ stage[n] = "initial" /\ FrameFits(n, inst) /\ ~source
      /\ UNCHANGED <<filter, node, kept, asked, text, product>>
      /\ \A m \in Frames \ {n} : stage[m] # "initial"
  BY <1>3 DEF EndInitial, Live, FrameFits
<1>5. DOMAIN stage = Frames /\ FilterProper(filter) /\ InstanceProper(filter, inst)
  BY <1>1, <1>3 DEF Always, Typed, FilterProper, Live
<1>6. FrameProper(filter, inst, n)
  BY <1>5 DEF InstanceProper, Frames
<1>7. PICK path \in filter.frame[n].initial :
        RunsOn(n, inst, Enter(Fresh("initial"), path), Body(path))
  BY <1>4 DEF FrameFits
<1>8. PICK e \in Ends(inst, Fresh("initial"), path) : Stands(n, inst, e)
  BY <1>4, <1>7, AtReturn DEF Ends
<1>9. e \in InitialEnds(filter, inst, n)
  BY <1>7, <1>8 DEF InitialEnds
<1>10. /\ IsState(e) /\ Holds(node, n, e.node) /\ Holds(frame, n, e.frame)
       /\ asked[n] = e.asked /\ text[n] = e.text /\ (e.kept => kept # {})
       /\ HasFrame(n, "returned") <=> "returned" \in DOMAIN e.frame
  BY <1>1, <1>8, Found DEF Stands
<1>11. "first" \notin DOMAIN e.frame /\ (e.text = "none" \/ Known("terminates"))
  BY <1>6, <1>9 DEF FrameProper, Known
<1>12. CASE text[n] # "none"
  <2>1. Terminate /\ UNCHANGED <<stage, frame>>
    BY <1>12 DEF EndInitial
  <2>2. \A h \in DOMAIN node' \cup DOMAIN frame' : Owner(h)
    BY <1>1, <1>4, <2>1 DEF Always
  <2> QED
    BY <1>1, <1>4, <1>10, <1>11, <1>12, <2>1, <2>2, TerminatedIsFine
<1>13. CASE text[n] = "none"
  <2>1. /\ todo' = Without(todo, n) /\ stage' = [stage EXCEPT ![n] = "asked"]
        /\ source' = HasFrame(n, "returned") /\ phase' = phase
        /\ frame' = IF HasFrame(n, "returned")
                      THEN With(Without(frame, <<n, "returned">>), <<n, "first">>,
                                frame[<<n, "returned">>])
                      ELSE frame
    BY <1>13 DEF EndInitial
  <2>2. PICK a : a = Awaits(e)
    OBVIOUS
  <2>3. a \in Awaited(filter, inst, n)
    BY <1>9, <1>10, <1>13, <2>2 DEF Awaited
  <2>4. /\ IsState(a) /\ a.node = e.node /\ a.asked = e.asked /\ a.text = e.text /\ a.kept = e.kept
        /\ "returned" \notin DOMAIN e.frame => a.frame = e.frame
        /\ "returned" \in DOMAIN e.frame =>
             a.frame = With(Without(e.frame, "returned"), "first", e.frame["returned"])
    BY <1>10, <2>2 DEF Awaits, IsState
  <2>5. "first" \in DOMAIN a.frame <=> "returned" \in DOMAIN e.frame
    BY <1>11, <2>4 DEF With
  <2>6. /\ Holds(frame', n, a.frame)
        /\ \A p, f : p # n /\ Holds(frame, p, f) => Holds(frame', p, f)
        /\ \A h \in DOMAIN frame' : h \in DOMAIN frame \/ \E v : h = <<n, v>>
    <3>1. CASE "returned" \notin DOMAIN e.frame
      BY <1>10, <2>1, <2>4, <3>1
    <3>2. CASE "returned" \in DOMAIN e.frame
      <4> DEFINE h1 == Without(frame, <<n, "returned">>)
                 f1 == Without(e.frame, "returned")
                 x == e.frame["returned"]
      <4>1. frame[<<n, "returned">>] = x
        BY <1>10, <3>2 DEF Holds
      <4>2. frame' = With(h1, <<n, "first">>, x) /\ a.frame = With(f1, "first", x)
        BY <1>10, <2>1, <2>4, <3>2, <4>1
      <4>3. Holds(h1, n, f1) /\ \A p, f : p # n /\ Holds(frame, p, f) => Holds(h1, p, f)
        BY <1>10, HoldsRemoved
      <4>4. \A h \in DOMAIN frame' : h \in DOMAIN frame \/ \E v : h = <<n, v>>
        BY <4>2 DEF With, Without
      <4> HIDE DEF h1, f1, x
      <4>5. /\ Holds(frame', n, a.frame)
            /\ \A p, f : p # n /\ Holds(h1, p, f) => Holds(frame', p, f)
        BY <4>2, <4>3, HoldsAdded
      <4> QED
        BY <4>3, <4>4, <4>5
    <3> QED
      BY <3>1, <3>2
  <2>7. DOMAIN stage' = Frames /\ stage'[n] = "asked" /\ DOMAIN todo' = DOMAIN todo \ {n}
    BY <1>5, <2>1 DEF Without
  <2>8. FrameFits(n, inst)'
    <3>1. Rests(n, a)'
      BY <1>4, <1>10, <2>4, <2>6 DEF Rests
    <3>2. Waits(n, inst, a)'
      BY <1>4, <1>10, <2>1, <2>3, <2>5 DEF Waits
    <3> QED
      BY <2>7, <3>1, <3>2 DEF FrameFits, Stages
  <2>9. ASSUME NEW m \in Frames \ {n} PROVE Undisturbed(m)
    <3>1. \A v, w : <<m, v>> # <<n, w>>
      OBVIOUS
    <3>2. m \in DOMAIN todo => m \in DOMAIN todo' /\ todo'[m] = todo[m]
      BY <2>1 DEF Without
    <3>3. stage'[m] = stage[m] /\ stage[m] # "initial"
      BY <1>4, <1>5, <2>1
    <3> QED
      BY <1>4, <2>6, <3>1, <3>2, <3>3 DEF Undisturbed
  <2>10. source' => BecomesSource(filter, inst)
    BY <1>10, <2>1, <2>3, <2>5 DEF BecomesSource, Frames
  <2>11. ProductRight'
    BY <1>1, <1>4, ProductStill
  <2> QED
    BY <1>1, <1>2, <1>3, <1>4, <2>1, <2>6, <2>7, <2>8, <2>9, <2>10, <2>11, FrameStep
<1> QED
  BY <1>12, <1>13

LEMMA ProcessFrameStep ==
  ASSUME IInv, NEW n \in Frames, process_frame(n)
  PROVE  IInv'
<1>1. Always /\ phase = "live" /\ n # Create
  BY DEF IInv, process_frame, Always, Typed, Create
<1>2. PICK inst : Live(inst)
  BY <1>1 DEF IInv, InPhase
<1>3. stage[n] = "asked" /\ FrameFits(n, inst)
  BY <1>2 DEF process_frame, Live
<1>4. UNCHANGED <<filter, phase, node, frame, kept, asked, text, product, source>>
  BY DEF process_frame
<1>5. DOMAIN stage = Frames /\ FilterProper(filter) /\ InstanceProper(filter, inst)
  BY <1>1, <1>2 DEF Always, Typed, FilterProper, Live
<1>6. FrameProper(filter, inst, n)
  BY <1>5 DEF InstanceProper, Frames
<1>7. PICK s : Waits(n, inst, s) /\ Rests(n, s)
  BY <1>3 DEF FrameFits
<1>8. PICK path \in IF source THEN filter.frame[n].initial ELSE filter.frame[n].ready :
        Open(path) /\ todo' = With(todo, n, Body(path))
  BY DEF process_frame, Runs
<1>9. path \in filter.frame[n].initial \cup filter.frame[n].ready
  BY <1>8
<1>10. AnswerProper(filter, inst, n, s, path)
  <2>1. CASE source
    <3>1. BecomesSource(filter, inst) /\ s \in Awaited(filter, inst, n) \cup {Fresh("processing")}
      BY <1>2, <1>7, <2>1 DEF Live, Waits
    <3> QED
      BY <1>6, <1>8, <2>1, <3>1 DEF FrameProper
  <2>2. CASE ~source
    <3>1. s \in Awaited(filter, inst, n) /\ "first" \notin DOMAIN s.frame
      BY <1>7, <2>2 DEF Waits
    <3> QED
      BY <1>6, <1>8, <2>2, <3>1 DEF FrameProper
  <2> QED
    BY <2>1, <2>2
<1>11. s.stage = "processing"
  <2>1. CASE s = Fresh("processing")
    BY <2>1 DEF Fresh
  <2>2. CASE s \in Awaited(filter, inst, n)
    <3>1. PICK e : s = Awaits(e)
      BY <2>2 DEF Awaited
    <3>2. IsState(s)
      BY <1>7 DEF Rests
    <3> QED
      BY <3>1, <3>2 DEF Awaits, IsState
  <2> QED
    BY <1>7, <2>1, <2>2 DEF Waits
<1>12. /\ stage' = [stage EXCEPT ![n] = "processing"] /\ DOMAIN stage' = Frames
       /\ stage'[n] = "processing" /\ DOMAIN todo' = DOMAIN todo \cup {n}
  BY <1>5, <1>8 DEF process_frame, With
<1>13. Stands(n, inst, Enter(s, path))'
  BY <1>1, <1>2, <1>4, <1>7, <1>8, <1>11, <1>12, Enters DEF Live
<1>14. RunsOn(n, inst, Enter(s, path), Body(path))'
  BY <1>4, <1>5, <1>8, <1>9, <1>10, <1>13, Begins DEF AnswerProper
<1>15. FrameFits(n, inst)'
  BY <1>4, <1>9, <1>10, <1>12, <1>14 DEF FrameFits, Stages
<1>16. \A m \in Frames \ {n} : Undisturbed(m)
  BY <1>1, <1>4, <1>8, <1>12, OthersStay
<1>17. (source' => BecomesSource(filter, inst)) /\ ProductRight'
  BY <1>1, <1>2, <1>4, ProductStill DEF Live
<1> QED
  BY <1>1, <1>2, <1>4, <1>12, <1>15, <1>16, <1>17, FrameStep

LEMMA EndProcessStep ==
  ASSUME IInv, NEW n \in Frames, EndProcess(n)
  PROVE  IInv'
<1>1. Always /\ n # Create /\ n # Free
  BY DEF IInv, Always, Typed, Create, Free
<1>2. phase = "live"
  <2>1. n \in DOMAIN todo
    BY DEF EndProcess, Running
  <2> QED
    BY <1>1, <2>1 DEF IInv, InPhase, Creating, Freeing, Gone
<1>3. PICK inst : Live(inst)
  BY <1>2 DEF IInv, InPhase
<1>4. /\ todo[n] = <<>> /\ stage[n] = "processing" /\ FrameFits(n, inst)
      /\ UNCHANGED <<filter, node, kept, asked, text, source>>
      /\ frame' = Without(frame, <<n, "returned">>)
  BY <1>3 DEF EndProcess, Live
<1>5. DOMAIN stage = Frames
  BY <1>1 DEF Always, Typed
<1>6. PICK s : \E path \in filter.frame[n].initial \cup filter.frame[n].ready :
        /\ AnswerProper(filter, inst, n, s, path)
        /\ RunsOn(n, inst, Enter(s, path), Body(path))
  BY <1>4 DEF FrameFits
<1>7. PICK path \in filter.frame[n].initial \cup filter.frame[n].ready :
        /\ AnswerProper(filter, inst, n, s, path)
        /\ RunsOn(n, inst, Enter(s, path), Body(path))
  BY <1>6
<1>8. PICK e \in Ends(inst, s, path) : Stands(n, inst, e)
  BY <1>4, <1>7, AtReturn DEF Ends
<1>9. /\ LeavesOnly(filter, e, {"first", "returned"})
      /\ e.text # "none" \/ "returned" \in DOMAIN e.frame \/ Known("terminates")
      /\ e.text = "none" /\ "returned" \in DOMAIN e.frame /\ n \in DOMAIN filter.wanted
         /\ e.frame["returned"] \cap filter.over = {} => e.frame["returned"] = filter.wanted[n]
  BY <1>7, <1>8 DEF AnswerProper, Known
<1>10. /\ IsState(e) /\ Holds(node, n, e.node) /\ Holds(frame, n, e.frame) /\ text[n] = e.text
       /\ HasFrame(n, "returned") <=> "returned" \in DOMAIN e.frame
  BY <1>1, <1>8, Found DEF Stands
<1>11. \A h \in DOMAIN frame' : h \in DOMAIN frame
  BY <1>4 DEF Without
<1>12. CASE Terminate
  <2>1. UNCHANGED <<stage, product>> /\ Known("terminates")
    <3>1. todo' = <<>> /\ phase' = "terminated"
      BY <1>12 DEF Terminate
    <3>2. phase' # phase
      BY <1>2, <3>1
    <3>3. text[n] = "none" /\ ~HasFrame(n, "returned") /\ UNCHANGED <<stage, product>>
      BY <3>2 DEF EndProcess
    <3> QED
      BY <1>9, <1>10, <3>3
  <2>2. \A h \in DOMAIN node' \cup DOMAIN frame' : Owner(h)
    BY <1>1, <1>4, <1>11 DEF Always
  <2> QED
    BY <1>1, <1>4, <1>12, <2>1, <2>2, TerminatedIsFine
<1>13. CASE ~Terminate
  <2>1. /\ todo' = Without(todo, n) /\ phase' = phase
        /\ \E x \in {"done", "failed"} : stage' = [stage EXCEPT ![n] = x]
        /\ \/ product' = product
           \/ /\ text[n] = "none" /\ HasFrame(n, "returned")
              /\ product' = With(product, n, frame[<<n, "returned">>])
    BY <1>13 DEF EndProcess
  <2>2. PICK x \in {"done", "failed"} : stage' = [stage EXCEPT ![n] = x]
    BY <2>1
  <2>3. \A m \in Frames \ {n} : Undisturbed(m)
    BY <1>1, <1>4, <2>1, <2>2, OthersStay
  <2>4. /\ DOMAIN stage' = Frames /\ stage'[n] \in {"done", "failed"}
        /\ DOMAIN todo' = DOMAIN todo \ {n}
    BY <1>5, <2>1, <2>2 DEF Without
  <2>5. Spent(n)'
    <3>1. CASE Known("leak")
      BY <1>4, <3>1 DEF Spent, Known
    <3>2. CASE ~Known("leak")
      <4>1. DOMAIN e.node = {} /\ DOMAIN e.frame \subseteq {"first", "returned"}
        BY <1>9, <3>2 DEF LeavesOnly, Known
      <4> QED
        BY <1>4, <1>10, <4>1 DEF Spent, Holds, Without
    <3> QED
      BY <3>1, <3>2
  <2>6. FrameFits(n, inst)'
    BY <2>4, <2>5 DEF FrameFits, Stages
  <2>7. ProductRight'
    <3>1. CASE product' = product
      BY <1>1, <1>4, <3>1, ProductStill
    <3>2. CASE /\ text[n] = "none" /\ HasFrame(n, "returned")
               /\ product' = With(product, n, frame[<<n, "returned">>])
      <4>1. frame[<<n, "returned">>] = e.frame["returned"] /\ "returned" \in DOMAIN e.frame
        BY <1>10, <3>2 DEF Holds
      <4> DEFINE p == e.frame["returned"]
      <4>2. product' = With(product, n, p)
        BY <3>2, <4>1
      <4>3. n \in DOMAIN filter.wanted /\ p \cap filter.over = {} => p = filter.wanted[n]
        BY <1>9, <1>10, <3>2, <4>1
      <4>4. ProductRight
        BY <1>1 DEF Always
      <4> HIDE DEF p
      <4>5. \A m \in DOMAIN product' :
              \/ m = n /\ product'[m] = p
              \/ m # n /\ m \in DOMAIN product /\ product'[m] = product[m]
        BY <4>2 DEF With
      <4> QED
        BY <1>4, <4>3, <4>4, <4>5 DEF ProductRight
    <3> QED
      BY <2>1, <3>1, <3>2
  <2>8. source' => BecomesSource(filter, inst)
    BY <1>3, <1>4 DEF Live
  <2> QED
    BY <1>1, <1>2, <1>3, <1>4, <1>11, <2>1, <2>3, <2>4, <2>6, <2>7, <2>8, FrameStep
<1> QED
  BY <1>12, <1>13

LEMMA DropFrameDataStep ==
  ASSUME IInv, NEW n \in Frames, drop_frame_data(n)
  PROVE  IInv'
<1>1. Always /\ phase = "live" /\ n # Create
  BY DEF IInv, drop_frame_data, Always, Typed, Create
<1>2. PICK inst : Live(inst)
  BY <1>1 DEF IInv, InPhase
<1>3. stage[n] = "asked" /\ asked[n] # {} /\ FrameFits(n, inst) /\ n \notin DOMAIN todo
  BY <1>2 DEF drop_frame_data, Live
<1>4. UNCHANGED <<filter, phase, todo, node, frame, kept, asked, text, product, source>>
  BY DEF drop_frame_data
<1>5. DOMAIN stage = Frames /\ FilterProper(filter) /\ InstanceProper(filter, inst)
  BY <1>1, <1>2 DEF Always, Typed, FilterProper, Live
<1>6. FrameProper(filter, inst, n)
  BY <1>5 DEF InstanceProper, Frames
<1>7. PICK s : Waits(n, inst, s) /\ Rests(n, s)
  BY <1>3 DEF FrameFits
<1>8. s.asked # {}
  BY <1>3, <1>7 DEF Rests
<1>9. PICK e \in InitialEnds(filter, inst, n) : s = Awaits(e)
  <2>1. s # Fresh("processing")
    BY <1>8 DEF Fresh
  <2> QED
    BY <1>7, <2>1 DEF Waits, Awaited
<1>10. Spent(n)'
  <2>1. CASE Known("leak")
    BY <1>4, <2>1 DEF Spent, Known
  <2>2. CASE ~Known("leak")
    <3>1. IsState(s)
      BY <1>7 DEF Rests
    <3>2. e.asked = s.asked /\ e.node = s.node
      BY <1>9, <3>1 DEF Awaits, IsState
    <3>3. DOMAIN e.node = {} /\ DOMAIN e.frame \subseteq {"returned"}
      BY <1>6, <1>8, <2>2, <3>2 DEF FrameProper, Known
    <3>4. DOMAIN s.frame \subseteq {"first"}
      <4>1. s.frame = IF "returned" \in DOMAIN e.frame
                        THEN With(Without(e.frame, "returned"), "first", e.frame["returned"])
                        ELSE e.frame
        BY <1>9, <3>1 DEF Awaits, IsState
      <4> QED
        BY <3>3, <4>1 DEF With, Without
    <3> QED
      BY <1>4, <1>7, <3>2, <3>3, <3>4 DEF Spent, Rests, Holds
  <2> QED
    BY <2>1, <2>2
<1>11. /\ stage' = [stage EXCEPT ![n] = "dropped"] /\ DOMAIN stage' = Frames
       /\ stage'[n] = "dropped" /\ DOMAIN todo' = DOMAIN todo \ {n}
  BY <1>3, <1>4, <1>5 DEF drop_frame_data
<1>12. FrameFits(n, inst)'
  BY <1>10, <1>11 DEF FrameFits, Stages
<1>13. \A m \in Frames \ {n} : Undisturbed(m)
  BY <1>1, <1>4, <1>11, OthersStay
<1>14. (source' => BecomesSource(filter, inst)) /\ ProductRight'
  BY <1>1, <1>2, <1>4, ProductStill DEF Live
<1> QED
  BY <1>1, <1>2, <1>4, <1>11, <1>12, <1>13, <1>14, FrameStep

\* A function's handles when the instance goes.
FreeStart(inst) == [Fresh("freeing") EXCEPT !.node = inst]

LEMMA FreeInstanceStep ==
  ASSUME IInv, FreeInstance
  PROVE  IInv'
<1>1. Always /\ phase = "live" /\ Frames \subseteq Nat /\ Free \notin Frames
  BY DEF IInv, FreeInstance, Always, Typed, Free
<1>2. PICK inst : Live(inst)
  BY <1>1 DEF IInv, InPhase
<1>3. /\ UNCHANGED <<filter, node, frame, kept, asked, stage, text, product, source>>
      /\ phase' = "freeing" /\ todo' = With(<<>>, Free, filter.free)
      /\ \A n \in Frames : stage[n] \in {"none", "done", "failed", "dropped"}
  BY DEF FreeInstance
<1>4. FreeProper(filter, inst) /\ IsPath(filter.free)
  BY <1>1, <1>2 DEF Always, FilterProper, Live, InstanceProper, IsSequence, IsPath
<1>5. DOMAIN todo' = {Free} /\ todo'[Free] = filter.free
  <2>1. DOMAIN <<>> = {}
    OBVIOUS
  <2> QED
    BY <1>3, <2>1 DEF With
<1>6. ASSUME ~Known("leak")
      PROVE  /\ \A h \in DOMAIN node : h[1] = Create
             /\ \A h \in DOMAIN frame : h[2] = "first"
  <2>1. ASSUME NEW n \in Frames, NEW v
        PROVE  <<n, v>> \notin DOMAIN node /\ (<<n, v>> \in DOMAIN frame => v = "first")
    <3>1. Idle(n) \/ Spent(n)
      BY <1>2, <1>3 DEF Live, FrameFits
    <3>2. CASE Idle(n)
      <4>1. DOMAIN <<>> = {}
        OBVIOUS
      <4> QED
        BY <3>2, <4>1 DEF Idle, Rests, Fresh, Holds
    <3>3. CASE Spent(n)
      BY <1>6, <3>3 DEF Spent
    <3> QED
      BY <3>1, <3>2, <3>3
  <2>2. \A v : <<Create, v>> \notin DOMAIN frame
    BY <1>2, <1>6 DEF Live
  <2>3. ASSUME NEW h, Owner(h)
        PROVE  (h \in DOMAIN node => h[1] = Create) /\ (h \in DOMAIN frame => h[2] = "first")
    BY <2>1, <2>2, <2>3 DEF Owner
  <2> QED
    BY <1>1, <2>3 DEF Always
<1>7. Settled'
  BY <1>1, <1>3, <1>5, <1>6 DEF Settled, Known, Running, Frames
<1>8. PICK S : filter.free \in Seq(S)
  BY <1>4 DEF IsPath
<1>9. /\ Len(filter.free) \in Nat /\ DOMAIN filter.free = 1 .. Len(filter.free)
      /\ filter.free = SubSeq(filter.free, 0 + 1, Len(filter.free))
  BY <1>8, LenProperties, SubSeqFull
<1>10. \/ Known("leak") \/ kept = {}
       \/ \E i \in 0 + 1 .. Len(filter.free) : filter.free[i] = <<"freeKept">>
  BY <1>1, <1>4, <1>9 DEF Always, FreeProper, Known
<1>11. FreeStart(inst) \in Alone(<<>>, FreeStart(inst), filter.free)[0]
  BY <1>9, AloneBegins
<1>12. /\ IsState(FreeStart(inst)) /\ FreeStart(inst).stage = "freeing"
       /\ FreeStart(inst).node = inst
  <2>1. PICK r : r = Fresh("freeing")
    OBVIOUS
  <2>2. IsState(r) /\ r.stage = "freeing"
    BY <2>1 DEF Fresh, IsState
  <2>3. FreeStart(inst) = [r EXCEPT !.node = inst]
    BY <2>1 DEF FreeStart
  <2> QED
    BY <2>2, <2>3 DEF IsState
<1>13. Holds(node', Create, inst)
  BY <1>2, <1>3 DEF Live
<1>14. Freeing(inst)'
  <2>1. PICK free : free = filter.free
    OBVIOUS
  <2>2. PICK s : s = FreeStart(inst)
    OBVIOUS
  <2>3. /\ 0 \in 0 .. Len(free) /\ filter'.free = free
        /\ todo'[Free] = SubSeq(free, 0 + 1, Len(free))
        /\ s \in Alone(<<>>, FreeStart(inst), free)[0]
    BY <1>3, <1>5, <1>9, <1>11, <2>1, <2>2
  <2>4. IsState(s) /\ s.stage = "freeing" /\ Holds(node', Create, s.node)
    BY <1>12, <1>13, <2>2
  <2>5. \/ Known("leak")' \/ kept' = {}
        \/ \E i \in 0 + 1 .. Len(free) : free[i] = <<"freeKept">>
    BY <1>3, <1>10, <2>1 DEF Known
  <2>6. inst \in Instances(filter') /\ DOMAIN todo' = {Free}
    BY <1>2, <1>3, <1>5 DEF Live
  <2> QED
    BY <1>7, <2>3, <2>4, <2>5, <2>6 DEF Freeing, FreeStart
<1>15. Always'
  <2>1. \A h \in DOMAIN node' \cup DOMAIN frame' : Owner(h)
    BY <1>1, <1>3 DEF Always
  <2> QED
    BY <1>1, <1>3, <2>1, HostKeepsAlways, ProductStill DEF Always, Typed
<1> QED
  BY <1>3, <1>14, <1>15 DEF IInv, InPhase

LEMMA CallInFreeing ==
  ASSUME IInv, phase = "freeing", NEW c \in DOMAIN todo, Calls(c)
  PROVE  IInv'
<1>1. Always /\ Frames \subseteq Nat /\ Free \notin Frames /\ Create \notin Frames /\ Create # Free
  BY DEF IInv, Always, Typed, Create, Free
<1>2. PICK inst : Freeing(inst)
  BY DEF IInv, InPhase
<1>3. c = Free /\ todo[Free] # <<>> /\ DOMAIN todo = {Free}
  BY <1>2, CallComing DEF Freeing
<1>4. PICK free : free = filter.free
  OBVIOUS
<1>5. PICK k \in 0 .. Len(free) :
        /\ todo[Free] = SubSeq(free, k + 1, Len(free))
        /\ \/ Known("leak") \/ kept = {}
           \/ \E i \in k + 1 .. Len(free) : free[i] = <<"freeKept">>
        /\ \E s \in Alone(<<>>, FreeStart(inst), free)[k] :
             IsState(s) /\ s.stage = "freeing" /\ Holds(node, Create, s.node)
  BY <1>2, <1>4 DEF Freeing, FreeStart
<1>6. PICK s \in Alone(<<>>, FreeStart(inst), free)[k] :
        IsState(s) /\ s.stage = "freeing" /\ Holds(node, Create, s.node)
  BY <1>5
<1>7. IsPath(free) /\ FreeProper(filter, inst)
  BY <1>1, <1>2, <1>4
     DEF Always, FilterProper, Freeing, InstanceProper, IsSequence, IsPath
<1>8. /\ Len(free) \in Nat /\ k \in 0 .. Len(free) - 1 /\ Coming(Free) = free[k + 1]
      /\ Tail(todo[Free]) = SubSeq(free, (k + 1) + 1, Len(free))
  BY <1>3, <1>5, <1>7, RestOfPath DEF Coming
<1>9. Proper(filter, <<>>, s, free[k + 1])
  <2>1. k + 1 \in 1 .. Len(free) /\ (k + 1) - 1 = k
    BY <1>8
  <2> QED
    BY <1>4, <1>6, <1>7, <2>1 DEF FreeProper, AllProper, FreeStart
<1> DEFINE call == free[k + 1]
<1>10. call[1] \in {"freeNode", "freeKept"}
  BY <1>6, <1>9 DEF Proper, Vocabulary
<1>11. freeNode(Free) \/ freeKept(Free)
  <2>1. Coming(Free)[1] \in {"freeNode", "freeKept"}
    BY <1>8, <1>10
  <2> HIDE DEF call
  <2> QED
    BY <1>3, <2>1 DEF Calls, propGetNode, cloneNodeRef, propSetNode, takeOver, setError,
           getFrame, getFrameFilter, newVideoFrame, copyFrame, propGetFrame, compute, freeFrame,
           keep, cloneKept, return, requestFrameFilter, setFilterError, clearMap, Does, Reaches
<1>12. /\ UNCHANGED <<filter, phase, frame, asked, stage, text, product, source>>
       /\ GoesOn(Free)
  BY <1>11 DEF freeNode, freeKept, OnlyNodes, OnlyFrames, Does
<1>13. /\ DOMAIN todo' = {Free} /\ todo'[Free] = SubSeq(free, (k + 1) + 1, Len(free))
  BY <1>3, <1>8, <1>12 DEF GoesOn
\* The node freed is one of the instance's, as for the function alone.
<1>14. /\ Possible(<<>>, s, call)
       /\ Holds(node', Create, After(<<>>, s, call).node)
       /\ DOMAIN node' \subseteq DOMAIN node
       /\ \/ kept' = {}
          \/ kept' = kept /\ call[1] # "freeKept"
  <2>1. CASE freeNode(Free)
    <3>1. /\ call[1] = "freeNode" /\ HasNode(Free, call[2]) /\ kept' = kept
          /\ node' = Without(node, Node(Free, call[2]))
      BY <1>8, <2>1 DEF freeNode, Does, Reaches, Arg, OnlyNodes
    <3>2. <<Free, call[2]>> \notin DOMAIN node
      <4>1. ~Owner(<<Free, call[2]>>)
        BY <1>1 DEF Owner
      <4> QED
        BY <1>1, <4>1 DEF Always
    <3>3. Node(Free, call[2]) = <<Create, call[2]>> /\ call[2] \in DOMAIN s.node
      BY <1>6, <3>1, <3>2 DEF HasNode, Node, Holds
    <3>4. After(<<>>, s, call) = Losing(s, call[2])
      BY <1>6, <3>1, AfterFreeNode
    <3>5. After(<<>>, s, call).node = Without(s.node, call[2])
      BY <1>6, <3>4 DEF IsState, Losing
    <3>6. Possible(<<>>, s, call)
      BY <3>1, <3>3 DEF Possible, HoldsUsed, NodesUsed, FramesUsed
    <3> HIDE DEF call
    <3>7. Holds(node', Create, After(<<>>, s, call).node)
      BY <1>6, <3>1, <3>3, <3>5, HoldsRemoved
    <3> QED
      BY <3>1, <3>6, <3>7 DEF Without
  <2>2. CASE freeKept(Free)
    <3>1. call[1] = "freeKept" /\ kept' = {} /\ node' = node
      BY <1>8, <2>2 DEF freeKept, Does, Reaches, OnlyFrames
    <3>2. After(<<>>, s, call) = s
      BY <1>6, <3>1, AfterNothing
    <3>3. Possible(<<>>, s, call)
      BY <3>1 DEF Possible, HoldsUsed, NodesUsed, FramesUsed
    <3> QED
      BY <1>6, <3>1, <3>2, <3>3
  <2> QED
    BY <1>11, <2>1, <2>2
<1>15. PICK t : t = After(<<>>, s, call)
  OBVIOUS
<1>16. /\ t \in Alone(<<>>, FreeStart(inst), free)[k + 1]
       /\ IsState(t) /\ t.stage = "freeing" /\ Holds(node', Create, t.node)
  <2>1. After(<<>>, s, call) \in Alone(<<>>, FreeStart(inst), free)[k + 1]
    BY <1>6, <1>8, <1>14, AloneGoesOn
  <2> QED
    BY <1>6, <1>14, <1>15, <2>1, AfterIsState
<1>17. \/ Known("leak") \/ kept' = {}
       \/ \E i \in (k + 1) + 1 .. Len(free) : free[i] = <<"freeKept">>
  <2>1. SUFFICES ASSUME kept' = kept, call[1] # "freeKept", kept # {}, ~Known("leak")
                 PROVE  \E i \in (k + 1) + 1 .. Len(free) : free[i] = <<"freeKept">>
    BY <1>14
  <2>2. PICK i \in k + 1 .. Len(free) : free[i] = <<"freeKept">>
    BY <1>5, <2>1
  <2>3. i # k + 1
    BY <2>1, <2>2
  <2> QED
    BY <1>8, <2>2, <2>3
<1> HIDE DEF call
<1>18. Settled'
  BY <1>1, <1>2, <1>12, <1>13, <1>14 DEF Freeing, Settled, Known, Running, Frames
<1>19. Freeing(inst)'
  <2>1. k + 1 \in 0 .. Len(free) /\ filter'.free = free
    BY <1>4, <1>8, <1>12
  <2>2. \/ Known("leak")' \/ kept' = {}
        \/ \E i \in (k + 1) + 1 .. Len(free) : free[i] = <<"freeKept">>
    BY <1>12, <1>17 DEF Known
  <2>3. inst \in Instances(filter')
    BY <1>2, <1>12 DEF Freeing
  <2> QED
    BY <1>13, <1>16, <1>18, <2>1, <2>2, <2>3 DEF Freeing, FreeStart
<1>20. Always'
  <2>1. \A h \in DOMAIN node' \cup DOMAIN frame' : Owner(h)'
    BY <1>1, <1>12, <1>14 DEF Always, Owner, Frames
  <2>2. kept' \subseteq {{}} /\ (kept' # {} => Keeps(filter'))
    BY <1>1, <1>12, <1>14 DEF Always
  <2>3. Typed' /\ AskedRight' /\ ProductRight' /\ FilterProper(filter)'
    BY <1>1, <1>12 DEF Always, Typed, AskedRight, ProductRight, Known, Frames
  <2> QED
    BY <2>1, <2>2, <2>3 DEF Always
<1> QED
  BY <1>12, <1>19, <1>20 DEF IInv, InPhase

LEMMA EndFreeStep ==
  ASSUME IInv, EndFree
  PROVE  IInv'
<1>1. Always /\ Frames \subseteq Nat /\ Free \notin Frames /\ Create # Free
  BY DEF IInv, Always, Typed, Create, Free
<1>2. Free \in DOMAIN todo /\ todo[Free] = <<>>
  BY DEF EndFree, Running
<1>3. \E inst : Freeing(inst)
  <2>1. ~\E inst : Live(inst)
    BY <1>1, <1>2 DEF Live
  <2> QED
    BY <1>1, <1>2, <2>1 DEF IInv, InPhase, Creating, Gone
<1>4. PICK inst : Freeing(inst)
  BY <1>3
<1>5. PICK k \in 0 .. Len(filter.free) :
        /\ todo[Free] = SubSeq(filter.free, k + 1, Len(filter.free))
        /\ \/ Known("leak") \/ kept = {}
           \/ \E i \in k + 1 .. Len(filter.free) : filter.free[i] = <<"freeKept">>
        /\ \E s \in Alone(<<>>, FreeStart(inst), filter.free)[k] :
             IsState(s) /\ s.stage = "freeing" /\ Holds(node, Create, s.node)
  BY <1>4 DEF Freeing, FreeStart
<1>6. PICK s \in Alone(<<>>, FreeStart(inst), filter.free)[k] :
        IsState(s) /\ s.stage = "freeing" /\ Holds(node, Create, s.node)
  BY <1>5
<1>7. IsPath(filter.free) /\ FreeProper(filter, inst)
  BY <1>1, <1>4 DEF Always, FilterProper, Freeing, InstanceProper, IsSequence, IsPath
<1>8. k = Len(filter.free) /\ Len(filter.free) \in Nat
  BY <1>2, <1>5, <1>7, RestOfPath
<1>9. LeavesOnly(filter, s, {})
  BY <1>6, <1>7, <1>8 DEF FreeProper, AtEnd, FreeStart
<1>10. /\ UNCHANGED <<filter, node, frame, kept, asked, stage, text, product, source>>
       /\ DOMAIN todo' = {} /\ phase' = "freed"
  BY <1>4 DEF EndFree, Freeing, Without
<1>11. \/ Known("leak")
       \/ kept = {} /\ DOMAIN node = {} /\ \A h \in DOMAIN frame : h[2] = "first"
  <2>1. CASE Known("leak")
    BY <2>1
  <2>2. CASE ~Known("leak")
    <3>1. kept = {}
      BY <1>5, <1>8, <2>2
    <3>2. DOMAIN s.node = {}
      BY <1>9, <2>2 DEF LeavesOnly, Known
    <3>3. \A h \in DOMAIN node : h[1] = Create
      BY <1>4, <2>2 DEF Freeing, Settled
    <3>4. ASSUME NEW h \in DOMAIN node PROVE FALSE
      <4>1. PICK o \in Frames \cup {Create} : \E v : h = <<o, v>>
        BY <1>1 DEF Always, Owner
      <4>2. PICK v : h = <<o, v>>
        BY <4>1
      <4>3. h = <<Create, v>>
        BY <3>3, <4>2
      <4> QED
        BY <1>6, <3>2, <4>3 DEF Holds
    <3>5. \A h \in DOMAIN frame : h[2] = "first"
      BY <1>4, <2>2 DEF Freeing, Settled
    <3> QED
      BY <3>1, <3>4, <3>5
  <2> QED
    BY <2>1, <2>2
<1>12. Gone'
  BY <1>10, <1>11 DEF Gone, Known
<1>13. Always'
  <2>1. \A h \in DOMAIN node' \cup DOMAIN frame' : Owner(h)
    BY <1>1, <1>10 DEF Always
  <2> QED
    BY <1>1, <1>10, <2>1, HostKeepsAlways, ProductStill DEF Always, Typed
<1> QED
  BY <1>10, <1>12, <1>13 DEF IInv, InPhase

-----------------------------------------------------------------------------
(* The invariant holds *)

LEMMA InitIInv == Init => IInv
<1> SUFFICES ASSUME Init PROVE IInv
  OBVIOUS
<1>0. DOMAIN <<>> = {}
  OBVIOUS
<1>1. FilterProper(filter)
  <2>1. PICK i \in DOMAIN Catalog : filter = Catalog[i]
    BY DEF Init
  <2> QED
    BY <2>1, CatalogAssumption
<1>2. PICK path \in filter.create : todo = With(<<>>, Create, path)
  BY DEF Init
<1>3. IsPath(path)
  BY <1>1 DEF FilterProper, IsSequence, IsPath
<1>4. Typed /\ \A n \in Frames : stage[n] = "none" /\ asked[n] = {} /\ text[n] = "none"
  BY <1>1 DEF Init, Typed, FilterProper, Frames
<1>5. Always
  <2>1. \A n \in Frames : InClips(filter, asked[n] \ filter.over)
    BY <1>4 DEF InClips
  <2>2. ProductRight
    BY <1>0 DEF Init, ProductRight
  <2> QED
    BY <1>0, <1>1, <1>4, <2>1, <2>2 DEF Init, Always, AskedRight
<1>6. \A n \in Frames : Idle(n)
  BY <1>4 DEF Init, Idle, Rests, Fresh, IsState, Holds
<1>7. DOMAIN todo = {Create} /\ todo[Create] = path
  BY <1>0, <1>2 DEF With
<1>8. RunsOn(Create, <<>>, Fresh("creating"), path)
  <2>1. PICK S : path \in Seq(S)
    BY <1>3 DEF IsPath
  <2>2. Len(path) \in Nat /\ 0 \in 0 .. Len(path) /\ path = SubSeq(path, 0 + 1, Len(path))
    BY <2>1, LenProperties, SubSeqFull
  <2>3. Fresh("creating") \in Alone(<<>>, Fresh("creating"), path)[0]
    BY <2>2, AloneBegins
  <2>4. Stands(Create, <<>>, Fresh("creating"))
    BY DEF Init, Stands, Fresh, IsState, Holds
  <2>5. AllProper(filter, <<>>, Fresh("creating"), path)
    BY <1>1 DEF FilterProper, CreateProper
  <2> QED
    BY <1>3, <1>7, <2>2, <2>3, <2>4, <2>5 DEF RunsOn, Running
<1>9. Makes(path) => todo[Create] # <<>>
  BY <1>7 DEF Makes
<1>10. Creating
  BY <1>4, <1>6, <1>7, <1>8, <1>9 DEF Init, Creating
<1> QED
  BY <1>5, <1>10 DEF Init, IInv, InPhase

LEMMA NextIInv == IInv /\ [Next]_vars => IInv'
<1> SUFFICES ASSUME IInv, [Next]_vars PROVE IInv'
  OBVIOUS
<1>1. CASE UNCHANGED vars
  <2>1. Always'
    BY <1>1 DEF vars, IInv, Always, Typed, Owner, AskedRight, ProductRight, Known, Frames
  <2>2. /\ \A c, inst, start, path : RunsOn(c, inst, start, path) => RunsOn(c, inst, start, path)'
        /\ \A n, s : Rests(n, s) => Rests(n, s)'
        /\ \A n, inst, s : Waits(n, inst, s) => Waits(n, inst, s)'
        /\ \A n : Spent(n) => Spent(n)'
    <3>1. \A c, inst, s : Stands(c, inst, s) => Stands(c, inst, s)'
      BY <1>1 DEF vars, Stands, Frames
    <3> QED
      BY <1>1, <3>1 DEF vars, RunsOn, Running, Rests, Waits, Spent, Known
  <2>3. \A n, inst : FrameFits(n, inst) => FrameFits(n, inst)'
    BY <1>1, <2>2 DEF vars, FrameFits, Idle
  <2>4. Creating => Creating'
    BY <1>1, <2>2 DEF vars, Creating, Idle, Frames
  <2>5. \A inst : Live(inst) => Live(inst)'
    BY <1>1, <2>3 DEF vars, Live, Known, Frames
  <2>6. Settled => Settled'
    BY <1>1 DEF vars, Settled, Known, Running, Frames
  <2>7. \A inst : Freeing(inst) => Freeing(inst)'
    BY <1>1, <2>6 DEF vars, Freeing, Known
  <2>8. Gone => Gone'
    BY <1>1 DEF vars, Gone, Known
  <2>9. InPhase'
    BY <1>1, <2>4, <2>5, <2>7, <2>8 DEF vars, IInv, InPhase, Known
  <2> QED
    BY <2>1, <2>9 DEF IInv
<1>2. ASSUME NEW c \in DOMAIN todo, Calls(c) PROVE IInv'
  <2>1. phase \in {"creating", "live", "freeing"}
    BY <1>2 DEF IInv, InPhase, Gone
  <2> QED
    BY <1>2, <2>1, CallInCreating, CallInLive, CallInFreeing
<1>3. CASE createFilter \/ EndCreate \/ FreeInstance \/ EndFree
  BY <1>3, CreateFilterStep, EndCreateStep, FreeInstanceStep, EndFreeStep
<1>4. ASSUME NEW n \in Frames,
             \/ get_frame_data(n) \/ EndInitial(n) \/ process_frame(n) \/ EndProcess(n)
             \/ drop_frame_data(n)
      PROVE  IInv'
  BY <1>4, GetFrameDataStep, EndInitialStep, ProcessFrameStep, EndProcessStep, DropFrameDataStep
<1> QED
  BY <1>1, <1>2, <1>3, <1>4 DEF Next, Calls

\* The inductive invariant: the functions that run, the frames that wait and the instance
\* stand as each function alone would leave them.
THEOREM Inductive == Spec => []IInv
<1> QED
  BY InitIInv, NextIInv, PTL DEF Spec

-----------------------------------------------------------------------------
(* What follows *)

\* The call that comes next is as it should be.
LEMMA ComingProper ==
  ASSUME IInv, NEW c \in DOMAIN todo, todo[c] # <<>>
  PROVE  \E inst, s :
           /\ Proper(filter, inst, s, Coming(c))
           /\ \/ Stands(c, inst, s)
              \/ c = Free /\ inst = <<>> /\ s.stage = "freeing" /\ Holds(node, Create, s.node)
<1>1. CASE phase = "creating"
  <2>1. Creating
    BY <1>1 DEF IInv, InPhase
  <2>2. PICK path : RunsOn(Create, <<>>, Fresh("creating"), path) /\ c = Create
    BY <2>1 DEF Creating
  <2> QED
    BY <2>2, AtCall
<1>2. CASE phase = "live"
  <2>1. PICK inst : Live(inst)
    BY <1>2 DEF IInv, InPhase
  <2>2. \E start, path : RunsOn(c, inst, start, path)
    BY <2>1 DEF Live, FrameFits
  <2>3. PICK start, path : RunsOn(c, inst, start, path)
    BY <2>2
  <2> QED
    BY <2>3, AtCall
<1>3. CASE phase = "freeing"
  <2>1. PICK inst : Freeing(inst)
    BY <1>3 DEF IInv, InPhase
  <2>2. c = Free
    BY <2>1 DEF Freeing
  <2>3. PICK free : free = filter.free
    OBVIOUS
  <2>4. PICK k \in 0 .. Len(free) :
          /\ todo[Free] = SubSeq(free, k + 1, Len(free))
          /\ \E s \in Alone(<<>>, FreeStart(inst), free)[k] :
               IsState(s) /\ s.stage = "freeing" /\ Holds(node, Create, s.node)
    BY <2>1, <2>3 DEF Freeing, FreeStart
  <2>5. PICK s \in Alone(<<>>, FreeStart(inst), free)[k] :
          IsState(s) /\ s.stage = "freeing" /\ Holds(node, Create, s.node)
    BY <2>4
  <2>6. IsPath(free) /\ FreeProper(filter, inst)
    BY <2>1, <2>3 DEF IInv, Always, FilterProper, Freeing, InstanceProper, IsSequence, IsPath
  <2>7. Len(free) \in Nat /\ k \in 0 .. Len(free) - 1 /\ Coming(Free) = free[k + 1]
    BY <2>2, <2>4, <2>6, RestOfPath DEF Coming
  <2>8. Proper(filter, <<>>, s, free[k + 1])
    <3>1. k + 1 \in 1 .. Len(free) /\ (k + 1) - 1 = k
      BY <2>7
    <3> QED
      BY <2>3, <2>5, <2>6, <3>1 DEF FreeProper, AllProper, FreeStart
  <2> QED
    BY <2>2, <2>5, <2>7, <2>8
<1> QED
  BY <1>1, <1>2, <1>3 DEF IInv, InPhase, Gone

\* What a frame between two functions holds, unless the filter is known to leak.
LEMMA FrameHolds ==
  ASSUME IInv, phase = "live", NEW n \in Frames, ~Running(n), ~Known("leak")
  PROVE  /\ stage[n] # "asked" => \A v : <<n, v>> \notin DOMAIN node
         /\ \A v : <<n, v>> \in DOMAIN frame => v = "first"
<1>0. DOMAIN <<>> = {}
  OBVIOUS
<1>1. PICK inst : Live(inst)
  BY DEF IInv, InPhase
<1>2. FrameFits(n, inst) /\ stage[n] \notin {"initial", "processing"}
  BY <1>1 DEF Live, Running
<1>3. CASE stage[n] = "none"
  BY <1>0, <1>2, <1>3 DEF FrameFits, Idle, Rests, Fresh, Holds
<1>4. CASE stage[n] = "asked"
  <2>1. PICK s : Waits(n, inst, s) /\ Rests(n, s)
    BY <1>2, <1>4 DEF FrameFits
  <2>2. DOMAIN s.frame \subseteq {"first"}
    <3>1. CASE s = Fresh("processing")
      BY <1>0, <3>1 DEF Fresh
    <3>2. CASE s \in Awaited(filter, inst, n)
      <4>1. PICK e \in InitialEnds(filter, inst, n) : s = Awaits(e)
        BY <3>2 DEF Awaited
      <4>2. FrameProper(filter, inst, n)
        BY <1>1 DEF Live, IInv, Always, FilterProper, InstanceProper, Frames
      <4>3. DOMAIN e.frame \subseteq {"returned"}
        BY <4>2 DEF FrameProper, Known
      <4>4. s.frame = IF "returned" \in DOMAIN e.frame
                        THEN With(Without(e.frame, "returned"), "first", e.frame["returned"])
                        ELSE e.frame
        BY <2>1, <4>1 DEF Rests, Awaits, IsState
      <4> QED
        BY <4>3, <4>4 DEF With, Without
    <3> QED
      BY <2>1, <3>1, <3>2 DEF Waits
  <2> QED
    BY <1>4, <2>1, <2>2 DEF Rests, Holds
<1>5. CASE stage[n] \in {"done", "failed", "dropped"}
  BY <1>2, <1>5 DEF FrameFits, Spent
<1> QED
  BY <1>2, <1>3, <1>4, <1>5 DEF FrameFits, Stages

LEMMA ReturnedReferences == IInv => ReferencesReturned
<1> SUFFICES ASSUME IInv, ~Known("leak"), phase # "terminated"
             PROVE  /\ \A h \in DOMAIN node : NodeOwned(h)
                    /\ \A h \in DOMAIN frame : Running(h[1]) \/ h[2] = "first"
                    /\ phase \in {"over", "freed"} => kept = {}
                    /\ \A c \in DOMAIN todo : ~Overwrites(c)
  BY DEF ReferencesReturned
<1>0. Always /\ Frames \subseteq Nat /\ DOMAIN <<>> = {}
  BY DEF IInv, Always, Typed
<1>1. ASSUME NEW o \in Frames \cup {Create}, NEW v
      PROVE  /\ <<o, v>> \in DOMAIN node => NodeOwned(<<o, v>>)
             /\ <<o, v>> \in DOMAIN frame => Running(o) \/ v = "first"
  <2>1. CASE phase = "creating"
    <3>1. Creating
      BY <2>1 DEF IInv, InPhase
    <3> QED
      BY <1>0, <3>1 DEF Creating, Idle, Rests, Fresh, Holds, NodeOwned, Running
  <2>2. CASE phase = "live"
    <3>1. PICK inst : Live(inst)
      BY <2>2 DEF IInv, InPhase
    <3>2. CASE o = Create
      BY <2>2, <3>1, <3>2 DEF Live, NodeOwned
    <3>3. CASE o \in Frames
      BY <1>0, <2>2, <3>3, FrameHolds DEF NodeOwned
    <3> QED
      BY <3>2, <3>3
  <2>3. CASE phase = "freeing"
    <3>1. PICK inst : Freeing(inst)
      BY <2>3 DEF IInv, InPhase
    <3>2. (<<o, v>> \in DOMAIN node => o = Create) /\ (<<o, v>> \in DOMAIN frame => v = "first")
      BY <3>1 DEF Freeing, Settled
    <3> QED
      BY <2>3, <3>2 DEF NodeOwned
  <2>4. CASE phase \in {"over", "freed"}
    <3>1. Gone
      BY <2>4 DEF IInv, InPhase
    <3>2. <<o, v>> \notin DOMAIN node /\ (<<o, v>> \in DOMAIN frame => v = "first")
      BY <3>1 DEF Gone
    <3> QED
      BY <3>2
  <2> QED
    BY <2>1, <2>2, <2>3, <2>4 DEF IInv, InPhase
<1>2. ASSUME NEW h, Owner(h)
      PROVE  /\ h \in DOMAIN node => NodeOwned(h)
             /\ h \in DOMAIN frame => Running(h[1]) \/ h[2] = "first"
  BY <1>1, <1>2 DEF Owner
<1>3. phase \in {"over", "freed"} => kept = {}
  BY DEF IInv, InPhase, Gone
<1>4. ASSUME NEW c \in DOMAIN todo, Overwrites(c) PROVE FALSE
  <2>1. todo[c] # <<>>
    BY <1>4 DEF Overwrites
  <2>2. PICK inst, s :
          /\ Proper(filter, inst, s, Coming(c))
          /\ \/ Stands(c, inst, s)
             \/ c = Free /\ inst = <<>> /\ s.stage = "freeing" /\ Holds(node, Create, s.node)
    BY <2>1, ComingProper
  <2>3. CASE Stands(c, inst, s)
    <3>1. /\ NodesMade(Coming(c)) \cap DOMAIN s.node = {}
          /\ FramesMade(Coming(c)) \cap DOMAIN s.frame = {}
      BY <2>2 DEF Proper, Known
    <3> QED
      BY <1>4, <2>3, <3>1 DEF Overwrites, Stands, Holds, HasFrame
  <2>4. CASE s.stage = "freeing"
    <3>1. Coming(c)[1] \in {"freeNode", "freeKept"}
      BY <2>2, <2>4 DEF Proper, Vocabulary
    <3> QED
      BY <1>4, <3>1 DEF Overwrites, NodesMade, FramesMade
  <2> QED
    BY <2>2, <2>3, <2>4
<1> QED
  BY <1>0, <1>2, <1>3, <1>4 DEF Always

LEMMA DanglingNothing == IInv => NothingDangles
<1> SUFFICES ASSUME IInv, ~Known("dangling")
             PROVE  /\ \A c \in DOMAIN todo :
                         todo[c] # <<>> =>
                           /\ \A v \in NodesUsed(Coming(c)) : HasNode(c, v)
                           /\ \A v \in FramesUsed(Coming(c)) : HasFrame(c, v)
                           /\ Coming(c)[1] = "cloneKept" => kept # {}
                    /\ \A n \in Frames :
                         Running(n) /\ todo[n] = <<>> =>
                           text[n] \in {"none", "literal"} \/ Known("text")
                    /\ phase = "live" /\ filter.vi # "" => <<Create, filter.vi>> \in DOMAIN node
  BY DEF NothingDangles
<1>0. Always /\ Frames \subseteq Nat /\ Create \notin Frames /\ Free \notin Frames
  BY DEF IInv, Always, Typed, Create, Free
<1>1. ASSUME NEW c \in DOMAIN todo, todo[c] # <<>>
      PROVE  /\ \A v \in NodesUsed(Coming(c)) : HasNode(c, v)
             /\ \A v \in FramesUsed(Coming(c)) : HasFrame(c, v)
             /\ Coming(c)[1] = "cloneKept" => kept # {}
  <2>1. PICK inst, s :
          /\ Proper(filter, inst, s, Coming(c))
          /\ \/ Stands(c, inst, s)
             \/ c = Free /\ inst = <<>> /\ s.stage = "freeing" /\ Holds(node, Create, s.node)
    BY <1>1, ComingProper
  <2>2. HoldsUsed(inst, s, Coming(c)) /\ (Coming(c)[1] = "cloneKept" => s.kept)
    BY <2>1 DEF Proper, Known
  <2>3. CASE Stands(c, inst, s)
    <3>1. Coming(c)[1] = "cloneKept" => kept # {}
      <4>1. Coming(c)[1] = "cloneKept" => s.stage # "creating"
        BY <2>1 DEF Proper, Vocabulary
      <4> QED
        BY <2>2, <2>3, <4>1 DEF Stands
    <3> QED
      BY <2>2, <2>3, <3>1, Found DEF HoldsUsed
  <2>4. CASE c = Free /\ inst = <<>> /\ s.stage = "freeing" /\ Holds(node, Create, s.node)
    <3>1. Coming(c)[1] \in {"freeNode", "freeKept"}
      BY <2>1, <2>4 DEF Proper, Vocabulary
    <3>2. FramesUsed(Coming(c)) = {}
      BY <3>1 DEF FramesUsed
    <3>3. NodesUsed(Coming(c)) \subseteq DOMAIN s.node
      <4>1. DOMAIN <<>> = {}
        OBVIOUS
      <4> QED
        BY <2>2, <2>4, <4>1 DEF HoldsUsed
    <3> QED
      BY <2>4, <3>1, <3>2, <3>3 DEF Holds, HasNode, Node
  <2> QED
    BY <2>1, <2>3, <2>4
<1>2. ASSUME NEW n \in Frames, Running(n), todo[n] = <<>>
      PROVE  text[n] \in {"none", "literal"} \/ Known("text")
  <2>1. phase = "live"
    BY <1>0, <1>2 DEF IInv, InPhase, Creating, Freeing, Gone, Running
  <2>2. PICK inst : Live(inst)
    BY <2>1 DEF IInv, InPhase
  <2>3. FrameFits(n, inst) /\ stage[n] \in {"initial", "processing"} /\ FrameProper(filter, inst, n)
    BY <1>0, <1>2, <2>2 DEF Live, Running, Always, FilterProper, InstanceProper, Frames
  <2>4. CASE stage[n] = "initial"
    <3>1. PICK path \in filter.frame[n].initial :
            RunsOn(n, inst, Enter(Fresh("initial"), path), Body(path))
      BY <2>3, <2>4 DEF FrameFits
    <3>2. PICK e \in Ends(inst, Fresh("initial"), path) : Stands(n, inst, e)
      BY <1>2, <3>1, AtReturn DEF Ends
    <3>3. e \in InitialEnds(filter, inst, n)
      BY <3>1, <3>2 DEF InitialEnds
    <3> QED
      BY <1>0, <2>3, <3>2, <3>3 DEF FrameProper, TextLasts, Known, Stands
  <2>5. CASE stage[n] = "processing"
    <3>1. PICK s : \E path \in filter.frame[n].initial \cup filter.frame[n].ready :
            /\ AnswerProper(filter, inst, n, s, path)
            /\ RunsOn(n, inst, Enter(s, path), Body(path))
      BY <2>3, <2>5 DEF FrameFits
    <3>2. PICK path \in filter.frame[n].initial \cup filter.frame[n].ready :
            /\ AnswerProper(filter, inst, n, s, path)
            /\ RunsOn(n, inst, Enter(s, path), Body(path))
      BY <3>1
    <3>3. PICK e \in Ends(inst, s, path) : Stands(n, inst, e)
      BY <1>2, <3>2, AtReturn DEF Ends
    <3> QED
      BY <1>0, <3>2, <3>3 DEF AnswerProper, TextLasts, Known, Stands
  <2> QED
    BY <2>3, <2>4, <2>5
<1>3. ASSUME phase = "live", filter.vi # "" PROVE <<Create, filter.vi>> \in DOMAIN node
  <2>1. PICK inst : Live(inst)
    BY <1>3 DEF IInv, InPhase
  <2>2. filter.vi \in DOMAIN inst
    BY <1>0, <1>3, <2>1 DEF Live, Always, FilterProper, InstanceProper, Known
  <2> QED
    BY <2>1, <2>2 DEF Live, Holds
<1> QED
  BY <1>1, <1>2, <1>3

LEMMA AskedForOnly == IInv => OnlyAskedFor
<1> SUFFICES ASSUME IInv PROVE OnlyAskedFor
  OBVIOUS
<1>0. Always
  BY DEF IInv
<1>1. ASSUME NEW c \in DOMAIN todo, todo[c] # <<>>, Coming(c)[1] = "getFrameFilter",
             HasNode(c, Arg(c, 2))
      PROVE  <<node[Node(c, Arg(c, 2))], Arg(c, 3)>> \in asked[c]
  <2>1. PICK inst, s :
          /\ Proper(filter, inst, s, Coming(c))
          /\ \/ Stands(c, inst, s)
             \/ c = Free /\ inst = <<>> /\ s.stage = "freeing" /\ Holds(node, Create, s.node)
    BY <1>1, ComingProper
  <2>2. Stands(c, inst, s) /\ s.stage # "creating"
    BY <1>1, <2>1 DEF Proper, Vocabulary
  <2>3. Coming(c)[3] \in DOMAIN s.node \cup DOMAIN inst
        /\ node[Node(c, Coming(c)[3])] = NodeOf(inst, s, Coming(c)[3])
    BY <1>1, <2>2, Found DEF Arg
  <2>4. Input(inst, s, Coming(c)) \in s.asked
    BY <1>1, <2>1, <2>3 DEF Proper
  <2> QED
    BY <2>2, <2>3, <2>4 DEF Stands, Input, Arg
<1>2. phase = "terminated" => Known("terminates")
  BY DEF IInv, InPhase
<1> QED
  BY <1>0, <1>1, <1>2 DEF OnlyAskedFor, Always, AskedRight

LEMMA RightFrame == IInv => FrameRight
<1> SUFFICES ASSUME IInv PROVE FrameRight
  OBVIOUS
<1>1. Always
  BY DEF IInv
<1>2. ASSUME phase = "live" PROVE Frames = DOMAIN filter.wanted \/ Known("overflow")
  <2>1. PICK inst : Live(inst)
    BY <1>2 DEF IInv, InPhase
  <2> QED
    BY <1>1, <2>1 DEF Live, Always, FilterProper, InstanceProper, Frames, Known
<1> QED
  BY <1>1, <1>2 DEF FrameRight, Always, ProductRight

\* No function leaves a reference behind, and none is left when the instance is gone,
\* however the frames of the filter are interleaved and whichever of them fail: what each
\* function of the filter gives back when it runs alone (simplefilters.c, reorderfilters.c,
\* genericfilters.cpp and the others), VSFilter and the scheduler do not undo (node.cpp).
THEOREM EveryReferenceReturned == Spec => []ReferencesReturned
<1> QED
  BY Inductive, ReturnedReferences, PTL

\* No function uses or frees a handle that another one, or the instance's end, has freed;
\* nor is one of the instance's clips freed while a frame is in progress.
THEOREM NothingEverDangles == Spec => []NothingDangles
<1> QED
  BY Inductive, DanglingNothing, PTL

\* get_frame_data and process_frame hand a filter only the frames it asked for, whichever
\* frames are in progress, also once the filter is found to be a source in between.
THEOREM OnlyEverAskedFor == Spec => []OnlyAskedFor
<1> QED
  BY Inductive, AskedForOnly, PTL

\* Every frame that process_frame hands on is made of the frames the filter promises for its
\* number: none of another frame in progress gets into it, and neither does a kept frame.
THEOREM EveryFrameRight == Spec => []FrameRight
<1> QED
  BY Inductive, RightFrame, PTL

=============================================================================
