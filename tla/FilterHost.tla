----------------------------- MODULE FilterHost -----------------------------
(***************************************************************************)
(* VSFilter (Metalloporphyrin/src/node.cpp): the life of one instance of a *)
(* VapourSynth filter.  Its creation function runs, the scheduler asks it  *)
(* for frames, every frame going through get_frame_data (arInitial) and    *)
(* process_frame (arAllFramesReady), and the instance is freed when the    *)
(* last reference goes.  What the filter's functions do is a sequence of   *)
(* calls to VSAPI, chosen among those of its model (FilterScript); every   *)
(* call is an action.  A call on a handle that is not live never happens:  *)
(* the properties say that none comes up.                                  *)
(***************************************************************************)
EXTENDS Integers, Sequences, FiniteSets

CONSTANTS
  Catalog,      \* the filters: a sequence of records, see below
  MaxFrames     \* how many frames are asked for in one behaviour

\* A filter is a record of
\*   name     for the reader
\*   create   the sequences its creation function can take
\*   vi       the node whose VideoInfo the instance points to, or ""
\*   frame    for every frame of its clip, [initial, ready]: the sequences of
\*            getFrame in arInitial and in arAllFramesReady
\*   free     what freeing the instance does
\*   parallel whether two frames may be processed at a time (fmParallel)
\*   wanted   for every frame of the clip it promises, the frames that make it
\*   lens     the lengths of all clips it may ask for frames, by clip
\*   over     the frames past the end of these clips that it is known to ask for
\*   known    the ways in which the code falls short: see the properties

VARIABLES
  filter,     \* the filter this behaviour is about, which never changes
  phase,      \* of the instance: see Phases
  todo,       \* the calls that the running functions have yet to make
  node,       \* live VSNodeRefs: <<function, variable>> to the clip
  frame,      \* live VSFrameRefs: <<function, variable>> to what they are made of
  kept,       \* the frame in the instance's data, if there is one
  asked,      \* by frame: the frames requested for it
  stage,      \* by frame: see Stages
  text,       \* by frame: the error text set, and whether it is still there
  product,    \* by frame: what the frame that was returned is made of
  source      \* is_source_filter

vars == <<filter, phase, todo, node, frame, kept, asked, stage, text, product, source>>

Frames == DOMAIN filter.frame

\* The functions that can be running; a frame's has the frame's number.
Create == -1
Free == -2

Phases == {"creating", "live", "over", "freeing", "freed", "terminated"}
Stages == {"none", "initial", "asked", "processing", "done", "failed", "dropped"}

Without(f, x) == [y \in DOMAIN f \ {x} |-> f[y]]
With(f, x, e) == [y \in DOMAIN f \cup {x} |-> IF y = x THEN e ELSE f[y]]

Running(c) == c \in DOMAIN todo

Init ==
  /\ LET catalog == Catalog IN \E i \in DOMAIN catalog : filter = catalog[i]
  /\ phase = "creating"
  /\ \E path \in filter.create : todo = With(<<>>, Create, path)
  /\ node = <<>> /\ frame = <<>> /\ kept = {}
  /\ asked = [n \in Frames |-> {}]
  /\ stage = [n \in Frames |-> "none"]
  /\ text = [n \in Frames |-> "none"]
  /\ product = <<>>
  /\ source = FALSE

-----------------------------------------------------------------------------
(* Calls *)

\* The next call of a function, and its arguments.
Coming(c) == Head(todo[c])
Arg(c, i) == Coming(c)[i + 1]

\* Function c makes the call, and goes on to the next.
Reaches(c, name) == Running(c) /\ todo[c] # <<>> /\ Coming(c)[1] = name
GoesOn(c) == todo' = [todo EXCEPT ![c] = Tail(@)]
Does(c, name) == Reaches(c, name) /\ GoesOn(c)

\* The program ends, and with it whatever runs.
Terminate == phase' = "terminated" /\ todo' = <<>>

\* The handle in a variable of the function, or of the instance.
Node(c, v) == IF <<c, v>> \in DOMAIN node THEN <<c, v>> ELSE <<Create, v>>
HasNode(c, v) == Node(c, v) \in DOMAIN node
HasFrame(c, v) == <<c, v>> \in DOMAIN frame

OnlyNodes == UNCHANGED <<filter, phase, frame, kept, asked, stage, text, product, source>>
OnlyFrames == UNCHANGED <<filter, phase, node, asked, stage, text, product, source>>

propGetNode(c) ==
  /\ Does(c, "propGetNode")
  /\ node' = With(node, <<c, Arg(c, 1)>>, Arg(c, 1))
  /\ OnlyNodes

cloneNodeRef(c) ==
  /\ Does(c, "cloneNodeRef")
  /\ HasNode(c, Arg(c, 2))
  /\ node' = With(node, <<c, Arg(c, 1)>>, node[Node(c, Arg(c, 2))])
  /\ OnlyNodes

freeNode(c) ==
  /\ Does(c, "freeNode")
  /\ HasNode(c, Arg(c, 1))
  /\ node' = Without(node, Node(c, Arg(c, 1)))
  /\ OnlyNodes

\* The map takes a reference of its own, or the other instance takes this one.
propSetNode(c) ==
  /\ Does(c, "propSetNode")
  /\ HasNode(c, Arg(c, 1))
  /\ UNCHANGED node
  /\ OnlyNodes

takeOver(c) ==
  /\ Does(c, "takeOver")
  /\ HasNode(c, Arg(c, 1))
  /\ node' = Without(node, Node(c, Arg(c, 1)))
  /\ OnlyNodes

setError(c) == Does(c, "setError") /\ UNCHANGED node /\ OnlyNodes

\* The frame v of function c, made of parts.
Assign(c, v, parts) == frame' = With(frame, <<c, v>>, parts)

Parts(c, srcs) == UNION {frame[<<c, srcs[i]>>] : i \in DOMAIN srcs}
HasFrames(c, srcs) == \A i \in DOMAIN srcs : HasFrame(c, srcs[i])

\* The blocking call of a creation function.
getFrame(c) ==
  /\ Does(c, "getFrame")
  /\ HasNode(c, Arg(c, 2))
  /\ Assign(c, Arg(c, 1), {<<node[Node(c, Arg(c, 2))], 0>>})
  /\ UNCHANGED kept /\ OnlyFrames

\* Mutant: the inputs are looked up by their clip alone, as if FrameSourceCompare
\* left out frame_idx.
getFrameFilter_AnyOf(c) ==
  /\ Does(c, "getFrameFilter")
  /\ HasNode(c, Arg(c, 2))
  /\ \E input \in asked[c] :
       /\ input[1] = node[Node(c, Arg(c, 2))]
       /\ Assign(c, Arg(c, 1), {input})
  /\ UNCHANGED kept /\ OnlyFrames

getFrameFilter(c) ==
  /\ Does(c, "getFrameFilter")
  /\ HasNode(c, Arg(c, 2))
  /\ LET input == <<node[Node(c, Arg(c, 2))], Arg(c, 3)>> IN
       /\ input \in asked[c]
       /\ Assign(c, Arg(c, 1), {input})
  /\ UNCHANGED kept /\ OnlyFrames

newVideoFrame(c) ==
  /\ Does(c, "newVideoFrame")
  /\ HasFrames(c, Arg(c, 2))
  /\ Assign(c, Arg(c, 1), Parts(c, Arg(c, 2)))
  /\ UNCHANGED kept /\ OnlyFrames

copyFrame(c) ==
  /\ Does(c, "copyFrame")
  /\ HasFrame(c, Arg(c, 2))
  /\ Assign(c, Arg(c, 1), frame[<<c, Arg(c, 2)>>])
  /\ UNCHANGED kept /\ OnlyFrames

propGetFrame(c) ==
  /\ Does(c, "propGetFrame")
  /\ Assign(c, Arg(c, 1), {<<"map", 0>>})
  /\ UNCHANGED kept /\ OnlyFrames

compute(c) ==
  /\ Does(c, "compute")
  /\ HasFrame(c, Arg(c, 1)) /\ HasFrames(c, Arg(c, 2))
  /\ frame' = [frame EXCEPT ![<<c, Arg(c, 1)>>] = @ \cup Parts(c, Arg(c, 2))]
  /\ UNCHANGED kept /\ OnlyFrames

freeFrame(c) ==
  /\ Does(c, "freeFrame")
  /\ HasFrame(c, Arg(c, 1))
  /\ frame' = Without(frame, <<c, Arg(c, 1)>>)
  /\ UNCHANGED kept /\ OnlyFrames

keep(c) ==
  /\ Does(c, "keep")
  /\ HasFrame(c, Arg(c, 1))
  /\ kept' = {frame[<<c, Arg(c, 1)>>]}
  /\ frame' = Without(frame, <<c, Arg(c, 1)>>)
  /\ OnlyFrames

cloneKept(c) ==
  /\ Does(c, "cloneKept")
  /\ \E parts \in kept : Assign(c, Arg(c, 1), parts)
  /\ UNCHANGED kept /\ OnlyFrames

freeKept(c) ==
  /\ Does(c, "freeKept")
  /\ kept' = {}
  /\ UNCHANGED frame /\ OnlyFrames

return(c) ==
  /\ Does(c, "return")
  /\ HasFrame(c, Arg(c, 1))
  /\ frame' = With(Without(frame, <<c, Arg(c, 1)>>), <<c, "returned">>, frame[<<c, Arg(c, 1)>>])
  /\ UNCHANGED kept /\ OnlyFrames

\* Mutant: the context keeps the last request only.
requestFrameFilter_Last(c) ==
  /\ Reaches(c, "requestFrameFilter")
  /\ HasNode(c, Arg(c, 1))
  /\ IF stage[c] = "initial"
       THEN /\ asked' = [asked EXCEPT ![c] = {<<node[Node(c, Arg(c, 1))], Arg(c, 2)>>}]
            /\ GoesOn(c) /\ UNCHANGED phase
       ELSE Terminate /\ UNCHANGED asked
  /\ UNCHANGED <<filter, node, frame, kept, stage, text, product, source>>

\* The context's variant holds the inputs by then, and std::get throws.
requestFrameFilter(c) ==
  /\ Reaches(c, "requestFrameFilter")
  /\ HasNode(c, Arg(c, 1))
  /\ IF stage[c] = "initial"
       THEN /\ asked' = [asked EXCEPT ![c] = @ \cup {<<node[Node(c, Arg(c, 1))], Arg(c, 2)>>}]
            /\ GoesOn(c) /\ UNCHANGED phase
       ELSE Terminate /\ UNCHANGED asked
  /\ UNCHANGED <<filter, node, frame, kept, stage, text, product, source>>

\* The context keeps the pointer, not the text.
setFilterError(c) ==
  /\ Does(c, "setFilterError")
  /\ text' = [text EXCEPT ![c] = Arg(c, 1)]
  /\ UNCHANGED <<filter, phase, node, frame, kept, asked, stage, product, source>>

clearMap(c) ==
  /\ Does(c, "clearMap")
  /\ text' = [text EXCEPT ![c] = IF @ = "map" THEN "gone" ELSE @]
  /\ UNCHANGED <<filter, phase, node, frame, kept, asked, stage, product, source>>

-----------------------------------------------------------------------------
(* The instance *)

\* createFilter calls the filter's init, which reads its VideoInfo; it is the
\* last call of a creation function.
createFilter ==
  /\ Running(Create) /\ todo[Create] = <<<<"createFilter">>>>
  /\ phase' = "live"
  /\ todo' = Without(todo, Create)
  /\ UNCHANGED <<filter, node, frame, kept, asked, stage, text, product, source>>

\* The creation function returned without an instance.
EndCreate ==
  /\ Running(Create) /\ todo[Create] = <<>>
  /\ phase' = "over"
  /\ todo' = Without(todo, Create)
  /\ UNCHANGED <<filter, node, frame, kept, asked, stage, text, product, source>>

\* A path may depend on whether the instance keeps a frame.
Open(path) ==
  path # <<>> => /\ Head(path)[1] = "ifKept" => kept # {}
                 /\ Head(path)[1] = "ifNotKept" => kept = {}
Body(path) ==
  IF path # <<>> /\ Head(path)[1] \in {"ifKept", "ifNotKept"} THEN Tail(path) ELSE path

Runs(n, paths) ==
  \E path \in paths : Open(path) /\ todo' = With(todo, n, Body(path))

\* get_frame_data, which the maintainer calls for one frame at a time.  A
\* filter that once returned a frame from it is a source, and asks for nothing.
get_frame_data(n) ==
  /\ phase = "live"
  /\ stage[n] = "none"
  /\ \A m \in Frames : stage[m] # "initial"
  /\ Cardinality({m \in Frames : stage[m] # "none"}) < MaxFrames
  /\ IF source
       THEN stage' = [stage EXCEPT ![n] = "asked"] /\ UNCHANGED todo
       ELSE stage' = [stage EXCEPT ![n] = "initial"] /\ Runs(n, filter.frame[n].initial)
  /\ UNCHANGED <<filter, phase, node, frame, kept, asked, text, product, source>>

\* Its rest.  It is noexcept, so that an error ends the program; a frame that
\* was returned is only looked at.
EndInitial(n) ==
  /\ Running(n) /\ todo[n] = <<>> /\ stage[n] = "initial"
  /\ IF text[n] # "none"
       THEN Terminate /\ UNCHANGED <<stage, frame, source>>
       ELSE /\ todo' = Without(todo, n)
            /\ stage' = [stage EXCEPT ![n] = "asked"]
            /\ source' = HasFrame(n, "returned")
            /\ frame' = IF HasFrame(n, "returned")
                          THEN With(Without(frame, <<n, "returned">>), <<n, "first">>,
                                    frame[<<n, "returned">>])
                          ELSE frame
            /\ UNCHANGED phase
  /\ UNCHANGED <<filter, node, kept, asked, text, product>>

\* process_frame, on a worker, once the inputs are there; one at a time unless
\* the filter is parallel.
process_frame(n) ==
  /\ phase = "live"
  /\ stage[n] = "asked"
  /\ filter.parallel \/ \A m \in Frames : stage[m] # "processing"
  /\ stage' = [stage EXCEPT ![n] = "processing"]
  /\ Runs(n, IF source THEN filter.frame[n].initial ELSE filter.frame[n].ready)
  /\ UNCHANGED <<filter, phase, node, frame, kept, asked, text, product, source>>

\* Mutant: the frame is handed on without its reference being taken over.
EndProcess_Kept(n) ==
  /\ Running(n) /\ todo[n] = <<>> /\ stage[n] = "processing"
  /\ \/ /\ text[n] # "none"
        /\ stage' = [stage EXCEPT ![n] = "failed"]
        /\ todo' = Without(todo, n)
        /\ UNCHANGED <<phase, product>>
     \/ /\ text[n] = "none" /\ HasFrame(n, "returned")
        /\ stage' = [stage EXCEPT ![n] = "done"]
        /\ product' = With(product, n, frame[<<n, "returned">>])
        /\ todo' = Without(todo, n)
        /\ UNCHANGED phase
     \/ /\ text[n] = "none" /\ ~HasFrame(n, "returned")
        /\ Terminate
        /\ UNCHANGED <<stage, product>>
  /\ UNCHANGED <<filter, node, frame, kept, asked, text, source>>

\* Its rest: the error becomes an exception, or the frame is handed on.
EndProcess(n) ==
  /\ Running(n) /\ todo[n] = <<>> /\ stage[n] = "processing"
  /\ frame' = Without(frame, <<n, "returned">>)
  /\ \/ /\ text[n] # "none"
        /\ stage' = [stage EXCEPT ![n] = "failed"]
        /\ todo' = Without(todo, n)
        /\ UNCHANGED <<phase, product>>
     \/ /\ text[n] = "none" /\ HasFrame(n, "returned")
        /\ stage' = [stage EXCEPT ![n] = "done"]
        /\ product' = With(product, n, frame[<<n, "returned">>])
        /\ todo' = Without(todo, n)
        /\ UNCHANGED phase
     \/ /\ text[n] = "none" /\ ~HasFrame(n, "returned")
        /\ Terminate
        /\ UNCHANGED <<stage, product>>
  /\ UNCHANGED <<filter, node, kept, asked, text, source>>

\* An input failed: process_frame is not called, and drop_frame_data only logs.
drop_frame_data(n) ==
  /\ phase = "live"
  /\ stage[n] = "asked" /\ asked[n] # {}
  /\ stage' = [stage EXCEPT ![n] = "dropped"]
  /\ UNCHANGED <<filter, phase, todo, node, frame, kept, asked, text, product, source>>

\* Mutant: the frames in progress hold no reference to the filter.
FreeInstance_Early ==
  /\ phase = "live"
  /\ phase' = "freeing"
  /\ todo' = With(todo, Free, filter.free)
  /\ UNCHANGED <<filter, node, frame, kept, asked, stage, text, product, source>>

\* ~VSFilter: no frame refers to the filter any more.
FreeInstance ==
  /\ phase = "live"
  /\ \A n \in Frames : stage[n] \in {"none", "done", "failed", "dropped"}
  /\ phase' = "freeing"
  /\ todo' = With(<<>>, Free, filter.free)
  /\ UNCHANGED <<filter, node, frame, kept, asked, stage, text, product, source>>

EndFree ==
  /\ Running(Free) /\ todo[Free] = <<>>
  /\ phase' = "freed"
  /\ todo' = Without(todo, Free)
  /\ UNCHANGED <<filter, node, frame, kept, asked, stage, text, product, source>>

Next ==
  \/ \E c \in DOMAIN todo :
       \/ propGetNode(c) \/ cloneNodeRef(c) \/ freeNode(c) \/ propSetNode(c) \/ takeOver(c)
       \/ setError(c) \/ getFrame(c) \/ getFrameFilter(c) \/ newVideoFrame(c)
       \/ copyFrame(c) \/ propGetFrame(c) \/ compute(c) \/ freeFrame(c)
       \/ keep(c) \/ cloneKept(c) \/ freeKept(c) \/ return(c)
       \/ requestFrameFilter(c) \/ setFilterError(c) \/ clearMap(c)
  \/ createFilter \/ EndCreate \/ FreeInstance \/ EndFree
  \/ \E n \in Frames :
       \/ get_frame_data(n) \/ EndInitial(n) \/ process_frame(n) \/ EndProcess(n)
       \/ drop_frame_data(n)

Spec == Init /\ [][Next]_vars

-----------------------------------------------------------------------------
(* What a call uses and makes *)

NodesUsed(call) ==
  CASE call[1] \in {"freeNode", "propSetNode", "takeOver", "requestFrameFilter"} -> {call[2]}
    [] call[1] \in {"cloneNodeRef", "getFrame", "getFrameFilter"} -> {call[3]}
    [] OTHER -> {}

FramesUsed(call) ==
  LET Among(srcs) == {srcs[i] : i \in DOMAIN srcs} IN
  CASE call[1] \in {"freeFrame", "keep", "return"} -> {call[2]}
    [] call[1] = "newVideoFrame" -> Among(call[3])
    [] call[1] = "copyFrame" -> {call[3]}
    [] call[1] = "compute" -> {call[2]} \cup Among(call[3])
    [] OTHER -> {}

NodesMade(call) == IF call[1] \in {"propGetNode", "cloneNodeRef"} THEN {call[2]} ELSE {}

FramesMade(call) ==
  IF call[1] \in {"getFrame", "getFrameFilter", "newVideoFrame", "copyFrame", "propGetFrame",
                  "cloneKept"}
    THEN {call[2]} ELSE {}

\* The clips of filter f have these frames.
InClips(f, inputs) ==
  \A input \in inputs : input[1] \in DOMAIN f.lens /\ input[2] \in 0 .. f.lens[input[1]] - 1

-----------------------------------------------------------------------------
(* Properties *)

Known(what) == what \in filter.known

\* A node belongs to a running function, to the instance, or, carried in
\* *frameData, to a frame whose inputs are awaited.
NodeOwned(h) ==
  \/ Running(h[1])
  \/ h[1] = Create /\ phase \in {"live", "freeing"}
  \/ h[1] >= 0 /\ stage[h[1]] = "asked"

Overwrites(c) ==
  /\ todo[c] # <<>>
  /\ \/ \E v \in NodesMade(Coming(c)) : <<c, v>> \in DOMAIN node
     \/ \E v \in FramesMade(Coming(c)) : HasFrame(c, v)

\* Whatever way a filter's functions take, with every error and with inputs that
\* fail, no reference is left behind when they have returned, and none when the
\* instance is gone: neither its clips, nor the frames it got or made.  Known:
\* AddBorders keeps its clip when a colour is refused; PropToClip keeps a frame of
\* another format; FrameEval keeps the function's clip when its frame fails.  And
\* the host loses the frame with which a source answered its first arInitial.
ReferencesReturned ==
  \/ Known("leak") \/ phase = "terminated"
  \/ /\ \A h \in DOMAIN node : NodeOwned(h)
     /\ \A h \in DOMAIN frame : Running(h[1]) \/ h[2] = "first"
     /\ phase \in {"over", "freed"} => kept = {}
     /\ \A c \in DOMAIN todo : ~Overwrites(c)

\* No function uses or frees a node or a frame that was freed before; the clip
\* whose VideoInfo an instance points to lives as long as the instance; and the
\* text of an error is still there when the host reads it, after the function
\* returned.  Known: the texts that Crop, AddBorders, PEMVerifier, Text, the
\* resizer and the filters of genericfilters.cpp put in a variable of their own,
\* and those of FrameEval and ModifyFrame in a map they clear; the VideoInfo of
\* ModifyFrame, whose clip is freed; the nodes of Splice when the clip it would
\* make is too long, of which it frees the first one for ever.
NothingDangles ==
  \/ Known("dangling")
  \/ /\ \A c \in DOMAIN todo :
          todo[c] # <<>> =>
            /\ \A v \in NodesUsed(Coming(c)) : HasNode(c, v)
            /\ \A v \in FramesUsed(Coming(c)) : HasFrame(c, v)
            /\ Coming(c)[1] = "cloneKept" => kept # {}
     /\ \A n \in Frames :
          Running(n) /\ todo[n] = <<>> => text[n] \in {"none", "literal"} \/ Known("text")
     /\ phase = "live" /\ filter.vi # "" => <<Create, filter.vi>> \in DOMAIN node

\* A filter takes only frames it asked for in arInitial, asks for none later, and
\* asks only for frames its clips have, but for those its record lists one by one
\* in over; and nothing it does ends the program: no error in arInitial, and no
\* frame that is missing without an error.  In over are, of every filter with
\* several clips whose lengths it does not compare (ShufflePlanes of three planes,
\* Stack, PlaneStats, ClipToProp, FrameEval, ModifyFrame, those of mergefilters.c,
\* Lut2 and Expr), the frames a shorter clip lacks; what Interleave asks of its
\* shorter clips; the frame after the last of DoubleWeave, and of SelectEvery with
\* unsorted offsets; and the numbers of a Trim whose end overflows.  Known:
\* FrameEval asks in arAllFramesReady, or fails in arInitial.
OnlyAskedFor ==
  /\ \A c \in DOMAIN todo :
       todo[c] # <<>> /\ Coming(c)[1] = "getFrameFilter" /\ HasNode(c, Arg(c, 2)) =>
         <<node[Node(c, Arg(c, 2))], Arg(c, 3)>> \in asked[c]
  /\ phase = "terminated" => Known("terminates")
  /\ \A n \in Frames : InClips(filter, asked[n] \ filter.over)

\* The clip a filter makes has as many frames as it promises, and each of them,
\* unless it is made of frames that its clips lack (over), is made of the frames
\* it promises.  Known: a length that overflows an int.
FrameRight ==
  /\ phase = "live" => Frames = DOMAIN filter.wanted \/ Known("overflow")
  /\ \A n \in DOMAIN product \cap DOMAIN filter.wanted :
       product[n] \cap filter.over = {} => product[n] = filter.wanted[n]

-----------------------------------------------------------------------------
(* A function alone.  How the handles of one function stand after each of  *)
(* its calls if nothing else runs: what a reader of the function goes      *)
(* through.  A filter whose functions are correct alone is assumed below;  *)
(* that they are correct together is what has to be shown.                 *)

Vocabulary ==
  LET frames == {"newVideoFrame", "copyFrame", "propGetFrame", "compute", "freeFrame"}
      nodes == {"propGetNode", "cloneNodeRef", "freeNode"}
      processing == nodes \cup frames \cup
        {"getFrameFilter", "requestFrameFilter", "keep", "cloneKept", "return",
         "setFilterError", "clearMap"}
  IN [creating |-> nodes \cup frames \cup
                   {"propSetNode", "takeOver", "setError", "getFrame", "createFilter"},
      initial |-> processing, processing |-> processing,
      freeing |-> {"freeNode", "freeKept"}]

\* A function's handles when it begins.  kept says that a frame is certainly kept.
Fresh(at) ==
  [stage |-> at, node |-> <<>>, frame |-> <<>>, asked |-> {}, text |-> "none", kept |-> FALSE]

\* inst are the instance's nodes, and s is how the function stands.
NodeOf(inst, s, v) == IF v \in DOMAIN s.node THEN s.node[v] ELSE inst[v]
Input(inst, s, call) == <<NodeOf(inst, s, call[3]), call[4]>>

HoldsUsed(inst, s, call) ==
  /\ NodesUsed(call) \subseteq DOMAIN s.node \cup DOMAIN inst
  /\ FramesUsed(call) \subseteq DOMAIN s.frame

Possible(inst, s, call) ==
  /\ HoldsUsed(inst, s, call)
  /\ call[1] = "getFrameFilter" => Input(inst, s, call) \in s.asked
  /\ call[1] = "requestFrameFilter" => s.stage = "initial"

After(inst, s, call) ==
  LET MadeOf(srcs) == UNION {s.frame[srcs[i]] : i \in DOMAIN srcs}
      Gets(v, parts) == [s EXCEPT !.frame = With(@, v, parts)]
  IN
  CASE call[1] = "propGetNode" -> [s EXCEPT !.node = With(@, call[2], call[2])]
    [] call[1] = "cloneNodeRef" -> [s EXCEPT !.node = With(@, call[2], NodeOf(inst, s, call[3]))]
    [] call[1] \in {"freeNode", "takeOver"} -> [s EXCEPT !.node = Without(@, call[2])]
    [] call[1] = "getFrame" -> Gets(call[2], {<<NodeOf(inst, s, call[3]), 0>>})
    [] call[1] = "getFrameFilter" -> Gets(call[2], {Input(inst, s, call)})
    [] call[1] = "newVideoFrame" -> Gets(call[2], MadeOf(call[3]))
    [] call[1] = "copyFrame" -> Gets(call[2], s.frame[call[3]])
    [] call[1] = "propGetFrame" -> Gets(call[2], {<<"map", 0>>})
    [] call[1] = "cloneKept" -> Gets(call[2], {})
    [] call[1] = "compute" -> [s EXCEPT !.frame[call[2]] = @ \cup MadeOf(call[3])]
    [] call[1] = "freeFrame" -> [s EXCEPT !.frame = Without(@, call[2])]
    [] call[1] = "keep" -> [s EXCEPT !.frame = Without(@, call[2]), !.kept = TRUE]
    [] call[1] = "return" ->
         [s EXCEPT !.frame = With(Without(@, call[2]), "returned", s.frame[call[2]])]
    [] call[1] = "requestFrameFilter" ->
         [s EXCEPT !.asked = @ \cup {<<NodeOf(inst, s, call[2]), call[3]>>}]
    [] call[1] = "setFilterError" -> [s EXCEPT !.text = call[2]]
    [] call[1] = "clearMap" -> [s EXCEPT !.text = IF @ = "map" THEN "gone" ELSE @]
    [] OTHER -> s

\* The ways it can stand before the first call and after each; none after a call that
\* it cannot make.
Alone(inst, start, path) ==
  LET ways[k \in 0 .. Len(path)] ==
        IF k = 0 THEN {start}
        ELSE {After(inst, s, path[k]) : s \in {s \in ways[k - 1] : Possible(inst, s, path[k])}}
  IN ways

AtEnd(inst, start, path) == Alone(inst, start, path)[Len(path)]

\* A call as it should be: of a handle that is there, into a variable that is free, for
\* a frame the clip has; and of the function's own nodes only, when it frees one.  A
\* frame that is kept is made of none, since it serves for every number.
Proper(f, inst, s, call) ==
  /\ call[1] \in Vocabulary[s.stage]
  /\ \/ "leak" \in f.known
     \/ NodesMade(call) \cap DOMAIN s.node = {} /\ FramesMade(call) \cap DOMAIN s.frame = {}
  /\ \/ "dangling" \in f.known
     \/ HoldsUsed(inst, s, call) /\ (call[1] = "cloneKept" => s.kept)
  /\ call[1] = "getFrameFilter" /\ call[3] \in DOMAIN s.node \cup DOMAIN inst =>
       Input(inst, s, call) \in s.asked
  /\ call[1] = "requestFrameFilter" =>
       /\ s.stage = "initial" \/ "terminates" \in f.known
       /\ call[2] \in DOMAIN s.node \cup DOMAIN inst =>
            InClips(f, {<<NodeOf(inst, s, call[2]), call[3]>>} \ f.over)
  /\ call[1] \in {"freeNode", "takeOver"} => call[2] \in DOMAIN s.node \/ call[2] \notin DOMAIN inst
  /\ call[1] = "keep" /\ call[2] \in DOMAIN s.frame => s.frame[call[2]] = {}

AllProper(f, inst, start, path) ==
  LET ways == Alone(inst, start, path)
  IN \A k \in 1 .. Len(path) : \A s \in ways[k - 1] : Proper(f, inst, s, path[k])

TextLasts(f, s) == s.text \in {"none", "literal"} \/ "text" \in f.known
LeavesOnly(f, s, frames) == "leak" \in f.known \/ (DOMAIN s.node = {} /\ DOMAIN s.frame \subseteq frames)

-----------------------------------------------------------------------------
(* The functions of filter f *)

Makes(path) == path # <<>> /\ path[Len(path)] = <<"createFilter">>

CreateProper(f) ==
  \A path \in f.create :
    /\ AllProper(f, <<>>, Fresh("creating"), path)
    /\ \A s \in AtEnd(<<>>, Fresh("creating"), path) :
         IF Makes(path) THEN "leak" \in f.known \/ DOMAIN s.frame = {} ELSE LeavesOnly(f, s, {})

\* The nodes an instance can have.
Instances(f) ==
  UNION {{s.node : s \in AtEnd(<<>>, Fresh("creating"), path)} : path \in {p \in f.create : Makes(p)}}

\* getFrame on its way path, when it stands like s.
Enter(s, path) == [s EXCEPT !.kept = path # <<>> /\ Head(path)[1] = "ifKept"]
ProperOn(f, inst, s, path) == AllProper(f, inst, Enter(s, path), Body(path))
Ends(inst, s, path) == AtEnd(inst, Enter(s, path), Body(path))

InitialEnds(f, inst, n) == UNION {Ends(inst, Fresh("initial"), path) : path \in f.frame[n].initial}

\* While the inputs of a frame are awaited.
Awaits(s) ==
  [s EXCEPT !.stage = "processing",
            !.frame = IF "returned" \in DOMAIN @
                        THEN With(Without(@, "returned"), "first", s.frame["returned"]) ELSE @]
Awaited(f, inst, n) == {Awaits(s) : s \in {s \in InitialEnds(f, inst, n) : s.text = "none"}}

BecomesSource(f, inst) ==
  \E n \in DOMAIN f.frame : \E s \in Awaited(f, inst, n) : "first" \in DOMAIN s.frame

\* One frame's arAllFramesReady, or its second arInitial.
AnswerProper(f, inst, n, s, path) ==
  /\ ProperOn(f, inst, s, path)
  /\ \A e \in Ends(inst, s, path) :
       /\ TextLasts(f, e) /\ LeavesOnly(f, e, {"first", "returned"})
       /\ e.text # "none" \/ "returned" \in DOMAIN e.frame \/ "terminates" \in f.known
       /\ e.text = "none" /\ "returned" \in DOMAIN e.frame /\ n \in DOMAIN f.wanted
          /\ e.frame["returned"] \cap f.over = {} => e.frame["returned"] = f.wanted[n]

FrameProper(f, inst, n) ==
  /\ \A path \in f.frame[n].initial : ProperOn(f, inst, Fresh("initial"), path)
  /\ \A s \in InitialEnds(f, inst, n) :
       /\ TextLasts(f, s) /\ (s.text = "none" \/ "terminates" \in f.known)
       /\ "first" \notin DOMAIN s.frame
       /\ "leak" \in f.known \/ DOMAIN s.frame \subseteq {"returned"}
       /\ "leak" \in f.known \/ s.asked = {} \/ DOMAIN s.node = {}
  /\ \A s \in Awaited(f, inst, n) : "first" \notin DOMAIN s.frame =>
       \A path \in f.frame[n].ready : AnswerProper(f, inst, n, s, path)
  /\ BecomesSource(f, inst) =>
       \A s \in Awaited(f, inst, n) \cup {Fresh("processing")} :
         \A path \in f.frame[n].initial : AnswerProper(f, inst, n, s, path)

Keeps(f) ==
  \E n \in DOMAIN f.frame : \E path \in f.frame[n].initial \cup f.frame[n].ready :
    \E i \in DOMAIN path : path[i][1] = "keep"

FreeProper(f, inst) ==
  LET start == [Fresh("freeing") EXCEPT !.node = inst] IN
  /\ AllProper(f, <<>>, start, f.free)
  /\ \A s \in AtEnd(<<>>, start, f.free) : LeavesOnly(f, s, {})
  /\ "leak" \in f.known \/ (Keeps(f) => \E i \in DOMAIN f.free : f.free[i] = <<"freeKept">>)

InstanceProper(f, inst) ==
  /\ f.vi = "" \/ f.vi \in DOMAIN inst \/ "dangling" \in f.known
  /\ DOMAIN f.frame = DOMAIN f.wanted \/ "overflow" \in f.known
  /\ \A n \in DOMAIN f.frame : FrameProper(f, inst, n)
  /\ FreeProper(f, inst)

IsSequence(path) == path \in Seq({path[i] : i \in DOMAIN path})

FilterProper(f) ==
  /\ DOMAIN f.frame \subseteq Nat
  /\ \A path \in f.create \cup {f.free} : IsSequence(path)
  /\ \A n \in DOMAIN f.frame : \A path \in f.frame[n].initial \cup f.frame[n].ready : IsSequence(path)
  /\ CreateProper(f)
  /\ \A inst \in Instances(f) : InstanceProper(f, inst)

\* Each function of each filter is correct alone, but for the ways in which the
\* filter is known to fall short.
ASSUME CatalogAssumption ==
  LET catalog == Catalog IN \A i \in DOMAIN catalog : FilterProper(catalog[i])
=============================================================================
