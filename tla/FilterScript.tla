---------------------------- MODULE FilterScript ----------------------------
(***************************************************************************)
(* The vocabulary of the VapStd models: what a filter does to nodes,       *)
(* frames, requests and errors, as the sequence of its calls to VSAPI.  A  *)
(* filter's functions are written as the set of the sequences they can     *)
(* take: one for each way their tests of arguments, formats and            *)
(* properties come out.  The calls carry the names of VSAPI;               *)
(* FilterHost says what they do.                                           *)
(***************************************************************************)
LOCAL INSTANCE Sequences
LOCAL INSTANCE SequencesExt

-----------------------------------------------------------------------------
(* Nodes: a variable of the filter that holds a VSNodeRef *)

propGetNode(v) == <<"propGetNode", v>>
cloneNodeRef(v, from) == <<"cloneNodeRef", v, from>>
freeNode(v) == <<"freeNode", v>>
propSetNode(v) == <<"propSetNode", v>>
setError == <<"setError">>
createFilter == <<"createFilter">>
\* The node goes to the instance of another filter.
takeOver(v) == <<"takeOver", v>>
getFrame(v, node) == <<"getFrame", v, node>>

(* Frames: a variable of the filter that holds a VSFrameRef *)

requestFrameFilter(node, n) == <<"requestFrameFilter", node, n>>
getFrameFilter(v, node, n) == <<"getFrameFilter", v, node, n>>
\* newVideoFrame and newVideoFrame2, with the frames whose properties and
\* planes the new one takes over.
newVideoFrame(v, srcs) == <<"newVideoFrame", v, srcs>>
copyFrame(v, src) == <<"copyFrame", v, src>>
cloneFrameRef(v, src) == <<"cloneFrameRef", v, src>>
propGetFrame(v) == <<"propGetFrame", v>>
\* The filter computes the pixels or properties of v from those of srcs.
compute(v, srcs) == <<"compute", v, srcs>>
freeFrame(v) == <<"freeFrame", v>>
\* A frame is moved to the instance's data, and used from there.
keep(v) == <<"keep", v>>
cloneKept(v) == <<"cloneKept", v>>
freeKept == <<"freeKept">>
\* At the head of a sequence: it is taken only if a frame is, or is not, kept.
ifKept == <<"ifKept">>
ifNotKept == <<"ifNotKept">>
return(v) == <<"return", v>>
\* The text of an error: a literal, a buffer of the function itself, or text
\* that lives in one of the filter's maps.
setFilterError(text) == <<"setFilterError", text>>
clearMap == <<"clearMap">>

-----------------------------------------------------------------------------
Then(s, paths) == {s \o p : p \in paths}

ForEach(vs, Calls(_)) == FlattenSeq([i \in DOMAIN vs |-> Calls(vs[i])])

FreeNodes(vs) == [i \in DOMAIN vs |-> freeNode(vs[i])]
FreeFrames(vs) == [i \in DOMAIN vs |-> freeFrame(vs[i])]
Request(vs, n) == [i \in DOMAIN vs |-> requestFrameFilter(vs[i], n)]

\* A creation that fails: the nodes it frees, and RETERROR.
RETERROR(vs) == FreeNodes(vs) \o <<setError>>

\* A frame for which the filter gives up.
Fail(text, vs) == FreeFrames(vs) \o <<setFilterError(text)>>

\* What getFrame does in arInitial, and in arAllFramesReady.
Calls(initial, ready) == [initial |-> initial, ready |-> ready]

\* A source's frame goes through a new frame that takes over its properties.
Through(n) ==
  <<getFrameFilter("src", "node", n), newVideoFrame("dst", <<"src">>),
    compute("dst", <<"src">>), freeFrame("src"), return("dst")>>
=============================================================================
