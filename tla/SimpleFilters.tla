---------------------------- MODULE SimpleFilters ----------------------------
(***************************************************************************)
(* The filters of VapStd/simplefilters.c: what they do with nodes and      *)
(* frames, in the vocabulary of FilterScript.  What they compute from      *)
(* pixels is left out; tests of arguments and formats can come out any way *)
(* unless they depend on each other.                                       *)
(***************************************************************************)
EXTENDS Integers, Sequences, FilterScript
LOCAL INSTANCE FiniteSetsExt

\* The lengths of the clips of a filter are a record with a field for each node.
Longest(lens) == Max({lens[v] : v \in DOMAIN lens})

-----------------------------------------------------------------------------
(* CropAbs and CropRel *)

\* cropGetframe: cropVerify is called again with what the frame says.
CropFrame(n) ==
  Calls({Request(<<"node">>, n)},
        Then(<<getFrameFilter("src", "node", n)>>,
             {Fail("stack", <<"src">>),
              <<newVideoFrame("dst", <<"src">>), compute("dst", <<"src">>),
                freeFrame("src"), return("dst")>>}))

CropAbsCreate ==
  Then(<<propGetNode("node")>>, {RETERROR(<<"node">>), <<createFilter>>})

\* Nothing to crop: the clip is passed through.
CropRelCreate ==
  Then(<<propGetNode("node")>>,
       {RETERROR(<<"node">>), <<propSetNode("node"), freeNode("node")>>, <<createFilter>>})

(* AddBorders *)

AddBordersFrame(n) ==
  Calls({Request(<<"node">>, n)},
        Then(<<getFrameFilter("src", "node", n)>>,
             {Fail("stack", <<"src">>),
              <<newVideoFrame("dst", <<"src">>), compute("dst", <<"src">>),
                freeFrame("src"), return("dst")>>}))

\* The checks of the colours come last, and return without freeing the node.
AddBordersCreate ==
  Then(<<propGetNode("node")>>,
       {<<propSetNode("node"), freeNode("node")>>, RETERROR(<<"node">>), RETERROR(<<>>),
        <<createFilter>>})

(* ShufflePlanes, for a gray clip, or for one with three planes out of one to *)
(* three clips                                                                *)

Three == <<"node1", "node2", "node3">>

\* Three references are three nodes, even to one clip; unused ones are null.
ShufflePlanesFrame(gray, clips, n) ==
  IF gray
    THEN Calls({Request(SubSeq(Three, 1, clips), n)},
               Then(<<getFrameFilter("src", "node1", n)>>,
                    {Fail("literal", <<"src">>),
                     <<newVideoFrame("dst", <<"src">>), freeFrame("src"), return("dst")>>}))
    ELSE LET srcs == <<"src1", "src2", "src3">> IN
         Calls({Request(Three, n)},
               {[i \in 1 .. 3 |-> getFrameFilter(srcs[i], Three[i], n)]
                \o <<newVideoFrame("dst", srcs)>> \o FreeFrames(srcs) \o <<return("dst")>>})

\* With a gray clip there is one clip at most.
ShufflePlanesCreate(gray, clips) ==
  LET taken == SubSeq(Three, 1, clips)
      all == IF gray THEN taken ELSE Three
      cloned == CASE gray \/ clips = 3 -> <<>>
                  [] clips = 2 -> <<cloneNodeRef("node3", "node2")>>
                  [] OTHER -> <<cloneNodeRef("node2", "node1"), cloneNodeRef("node3", "node1")>>
  IN {RETERROR(<<>>)} \cup
     Then([i \in DOMAIN taken |-> propGetNode(taken[i])],
          {RETERROR(taken)} \cup Then(cloned, {RETERROR(all), <<createFilter>>}))

ShufflePlanesLength(gray, lens) == IF gray THEN lens.node1 ELSE Longest(lens)

ShufflePlanesFree(gray, clips) == FreeNodes(IF gray THEN SubSeq(Three, 1, clips) ELSE Three)

(* SeparateFields *)

SeparateFieldsFrame(n) ==
  Calls({Request(<<"node">>, n \div 2)},
        Then(<<getFrameFilter("src", "node", n \div 2)>>,
             {<<setFilterError("literal"), freeFrame("src")>>,
              <<newVideoFrame("dst", <<"src">>), compute("dst", <<"src">>),
                freeFrame("src"), return("dst")>>}))

SeparateFieldsLength(lens) == 2 * lens.node

SeparateFieldsCreate ==
  Then(<<propGetNode("node")>>, {RETERROR(<<"node">>), <<createFilter>>})

(* DoubleWeave *)

DoubleWeaveFrame(n) ==
  Calls({<<requestFrameFilter("node", n), requestFrameFilter("node", n + 1)>>},
        Then(<<getFrameFilter("src1", "node", n), getFrameFilter("src2", "node", n + 1)>>,
             {<<setFilterError("literal"), freeFrame("src1"), freeFrame("src2")>>,
              <<newVideoFrame("dst", <<"src1">>), compute("dst", <<"src1", "src2">>),
                freeFrame("src1"), freeFrame("src2"), return("dst")>>}))

\* There are as many frames as fields, though two fields make each.
DoubleWeaveLength(lens) == lens.node

DoubleWeaveCreate ==
  Then(<<propGetNode("node")>>, {RETERROR(<<"node">>), <<createFilter>>})

(* FlipVertical, FlipHorizontal and Turn180 *)

FlipVerticalFrame(n) == Calls({Request(<<"node">>, n)}, {Through(n)})
FlipVerticalCreate == {<<propGetNode("node"), createFilter>>}

FlipHorizontalFrame(n) ==
  Calls({Request(<<"node">>, n)},
        {Through(n),
         <<getFrameFilter("src", "node", n), newVideoFrame("dst", <<"src">>)>>
         \o Fail("literal", <<"src", "dst">>)})
FlipHorizontalCreate == {<<propGetNode("node"), createFilter>>}

(* StackVertical and StackHorizontal, of two clips and three planes *)

Two == <<"node1", "node2">>

\* Every clip's frame is taken again for every plane.
StackFrame(n) ==
  Calls({Request(Two, n)},
        {<<getFrameFilter("src", "node1", n), newVideoFrame("dst", <<"src">>), freeFrame("src")>>
         \o ForEach(Two \o Two \o Two, LAMBDA v :
              <<getFrameFilter("src", v, n), compute("dst", <<"src">>), freeFrame("src")>>)
         \o <<return("dst")>>})

StackLength(lens) == Longest(lens)

StackCreate(clips) ==
  IF clips = 1
    THEN {<<propGetNode("node1"), propSetNode("node1"), freeNode("node1")>>}
    ELSE Then(<<propGetNode("node1"), propGetNode("node2")>>,
              {RETERROR(Two), <<createFilter>>})

(* BlankClip, a source *)

\* The frame is made for every request, or once and then kept.
BlankClipFrame(keeps, n) ==
  LET made == <<newVideoFrame("frame", <<>>), compute("frame", <<>>)>>
      cloned == <<cloneKept("dst"), return("dst")>>
  IN Calls(IF keeps THEN {<<ifNotKept>> \o made \o <<keep("frame")>> \o cloned,
                          <<ifKept>> \o cloned}
                    ELSE {made \o <<return("frame")>>}, {<<>>})

\* The clip is only looked at.
BlankClipCreate ==
  Then(<<propGetNode("node"), freeNode("node")>>, {RETERROR(<<>>), <<createFilter>>})
  \cup {RETERROR(<<>>), <<createFilter>>}

(* AssumeFPS *)

AssumeFPSFrame(n) ==
  Calls({Request(<<"node">>, n)},
        {<<getFrameFilter("src", "node", n), copyFrame("dst", "src"), freeFrame("src"),
           compute("dst", <<>>), return("dst")>>})

AssumeFPSCreate ==
  LET done == {RETERROR(<<"node">>), <<createFilter>>} IN
  Then(<<propGetNode("node")>>,
       done \cup Then(<<propGetNode("src"), freeNode("src")>>, done))

-----------------------------------------------------------------------------
(* FrameEval, with and without prop_src *)

\* The function's answer: an error, something that is not a clip, or a clip.
Evaluated(n) ==
  {<<setFilterError("map"), clearMap>>,
   <<clearMap, setFilterError("literal")>>,
   <<propGetNode("val"), clearMap, requestFrameFilter("val", n)>>}

\* A frame the function got is copied into its map.
Passed(vs, n) == ForEach(vs, LAMBDA v : <<getFrameFilter("f", v, n), freeFrame("f")>>)

\* The frame of the function's clip would be taken in a second call with
\* arAllFramesReady, which is never made.
FrameEvalGetFrameWithProps(propsrc, n) ==
  Calls({Request(propsrc, n)}, Then(Passed(propsrc, n), Evaluated(n)))

\* The node is carried in *frameData; the third way is arError, never called.
FrameEvalGetFrameNoProps(n) ==
  Calls(Evaluated(n),
        Then(<<getFrameFilter("frame", "val", n), freeNode("val")>>,
             {Fail("literal", <<"frame">>), <<return("frame")>>}))

FrameEvalCreate(propsrc) ==
  {<<propGetNode("node"), freeNode("node")>>
   \o [i \in DOMAIN propsrc |-> propGetNode(propsrc[i])] \o <<createFilter>>}

(* ModifyFrame *)

ModifyFrameGetFrame(clips, n) ==
  Calls({Request(clips, n)},
        Then(Passed(clips, n),
             {<<setFilterError("map"), clearMap>>,
              <<clearMap, setFilterError("literal")>>,
              <<propGetFrame("f"), clearMap>> \o Fail("literal", <<"f">>),
              <<propGetFrame("f"), clearMap, return("f")>>}))

\* vi points into formatnode.
ModifyFrameCreate(clips) ==
  {<<propGetNode("formatnode"), freeNode("formatnode")>>
   \o [i \in DOMAIN clips |-> propGetNode(clips[i])] \o <<createFilter>>}

(* Transpose *)

TransposeGetFrame(n) == Calls({Request(<<"node">>, n)}, {Through(n)})
TransposeCreate == Then(<<propGetNode("node")>>, {RETERROR(<<"node">>), <<createFilter>>})

(* PEMVerifier *)

PemVerifierGetFrame(n) ==
  Calls({Request(<<"node">>, n)},
        Then(<<getFrameFilter("src", "node", n)>>,
             {<<setFilterError("stack"), freeFrame("src")>>, <<return("src")>>}))
PemVerifierCreate == Then(<<propGetNode("node")>>, {RETERROR(<<"node">>), <<createFilter>>})

(* PlaneStats, of one or two clips *)

PlaneStatsGetFrame(two, n) ==
  LET nodes == IF two THEN Two ELSE <<"node1">>
      srcs == IF two THEN <<"src1", "src2">> ELSE <<"src1">>
  IN Calls({Request(nodes, n)},
           {[i \in DOMAIN nodes |-> getFrameFilter(srcs[i], nodes[i], n)]
            \o <<copyFrame("dst", "src1"), compute("dst", srcs)>>
            \o FreeFrames(srcs) \o <<return("dst")>>})

PlaneStatsLength(lens) == lens.node1

PlaneStatsCreate(two) ==
  Then(<<propGetNode("node1")>>,
       {RETERROR(<<"node1">>)} \cup
       IF two THEN Then(<<propGetNode("node2")>>, {RETERROR(Two), <<createFilter>>})
              ELSE {<<createFilter>>})

(* ClipToProp *)

ClipToPropGetFrame(n) ==
  Calls({Request(Two, n)},
        {<<getFrameFilter("src1", "node1", n), getFrameFilter("src2", "node2", n),
           copyFrame("dst", "src1"), compute("dst", <<"src2">>),
           freeFrame("src1"), freeFrame("src2"), return("dst")>>})

ClipToPropLength(lens) == lens.node2

ClipToPropCreate ==
  Then(<<propGetNode("node1"), propGetNode("node2")>>, {RETERROR(Two), <<createFilter>>})

(* PropToClip *)

\* A frame of another format is not freed.
PropToClipGetFrame(n) ==
  Calls({Request(<<"node">>, n)},
        Then(<<getFrameFilter("src", "node", n)>>,
             {<<propGetFrame("dst"), freeFrame("src"), setFilterError("literal")>>,
              <<propGetFrame("dst"), freeFrame("src"), return("dst")>>,
              Fail("literal", <<"src">>)}))

\* The first frame is computed, and waited for, while the filter is created.
PropToClipCreate ==
  Then(<<propGetNode("node")>>,
       {RETERROR(<<"node">>)} \cup
       Then(<<getFrame("src", "node")>>,
            {<<freeNode("node"), freeFrame("src"), setError>>,
             <<propGetFrame("msrc"), freeFrame("msrc"), freeFrame("src"), createFilter>>}))

(* SetFrameProp and SetFieldBased: the checks come before the node *)

SetPropGetFrame(n) ==
  Calls({Request(<<"node">>, n)},
        {<<getFrameFilter("src", "node", n), copyFrame("dst", "src"), freeFrame("src"),
           compute("dst", <<>>), return("dst")>>})
SetPropCreate == {RETERROR(<<>>), <<propGetNode("node"), createFilter>>}
=============================================================================
