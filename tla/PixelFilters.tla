--------------------------- MODULE PixelFilters ----------------------------
(***************************************************************************)
(* The filters of VapStd that make pixels of pixels (mergefilters.c,       *)
(* genericfilters.cpp, lutfilters.cpp, boxblurfilter.cpp, textfilter.cpp,  *)
(* exprfilter.cpp and vsresize.cpp): what they do with nodes and frames,   *)
(* in the vocabulary of FilterScript.                                      *)
(***************************************************************************)
EXTENDS Integers, Sequences, FilterScript

\* One clip that is got, checked, and given back if it does not fit.
OneCreate == Then(<<propGetNode("node")>>, {RETERROR(<<"node">>), <<createFilter>>})

-----------------------------------------------------------------------------
(* Minimum, Maximum, Median, Deflate, Inflate, Convolution, Prewitt, Sobel *)

\* The text of the error is a temporary of the call itself.
genericGetframe(n) ==
  Calls({Request(<<"node">>, n)},
        {Through(n),
         <<getFrameFilter("src", "node", n), setFilterError("stack"), freeFrame("src")>>})
genericCreate == OneCreate

(* Invert, InvertMask, Limiter, Binarize, BinarizeMask *)

singlePixelGetFrame(n) ==
  Calls({Request(<<"node">>, n)},
        {Through(n),
         <<getFrameFilter("src", "node", n), setFilterError("stack"), freeFrame("src")>>})
invertCreate == OneCreate
limitCreate == OneCreate
binarizeCreate == OneCreate

(* Levels *)

levelsGetframe(n) == Calls({Request(<<"node">>, n)}, {Through(n)})
levelsGetframeF(n) == Calls({Request(<<"node">>, n)}, {Through(n)})
levelsCreate == OneCreate

-----------------------------------------------------------------------------
(* Lut and Lut2: the instance's destructor gives back the nodes, after an *)
(* error of its creation, too                                              *)

lutGetframe(n) == Calls({Request(<<"node">>, n)}, {Through(n)})
lutCreate == Then(<<propGetNode("node")>>, {<<setError, freeNode("node")>>, <<createFilter>>})

Lut2Nodes == <<"nodex", "nodey">>

lut2Getframe(n) ==
  Calls({Request(Lut2Nodes, n)},
        {<<getFrameFilter("srcx", "nodex", n), getFrameFilter("srcy", "nodey", n),
           newVideoFrame("dst", <<"srcx">>), compute("dst", <<"srcx", "srcy">>),
           freeFrame("srcx"), freeFrame("srcy"), return("dst")>>})
lut2Length(lens) == lens.nodex

lut2Create ==
  Then([i \in DOMAIN Lut2Nodes |-> propGetNode(Lut2Nodes[i])],
       {<<setError>> \o FreeNodes(Lut2Nodes), <<createFilter>>})

-----------------------------------------------------------------------------
(* BoxBlur: every blurred plane gets one filter, or two, of its own *)

boxBlurGetframe(n) == Calls({Request(<<"node">>, n)}, {Through(n)})

\* The filter's instance takes the node over, and the node of what it makes
\* takes its place.  A vertical blur goes through two Transposes.
applyBoxBlurPlaneFiltering(v, hblur, vblur) ==
  (IF hblur THEN <<takeOver(v), propGetNode(v)>> ELSE <<>>)
  \o IF vblur THEN <<propSetNode(v), freeNode(v), propGetNode(v), takeOver(v), propGetNode(v)>>
              ELSE <<>>

boxBlurCreate(planes, process, hblur, vblur) ==
  LET passOn(v) == <<propSetNode(v), freeNode(v)>>
      blurred(p) ==
        IF p \in process
          THEN <<propGetNode("tmpnode")>> \o applyBoxBlurPlaneFiltering("tmpnode", hblur, vblur)
               \o passOn("tmpnode")
          ELSE <<propSetNode("node")>>
  IN Then(<<propGetNode("node")>>,
          {RETERROR(<<"node">>),
           IF planes = 1
             THEN applyBoxBlurPlaneFiltering("node", hblur, vblur) \o passOn("node")
             ELSE ForEach(<<0, 1, 2>>, blurred)
                  \o <<freeNode("node"), propGetNode("tmpnode")>> \o passOn("tmpnode")})

-----------------------------------------------------------------------------
(* Text, ClipInfo, CoreInfo, FrameNum, FrameProps *)

textGetFrame(n) ==
  Calls({Request(<<"node">>, n)},
        Then(<<getFrameFilter("src", "node", n)>>,
             {Fail("stack", <<"src">>),
              <<copyFrame("dst", "src"), compute("dst", <<"src">>), freeFrame("src"),
                return("dst")>>}))

\* Without a clip, CoreInfo invokes BlankClip, which may fail.
textCreate ==
  {RETERROR(<<>>)} \cup
  Then(<<propGetNode("node")>>, {<<setError, freeNode("node")>>, <<createFilter>>})

-----------------------------------------------------------------------------
(* Expr *)

exprGetFrame(nodes, n) ==
  LET srcs == SubSeq(<<"src1", "src2", "src3">>, 1, Len(nodes)) IN
  Calls({Request(nodes, n)},
        {[i \in DOMAIN nodes |-> getFrameFilter(srcs[i], nodes[i], n)]
         \o <<newVideoFrame("dst", <<"src1">>), compute("dst", srcs)>>
         \o FreeFrames(srcs) \o <<return("dst")>>})

exprLength(nodes, lens) == lens[nodes[1]]

exprCreate(nodes) ==
  {RETERROR(<<>>)} \cup
  Then([i \in DOMAIN nodes |-> propGetNode(nodes[i])], {RETERROR(nodes), <<createFilter>>})

exprFree(nodes) == FreeNodes(nodes)

-----------------------------------------------------------------------------
(* Bilinear, Bicubic, Point, Lanczos, Spline16, Spline36, Spline64 *)

\* Packed pixels are converted through a frame of their own, on either side and
\* for either field; they are given back in the reverse order.
Temporary == <<"tmp1", "tmp2", "tmp3", "tmp4">>
NewTemporaries(k) == [i \in 1 .. k |-> newVideoFrame(Temporary[i], <<>>)]
FreeTemporaries(k) == [i \in 1 .. k |-> freeFrame(Temporary[k + 1 - i])]

\* Nothing to do but set properties; or an image that is made.
real_get_frame ==
  {<<copyFrame("ret", "src"), compute("ret", <<>>)>>} \cup
  {<<newVideoFrame("ret", <<"src">>)>> \o NewTemporaries(k) \o <<compute("ret", <<"src">>)>>
   \o FreeTemporaries(k) : k \in {0, 1, 2, 4}}

\* An exception before the image exists, or after.
real_get_frame_Throws ==
  {<<>>} \cup
  {<<newVideoFrame("ret", <<"src">>)>> \o NewTemporaries(k) \o FreeTemporaries(k)
   \o <<freeFrame("ret")>> : k \in 0 .. 4}

\* The text of an exception is a local of the handler.
vszimg_get_frame(n) ==
  Calls({Request(<<"node">>, n)},
        Then(<<getFrameFilter("src", "node", n)>>,
             {p \o <<freeFrame("src"), return("ret")>> : p \in real_get_frame}
             \cup {p \o <<setFilterError("stack"), freeFrame("src")>> : p \in real_get_frame_Throws}))

\* The constructor frees the node before the exception becomes an error.
vszimg_create == OneCreate

-----------------------------------------------------------------------------
(* mergefilters.c. A mask or an alpha clip may come with a second one,     *)
(* made for the subsampled planes.                                         *)

Sources(nodes) == SubSeq(<<"src1", "src2", "src3", "src4">>, 1, Len(nodes))

Take(srcs, nodes, n) == [i \in DOMAIN nodes |-> getFrameFilter(srcs[i], nodes[i], n)]

\* The frames of all clips make a new one that takes over src1's properties.
Combined(nodes, n) ==
  LET srcs == Sources(nodes) IN
  Take(srcs, nodes, n) \o <<newVideoFrame("dst", <<"src1">>), compute("dst", srcs)>>
    \o FreeFrames(srcs) \o <<return("dst")>>

Pair == <<"node1", "node2">>

\* All of these are as long as their first clip; no length is compared.
MergedLength(lens) == lens.node1

\* Two clips that are got, checked, and given back if they do not match.
PairCreate == Then([i \in DOMAIN Pair |-> propGetNode(Pair[i])], {RETERROR(Pair), <<createFilter>>})

-----------------------------------------------------------------------------
(* PreMultiply: the alpha of the other planes is absent, the same clip, or one *)
(* resized to their dimensions                                                 *)

PreMultiplyNodes(alpha23) == IF alpha23 = "none" THEN Pair ELSE Append(Pair, "node2_23")

PreMultiplyGetFrame(alpha23, n) ==
  LET nodes == PreMultiplyNodes(alpha23)
  IN Calls({Request(nodes, n)}, {Combined(nodes, n)})

PreMultiplyCreate(alpha23) ==
  LET more == CASE alpha23 = "none" -> <<>>
                [] alpha23 = "same" -> <<cloneNodeRef("node2_23", "node2")>>
                [] alpha23 = "resized" -> <<propGetNode("node2_23")>>
  IN Then([i \in DOMAIN Pair |-> propGetNode(Pair[i])],
          {RETERROR(Pair), Append(more, createFilter)})

PreMultiplyFree(alpha23) == FreeNodes(PreMultiplyNodes(alpha23))

(* Merge: the weights are checked before the clips are got *)

MergeGetFrame(n) == Calls({Request(Pair, n)}, {Combined(Pair, n)})

MergeCreate == {RETERROR(<<>>)} \cup PairCreate

(* MaskedMerge: the mask of the other planes is made out of the first plane *)
(* if the mask has several                                                   *)

MaskedMergeNodes(mask23) ==
  <<"node1", "node2", "mask">> \o IF mask23 = "none" THEN <<>> ELSE <<"mask23">>

\* Every processed plane begins with a check of the two ranges, after dst and
\* the second mask's frame were got.
MaskedMergeGetFrame(mask23, n) ==
  LET nodes == MaskedMergeNodes(mask23)
      srcs == Sources(nodes)
      taken == Take(SubSeq(srcs, 1, 3), SubSeq(nodes, 1, 3), n)
               \o <<newVideoFrame("dst", <<"src1">>)>>
               \o Take(SubSeq(srcs, 4, Len(srcs)), SubSeq(nodes, 4, Len(nodes)), n)
  IN Calls({Request(nodes, n)},
           Then(taken, {Fail("literal", Append(srcs, "dst")),
                        <<compute("dst", srcs)>> \o FreeFrames(srcs) \o <<return("dst")>>}))

MaskedMergeCreate(mask23) ==
  LET got == <<"node1", "node2", "mask">>
      more == CASE mask23 = "none" -> <<>>
                [] mask23 = "resized" -> <<propGetNode("mask23")>>
                [] mask23 = "first_plane" ->
                     <<propGetNode("mask_first_plane"), freeNode("mask_first_plane"),
                       propGetNode("mask23")>>
  IN Then([i \in DOMAIN got |-> propGetNode(got[i])],
          {RETERROR(got), Append(more, createFilter)})

MaskedMergeFree(mask23) == FreeNodes(MaskedMergeNodes(mask23))

(* MakeDiff and MergeDiff *)

MakeDiffGetFrame(n) == Calls({Request(Pair, n)}, {Combined(Pair, n)})
MakeDiffCreate == PairCreate
MergeDiffGetFrame(n) == Calls({Request(Pair, n)}, {Combined(Pair, n)})
MergeDiffCreate == PairCreate
=============================================================================
