---------------------------- MODULE FilterCatalog ----------------------------
(***************************************************************************)
(* The filters of VapStd as records for FilterHost: the functions each     *)
(* registers, with the arguments and clips they are checked for, the       *)
(* frames it promises, and the ways in which it is known to fall short.    *)
(* Every entry has the lengths of its clips; where a filter has several,   *)
(* there is one entry with equal lengths and one with each clip shorter.   *)
(* The filters of VapStd/reorderfilters.c promise a clip: an operation on  *)
(* the sequences of the frames they are given, where ReorderFilters has    *)
(* how the filters find a frame.                                           *)
(***************************************************************************)
EXTENDS Integers, Sequences, SimpleFilters, PixelFilters, ReorderFilters
LOCAL INSTANCE SequencesExt
LOCAL INSTANCE FiniteSetsExt

\* The clip of a node: its frames carry the node's name and their number.
Clip(node, len) == [i \in 1 .. len |-> <<node, i - 1>>]

Repeat(x, times) == [i \in 1 .. times |-> x]

Trimmed(clip, first, length) == SubSeq(clip, first + 1, Min({first + length, Len(clip)}))

Reversed(clip) == Reverse(clip)

Looped(clip, times) == FlattenSeq(Repeat(clip, times))

Spliced(clips) == FlattenSeq(clips)

\* A clip that is too short repeats its last frame.  Unless the clips are to be
\* extended, the result ends with the last frame that is no repetition.
Interleaved(clips, extend) ==
  LET longest == Max({Len(clips[j]) : j \in DOMAIN clips})
      At(j, i) == clips[j][Min({i, Len(clips[j])})]
      end == Max({(Len(clips[j]) - 1) * Len(clips) + j : j \in DOMAIN clips})
      all == FlattenSeq([i \in 1 .. longest |-> [j \in DOMAIN clips |-> At(j, i)]])
  IN IF extend THEN all ELSE SubSeq(all, 1, end)

\* Out of every cycle, the frames at the offsets; the last cycle may be cut off.
Selected(clip, cycle, offsets) ==
  LET Group(i) == SubSeq(clip, i * cycle + 1, Min({(i + 1) * cycle, Len(clip)}))
      Chosen(group) == FlattenSeq([k \in DOMAIN offsets |->
                         IF offsets[k] < Len(group) THEN <<group[offsets[k] + 1]>> ELSE <<>>])
  IN FlattenSeq([i \in 1 .. (Len(clip) + cycle - 1) \div cycle |-> Chosen(Group(i - 1))])

\* Every time a frame is named, it comes once more.
Duplicated(clip, frames) ==
  FlattenSeq([i \in DOMAIN clip |->
    Repeat(clip[i], 1 + Len(SelectSeq(frames, LAMBDA f : f = i - 1)))])

Deleted(clip, frames) ==
  FlattenSeq([i \in DOMAIN clip |->
    IF \E k \in DOMAIN frames : frames[k] = i - 1 THEN <<>> ELSE <<clip[i]>>])

\* Ranges may be given from either end.
Frozen(clip, ranges) ==
  [i \in DOMAIN clip |->
    LET Holds(r) == i - 1 \in (r[1] .. r[2]) \cup (r[2] .. r[1])
        hit == {r \in {ranges[k] : k \in DOMAIN ranges} : Holds(r)}
    IN IF hit = {} THEN clip[i] ELSE clip[(CHOOSE r \in hit : TRUE)[3] + 1]]

-----------------------------------------------------------------------------
(* the filters *)

\* A frame's functions, written out as values of their own.
Each(frames, Frame(_)) == FoldSet(LAMBDA n, f : (n :> Frame(n)) @@ f, <<>>, frames)

ListOf(set) == FoldSet(LAMBDA x, list : Append(list, x), <<>>, set)
Args(list, Entry(_)) == [i \in DOMAIN list |-> Entry(list[i])]

\* A filter of count frames that makes each out of the frames of its clips with the
\* same number, and gives back the nodes it holds.
Basic(name, create, vi, held, lens, count, Frame(_)) ==
  [name |-> name, create |-> create, vi |-> vi,
   frame |-> Each(0 .. count - 1, Frame),
   free |-> FreeNodes(held), parallel |-> TRUE,
   wanted |-> [n \in 0 .. count - 1 |-> {<<v, n>> : v \in DOMAIN lens}],
   lens |-> lens, over |-> {}, known |-> {}]

\* One clip, and a filter that is as long.
Single(name, create, vi, Frame(_)) ==
  Basic(name, create, vi, <<"node">>, [node |-> 2], 2, Frame)

\* Clips of one length, and clips of which one is shorter.
Lengths(clips) ==
  {[v \in clips |-> 2]} \cup {[v \in clips |-> IF v = short THEN 1 ELSE 2] : short \in clips}
OfLengths(clips, Entry(_)) == Args(ListOf(Lengths(clips)), Entry)

\* The lengths were not compared: clips may lack frames that the filter has.
Uncompared(filter) ==
  [filter EXCEPT !.over = {input \in (DOMAIN filter.lens) \X (DOMAIN filter.frame) :
                             input[2] >= filter.lens[input[1]]}]

Falls(filter, ways) == [filter EXCEPT !.known = ways]
Promises(filter, inputs) == [filter EXCEPT !.wanted = [n \in DOMAIN @ |-> inputs]]
OneAtATime(filter) == [filter EXCEPT !.parallel = FALSE]

One == <<"node">>

\* Clips that are given again are not counted.
Shuffled(clips) ==
  OfLengths({Three[i] : i \in 1 .. clips}, LAMBDA lens :
    Uncompared(Basic("ShufflePlanes", ShufflePlanesCreate(FALSE, clips), "", Three, lens,
                     ShufflePlanesLength(FALSE, lens), LAMBDA n : ShufflePlanesFrame(FALSE, clips, n))))

\* Two clips, of which the second is not compared with the first.
Paired(name, create, vi, Length(_), Frame(_)) ==
  OfLengths({"node1", "node2"}, LAMBDA lens :
    Uncompared(Basic(name, create, vi, <<"node1", "node2">>, lens, Length(lens), Frame)))

\* These are as long as the clip they are called for, which is no longer held.  What
\* they ask for are the clips they are called with, and FrameEval what its function
\* answers.
FrameEvals ==
  OfLengths({"propsrc", "val"}, LAMBDA lens :
    OneAtATime(Uncompared(Falls(
      Basic("FrameEval, prop_src", FrameEvalCreate(<<"propsrc">>), "", <<"propsrc">>, lens, 2,
            LAMBDA n : FrameEvalGetFrameWithProps(<<"propsrc">>, n)), {"terminates", "text"}))))
  \o OfLengths({"val"}, LAMBDA lens :
    OneAtATime(Uncompared(Falls(
      Basic("FrameEval", FrameEvalCreate(<<>>), "", <<>>, lens, 2, FrameEvalGetFrameNoProps),
      {"terminates", "text", "leak"}))))
  \o OfLengths({"node1", "node2"}, LAMBDA lens :
    OneAtATime(Promises(Uncompared(Falls(
      Basic("ModifyFrame", ModifyFrameCreate(Two), "formatnode", Two, lens, 2,
            LAMBDA n : ModifyFrameGetFrame(Two, n)), {"text", "dangling"})), {<<"map", 0>>})))

FromSimpleFilters ==
  << Falls(Single("CropAbs", CropAbsCreate, "node", CropFrame), {"text"}),
     Falls(Single("CropRel", CropRelCreate, "node", CropFrame), {"text"}),
     Falls(Single("AddBorders", AddBordersCreate, "node", AddBordersFrame), {"text", "leak"}),
     LET lens == [node1 |-> 2] IN
     Basic("ShufflePlanes, gray", ShufflePlanesCreate(TRUE, 1), "", <<"node1">>, lens,
           ShufflePlanesLength(TRUE, lens), LAMBDA n : ShufflePlanesFrame(TRUE, 1, n)),
     LET lens == [node |-> 2] IN
     [Basic("SeparateFields", SeparateFieldsCreate, "", One, lens, SeparateFieldsLength(lens),
            SeparateFieldsFrame) EXCEPT !.wanted = [n \in DOMAIN @ |-> {<<"node", n \div 2>>}]],
     LET lens == [node |-> 2] IN
     [Basic("DoubleWeave", DoubleWeaveCreate, "", One, lens, DoubleWeaveLength(lens),
            DoubleWeaveFrame)
        EXCEPT !.wanted = [n \in DOMAIN @ |-> {<<"node", n>>, <<"node", n + 1>>}],
               !.over = {<<"node", 2>>}],
     Single("FlipVertical", FlipVerticalCreate, "node", FlipVerticalFrame),
     Single("FlipHorizontal", FlipHorizontalCreate, "node", FlipHorizontalFrame),
     Basic("StackVertical, 1 clip", StackCreate(1), "", Two, [node1 |-> 2], 2, StackFrame),
     Basic("BlankClip", BlankClipCreate, "", <<>>, <<>>, 2, LAMBDA n : BlankClipFrame(FALSE, n)),
     OneAtATime([Basic("BlankClip, kept", BlankClipCreate, "", <<>>, <<>>, 2,
                       LAMBDA n : BlankClipFrame(TRUE, n)) EXCEPT !.free = <<freeKept>>]),
     Single("AssumeFPS", AssumeFPSCreate, "", AssumeFPSFrame),
     Single("Transpose", TransposeCreate, "", TransposeGetFrame),
     Falls(Single("PEMVerifier", PemVerifierCreate, "node", PemVerifierGetFrame), {"text"}),
     Basic("PlaneStats", PlaneStatsCreate(FALSE), "node1", <<"node1">>, [node1 |-> 2], 2,
           LAMBDA n : PlaneStatsGetFrame(FALSE, n)),
     Promises(Falls(Single("PropToClip", PropToClipCreate, "", PropToClipGetFrame), {"leak"}),
              {<<"map", 0>>}),
     Single("SetFrameProp, SetFieldBased", SetPropCreate, "node", SetPropGetFrame) >>
  \o Shuffled(1) \o Shuffled(2) \o Shuffled(3)
  \o Paired("StackVertical", StackCreate(2), "", StackLength, StackFrame)
  \o FrameEvals
  \o Paired("PlaneStats, 2 clips", PlaneStatsCreate(TRUE), "node1", PlaneStatsLength,
            LAMBDA n : PlaneStatsGetFrame(TRUE, n))
  \o Paired("ClipToProp", ClipToPropCreate, "", ClipToPropLength, ClipToPropGetFrame)

\* What is made of the second clip or the mask is as long as it.
FromMergeFilters ==
  LET PreMultiplied(a) ==
        OfLengths({"node1", "node2"}, LAMBDA lens :
          Uncompared(Basic("PreMultiply", PreMultiplyCreate(a), "node1", PreMultiplyNodes(a),
            lens @@ IF a = "resized" THEN [node2_23 |-> lens.node2] ELSE <<>>,
            MergedLength(lens), LAMBDA n : PreMultiplyGetFrame(a, n))))
      Masked(m) ==
        OfLengths({"node1", "node2", "mask"}, LAMBDA lens :
          Uncompared(Basic("MaskedMerge", MaskedMergeCreate(m), "node1", MaskedMergeNodes(m),
            lens @@ IF m = "none" THEN <<>> ELSE [mask23 |-> lens.mask],
            MergedLength(lens), LAMBDA n : MaskedMergeGetFrame(m, n))))
  IN PreMultiplied("none") \o PreMultiplied("resized") \o PreMultiplied("same")
     \o Paired("Merge", MergeCreate, "node1", MergedLength, MergeGetFrame)
     \o Masked("none") \o Masked("resized") \o Masked("first_plane")
     \o Paired("MakeDiff", MakeDiffCreate, "node1", MergedLength, MakeDiffGetFrame)
     \o Paired("MergeDiff", MergeDiffCreate, "node1", MergedLength, MergeDiffGetFrame)

\* BoxBlur's function makes other filters, and ends without one of its own.
FromPixelFilters ==
  LET Blur(planes, process, h, v) ==
        Basic("BoxBlur", boxBlurCreate(planes, process, h, v), "", <<>>, [node |-> 2], 2,
              boxBlurGetframe)
  IN << Falls(Single("Convolution", genericCreate, "node", genericGetframe), {"text"}),
        Falls(Single("Invert", invertCreate, "node", singlePixelGetFrame), {"text"}),
        Falls(Single("Limiter", limitCreate, "node", singlePixelGetFrame), {"text"}),
        Falls(Single("Binarize", binarizeCreate, "node", singlePixelGetFrame), {"text"}),
        Single("Levels", levelsCreate, "node", levelsGetframe),
        Single("Levels, float", levelsCreate, "node", levelsGetframeF),
        Single("Lut", lutCreate, "node", lutGetframe),
        Single("BoxBlur, one plane", OneCreate, "node", boxBlurGetframe),
        Blur(1, {0}, TRUE, FALSE), Blur(1, {0}, FALSE, TRUE), Blur(1, {0}, TRUE, TRUE),
        Blur(3, {0, 1, 2}, TRUE, TRUE), Blur(3, {1}, FALSE, TRUE),
        Falls(Single("Text", textCreate, "node", textGetFrame), {"text"}),
        Single("Expr", exprCreate(One), "", LAMBDA n : exprGetFrame(One, n)),
        Falls(Single("Bicubic", vszimg_create, "", vszimg_get_frame), {"text"}) >>
     \o OfLengths({"nodex", "nodey"}, LAMBDA lens :
          Uncompared(Basic("Lut2", lut2Create, "nodex", Lut2Nodes, lens, lut2Length(lens),
                           lut2Getframe)))
     \o OfLengths({"nodex", "nodey"}, LAMBDA lens :
          Uncompared(Basic("Expr, 2 clips", exprCreate(Lut2Nodes), "", Lut2Nodes, lens,
                           exprLength(Lut2Nodes, lens), LAMBDA n : exprGetFrame(Lut2Nodes, n))))

-----------------------------------------------------------------------------
(* The filters of reorderfilters.c, for all of these arguments and clips *)

\* The clips of the given lengths, what the filter makes of them, and what it asks
\* for past their end.  There is nothing to look at if no clip is made.
Reorder(name, create, count, Frame(_), nodes, lens, spec, over, ways) ==
  LET made == \E path \in create : path # <<>> /\ path[Len(path)] = createFilter
      frames == IF made THEN 0 .. count - 1 ELSE {}
  IN [name |-> name, create |-> create, vi |-> "",
      frame |-> Each(frames, Frame),
      free |-> FreeNodes(nodes), parallel |-> TRUE,
      wanted |-> IF made THEN [n \in 0 .. Len(spec) - 1 |-> {spec[n + 1]}] ELSE <<>>,
      lens |-> [v \in {nodes[i] : i \in DOMAIN nodes} |->
                  lens[CHOOSE i \in DOMAIN nodes : nodes[i] = v]],
      over |-> IF made THEN over ELSE {}, known |-> IF made THEN ways ELSE {}]

OfLength(len) == Clip("node", len)
Several(lens) == [i \in DOMAIN lens |-> Clip(Clips(Len(lens))[i], lens[i])]

\* The sum of the two wraps around, and is taken for a frame the clip has.
TooFar(first, length) == OrElse(first, 0) + OrElse(length, 0) > IntMax

TrimOf(first, last, length) ==
  Reorder("Trim", trimCreate(first, last, length, 3), trimLength(first, last, length, 3),
          LAMBDA n : trimGetframe(first, n), One, <<3>>,
          Trimmed(OfLength(3), OrElse(first, 0), trimLength(first, last, length, 3)),
          IF TooFar(first, length)
            THEN {<<"node", Wrapped(k)>> : k \in 3 .. first[1] + length[1] - 1} ELSE {},
          IF TooFar(first, length) THEN {"overflow"} ELSE {})

Trims ==
  Args(ListOf({<<>>, <<0>>, <<1>>, <<3>>, <<-1>>} \X {<<>>, <<0>>, <<1>>, <<3>>}
              \X {<<>>, <<0>>, <<2>>, <<IntMax>>}),
       LAMBDA a : TrimOf(a[1], a[2], a[3]))

\* The frames of the result that would be of a clip that has already ended.
Repeated(lens, extend) ==
  LET num == Len(lens)
      taken == {<<(n % num) + 1, n \div num>> : n \in 0 .. interleaveLength(lens, extend) - 1}
  IN {<<Clips(num)[t[1]], t[2]>> : t \in {t \in taken : t[2] >= lens[t[1]]}}

Interleaves ==
  Args(ListOf({<<3>>, <<2, 2>>, <<2, 3>>, <<3, 2>>, <<5, 5>>, <<2, 2, 2>>} \X BOOLEAN \X BOOLEAN),
       LAMBDA a :
         Reorder("Interleave", interleaveCreate(a[1], a[2]), interleaveLength(a[1], a[2]),
                 LAMBDA n : interleaveGetframe(Len(a[1]), a[3], n), Clips(Len(a[1])), a[1],
                 Interleaved(Several(a[1]), a[2]), Repeated(a[1], a[2]), {}))

Reverses ==
  Args(<<1, 3>>, LAMBDA len :
    Reorder("Reverse", reverseCreate, len, LAMBDA n : reverseGetframe(len, n), One, <<len>>,
            Reversed(OfLength(len)), {}, {}))

\* Without a number of times, a clip is looped for as long as there are numbers.
Loops ==
  Args(ListOf({<<>>, <<-1>>, <<0>>, <<1>>, <<2>>, <<3>>}), LAMBDA times :
    Reorder("Loop", loopCreate(times, 3), loopLength(times, 3), LAMBDA n : loopGetframe(3, n),
            One, <<3>>,
            IF OrElse(times, 0) = 0 THEN Trimmed(Looped(OfLength(3), IntMax), 0, IntMax)
                                    ELSE Looped(OfLength(3), times[1]), {}, {}))

\* A cycle that is cut off counts the offsets it has room for, but takes the first.
Unsorted(offsets) == \E i, j \in DOMAIN offsets : i < j /\ offsets[i] > offsets[j]

SelectEveries ==
  Args(ListOf({1, 2, 3} \X {<<0>>, <<1>>, <<0, 1>>, <<1, 0>>, <<2>>, <<0, 0, 1>>}
              \X {1, 3} \X BOOLEAN),
       LAMBDA a :
         Reorder("SelectEvery", selectEveryCreate(a[1], a[2], a[3]),
                 selectEveryLength(a[1], a[2], a[3]),
                 LAMBDA n : selectEveryGetframe(a[1], a[2], a[4], n), One, <<a[3]>>,
                 Selected(OfLength(a[3]), a[1], a[2]),
                 IF Unsorted(a[2]) /\ a[3] % a[1] # 0 THEN {<<"node", a[3]>>} ELSE {}, {}))

Splices ==
  Args(<<<<3>>, <<2, 3>>, <<1, 2, 1>>, <<4, 4>>>>, LAMBDA lens :
    Reorder("Splice", spliceCreate(lens), spliceLength(lens), LAMBDA n : spliceGetframe(lens, n),
            Clips(Len(lens)), lens, Spliced(Several(lens)), {},
            IF Len(Spliced(Several(lens))) > IntMax THEN {"overflow", "dangling"} ELSE {}))

DuplicateFrameses ==
  Args(<<<<0>>, <<2, 0, 0>>, <<1, 1, 2>>, <<3>>, <<0, 1, 2, 0, 1>>>>, LAMBDA dups :
    Reorder("DuplicateFrames", duplicateFramesCreate(dups, 3), duplicateFramesLength(dups, 3),
            LAMBDA n : duplicateFramesGetFrame(dups, n), One, <<3>>,
            Duplicated(OfLength(3), dups), {}, IF Len(dups) + 3 > IntMax THEN {"overflow"} ELSE {}))

DeleteFrameses ==
  Args(<<<<0>>, <<2, 0>>, <<1, 2>>, <<3>>, <<1, 1>>, <<0, 1, 2, 3>>, <<4>>, <<3, 0, 2>>>>, LAMBDA deleted :
    Reorder("DeleteFrames", deleteFramesCreate(deleted, 4), deleteFramesLength(deleted, 4),
            LAMBDA n : deleteFramesGetFrame(deleted, n), One, <<4>>,
            Deleted(OfLength(4), deleted), {}, {}))

FreezeFrameses ==
  Args(<<<<<<0, 1, 2>>>>, <<<<2, 1, 0>>>>, <<<<3, 2, 0>>, <<0, 1, 3>>>>, <<<<0, 2, 1>>, <<2, 3, 0>>>>,
         <<<<0, 4, 1>>>>, <<<<0, 1, 4>>>>, <<<<2, 2, 3>>, <<0, 0, 1>>>>>>,
       LAMBDA ranges :
         Reorder("FreezeFrames", freezeFramesCreate(ranges, 4), 4,
                 LAMBDA n : freezeFramesGetFrame(ranges, n), One, <<4>>,
                 IF freezeFramesCreate(ranges, 4) = reverseCreate THEN Frozen(OfLength(4), ranges)
                                                                  ELSE <<>>, {}, {}))

Filters ==
  FromSimpleFilters \o FromMergeFilters \o FromPixelFilters
  \o Trims \o Interleaves \o Reverses \o Loops \o SelectEveries \o Splices
  \o DuplicateFrameses \o DeleteFrameses \o FreezeFrameses
=============================================================================
