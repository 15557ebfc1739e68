--------------------------- MODULE ReorderFilters ---------------------------
(***************************************************************************)
(* The filters of VapStd/reorderfilters.c: which clip they make, which     *)
(* frame of which clip they ask for, and what they do with their nodes, in *)
(* the vocabulary of FilterScript.  Clips have a length and match or do    *)
(* not match; an argument that may be absent is a sequence of at most one  *)
(* number.  Numbers are those of an int that ends at IntMax.               *)
(***************************************************************************)
EXTENDS Integers, Sequences, TLC, FilterScript
LOCAL INSTANCE FiniteSetsExt
LOCAL INSTANCE SequencesExt

CONSTANT IntMax

\* A sum or product that leaves the range of int wraps around.
Wrapped(x) == ((x + IntMax + 1) % (2 * (IntMax + 1))) - (IntMax + 1)

-----------------------------------------------------------------------------
\* The frame of another number, as it is.
Moved(node, k) ==
  Calls({<<requestFrameFilter(node, k)>>}, {<<getFrameFilter("src", node, k), return("src")>>})

\* The same, with another duration.
Retimed(node, k) ==
  Calls({<<requestFrameFilter(node, k)>>},
        {<<getFrameFilter("src", node, k), copyFrame("dst", "src"), freeFrame("src"),
           compute("dst", <<>>), return("dst")>>})

PassedThrough(v) == <<propGetNode(v), propSetNode(v), freeNode(v)>>

\* A creation that gets its clip and then fails, or goes on.
Got(v, rest) == <<propGetNode(v)>> \o rest

Clips(num) == SubSeq(<<"node1", "node2", "node3">>, 1, num)

\* findCommonVi finds a mismatch, which ends the creation; or the clips are
\* taken, unless what they would make is too long.
Matched(num, tooLong) ==
  Then([i \in 1 .. num |-> propGetNode(Clips(num)[i])], {RETERROR(Clips(num))} \cup tooLong)

-----------------------------------------------------------------------------
(* Trim *)

OrElse(arg, default) == IF arg = <<>> THEN default ELSE arg[1]

trimLength(first, last, length, len) ==
  LET from == OrElse(first, 0) IN
  CASE last # <<>> -> last[1] - from + 1
    [] length # <<>> -> length[1]
    [] OTHER -> len - from

trimGetframe(first, n) == Moved("node", Wrapped(n + OrElse(first, 0)))

trimCreate(first, last, length, len) ==
  LET from == OrElse(first, 0)
      invalid == \/ last # <<>> /\ length # <<>>
                 \/ last # <<>> /\ last[1] < from
                 \/ length # <<>> /\ length[1] < 1
                 \/ from < 0
      beyond == \/ last # <<>> /\ last[1] >= len
                \/ length # <<>> /\ Wrapped(from + length[1]) > len
                \/ len <= from
  IN {CASE invalid -> RETERROR(<<>>)
        [] ~invalid /\ beyond -> Got("node", RETERROR(<<"node">>))
        [] ~invalid /\ ~beyond /\ trimLength(first, last, length, len) = len ->
             PassedThrough("node")
        [] OTHER -> Got("node", <<createFilter>>)}

(* Interleave *)

interleaveLength(lens, extend) ==
  LET num == Len(lens) IN
  IF extend THEN Max({lens[i] : i \in DOMAIN lens}) * num
            ELSE Max({(lens[i] - 1) * num + i : i \in DOMAIN lens})

interleaveGetframe(num, modifyDuration, n) ==
  LET node == Clips(num)[(n % num) + 1]
  IN IF modifyDuration THEN Retimed(node, n \div num) ELSE Moved(node, n \div num)

interleaveCreate(lens, extend) ==
  LET num == Len(lens)
      overflow == IF extend THEN \E i \in DOMAIN lens : lens[i] > IntMax \div num
                            ELSE \E i \in DOMAIN lens : lens[i] > (IntMax - i) \div num + 1
  IN IF num = 1
       THEN {PassedThrough("node1")}
       ELSE Matched(num, {IF overflow THEN RETERROR(Clips(num)) ELSE <<createFilter>>})

interleaveFree(num) == FreeNodes(Clips(num))

(* Reverse *)

reverseGetframe(len, n) == Moved("node", Max({len - n - 1, 0}))
reverseCreate == {Got("node", <<createFilter>>)}

(* Loop *)

loopLength(times, len) == IF OrElse(times, 0) = 0 THEN IntMax ELSE len * times[1]

loopGetframe(len, n) == Moved("node", n % len)

loopCreate(times, len) ==
  LET t == OrElse(times, 0) IN
  {CASE t < 0 -> RETERROR(<<>>)
     [] t = 1 -> PassedThrough("node")
     [] t > 1 /\ len > IntMax \div t -> Got("node", RETERROR(<<"node">>))
     [] OTHER -> Got("node", <<createFilter>>)}

-----------------------------------------------------------------------------
(* SelectEvery *)

selectEveryLength(cycle, offsets, len) ==
  ((len \div cycle) * Len(offsets)) + Len(SelectSeq(offsets, LAMBDA o : o < (len % cycle)))

selectEveryGetframe(cycle, offsets, modifyDuration, n) ==
  LET k == (n \div Len(offsets)) * cycle + offsets[(n % Len(offsets)) + 1]
  IN IF modifyDuration THEN Retimed("node", k) ELSE Moved("node", k)

selectEveryCreate(cycle, offsets, len) ==
  LET invalid == cycle <= 1 \/ \E i \in DOMAIN offsets : offsets[i] < 0 \/ offsets[i] >= cycle IN
  {CASE invalid -> RETERROR(<<>>)
     [] ~invalid /\ selectEveryLength(cycle, offsets, len) = 0 ->
          Got("node", RETERROR(<<"node">>))
     [] OTHER -> Got("node", <<createFilter>>)}

(* Splice *)

Before(lens, i) == FoldLeft(LAMBDA a, b : a + b, 0, SubSeq(lens, 1, i - 1))
spliceLength(lens) == Wrapped(Before(lens, Len(lens) + 1))

\* The last clip answers for every number the others do not.
spliceGetframe(lens, n) ==
  LET idx == Min({i \in DOMAIN lens : n < Before(lens, i + 1)} \cup {Len(lens)})
  IN Moved(Clips(Len(lens))[idx], n - Before(lens, idx))

\* When the length overflows, the loop that frees the nodes counts the wrong
\* variable and frees the first one for ever.  The compiler may drop the test,
\* which relies on the overflow, too.
spliceCreate(lens) ==
  LET num == Len(lens)
      overflow == Before(lens, num + 1) > IntMax
  IN IF num = 1
       THEN {PassedThrough("node1")}
       ELSE Matched(num, {<<createFilter>>} \cup
              IF overflow THEN {<<freeNode("node1"), freeNode("node1")>>} ELSE {})

spliceFree(num) == FreeNodes(Clips(num))

-----------------------------------------------------------------------------
(* DuplicateFrames and DeleteFrames *)

Sorted(numbers) == SortSeq(numbers, LAMBDA a, b : a < b)

\* The numbers passed before the loop breaks.
Skipped(numbers, Break(_)) == Min({i \in DOMAIN numbers : Break(i)} \cup {Len(numbers) + 1}) - 1

duplicateFramesLength(dups, len) == Wrapped(len + Len(dups))

duplicateFramesGetFrame(dups, n) ==
  LET d == Sorted(dups) IN
  Moved("node", n - Skipped(d, LAMBDA i : ~(n - (i - 1) > d[i])))

OutOfBounds(numbers, len) == \E i \in DOMAIN numbers : numbers[i] < 0 \/ numbers[i] >= len

\* The compiler may drop the test for a sum that overflowed.
duplicateFramesCreate(dups, len) ==
  LET failed == Got("node", RETERROR(<<"node">>))
      created == Got("node", <<createFilter>>)
  IN IF OutOfBounds(dups, len) THEN {failed}
     ELSE {created} \cup IF len + Len(dups) > IntMax THEN {failed} ELSE {}

deleteFramesLength(delete, len) == len - Len(delete)

deleteFramesGetFrame(delete, n) ==
  LET d == Sorted(delete) IN
  Moved("node", n + Skipped(d, LAMBDA i : ~(n + (i - 1) >= d[i])))

deleteFramesCreate(delete, len) ==
  LET d == Sorted(delete)
      twice == \E i \in 1 .. Len(d) - 1 : d[i] = d[i + 1]
  IN {IF OutOfBounds(delete, len) \/ twice \/ Len(delete) = len
        THEN Got("node", RETERROR(<<"node">>))
        ELSE Got("node", <<createFilter>>)}

(* FreezeFrames: ranges of a first and a last frame, and the replacement *)

\* Ranges given from the end are turned round, and all are sorted.
Freezes(ranges) ==
  SortSeq([i \in DOMAIN ranges |->
             IF ranges[i][1] > ranges[i][2] THEN <<ranges[i][2], ranges[i][1], ranges[i][3]>>
                                            ELSE ranges[i]],
          LAMBDA x, y : x[1] < y[1])

freezeFramesGetFrame(ranges, n) ==
  LET f == Freezes(ranges)
      hit == {i \in DOMAIN f : f[i][1] <= n /\ n <= f[i][2]}
  IN Moved("node", IF hit = {} THEN n ELSE f[Min(hit)][3])

freezeFramesCreate(ranges, len) ==
  LET f == Freezes(ranges)
      overlap == \E i \in 1 .. Len(f) - 1 : f[i][2] >= f[i + 1][1]
      failed == Got("node", <<setError, freeNode("node")>>)
  IN {IF overlap \/ \E i \in DOMAIN f : OutOfBounds(f[i], len)
        THEN failed ELSE Got("node", <<createFilter>>)}
=============================================================================
