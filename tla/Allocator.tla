----------------------------- MODULE Allocator -----------------------------
(***************************************************************************)
(* The pool of CatSyn/src/allostery/allostery.cpp, behind operator new and *)
(* operator delete for every block of a page or more.  The address space   *)
(* of the pool is cut into one bin per size class.  A class keeps its free *)
(* blocks on a lock-free stack; when the stack is empty the next block of  *)
(* the bin is taken with a fetch_add.  A block's class is computed from    *)
(* its address when it is freed.  When the system runs low on memory its   *)
(* wait thread takes all free blocks aside, class by class, to tell the    *)
(* system that their contents do not matter.                               *)
(*                                                                         *)
(* The stacks are boost::lockfree::stack, whose push and pop are atomic    *)
(* and whose consume_all pops one element at a time.                       *)
(***************************************************************************)
EXTENDS Integers, Sequences, FiniteSets

CONSTANTS
  Thread,       \* the threads that allocate and free
  NumClasses,   \* num_size_classes
  RoundSize,    \* RoundSize[c]: size_class_to_size, the bytes of a block of class c
  Base,         \* the pool's first address
  Bin,          \* the bytes of one bin
  Size,         \* the sizes asked for
  CopyLimit,    \* round_copy copies more than this many bytes ...
  CopyQuantum,  \* ... in multiples of this many (256 KiB and 256 in the code)
  None          \* no block

Class == 0 .. NumClasses - 1

ASSUME ClassAssumption == NumClasses \in Nat \ {0}
ASSUME BinAssumption == Base \in Nat /\ Bin \in Nat \ {0}
\* The powers of two from the page up: larger for a larger class, and a bin
\* holds a whole number of blocks.
ASSUME RoundSizeAssumption ==
  /\ RoundSize \in [Class -> Nat \ {0}]
  /\ \A c, d \in Class : c < d => RoundSize[c] < RoundSize[d]
  /\ \A c \in Class : \E k \in 0 .. Bin : Bin = RoundSize[c] * k
\* Blocks above the copy limit are a whole number of quanta.
ASSUME CopyAssumption ==
  /\ CopyLimit \in Nat /\ CopyQuantum \in Nat \ {0}
  /\ \A c \in Class :
       RoundSize[c] > CopyLimit =>
         \E k \in 0 .. RoundSize[c] : RoundSize[c] = CopyQuantum * k
ASSUME SizeAssumption == Size \subseteq Nat \ {0}
ASSUME NoneAssumption == None \notin Nat

VARIABLES
  stacks,       \* stacks[c]: the free blocks of class c, the top first
  cur,          \* cur[c]: how many blocks of the bin were ever taken
  live,         \* the blocks handed out, which any thread may use or free
  asked,        \* asked[a]: the size the holder of block a relies on
  pc,           \* where each thread stands
  want,         \* the size each thread is allocating
  from,         \* the block a thread will copy from, or None
  fresh,        \* the block a thread has got and not yet handed out, or None
  drops,        \* TRUE: the copy is re_alloc's, which frees the old block
  lpc,          \* where low_memory stands
  scan,         \* the class low_memory is at
  temp,         \* the blocks it has taken aside, the top first
  panicked      \* a cond_check failed: the process is over

allocVars == <<pc, want, from, fresh, drops>>
lowVars == <<lpc, scan, temp>>
vars == <<stacks, cur, live, asked, allocVars, lowVars, panicked>>

Address == Base .. Base + Bin * NumClasses - 1

Init ==
  /\ stacks = [c \in Class |-> <<>>]
  /\ cur = [c \in Class |-> 0]
  /\ live = {}
  /\ asked = [a \in Address |-> 0]
  /\ pc = [t \in Thread |-> "idle"]
  /\ want = [t \in Thread |-> 0]
  /\ from = [t \in Thread |-> None]
  /\ fresh = [t \in Thread |-> None]
  /\ drops = [t \in Thread |-> FALSE]
  /\ lpc = "idle" /\ scan = 0 /\ temp = <<>>
  /\ panicked = FALSE

-----------------------------------------------------------------------------
TooLarge(size) == \A c \in Class : RoundSize[c] < size

\* size_to_size_class: bit_width(size - 1) - size_class_offset is the least
\* class whose blocks are large enough.
SizeClass(size) ==
  CHOOSE c \in Class :
    /\ size <= RoundSize[c]
    /\ \A d \in Class : d < c => RoundSize[d] < size

\* alloc_size: from the bin the address lies in.
AllocSize(a) == RoundSize[(a - Base) \div Bin]

\* Mutant: offset *= round_size is left out.
Block_NoRound(c, i) == Base + Bin * c + i

\* The address of a class's i-th block.
Block(c, i) == Base + Bin * c + i * RoundSize[c]

\* Mutant: the quanta are always rounded up by one.
CopyBytes_OneMore(size) ==
  IF size <= CopyLimit THEN size ELSE (size \div CopyQuantum + 1) * CopyQuantum

\* round_copy: how many bytes it reads and writes.
CopyBytes(size) ==
  IF size <= CopyLimit THEN size
  ELSE ((size + CopyQuantum - 1) \div CopyQuantum) * CopyQuantum

Push(s, a) == <<a>> \o s
Goto(t, to) == pc' = [pc EXCEPT ![t] = to]

-----------------------------------------------------------------------------
(* alloc, and the callers that copy into the block they get: re_alloc, and  *)
(* the constructor of Bytes when it clones another                          *)

\* What alloc does first: the class, and a pop.  A block to copy from is held
\* by the caller, who lets nobody free it meanwhile.
Begin(t, s, source, drop) ==
  /\ pc[t] = "idle"
  /\ want' = [want EXCEPT ![t] = s]
  /\ from' = [from EXCEPT ![t] = source]
  /\ drops' = [drops EXCEPT ![t] = drop]
  /\ live' = live \ {source}
  /\ IF TooLarge(s)
       THEN /\ panicked' = TRUE                      \* "alloc too large"
            /\ UNCHANGED <<stacks, pc, fresh>>
       ELSE LET c == SizeClass(s) IN
            IF stacks[c] = <<>>
              THEN /\ Goto(t, "grow")
                   /\ UNCHANGED <<stacks, fresh, panicked>>
              ELSE /\ fresh' = [fresh EXCEPT ![t] = Head(stacks[c])]
                   /\ stacks' = [stacks EXCEPT ![c] = Tail(@)]
                   /\ Goto(t, "got")
                   /\ UNCHANGED panicked
  /\ UNCHANGED <<cur, asked, lowVars>>

New(t) == \E s \in Size : Begin(t, s, None, FALSE)

\* Bytes(data, len), called by clone with the bytes of another.
CloneBytes(t) == \E a \in live : Begin(t, asked[a], a, FALSE)

\* re_alloc returns the block itself when that is large enough.
ReAllocInPlace ==
  /\ \E a \in live, s \in Size :
       /\ AllocSize(a) >= s
       /\ asked' = [asked EXCEPT ![a] = s]
  /\ UNCHANGED <<stacks, cur, live, allocVars, lowVars, panicked>>

ReAlloc(t) ==
  \E a \in live, s \in Size : AllocSize(a) < s /\ Begin(t, s, a, TRUE)

\* Mutant: the count of blocks is loaded, not fetched and added to.
Grow_Load(t) ==
  LET c == SizeClass(want[t]) IN
  /\ pc[t] = "grow"
  /\ IF cur[c] * RoundSize[c] < Bin
       THEN /\ fresh' = [fresh EXCEPT ![t] = Block(c, cur[c])]
            /\ Goto(t, "got")
            /\ UNCHANGED panicked
       ELSE /\ panicked' = TRUE
            /\ UNCHANGED <<fresh, pc>>
  /\ UNCHANGED <<cur, stacks, live, asked, want, from, drops, lowVars>>

\* The stack was empty: cur.fetch_add, and the next block of the bin.
Grow(t) ==
  LET c == SizeClass(want[t]) IN
  /\ pc[t] = "grow"
  /\ cur' = [cur EXCEPT ![c] = @ + 1]
  /\ IF cur[c] * RoundSize[c] < Bin
       THEN /\ fresh' = [fresh EXCEPT ![t] = Block(c, cur[c])]
            /\ Goto(t, "got")
            /\ UNCHANGED panicked
       ELSE /\ panicked' = TRUE                      \* "pool exhausted"
            /\ UNCHANGED <<fresh, pc>>
  /\ UNCHANGED <<stacks, live, asked, want, from, drops, lowVars>>

\* The block is copied into, if there is something to copy, and handed out; a
\* cloned block goes back to its holder.
HandOut(t) ==
  /\ pc[t] = "got"
  /\ asked' = [asked EXCEPT ![fresh[t]] = want[t]]
  /\ fresh' = [fresh EXCEPT ![t] = None]
  /\ want' = [want EXCEPT ![t] = 0]
  /\ IF drops[t]
       THEN /\ live' = live \cup {fresh[t]}
            /\ Goto(t, "drop")
            /\ UNCHANGED from
       ELSE /\ live' = live \cup {fresh[t]} \cup ({from[t]} \ {None})
            /\ Goto(t, "idle")
            /\ from' = [from EXCEPT ![t] = None]
  /\ UNCHANGED <<stacks, cur, drops, lowVars, panicked>>

-----------------------------------------------------------------------------
(* dealloc *)

FreeTo(a) ==
  LET c == SizeClass(AllocSize(a)) IN
  /\ stacks' = [stacks EXCEPT ![c] = Push(@, a)]
  /\ asked' = [asked EXCEPT ![a] = 0]

\* operator delete at the end of re_alloc.
DropOld(t) ==
  /\ pc[t] = "drop"
  /\ FreeTo(from[t])
  /\ from' = [from EXCEPT ![t] = None]
  /\ drops' = [drops EXCEPT ![t] = FALSE]
  /\ Goto(t, "idle")
  /\ UNCHANGED <<cur, live, want, fresh, lowVars, panicked>>

Delete ==
  \E a \in live :
    /\ FreeTo(a)
    /\ live' = live \ {a}
    /\ UNCHANGED <<cur, allocVars, lowVars, panicked>>

-----------------------------------------------------------------------------
(* low_memory, on the system's wait thread; how often it is called is left  *)
(* open                                                                     *)

LowMemory ==
  /\ lpc = "idle"
  /\ lpc' = "aside" /\ scan' = 0
  /\ UNCHANGED <<temp, stacks, cur, live, asked, allocVars, panicked>>

\* Mutant: a block goes back on the stack as soon as it was reset.
TakeAside_Direct ==
  /\ lpc = "aside"
  /\ IF stacks[scan] # <<>>
       THEN /\ stacks' = [stacks EXCEPT ![scan] = Append(Tail(@), Head(@))]
            /\ UNCHANGED <<temp, lpc>>
       ELSE /\ lpc' = "back"
            /\ UNCHANGED <<stacks, temp>>
  /\ UNCHANGED <<scan, cur, live, asked, allocVars, panicked>>

\* consume_all: one pop, reset and push to temp at a time.
TakeAside ==
  /\ lpc = "aside"
  /\ IF stacks[scan] # <<>>
       THEN /\ temp' = Push(temp, Head(stacks[scan]))
            /\ stacks' = [stacks EXCEPT ![scan] = Tail(@)]
            /\ UNCHANGED lpc
       ELSE /\ lpc' = "back"
            /\ UNCHANGED <<stacks, temp>>
  /\ UNCHANGED <<scan, cur, live, asked, allocVars, panicked>>

PutBack ==
  /\ lpc = "back"
  /\ IF temp # <<>>
       THEN /\ stacks' = [stacks EXCEPT ![scan] = Push(@, Head(temp))]
            /\ temp' = Tail(temp)
            /\ UNCHANGED <<lpc, scan>>
       ELSE /\ IF scan + 1 < NumClasses
                 THEN lpc' = "aside" /\ scan' = scan + 1
                 ELSE lpc' = "idle" /\ UNCHANGED scan
            /\ UNCHANGED <<stacks, temp>>
  /\ UNCHANGED <<cur, live, asked, allocVars, panicked>>

-----------------------------------------------------------------------------
Allocate(t) ==
  New(t) \/ CloneBytes(t) \/ ReAlloc(t) \/ Grow(t) \/ HandOut(t) \/ DropOld(t)

Low == LowMemory \/ TakeAside \/ PutBack

Next ==
  /\ ~panicked
  /\ (\E t \in Thread : Allocate(t)) \/ ReAllocInPlace \/ Delete \/ Low

\* The wait thread runs once it was called.
Spec == Init /\ [][Next]_vars /\ WF_vars(~panicked /\ (TakeAside \/ PutBack))

-----------------------------------------------------------------------------
\* The blocks of a class that were ever taken from its bin.
Taken(c) ==
  {Block(c, i) : i \in {j \in 0 .. cur[c] - 1 : j * RoundSize[c] < Bin}}

Elements(s) == {s[i] : i \in DOMAIN s}
Once(s) == \A i, j \in DOMAIN s : s[i] = s[j] => i = j

\* The blocks a caller holds, and those a thread is about to hand out.
Held == live \cup ({from[t] : t \in Thread} \ {None})
Getting == {fresh[t] : t \in Thread} \ {None}
Free == (UNION {Elements(stacks[c]) : c \in Class}) \cup Elements(temp)

\* Whatever alloc, dealloc and low_memory do at once, a block that was taken is
\* in exactly one place: with a caller, on its way to one, on the stack of its
\* own class, or aside.  None is handed out twice, and none is lost.
EachBlockOnce ==
  /\ \A t, u \in Thread : t # u =>
       /\ from[t] = from[u] => from[t] = None
       /\ fresh[t] = fresh[u] => fresh[t] = None
  /\ live \cap {from[t] : t \in Thread} = {}
  /\ Held \cap Getting = {} /\ Held \cap Free = {} /\ Getting \cap Free = {}
  /\ \A c \in Class : Elements(stacks[c]) \subseteq Taken(c) /\ Once(stacks[c])
  /\ Elements(temp) \subseteq Taken(scan) /\ Once(temp)
  /\ \A c \in Class : Elements(stacks[c]) \cap Elements(temp) = {}
  /\ Held \cup Getting \cup Free = UNION {Taken(c) : c \in Class}

\* A block is as large as its holder asked, though its class is worked out from
\* its address alone when it is reused; and round_copy, which rounds up, stays
\* inside both blocks.
CopyInside ==
  /\ \A a \in Held : asked[a] <= AllocSize(a)
  /\ \A t \in Thread : pc[t] = "got" =>
       /\ want[t] <= AllocSize(fresh[t])
       /\ from[t] # None =>
            LET n == IF drops[t] THEN AllocSize(from[t]) ELSE asked[from[t]]
            IN  /\ CopyBytes(n) <= AllocSize(fresh[t])
                /\ CopyBytes(n) <= AllocSize(from[t])

\* The blocks that callers hold never share a byte.
Blocks == INSTANCE Heap WITH
  Size <- {RoundSize[c] : c \in Class},
  extent <- [a \in Held |-> a .. a + AllocSize(a) - 1]
ImplementsHeap == Blocks!Spec

\* consume_all comes to an end though other threads go on freeing: what it took
\* aside cannot be freed again.
LowMemoryEnds == lpc # "idle" ~> lpc = "idle" \/ panicked
=============================================================================
