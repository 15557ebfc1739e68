# CatSyn: models, checks and proofs

CatSyn is a video-processing core: filters (*substrates*) are connected into a
graph, clients ask for frames, and a pool of threads computes them. This
directory holds TLA+ models of its core and of the filters it comes with, the TLC
configurations that check them on small instances, and proofs, checked by TLAPS, of the properties
that matter most for instances of every size. `PROJECT.json` lists the runs, the
mutants that show that each property can fail, the source lines behind every
definition, the hazards found in the code and the theorems.

To check a run: `tlc -config MCReactionGraph.cfg MCReaction.tla`. To check the
proofs of a module: `tlapm ReactionProofs.tla`.

## 1. The system

| Component | Source | State | Operations | Talks to |
|---|---|---|---|---|
| Message queue `SCQueue` | `CatSyn/src/queue.h` | linked list, `head`, `tail`, flag `sem` | `push`, `pop<wait>`, `stream`, `consume_all`, `request_stop` | maintainer, callback and log threads consume; everyone pushes |
| Work queue `PriorityQueue`, `SpinLock` | `queue.h` | heap, spin lock, `sem`, `stopped` | `push`, `pop`, `stream`, `request_stop` | maintainer and workers push, workers pop |
| Thread-initialisation lock `Wedge` | `queue.h` | one atomic word in the filter | `try_lock_shared`, `try_lock_exclusive`, unlock | workers |
| Scheduler | `CatSyn/src/substrate.cpp` | instances, `alive`, `neck`, `history`, `miss`; workers' `inited` | `get_frame`, `construct`, `kill_tree`, batch, sweep, `worker`, `callbacker` | the three queues, the lock, the filters |
| Nucleus | `nucleus.cpp`, `catimpl.h` | configuration, threads, queues | `react`, destructor, factories | everything |
| Reference counts | `include/cathelper.h`, `catsyn.h` | a count per object | `add_ref`, `release`, `is_unique` | everything |
| Frames, tables | `frame.cpp`, `table.cpp` | planes and properties shared until written; sparse slots | copy on write; set, get, erase, iterate, copy | filters |
| Pathway | `pathway.cpp` | steps by name, their substrates | add, reuse, destructor | nucleus |
| Enzymes | `enzyme.cpp` | enzymes by identifier, finders, ribosomes | synthesise, hydrolyse | plugins |
| Logger | `logger.cpp` | sink, queue, thread | `log`, `set_sink` | `SCQueue` |
| Allocator | `allostery/` | bins and free stacks by size class | `alloc`, `free`, `low_memory` | everything |
| Metalloporphyrin | `Metalloporphyrin/src/` | the VapourSynth API over CatSyn: nodes, maps, formats, handlers | `getFrame`, filter protocol, `propSet*` | nucleus, tables, frames |
| Melatonin, Valve, VapStd, mskfunc, zimg, tatabox | their directories | Lua binding, process pump, pixel filters, text, build, OS layer | | |

What makes each of them correct, and what is hard about it:

- **SCQueue** must be a FIFO queue whose push is two separate writes (an exchange
  of `head`, then a store of `next`) and whose consumer frees nodes behind it.
  It must not store into a freed node, not take a half-done push for emptiness,
  and not sleep on a message that is there.
- **PriorityQueue** has several consumers that share one flag. No item may lie in
  the heap while all of them sleep, and `empty`/`top`/`pop` must not be split.
- **Wedge** attempts add to the word before they look at it; an exclusive holder
  must be alone and failed attempts must leave no trace.
- **The scheduler** reads, in one thread, products that other threads store. Every
  request must be answered once; no frame may be forgotten or computed from
  inputs that are missing; a frame can be in the work queue twice; a filter with
  `ffSingleThreaded` must compute one frame at a time; an exception must reach
  all who wait for it and nobody else; the sweep may free nothing that is still
  needed.
- **Nucleus** stops three queues and joins the threads that sleep on them.
- **Reference counts, frames** check uniqueness and write, in two steps.
- **Tables** have references that go stale and change in a copy.
- **Allocator**: no block may have two owners, or be in the bin of another class.
- **Pathway, enzymes** reuse or destroy objects on the ground that nobody else
  holds them.
- **Metalloporphyrin** waits on a condition variable without a predicate, and runs
  filters written for another host: they must give back what they get, in every
  one of their error paths, and may not use what they gave back.
- **VapStd**'s filters ask for frames by number, from clips of several lengths,
  with numbers that can overflow.

The `hazards` of `PROJECT.json` list these one by one, each at its line.

## 2. The modules

| Module | What it is |
|---|---|
| `Wedge` | the lock, one action per atomic operation on its word |
| `FifoQueue` | abstract: what `SCQueue` promises |
| `SCQueue` | the linked-list queue, one action per atomic access |
| `QueueProofs` | the theorems of `Wedge` and of `SCQueue`, which are one header in the source |
| `PriorityQueue` | the work queue, one action per atomic access outside its lock |
| `PriorityQueueProofs` | its theorems |
| `FrameService` | abstract: what the scheduler promises a client of `get_frame` |
| `Reaction` | the scheduler: clients, maintainer, workers, callback thread |
| `ReactionProofs` | its theorems: types, initialisation locks, necks; then what becomes of an instance from its construction to the sweep, and of a request from `get_frame` to its callback |
| `Heap` | abstract: what the allocator promises |
| `Allocator` | the pool behind `operator new`, one action per access to a stack or counter |
| `AllocatorProofs` | its theorems |
| `FrameValues` | abstract: a frame is a value of its holder |
| `Frames` | reference counts, frames, planes, properties, and their sharing |
| `FramesProofs` | its theorems |
| `Pathway` | steps that are used again, over a scheduler reduced to what holds substrates |
| `PathwayProofs` | its theorems |
| `Lifecycle` | start, `getFrame`'s sleep, and the destructor, over the promises of the queues |
| `FilterScript` | vocabulary: the calls of VSAPI a filter makes |
| `SimpleFilters`, `PixelFilters`, `ReorderFilters` | VapStd's filters, as the sequences of calls their functions can take |
| `FilterCatalog` | the filters with their arguments, and what each promises; the clips of the reordering filters |
| `FilterHost` | Metalloporphyrin's `VSFilter`, which runs any of them; and what it means for a function of a filter to be correct alone |
| `FilterHostProofs` | its theorems |
| `Vectors` | the vector registers and instructions that the kernels use (external) |
| `GenericSSE2`, `GenericAVX2` | the vector kernels of the filters that look at a pixel's neighbours |
| `GenericFilters` | the same kernels in C, which of the three a filter calls with which arguments, and the filters that look at one pixel |
| `MergeKernels` | the kernels that make one plane of two, in C and for both vector units, and their callers |
| `PlanePasses` | what goes over a whole plane: statistics, transposition, blur |
| `ExprMachine` | the arithmetic of an expression, in exact fractions, and the processor that compiled code runs on (external) |
| `ExprTree`, `ExprPasses` | Expr: its words and their tree; the passes that rewrite the tree, the code made of it and its interpreter |
| `ExprCompiler128`, `ExprCompiler256` | Expr's two compilers of that code to vector instructions |
| `PixelMeaning` | reference: what each filter, and each expression, means for a pixel |
| `PixelWork` | the loops over a plane and over an expression's forms, and the properties that compare the two |
| `MC*` | instances for TLC |

**Wedge.** `atm` is the word, with its width: `Highest` is the top bit and
arithmetic is modulo `2 * Highest`. (Its specification is `WedgeSpec`, so that one
module can speak of it and of `SCQueue`.) `LoadWord` and `ExchangeWord` are the two
halves of `try_lock_exclusive`; the weak exchange may fail for no reason. The
threads use the lock as `worker` does: exclusive until the thread has initialised
itself for the filter, shared from then on, never blocking.

**SCQueue.** A node is named by its place in the order of exchanges, so `head`
and `tail` are numbers and `linked` says which nodes have their `next`. `push` is
`Exchange`, `Link`, `ClearSem`, `NotifyOne`. `pop` is `TakeNext`, `NoNext`,
`CompareHead`, and, when it waits, `TestAndSet` and `Look`. `drains` says which
loop is around it: `consume_all` of the maintainer or `stream` of the other two.
The refinement mapping to `FifoQueue` takes the nodes between `tail` and `head`
for the queue: a push takes effect at its exchange, before the message can be
reached. That `FoundEmpty` requires the abstract queue to be empty is the point
of the comparison with `head`.

**PriorityQueue.** Under the spin lock several accesses are one step; `empty` is
a step of its own, so that the critical section is really checked. Items are
numbers and the smallest is popped.

**Reaction.** The maintainer's handlers are cut at every look at a product,
because workers store products at any time; the recursion of `construct` is an
explicit stack of calls. `ReuseInstance`, `OpenInstance` and `CloseInstance` are
the three ways through a call: the frame has an instance; it has none, and its
dependencies are next; they are all there, and the instance goes live.
`TakeConstruct`, `TakeStaleNotify` and `TakeNotify` take a task of the batch,
`LookAtOutput` and `AnswerCallback` end a success, `KillNext` and `EndKill` an
exception, `PostFromNeck` and `EndTask` are the loop over the necks, and
`EndBatch` is the sweep. A worker goes through `Pop`, `TestTaken`, `TryLock` or
`LockBusy` and `Repost`, `StoreProduct` and `Succeed`, or `Fail`, and `Unlock`:
its lock is given back by a destructor after its task was posted.

The queues are sequences and a bag here; that they behave so is what `SCQueue`
and `PriorityQueue` show. The lock is the set of its holders; that it behaves so,
spurious failures included, is what `Wedge` shows.

**Allocator.** A bin is a range of addresses, so a block's class is computed from
its address, as in the code. `New`, `CloneBytes` and `ReAlloc` begin an allocation
with a pop, `Grow` takes the next block of the bin if there was none, `HandOut`
copies and `DropOld` frees the block that was replaced; `Delete` gives a block back, and
`LowMemory`, `TakeAside` and
`PutBack` are the thread that tells the system which blocks are free. The
refinement mapping to `Heap` takes the bytes of the blocks that callers hold.

**Frames.** A frame refers to a plane and to a table, a table to a number; all are
counted. `getWritePtr` and `getFramePropsRW` look at the count in one step,
clone in another and assign in a third. An action makes at most one access to a
count other threads can reach, but for `Create`, which shares a plane and a table for a
frame that nobody else has yet, and `CopyFrameProps`, which takes a table and releases
another: no look at a count depends on which of the two comes first. The mapping to `FrameValues` reads, for each
holder, what it would see.

**Pathway.** `AddStep` is `add_step` with the search for a step to use again and
`update_sources`; a shim stands between a step and each of its sources.
`Construct`, `Process`, `Fail` and `Sweep` are the scheduler as far as it holds
substrates, `Destroy` is the pathway's destructor with its assertion.

**Lifecycle.** A client goes through the places of `getFrame`: it looks whether
the nucleus reacts, locks `starting_mutex`, starts the threads, makes an output,
releases the lock, asks, and sleeps. `WriteResult` and `NotifyWaiter` are the
callback, which writes to the stack of the sleeper. `StopMaintain` to
`JoinMaintainer` are the destructors in the order of the members.

**Filters.** A filter's functions are sets of sequences of calls, one for each way
their tests can come out: `CropFrame(n)` is what Crop does for frame `n`.
`FilterHost` executes such sequences, one call an action, with the host's side:
`createFilter`, `get_frame_data` (arInitial), `process_frame`
(arAllFramesReady), inputs that fail, and the end of the instance. The filters of
`reorderfilters.c` have arguments and lengths, and compute their frame numbers as
the code does, in an `int` that ends at `IntMax`; `FilterCatalog` says with
operations on sequences what they should be.
Every entry has the lengths of its clips (`lens`). A filter with several clips comes once
with clips of one length and once with each of them shorter, and as long as its creation
makes it; most do not compare the lengths, so frames are asked for that a clip does not
have. Those that an entry is known to ask for are listed in it (`over`); a frame made with
one of them promises nothing.
A function alone is described a second time, without the host: `After` is what a call
does to the handles of the function that makes it, `Alone` how they can stand after
each call of a sequence, and `Proper` what a call must find. `FilterProper` says of a filter
that each of its functions, begun as the host begins it, makes proper calls only and
ends as it should. `CatalogAssumption` says it of every filter of the catalog, up to
what is `known` of it; TLC evaluates it for the 171 different entries VapStd has in it before it runs `filters`.
A mistake in one function breaks it; the four properties are about what the host and several
frames do to functions that are correct alone.

**Pixels.** A behaviour of `PixelWork` is one call of a filter for one plane, with
its arguments, its pixels and the vector unit of the processor. A filter that goes
row by row makes one row a step; a pass over the plane is one step. Below it the
kernels are operators, written as the code is: in C a pixel at a time with its
reflection at the edges; for SSE2 and AVX2 a register at a time, where `Vectors`
says what an unpack, a shift or a pack does with the elements of a lane, so that the
masks for the last pixels, the overlap of two loads and the order in which packs put
the halves are those of the code. A plane has the padding of its stride, and what it
holds there is arbitrary. What comes out is compared with `PixelMeaning`, which knows
no registers: a plane goes on as its mirror image, and a filter is a sum, a middle, a
minimum over it.

**Expr.** `exprParse` makes a tree of the words (or refuses them); `localPass` to
`fusionPass` are the passes of the two loops of `ExpressionTree` optimisation, each
rewriting the tree once and starting its loop again if it changed something;
`exprCompile` and `exprRename` are the code and its registers. `exprRow` computes a row
on any processor of `Processors`: by the interpreter, or by what `make_compiler` chooses.
A compiler is an operator from an instruction of the bytecode to a sequence of vector
instructions, in the order of the source and with the copies that the macros `VEX1` and
`VEX2` make where there is no AVX; `ExprMachine` runs them, with the registers that are
bits (masks of comparisons, of the sign) told apart from numbers. The registers
themselves are those the compilers name: jitasm's own allocation is taken to keep them
apart. After every step the form at hand is evaluated and compared with the value of
the words.

### Abstractions

- Memory accesses are interleaved one at a time. The acquire and release orders
  of the code are taken to give what they are there for, and the unsynchronised
  pointer `product` is taken to be stored and loaded whole.
- `notify_one` and `notify_all` wake sleepers; a sleeper does not wake by itself. In a
  queue it would look at the flag and sleep again. The wait of `getFrame` has no predicate
  and would return without its frame; `Lifecycle` says nothing of that.
- A pointer to an instance is its frame with the number of the instance made for
  it, so a pointer to freed memory is recognised. A stale entry of the work queue
  is dropped where the code would read freed memory (`substrate.cpp:95`); what the
  code does on an address that was reused (`substrate.cpp:187`) is not modelled.
- The order of the work queue and of a neck (the tick) is left open: any frame in
  it may be next. Everything shown holds for every order.
- The sweep is one step. Only the maintainer changes what it looks at, but for the
  products, which are only ever added, so a sweep that reads some of them later
  spares more instances.
- `Frames`: one plane and one property stand for all. A filter keeps the pointer
  it writes through, but not past a call that shares the frame; one that does, or
  that clones a frame while it may write to it, is left out. Appending to a number
  that is shared reads an object through the wrong type (`Bytes::clone`); the
  model ends there (`crashed`).
- `Allocator`: `boost::lockfree::stack` is atomic, and its `consume_all` pops one
  element at a time. The calls of the operating system are left out.
- `Pathway`: all sources have the same video info, so calls look alike when their
  functions are the same, which is the interesting case. The client keeps the
  steps that its other steps are made of (`KeepsSources`); without that, TLC finds
  in five steps a filter that is its own source. The code does not ask this of its client;
  `NoCycle`, `HeldStable` and `FramesTrue` are about one that does it. After a step was given other
  sources while instances behind its shims were left, frames are not followed any
  further (`NotStale`).
- `Lifecycle`: a request needs some instances that are independent of each other.
  The clients of a node leave its first request to one of them (`Patient`):
  otherwise `output.put()` can release an output under another client.
- Filters, in `FilterHost`: what is computed from pixels is left out, so a frame is
  the set of the input frames it is made of; a test on formats, arguments or
  properties can come out either way. Memory that filters allocate for themselves is left out, and so
  are the sub-filters that BoxBlur invokes. When the program ends (an exception out of
  a `noexcept` function, a frame missing without an error), whatever runs ends with it.
- Pixels: a float is an integer or, in Expr, an exact fraction, so nothing is said of
  its rounding; a mask or a weight that is a float counts parts of 2^15, and what a
  kernel makes is then scaled by them. In Expr a value that is not such a fraction
  (a root, a power, `exp` of anything but 0) is undefined and compared with nothing; the
  polynomials that compiled code has for `exp`, `log`, `sin` and `cos` are one
  instruction each, and only the moves around them are modelled.
  Half floats are left out. Memory is a plane of the right size: what is written in
  the padding of a destination is not looked at.
- Formats, messages and log lines are left out.

## 3. What is checked

| Run | Distinct states | What it shows |
|---|---|---|
| `wedge` | 4 194 | exclusion of the initialising worker, and that an unused word is zero, under all interleavings of five threads |
| `scqueue` | 38 900 | FIFO refinement, no use after free, every message taken; with `stream` a stop ends the consumer, with `consume_all` it does or was swallowed |
| `priority_queue` | 128 966 | one thread at the heap, no stranded item, every item popped, a stop reaches a worker |
| `reaction_graph` | 175 693 | a source, a filter that names it twice and may throw, a single-threaded filter that reads both: inputs ready, single frames never dangle, nothing forgotten, every request answered |
| `reaction_linear` | 452 359 | two frames of a filter that has an initialisation lock, over a linear, single-threaded source that may throw; a frame is asked for twice, perhaps after it was swept: one frame at a time in the source, exclusive initialisation with the reposts it causes, every request answered or superseded |
| `allocator` | 150 962 | three threads and the low-memory thread: every block in one place, copies inside their blocks, `Heap` implemented, low memory comes to an end |
| `frames` | 223 059 (up to a view) | two threads and a product: counts exact, what is written to is private, `FrameValues` implemented |
| `pathway` | 278 882 | a pathway of two steps: no filter becomes its own source, steps a client holds keep their meaning, frames are those asked for |
| `pathway_end` | a counterexample | the assertion of the pathway's destructor fails though its client released every step |
| `lifecycle` | 203 722 | threads made once, no write to a stack that is gone, sleepers wake, the destructor ends |
| `filters` | 70 509 | all filters of VapStd, 171 entries that differ in filter, arguments or the lengths of the clips: each function is correct alone (the assumption), and with two frames in progress references are returned, nothing dangles, only what was asked for is taken, right frames |
| `pixels` | 14 806 | every kernel in C, for SSE2 and for AVX2, on planes that end inside a vector; 48 expressions and 432 pairs of operations from words to pixels, interpreted and compiled for six processors: every pixel is the one the filter is named for, and the optimiser ends |

The properties that say most:

- `ImplementsFifo`: the list is a FIFO queue, and is reported empty only when it is.
- `NoStrandedItem`: who sleeps while there is something to do is about to be woken,
  and by whom.
- `InputsReady`: a frame is computed by one worker, once, from inputs that are
  there, even when it was posted twice.
- `SingleNeverDangles`: for single-threaded filters the neck also prevents what
  can happen to others, a second entry in the work queue that outlives its
  instance.
- `NothingForgotten`: an unfinished frame has its inputs, and when they are all
  finished it is queued, held back, with a worker, failed, or about to be looked
  at because of an input whose report is on its way. The report is posted after
  the product is stored, so either `CloseInstance` or `LookAtOutput` sees it.
- `ServesFrames`: every behaviour is one of `FrameService`, liveness included.
- `EachBlockOnce`: a block that was taken from its bin is with a caller, on its way
  to one, on the stack of its own class, or aside, in one of these places only.
- `ImplementsFrameValues`: sharing cannot be told from copying, whatever the other
  threads do between the look at a count and the write.
- `HeldStable`: the reuse of steps a client released never changes what one that it
  holds computes.
- `ReferencesReturned`, `NothingDangles`: for every path of every filter, the error
  paths included.
- `FrameRight`: the number arithmetic of the reordering filters agrees with the
  sequence operation each is named for.
- `PixelsRight`: the three kernels of a filter compute the same pixel in ways that
  share nothing but the result; that they agree with the mirrored plane at every
  edge, in the last vector and at the ends of the range is what no test of the
  repository looks at.
- `PlaneRight`: a blur slides its sum along the row, and for a radius of 1 writes over
  what it reads; the statistics must not see the padding that their last vector loads;
  a transposition has blocks, and loops for what no block holds.
- `MeaningKept`: no rewriting changes the value of an expression, no register is given
  away while it is needed, by the bytecode or by the instructions it is compiled to, and
  refused are the malformed words only.
- `LoopsEnd`: no pass undoes for ever what another does. It needs no fairness: a
  behaviour of `PixelWork` that goes on for ever would be one that changes the tree
  for ever.

The four filter properties hold except for filters that are `known` to break them, and
for the frames past the end of a clip in a filter's `over`; the
record of a filter names what is known, and section 5 lists it. Each
exception of each filter, and each frame in an `over`, was checked to be one: without it
TLC refuses the assumption for some of the filter's entries. Several properties except
what the code itself gets wrong; the `note` of a hazard in `PROJECT.json` says which case
of it that is.
So are the exceptions of the pixel properties, named in `PixelWork` and listed in
section 5: `EdgeMisread`, `WeighsTheOverlay`, `CutByOutput`, `StatsForgotten`,
`SignLost`, `NumberLost`, `Miscompiled`.

**Bounds.** `MaxGeneration = 3` instances per frame: made, swept or killed, made
again, and once more. Reaching it stops the calls that would go beyond, and in
these instances no frame is constructed more than three times, since there are at
most three requests. `HistoryLimit = 2` (65535 in the code) lets the history be
cleared, `MissPerIndulgence = 1` (8) gives an instance that was missed once a
stay of one sweep. Two workers make every race between workers; a third adds
none of a new kind, as no rule relates more than two of them. Four pushes of two
producers let one push finish inside another and the consumer go to sleep twice.
`Highest = 8` with five threads keeps the proof's assumption (fewer threads than
the top bit counts) at its smallest interesting size. The pool has two classes
with a bin of two blocks and of one, so that a bin runs out, and sizes up to one
byte too many for the largest. Three frames and planes, two tables and two
numbers let each be shared, cloned and freed while another thread holds it. Two
steps, one of them on top of the other, with functions of one source and of two,
are what it takes to use a step again below one that is held. `MaxFrames = 2`
frames of a filter are in progress at once, which is what a filter's own data can
be shared by; clips have up to three frames and `IntMax = 7`, so that lengths
overflow. Planes are 31 and 65 bytes, 15, 17 and 33 words, 7 and 17 floats wide: less
than one register of either unit, and one pixel more than one or two of them, so the
first, the middle and the last vector of a row are three different ones; four rows, the
fewest that the filters with a window accept, or five for what looks two rows up and
down, give every row at an edge and one that is not. Two planes are blended over two rows; a blur has widths from 3 to 12, radii to 5,
so also windows wider than the row, and three passes. The values have both ends of
the range, the middle, and their neighbours. Expressions use two clips at nine
places, one more than compiled code does at a time, chosen to be squares and fractions of
squares, with each sign and zero; every pair of `+ - * / < max` appears with either
operand nested. The processors are one for the interpreter, SSE2 alone, with SSE4.1, with
AVX, with AVX and FMA3, and AVX2: each test of a feature in the compilers goes both ways.

**Fairness.** Weak fairness of the maintainer, of each worker, of the callback
thread and of a push once begun: each is a thread in a loop (`substrate.cpp:64`
to `70`) that blocks only on its queue. In `Lifecycle` a client goes on inside
`getFrame`, and locks `starting_mutex` under strong fairness: its holder gives it
back, and a mutex does not starve one of two threads. The low-memory thread goes
on once it was called. Nobody is obliged to ask for a frame, to push, to stop, or
to destroy the nucleus. `CHECK_DEADLOCK FALSE` is set where the system may rest:
with all messages taken, all requests answered, or the consumers stopped.

## 4. What is proved

All theorems hold for every value of the constants that the stated assumptions
admit: any finite number of threads, any graph of filters (cyclic ones, too: the
theorems are about safety), any set of requests, any bound on instances.

| Module | Theorem | Statement |
|---|---|---|
| `QueueProofs` | `TypeCorrect` | `WedgeSpec => []TypeOK`: the word stays in its width |
| `QueueProofs` | `Exclusion` | `WedgeSpec => []InitialisesAlone` |
| `QueueProofs` | `NoTrace` | `WedgeSpec => []FreeWhenUnused` |
| `QueueProofs` | `NoStoreToFreed` | `Spec => []NoUseAfterFree` |
| `QueueProofs` | `Refinement` | `Spec => ImplementsFifo`: the list is a FIFO queue |
| `ReactionProofs` | `TypeCorrect` | `Spec => []TypeOK` |
| `ReactionProofs` | `Exclusion` | `Spec => []InitialisesAlone` |
| `ReactionProofs` | `OneAtATime` | `Spec => []SingleThreaded` |
| `ReactionProofs` | `InputsThere` | `Spec => []InputsReady` |
| `ReactionProofs` | `SingleStays` | `Spec => []SingleNeverDangles` |
| `ReactionProofs` | `NoneForgotten` | `Spec => []NothingForgotten` |
| `ReactionProofs` | `ServesSafely` | `Spec => Service!Init /\ [][Service!Next]_answer`: `FrameService` without its fairness |
| `PriorityQueueProofs` | `OneAtTheHeap` | `Spec => []HeapExclusive` |
| `PriorityQueueProofs` | `NothingStranded` | `Spec => []NoStrandedItem` |
| `AllocatorProofs` | `BlocksConserved` | `Spec => []EachBlockOnce` |
| `AllocatorProofs` | `CopiesFit` | `Spec => []CopyInside` |
| `AllocatorProofs` | `Implementation` | `Spec => ImplementsHeap`: blocks that are held share no byte |
| `LifecycleProofs` | `ThreadsMadeOnce` | `Spec => []SetUpOnce` |
| `LifecycleProofs` | `CallersThere` | `Spec => []StackAlive` |
| `LifecycleProofs` | `NoWorkLeft` | `Spec => []InstancesOutliveWork` |
| `FramesProofs` | `CountsAreExact` | `Spec => []CountsExact` |
| `FramesProofs` | `WritesArePrivate` | `Spec => []WritesPrivate` |
| `FramesProofs` | `CopiesOnWrite` | `Spec => ImplementsFrameValues`: a frame is a value of its holder |
| `FramesProofs` | `CloningUnseen` | a clone and its assignment change nothing that any holder sees |
| `PathwayProofs` | `NoStepIsItsOwnSource` | `KeepsSources` gives `Spec => []NoCycle` |
| `PathwayProofs` | `HeldStepsStay` | `KeepsSources` gives `Spec => []HeldStable` |
| `PathwayProofs` | `FramesAreTrue` | `KeepsSources` gives `Spec => []FramesTrue`, if None is no frame |
| `FilterHostProofs` | `Inductive` | `Spec => []IInv`: every function stands as it would alone |
| `FilterHostProofs` | `EveryReferenceReturned` | `Spec => []ReferencesReturned` |
| `FilterHostProofs` | `NothingEverDangles` | `Spec => []NothingDangles` |
| `FilterHostProofs` | `OnlyEverAskedFor` | `Spec => []OnlyAskedFor` |
| `FilterHostProofs` | `EveryFrameRight` | `Spec => []FrameRight` |

**Wedge.** Exclusion is not inductive: it does not say what the word holds.
`WordAccounts` does: the number of threads whose increment is in it, plus the top
bit if there is an exclusive holder. The one assumption is that there are fewer
threads than the top bit counts, without which the counter would run into it.

**Reaction, types.** `TypeOK` is not inductive either: `At(w)` must be a pointer
when the worker steps, the innermost call must exist, a caller must have a
dependency left to drop. `Typed` adds these. The lemmas `ReturnShape`,
`OpenShape` and `DescendShape` say what a step of `construct` does to its stack;
the other proofs see the stack only through them.

**Reaction, locks.** A worker holds a lock exactly at the places after the attempt
(`LocksHeld`), and nobody holds one beside an exclusive holder (`HoldersApart`).

**Reaction, necks.** Why a single-threaded filter computes one frame at a time is
spread over the whole scheduler. `OneOut` says that what a neck let out is one
entry of the work queue, or one worker, or one report, and nothing unless the neck
is busy. For a step to keep it, no frame may be posted past its neck
(`SingleMarked`: an instance keeps its mark until its product is there, or it is
being killed, after which `LookAtOutput` does not post it again); hence a report
of success must mean that the product is stored (`StoredFirst`); what a neck holds
back must be its own (`NecksOwn`); and an instance that is made must not be one
that an old entry, worker or report refers to (`OpenCallsFresh`). The last part is
where the numbering of instances enters: the theorem does not speak of what the
code does when an address is reused while a report of the old instance is queued.

**Reaction, instances.** Three theorems are about one
invariant in four layers. The lowest is `Graph`: the inputs of one instance and the
outputs of another are written at different times and by different calls of
`construct`, and yet say the same (`Linked`); while a frame is under construction the
stack knows which of its inputs it has (`CallsRight`), and a pointer that anything
holds belongs to an instance that was made (`Known`). On it stands `Ordered`, what a frame may be: computed by
one worker, that took it (`ComputedOnce`); failed once (`FailedOnce`); posted or
computed only with its inputs finished (`PostedReady`, `ProductsOrdered`); finished only
after it was taken (`FinishedTaken`); killed only if it failed or lost an input
(`DoomedApart`). `InputsReady` follows. Then `OutMarked`: a frame of a single-threaded
filter that is anywhere between its neck and its worker still has its mark, and the
mark keeps the sweep away; with `OneOut` this gives `SingleNeverDangles`. The last is
`Remembered`: what was taken is with a worker or has been reported (`TakenHeld`), what
lost an input is on the list of the killer (`BereftDoomed`), and a frame whose inputs
are finished has something under way that will reach it (`NoneLost`): this is
`NothingForgotten`, and its hardest step is the one at which the last input is stored while the
maintainer constructs the frame. `WorkerMove` describes every step of a
worker as one move of one pointer, so that each layer treats the workers once.

**Reaction, service.** That the reaction implements `FrameService` rests on two more
invariants. `Settled`: the callback of a request is at one place at a time (a task, the
outermost call of `construct`, an instance, the callback queue), once, and only while
the request waits (`CallbacksApart`); and it is with the frame the request asks for
(`CallbacksRight`). So a callback is invoked once, and a request is superseded only when
the one that takes its place waits for the same frame. `Blamed`: what has failed,
what is to be killed and what is answered with an error is a frame whose
computation can fail. It follows the killer from an instance to its outputs, for
which every output must be of a frame that depends on the instance's
(`OutputsDepend`, whichever call of `construct` wrote it). `Fallible` is the least
set that is closed under dependency, not a recursion over its depth, so that it can
be reasoned about. That every request is answered needs fairness and is left to
TLC (`ServesFrames`).

**SCQueue.** `Linking` is what `NoUseAfterFree` needs: all nodes the consumer has gone
past are linked, and a producer that has yet to link its node is the only one to do so.
For the refinement, the values between `tail` and `head` are the abstract queue; `TakeNext` and
`Exchange` are its two operations, and every other access stutters.

**PriorityQueue.** `LockHeld` ties the spin lock to the places at the heap,
`TakeFinds` says that who found an item still finds it, and `Cleared` that a thread
about to clear the flag for a stop has raised `stopped` before. `NoStrandedItem` is then inductive.

**Allocator.** A block is in one of three sets: held by a caller, on its way to one, or free.
`Partition` says that they are disjoint and together all that was ever taken from a
bin; `FreeApart`, `FromApart` and `FreshApart` say that no two stacks and no two
threads share a block; `Placed` says what a thread holds at each place. The classes
may have any sizes; that addresses of different bins differ is arithmetic (`Quotient`).
`CopyInside` needs what passes between two actions of `re_alloc` and of `clone`:
what is asked for is more than the old block has, or as much as its holder asked
(`CopyFits`), although other threads free and resize meanwhile. `Heap` is implemented because a step
changes what callers hold by one block at most (`HeldMoves`) and blocks of one bin
are whole multiples apart (`BytesApart`).

**Lifecycle.** None of the three says enough to survive a step. That the threads are made
once rests on who holds `starting_mutex` (`LockHeld`) and on the second look under
it (`MadeOnce`); that an output stays, on `OneFirst`: a node without an output has one
client in a call at most. For the stack and for the end the proof follows an instance and
an answer on their way: an instance is at one place at a time (`EachOnce`), and only after
its client asked (`NamedAsked`); a client is answered once, after it asked, and its
result is written once (`AnsweredOnce`), so that as long as an answer is on its way the client
has not been woken (`WakesLast`); an answer without an error means that all it needed is there
(`Complete`). With `Quiet` every instance that is named anywhere is one that is
there, so none can be in the work queue. The theorem is stronger than
the property: it holds from the moment the destructor begins.

**Frames.** All that can refer to an object (the holders, the two members of a frame, the
entry of a table, the clone a thread has just made) are `Slot`s of one function `pts`, and
`CountsAgree` says that the count of an object is the number of slots that point to
it. Every access to a count then is a slot that is pointed elsewhere (`Repoint`), and a step
is a sequence of these: a frame that goes with its last reference is three slots, and
a fourth if its table goes with it. The members of free memory count as slots that
point to nothing, so that what a destructor leaves behind in them does not matter.
`CountsExact` is this sum, taken apart by kinds of slots (`FrameUsers`, `PlaneUsers`,
`TableUsers`, `NumberUsers`).
`WritesPrivate` does not follow from exact counts: the check of `is_unique` is of one
object in one step, and the write is steps later. What a thread may write to is
`Guarded`; each has the count 1, so one slot points to it (`OneSlot`), which is the
thread's own; what any other holder reaches is therefore apart from it (`Apart`), and so
is another thread's clone (`CopyApart`). A new reference to it could only be taken
through the frame, and a reference that may be written through is the only one to its frame
(`Own`): a filter shares, and copies the parts of, frames other than the one it
writes to, and other threads see products only. `Undisturbed` and `OthersKeep` carry
this through the steps of the others.
The same apartness gives the refinement: what changes in a step of a busy thread is what
it guards, or free memory, and nobody else sees either (`OthersSeeSame`). `Writing`
remembers that a clone has the contents of what it will take the place of,
which gives `CloningUnseen`. Assumed are disjoint classes of objects, finitely many holders,
frames and tables, and that None is not one of the values; how many there are,
what a plane holds and how long a property may be is left open.

**Pathway.** None of the three holds of a client that releases what it still uses, so
`KeepsSources` is their hypothesis; the number of steps, of functions and of their sources
is any. The heart of the proof is that `add_step` uses a step again only if nobody holds
it, while its new sources are held: `HeldClosed` says that the sources of held steps
are held, which a release must not break, and `Grounded` that among any steps
there is one that takes nothing from the others. Neither speaks of paths or of
depths. `NoCycle` follows, and so do the equations of `FrameOf` and `DependsOn`, which
in the model are recursive functions with a bound on their depth: `Settles` shows
that the bound is not felt, by counting the steps below a step that still change
when it looks deeper. That these recursive functions exist at all is proved from the
least depth at which they would not (`LeastNatural`). Steps that take nothing from the
one that is used again keep their frames (`SameFrames`), which gives `HeldStable`; and as long
as no instance is left behind, `Fresh`: an instance has the inputs its filter
asks for by now, and a finished one has its frame. With `CallsHeld`, that what is waited for is
what a held step is to compute, this gives `FramesTrue`. `NoneIsNoFrame` says
of the model's constant that it is none of the pairs that stand for frames.

**FilterHost.** The assumption is about functions that run alone, one after the other, and
the theorems are about any number of frames in progress (`MaxFrames` is any), whose
calls, failures and ends come in any order, for every catalog of such filters: VapStd's is one,
with other lengths and arguments than the run's it is another. None of the four
properties is inductive: none says which calls a function still has to make, nor what it holds
when it makes them. `RunsOn` does: the calls to come are the rest of one
of the function's sequences, and its handles are as they would be if it had run alone
(`Stands`). `FrameFits` says what a frame holds between its two functions (`Waits`: what arInitial
ended with, or nothing if the filter became a source meanwhile) and after them (`Spent`);
`Live` that the instance holds what one of the ways through its creation left
to it; `Freeing` that, when it goes, the frames hold nothing. So a call finds what
`Proper` says it needs, and changes the handles of its own function only: a lemma
for each group of calls says that the function then stands as `After` has it
(`ComesTo`), and `Undisturbed` that every other frame is as it was. For the latter the
assumption excludes what would reach into another function: freeing a node of the instance,
keeping a frame that is made of one frame's inputs. `source`, which is written while
other frames are in progress, is why `FrameProper` asks that every frame of a filter that may
become a source can be answered by a second arInitial, from what a first one left and
from nothing (`BecomesSource`). A kept frame goes with the instance, since
what frees the instance frees it (`Keeps`). `Alone` is a recursive function;
`AloneEquation` proves that it exists, from the least length at which it would not.
The exceptions that are `known` of a filter, and the frames in its `over`, stay exceptions of
the theorems.

**Only checked by TLC**: liveness (`MessagesTaken`, `ItemsTaken`, `StopServed`,
`LowMemoryEnds`, `SleepersWake`, `DestructorEnds`, `LoopsEnd`, the liveness of
`ServesFrames`), which needs fairness or an argument about termination and is out of the prover's
reach; and `PixelsRight`, `PlaneRight` and `MeaningKept`. What these three compare is
computed by operators that recurse over pixels, registers and trees (`ExprTree`,
`ExprPasses`, the kernels), which `PixelWork` reaches through INSTANCE; a module that
reaches a RECURSIVE operator has no SMT prover, and what such an operator computes for
every input is an induction over data, which no installed prover can do. That the catalog's
functions are correct alone is an assumption of the theorems that TLC evaluates for
its lengths and arguments.

## 5. What the models brought to light

These follow from the code and are in the models as they are.

- `consume_all` pops with `pop<false>`, which does not throw: a stop that comes
  behind a task of the same batch is dropped (`queue.h:102`), the maintainer goes
  on waiting, and `~Nucleus` waits for it. `StopServed` has this exception.
- In the work queue, a worker that looked at `stopped` just before `request_stop`
  sets the flag again; those woken by `notify_all` may find it set and sleep for
  ever (`queue.h:169`, `178`). `StopServed` promises one worker, not all.
- A second request for an unfinished frame replaces the callback of the first,
  which is never called (`substrate.cpp:260`). `FrameService` has `Supersede`.
- A frame of a filter that is not single-threaded can be in the work queue twice,
  and the second entry can be popped after the sweep freed its instance
  (`substrate.cpp:95`).
- The pool can run out of a class (and end the process) while free blocks of that
  class are aside in `low_memory` (`allostery.cpp:233`).
- `~Pathway` asserts that its substrates are released, but an instance that the
  maintainer keeps still holds one (`substrate.cpp:224`): run `pathway_end`.
- A released step that is used again for other sources keeps the instances made
  behind its shims (`is_unique` does not see them), and a frame can be computed
  from the old source (`stale`). An argument after an absent one is ignored by
  `update_sources`.
- A callback that comes before `getFrame` sleeps is not heard, and the client
  sleeps for ever (`unheard`): the wait has no predicate. Answers that are queued
  when the callback thread stops are dropped. After an error, siblings of the
  frame that failed may still be in the work queue when the instances go.
- VapStd, by the way each filter falls short:
  - a reference is kept: AddBorders when a colour is refused, PropToClip for a frame
    of another format, FrameEval when its frame fails; the host loses the frame
    with which a source answered its first arInitial;
  - the text of an error is gone when the host reads it: Crop, AddBorders,
    PEMVerifier, Text, the resizer, Invert, Limiter, Binarize, the filters of
    `genericfilters.cpp`, FrameEval, ModifyFrame;
  - something freed is used: the VideoInfo of ModifyFrame, and the first clip of
    Splice when the length overflows: the loop that should free every clip counts `i`
    and tests `j` (`reorderfilters.c:606`), so it frees the first one for ever;
  - frames beyond the end of a clip are asked for (`over`). Where clips may differ in
    length, the filter is as long as the longest and asks all of them (ShufflePlanes of
    more than one clip, StackVertical, StackHorizontal), or as long as one and asks the
    others for its frames: PreMultiply, Merge, MaskedMerge, MakeDiff, MergeDiff, Lut2, Expr
    and PlaneStats with two clips go by their first, ClipToProp by `mclip`
    (`simplefilters.c:2216`), FrameEval and ModifyFrame by the clip they are called for.
    Further: the last frame of DoubleWeave; Interleave of clips of uneven lengths;
    SelectEvery with unsorted offsets, in a cycle that the end of the clip cuts off; Trim
    when first and length overflow;
  - a length overflows: DuplicateFrames, Splice, Trim;
  - the program ends: FrameEval with `prop_src` asks for a frame in
    arAllFramesReady, where `std::get` throws out of a noexcept function, and its
    error in arInitial does, too.
- The pixels of VapStd:
  - the wider convolutions in C take the distance from the right edge from the number
    of the row (`kernel/generic.cpp:313`, `402`), and reflect a line that is near the
    end, but is not the last, about itself (`EdgeMisread`);
  - the one-pixel filters and the blur go along the destination by the stride of the
    source (`genericfilters.cpp:145`, `boxblurfilter.cpp:84`), which is right only as long
    as frames of a format and width have one stride;
  - a blur of radius 1 reads the third pixel of a row of two;
  - a weight of 1 is stored as 32767 parts of 32768 (`mergefilters.c:344`), so the branch
    that copies the second clip is never taken (`356`), and 16-bit pixels are off by as
    much as 2;
  - over premultiplied pixels that leave the range, the C kernel wraps a byte where the
    vector units saturate; the AVX2 kernel for floats weighs the overlay where the
    others weigh the plane under it (`merge_avx2.c:295`, `WeighsTheOverlay`);
  - the statistics in C of two planes of floats store nothing (`planestats.c:152`,
    `StatsForgotten`);
  - Lut cuts its index at the number of bits it makes, not at those it reads
    (`lutfilters.cpp:76`, `CutByOutput`);
  - `(x ** a) ** b` is made `x ** (a * b)`, which loses the sign of x (`SignLost`); a sum
    whose terms all cancel is made 0 though a number was left over (`NumberLost`,
    `exprfilter.cpp:2713`): `x x - 3 +` is 0;
  - compiled expressions (`Miscompiled`): for AVX2 `exp` and `log` copy the unset
    destination over the source, and leave the result in the source
    (`exprfilter.cpp:1717`, `1730`); without SSE4.1 a choice takes the other value
    (`822`) and a negative value that is stored in 9 to 15 bits wraps (`539`); without
    FMA3 the upper half of the pixels of a negated multiplication is changed by the
    product instead of the sign (`670`); and a power whose base is not positive goes by
    its logarithm, which the interpreter's does not.

## 6. What is left, and in which order

1. `Table`: references that go stale, iteration, the copy that renumbers (a key that
   is absent becomes a string made of a null pointer); over it the other types of
   Metalloporphyrin's maps.
2. `Enzyme`: synthesis from tokens with duplicates; `FormatRegistry`.
3. `Reaction` with a finite set of addresses that are reused, and with the tick as a
   key that changes while it is in a container.

Of VapStd what is left is arithmetic in floats: the polynomials of Expr and its half floats
(which the interpreter neither loads nor stores), the average of AverageFrames, the
resizer's kernels, which are zimg's; and the drawing of text.

Not to be modelled: the text layout of mskfunc (an operating-system library draws
it), jitasm (a vendored assembler) and the font of `ter-116n.h` (data), tatabox
(calls of the operating system), zimg (a build file), the marshalling of Melatonin
and the API table of Metalloporphyrin (declarations), Valve (a process pump).
