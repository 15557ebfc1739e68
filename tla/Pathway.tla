------------------------------- MODULE Pathway -------------------------------
(***************************************************************************)
(* Pathways of CatSyn/src/pathway.cpp over the scheduler of substrate.cpp. *)
(* A pathway remembers the steps its client added.  A step the client has  *)
(* released is used again for a later call that looks the same, and is     *)
(* given the new sources: the filter of a step does not take its input     *)
(* from the client's sources but from shims, substrates of the step's own, *)
(* whose filter can be exchanged.                                          *)
(*                                                                         *)
(* A shim keeps the filter of its source, not the source's substrate, and  *)
(* sources count as alike when their video info is: here it is the same    *)
(* for all, so that calls look the same when their functions are.  The     *)
(* scheduler is reduced to what holds substrates and filters: the          *)
(* maintainer builds the instances a frame needs, workers process them,    *)
(* and a sweep after a batch with a request frees those that are finished. *)
(* One frame number stands for all.                                        *)
(***************************************************************************)
EXTENDS Integers, Sequences, FiniteSets

CONSTANTS
  Source,       \* the filters that are registered without a pathway
  Func,         \* the functions that make filters out of sources
  Arity,        \* Arity[f]: how many sources f takes
  MaxStep,      \* bound on the steps of the pathway
  MaxSource,    \* bound on the sources of a step
  KeepsSources, \* TRUE: the client keeps a step while it waits for its frame, and
                \* while it holds what was built from it
  None          \* no frame

Step == 1 .. MaxStep
Filter == Source \cup Step      \* a step stands for the filter it made
Slot == 1 .. MaxSource          \* the places a source is given at
Own(k) == <<k, 0>>              \* the substrate of a step
Shim == Step \X Slot            \* and those of its shims
Substrate == {Own(k) : k \in Step} \cup Shim

ASSUME BoundsAssumption == MaxStep \in Nat /\ MaxSource \in Nat
ASSUME FuncAssumption == Arity \in [Func -> Slot]
ASSUME SourceAssumption == Source \cap Step = {}
ASSUME KeepsSourcesAssumption == KeepsSources \in BOOLEAN

VARIABLES
  pool,         \* the functions of the steps there are, in the order they were added
  shim,         \* shim[k][i]: the filter of step k's i-th shim
  client,       \* client[k]: the client holds the substrate of step k
  asked,        \* asked[k]: what step k is to compute, as given to add_step
  task,         \* the steps a frame was requested of: Construct tasks hold them
  inst,         \* inst[x]: the instance of substrate x, or None
  due,          \* the next batch of the maintainer ends with a sweep
  calls,        \* calls[k]: what the client waits for, or None
  wrong,        \* some frame delivered was not the one asked for
  stale,        \* a step was given other sources while instances behind its shims were left
  ended         \* the pathway was destroyed: "no", "yes" or "panic"

clientVars == <<client, asked>>
frameVars == <<task, inst, due, calls, wrong>>
vars == <<pool, shim, stale, clientVars, frameVars, ended>>

Added == 1 .. Len(pool)
Inputs(k) == 1 .. Arity[pool[k]]

Init ==
  /\ pool = <<>>
  /\ shim = [k \in Step |-> [i \in Slot |-> None]]
  /\ client = [k \in Step |-> FALSE]
  /\ asked = [k \in Step |-> None]
  /\ task = {}
  /\ inst = [x \in Substrate |-> None]
  /\ due = FALSE
  /\ calls = [k \in Step |-> None]
  /\ wrong = FALSE /\ stale = FALSE
  /\ ended = "no"

-----------------------------------------------------------------------------
(* What filters compute *)

\* The frame of a filter: the name of a source, or a function of the frames of
\* the filters its shims have.  One level deeper than there are steps means that
\* a filter is its own source.
Frames[d \in 0 .. MaxStep] ==
  [f \in Source \cup Added |->
     IF f \in Source THEN <<f>>
     ELSE IF d = 0 THEN <<"endless">>
     ELSE <<pool[f], [i \in Inputs(f) |-> Frames[d - 1][shim[f][i]]]>>]
FrameOf(f) == Frames[MaxStep][f]

\* The steps a filter takes its frames from, directly or not.
Below[d \in 0 .. MaxStep] ==
  [f \in Source \cup Added |->
     IF f \in Source \/ d = 0 THEN {}
     ELSE LET direct == {shim[f][i] : i \in Inputs(f)} IN
          direct \cup UNION {Below[d - 1][g] : g \in direct}]
DependsOn(f) == Below[MaxStep][f]

Alive == {x \in Substrate : inst[x] # None}
FilterOf(x) == IF x[2] = 0 THEN x[1] ELSE shim[x[1]][x[2]]

\* The substrates the filter of x requests frames of.
Dependencies(x) ==
  LET f == FilterOf(x) IN
  IF f \in Source THEN {} ELSE {<<f, i>> : i \in Inputs(f)}

-----------------------------------------------------------------------------
(* The pathway *)

\* Mutant: a step is used again while its substrate is held.
is_unique_Always(k) == k \in Added

\* Only the pathway and the nucleus hold the substrate of step k.
is_unique(k) == ~client[k] /\ k \notin task /\ inst[Own(k)] = None

\* The first step with the same function whose substrate is unique, or 0.
Reusable(f) ==
  LET S == {k \in Added : pool[k] = f /\ is_unique(k)} IN
  IF S = {} THEN 0 ELSE CHOOSE k \in S : \A j \in S : k <= j

\* The instances whose frames come through the shims of step k.
LeftBehind(k) ==
  {x \in Alive : x[1] = k \/ FilterOf(x) = k \/ k \in DependsOn(FilterOf(x))}

\* Mutant: update_sources is left out.
AddStep_NoUpdate(f, srcs) ==
  LET old == Reusable(f)
      k == IF old = 0 THEN Len(pool) + 1 ELSE old
  IN
  /\ ended = "no"
  /\ k <= MaxStep
  /\ \A i \in 1 .. Arity[f] : srcs[i] \in Source \cup {j \in Added : client[j]}
  /\ pool' = IF old = 0 THEN Append(pool, f) ELSE pool
  /\ shim' = IF old = 0 THEN [shim EXCEPT ![k] = srcs] ELSE shim
  /\ client' = [client EXCEPT ![k] = TRUE]
  /\ asked' = [asked EXCEPT ![k] = <<f, [i \in 1 .. Arity[f] |-> FrameOf(srcs[i])]>>]
  /\ UNCHANGED <<frameVars, stale, ended>>

\* add_step: a step that looks the same is used again, with its shims'
\* filters replaced; otherwise the function is called with shims, and the
\* filter it made registered.
AddStep(f, srcs) ==
  LET old == Reusable(f)
      k == IF old = 0 THEN Len(pool) + 1 ELSE old
  IN
  /\ ended = "no"
  /\ k <= MaxStep
  /\ \A i \in 1 .. Arity[f] : srcs[i] \in Source \cup {j \in Added : client[j]}
  /\ pool' = IF old = 0 THEN Append(pool, f) ELSE pool
  /\ shim' = [shim EXCEPT ![k] = srcs]
  /\ client' = [client EXCEPT ![k] = TRUE]
  /\ asked' = [asked EXCEPT ![k] = <<f, [i \in 1 .. Arity[f] |-> FrameOf(srcs[i])]>>]
  /\ stale' = (stale \/ (shim[k] # srcs /\ LeftBehind(k) # {}))
  /\ UNCHANGED <<frameVars, ended>>

\* The client releases a step.  With KeepsSources it is a client that keeps what its
\* other steps are made of, and that does not release a step whose frame it waits for;
\* nothing in the code asks this of it.
Release(k) ==
  /\ k \in Added /\ client[k]
  /\ KeepsSources =>
       calls[k] = None /\ \A j \in Added : client[j] => k \notin DependsOn(j)
  /\ client' = [client EXCEPT ![k] = FALSE]
  /\ asked' = [asked EXCEPT ![k] = None]
  /\ UNCHANGED <<pool, shim, stale, frameVars, ended>>

\* The client releases the pathway: ~Pathway checks that every substrate is
\* unique and unregisters it.
Destroy ==
  /\ ended = "no"
  /\ ended' = IF \A k \in Added : is_unique(k) THEN "yes" ELSE "panic"
  /\ UNCHANGED <<pool, shim, stale, clientVars, frameVars>>

-----------------------------------------------------------------------------
(* Frames of the steps *)

\* The client asks for the frame of a step it holds.
GetFrame(k) ==
  /\ k \in Added /\ client[k] /\ calls[k] = None
  /\ task' = task \cup {k}
  /\ calls' = [calls EXCEPT ![k] = asked[k]]
  /\ UNCHANGED <<pool, shim, stale, clientVars, inst, due, wrong, ended>>

\* The substrates construct reaches: those with an instance are not looked
\* behind.
Reached[d \in 0 .. 2 * MaxStep] ==
  [x \in Substrate |->
     IF inst[x] # None \/ d = 0 THEN {}
     ELSE {x} \cup UNION {Reached[d - 1][y] : y \in Dependencies(x)}]

Deliver(k, frame) ==
  /\ wrong' = (wrong \/ frame # calls[k])
  /\ calls' = [calls EXCEPT ![k] = None]

\* construct: an instance for everything that has none; a frame that is there
\* already is delivered at once.
Construct(k) ==
  /\ k \in task
  /\ task' = task \ {k}
  /\ inst' = [x \in Substrate |->
                IF x \in Reached[2 * MaxStep][Own(k)]
                  THEN [inputs |-> Dependencies(x), product |-> None]
                  ELSE inst[x]]
  /\ due' = TRUE
  /\ IF inst[Own(k)] # None /\ inst[Own(k)].product # None
       THEN Deliver(k, inst[Own(k)].product)
       ELSE UNCHANGED <<calls, wrong>>
  /\ UNCHANGED <<pool, shim, stale, clientVars, ended>>

Ready(x) ==
  /\ x \in Alive /\ inst[x].product = None
  /\ \A y \in inst[x].inputs : y \in Alive /\ inst[y].product # None

\* A worker processes x with the filter its substrate has by now; the frame
\* of a step goes to the client, if it waits for it.
Process(x) ==
  LET f == FilterOf(x)
      product == IF f \in Source THEN <<f>>
                 ELSE <<pool[f], [i \in Inputs(f) |->
                        IF <<f, i>> \in inst[x].inputs
                          THEN inst[<<f, i>>].product ELSE None]>>
  IN
  /\ Ready(x)
  /\ inst' = [inst EXCEPT ![x].product = product]
  /\ IF x = Own(x[1]) /\ calls[x[1]] # None /\ x[1] \notin task
       THEN Deliver(x[1], product)
       ELSE UNCHANGED <<calls, wrong>>
  /\ UNCHANGED <<pool, shim, stale, clientVars, task, due, ended>>

\* The filter throws, and kill_tree: everything that waits for x goes.
Fail(x) ==
  LET up[d \in 0 .. 2 * MaxStep] ==
        IF d = 0 THEN {x}
        ELSE up[d - 1] \cup {y \in Alive : inst[y].inputs \cap up[d - 1] # {}}
      dead == up[2 * MaxStep]
  IN
  /\ Ready(x)
  /\ inst' = [y \in Substrate |-> IF y \in dead THEN None ELSE inst[y]]
  /\ calls' = [k \in Step |-> IF Own(k) \in dead /\ k \notin task THEN None ELSE calls[k]]
  /\ UNCHANGED <<pool, shim, stale, clientVars, task, due, wrong, ended>>

\* The instances a sweep may free: those no unfinished one takes as an input.
Finished ==
  {x \in Alive :
     /\ inst[x].product # None
     /\ \A y \in Alive : x \in inst[y].inputs => inst[y].product # None}

\* The sweep at the end of a batch.  It spares what was recomputed often.
Sweep(spared) ==
  /\ due
  /\ due' = FALSE
  /\ inst' = [x \in Substrate |-> IF x \in Finished \ spared THEN None ELSE inst[x]]
  /\ UNCHANGED <<pool, shim, stale, clientVars, task, calls, wrong, ended>>

-----------------------------------------------------------------------------
Maintain ==
  \/ \E k \in Step : Construct(k)
  \/ \E spared \in SUBSET Finished : Sweep(spared)
Work == \E x \in Substrate : Process(x)

Next ==
  /\ ended # "panic"
  /\ \/ \E f \in Func : \E srcs \in [Slot -> Source \cup Added \cup {None}] :
          /\ \A i \in Slot : srcs[i] = None <=> i > Arity[f]
          /\ AddStep(f, srcs)
     \/ \E k \in Step : Release(k) \/ GetFrame(k)
     \/ Destroy
     \/ Maintain \/ Work \/ \E x \in Substrate : Fail(x)

Spec == Init /\ [][Next]_vars

-----------------------------------------------------------------------------
\* No filter comes to be its own source when a released step is used again and its
\* sources are replaced: construct would never return.  This is so for a client with
\* KeepsSources.  One that releases a step under a step it holds, and adds the same
\* function on top of that step, gets such a filter: is_unique does not see it.
NoCycle == \A k \in Added : k \notin DependsOn(k)

\* A step computes what the client asked for as long as the client holds it, whatever
\* other steps are released and used again: for a client with KeepsSources, since a
\* step that was released under a held one is given other sources.
HeldStable == \A k \in Added : client[k] => FrameOf(k) = asked[k]

\* A frame that is delivered is the one its step meant when it was asked for,
\* unless a step was given other sources while the maintainer still had instances
\* behind its shims, which is_unique does not see.  The client has KeepsSources.
FramesTrue == wrong => stale

\* ~Pathway: "all substrates created by this pathway are not released".
PanicsOnlyIfHeld == ended = "panic" => \E k \in Added : client[k]
=============================================================================
