---------------------------- MODULE PathwayProofs ----------------------------
(***************************************************************************)
(* Proofs about Pathway, for a client that keeps what it still uses: no    *)
(* filter comes to be its own source, a step that is held stays what it    *)
(* was asked to be, and frames are delivered of what was asked for.        *)
(*                                                                         *)
(* The steps that are held rest on sources that are held (HeldClosed), and *)
(* among any steps there is one that takes nothing from the others         *)
(* (Grounded): the step that add_step uses again was not held, so nothing  *)
(* it is put on rests on it.  Grounded stands for induction along the      *)
(* sources: a set of steps that break a rule has one whose sources keep it. *)
(***************************************************************************)
EXTENDS Pathway, FiniteSetTheorems, WellFoundedInduction, TLAPS

USE BoundsAssumption, FuncAssumption, SourceAssumption, KeepsSourcesAssumption

\* A set of naturals that is not empty has a least element.
LEMMA LeastNatural ==
  ASSUME NEW T \in SUBSET Nat, T # {}
  PROVE  \E m \in T : \A n \in T : m <= n
<1>1. PICK m \in T : \A n \in T : <<n, m>> \notin OpToRel(<, Nat)
  BY NatLessThanWellFounded, WFMin
<1>2. \A n \in T : ~(n < m)
  BY <1>1 DEF OpToRel
<1>3. \A n \in T : n \in Nat
  OBVIOUS
<1> QED
  BY <1>2, <1>3

-----------------------------------------------------------------------------
(* The recursive functions: what they are at a depth follows from what they *)
(* are one level down.                                                     *)

\* The frames at depth d, where F has those at the depths before.
FramesLayer(F, d) ==
  [f \in Source \cup Added |->
     IF f \in Source THEN <<f>>
     ELSE IF d = 0 THEN <<"endless">>
     ELSE <<pool[f], [i \in Inputs(f) |-> F[d - 1][shim[f][i]]]>>]

\* Such a function exists up to every depth, for a least depth at which it did not
\* would be one beyond a depth at which it does.
LEMMA FramesExist == \E F : F = [d \in 0 .. MaxStep |-> FramesLayer(F, d)]
<1> DEFINE Defined(n) == \E F : F = [d \in 0 .. n |-> FramesLayer(F, d)]
           T == {n \in 0 .. MaxStep : ~Defined(n)}
<1>1. Defined(0)
  <2> DEFINE G == [d \in 0 .. 0 |-> FramesLayer(<<>>, 0)]
  <2>1. G = [d \in 0 .. 0 |-> FramesLayer(G, d)]
    BY DEF FramesLayer
  <2> QED
    BY <2>1
<1>2. ASSUME NEW n \in 0 .. MaxStep, n # 0, Defined(n - 1) PROVE Defined(n)
  <2>1. PICK F : F = [d \in 0 .. n - 1 |-> FramesLayer(F, d)]
    BY <1>2
  <2> DEFINE G == [d \in 0 .. n |-> IF d = n THEN FramesLayer(F, n) ELSE F[d]]
  <2>2. \A d \in 0 .. n : FramesLayer(G, d) = FramesLayer(F, d)
    <3> SUFFICES ASSUME NEW d \in 0 .. n PROVE FramesLayer(G, d) = FramesLayer(F, d)
      OBVIOUS
    <3>1. d = 0 \/ G[d - 1] = F[d - 1]
      OBVIOUS
    <3> HIDE DEF G
    <3> QED
      BY <3>1 DEF FramesLayer
  <2>3. \A d \in 0 .. n : G[d] = FramesLayer(F, d)
    BY <2>1
  <2>4. G = [d \in 0 .. n |-> G[d]]
    OBVIOUS
  <2> HIDE DEF G
  <2>5. G = [d \in 0 .. n |-> FramesLayer(G, d)]
    BY <2>2, <2>3, <2>4
  <2> QED
    BY <2>5
<1> HIDE DEF Defined
<1>3. T = {}
  <2> SUFFICES ASSUME T # {} PROVE FALSE
    OBVIOUS
  <2>1. PICK m \in T : \A n \in T : m <= n
    BY LeastNatural, T \in SUBSET Nat
  <2>2. m # 0
    BY <2>1, <1>1
  <2>3. m - 1 \in 0 .. MaxStep /\ m - 1 \notin T
    BY <2>1, <2>2
  <2> QED
    BY <2>1, <2>2, <2>3, <1>2
<1> QED
  BY <1>3 DEF Defined

\* So Frames is one.
LEMMA FramesEquation == Frames = [d \in 0 .. MaxStep |-> FramesLayer(Frames, d)]
<1>1. Frames = CHOOSE F : F = [d \in 0 .. MaxStep |-> FramesLayer(F, d)]
  BY DEF Frames, FramesLayer
<1> QED
  BY <1>1, FramesExist

\* The same of what is below a filter, ...
BelowLayer(F, d) ==
  [f \in Source \cup Added |->
     IF f \in Source \/ d = 0 THEN {}
     ELSE LET direct == {shim[f][i] : i \in Inputs(f)} IN
          direct \cup UNION {F[d - 1][g] : g \in direct}]

\* The same of the steps that are below a filter ...
LEMMA BelowExist == \E F : F = [d \in 0 .. MaxStep |-> BelowLayer(F, d)]
<1> DEFINE Defined(n) == \E F : F = [d \in 0 .. n |-> BelowLayer(F, d)]
           T == {n \in 0 .. MaxStep : ~Defined(n)}
<1>1. Defined(0)
  <2> DEFINE G == [d \in 0 .. 0 |-> BelowLayer(<<>>, 0)]
  <2>1. G = [d \in 0 .. 0 |-> BelowLayer(G, d)]
    BY DEF BelowLayer
  <2> QED
    BY <2>1
<1>2. ASSUME NEW n \in 0 .. MaxStep, n # 0, Defined(n - 1) PROVE Defined(n)
  <2>1. PICK F : F = [d \in 0 .. n - 1 |-> BelowLayer(F, d)]
    BY <1>2
  <2> DEFINE G == [d \in 0 .. n |-> IF d = n THEN BelowLayer(F, n) ELSE F[d]]
  <2>2. \A d \in 0 .. n : BelowLayer(G, d) = BelowLayer(F, d)
    <3> SUFFICES ASSUME NEW d \in 0 .. n PROVE BelowLayer(G, d) = BelowLayer(F, d)
      OBVIOUS
    <3>1. d = 0 \/ G[d - 1] = F[d - 1]
      OBVIOUS
    <3> HIDE DEF G
    <3> QED
      BY <3>1 DEF BelowLayer
  <2>3. \A d \in 0 .. n : G[d] = BelowLayer(F, d)
    BY <2>1
  <2>4. G = [d \in 0 .. n |-> G[d]]
    OBVIOUS
  <2> HIDE DEF G
  <2>5. G = [d \in 0 .. n |-> BelowLayer(G, d)]
    BY <2>2, <2>3, <2>4
  <2> QED
    BY <2>5
<1> HIDE DEF Defined
<1>3. T = {}
  <2> SUFFICES ASSUME T # {} PROVE FALSE
    OBVIOUS
  <2>1. PICK m \in T : \A n \in T : m <= n
    BY LeastNatural, T \in SUBSET Nat
  <2>2. m # 0
    BY <2>1, <1>1
  <2>3. m - 1 \in 0 .. MaxStep /\ m - 1 \notin T
    BY <2>1, <2>2
  <2> QED
    BY <2>1, <2>2, <2>3, <1>2
<1> QED
  BY <1>3 DEF Defined

\* ... which are Below.
LEMMA BelowEquation == Below = [d \in 0 .. MaxStep |-> BelowLayer(Below, d)]
<1>1. Below = CHOOSE F : F = [d \in 0 .. MaxStep |-> BelowLayer(F, d)]
  BY DEF Below, BelowLayer
<1> QED
  BY <1>1, BelowExist

\* ... and of what construct reaches from a substrate.
ReachedLayer(F, d) ==
  [x \in Substrate |->
     IF inst[x] # None \/ d = 0 THEN {}
     ELSE {x} \cup UNION {F[d - 1][y] : y \in Dependencies(x)}]

\* The same of the substrates that construct reaches ...
LEMMA ReachedExist == \E F : F = [d \in 0 .. 2 * MaxStep |-> ReachedLayer(F, d)]
<1> DEFINE Defined(n) == \E F : F = [d \in 0 .. n |-> ReachedLayer(F, d)]
           T == {n \in 0 .. 2 * MaxStep : ~Defined(n)}
<1>1. Defined(0)
  <2> DEFINE G == [d \in 0 .. 0 |-> ReachedLayer(<<>>, 0)]
  <2>1. G = [d \in 0 .. 0 |-> ReachedLayer(G, d)]
    BY DEF ReachedLayer
  <2> QED
    BY <2>1
<1>2. ASSUME NEW n \in 0 .. 2 * MaxStep, n # 0, Defined(n - 1) PROVE Defined(n)
  <2>1. PICK F : F = [d \in 0 .. n - 1 |-> ReachedLayer(F, d)]
    BY <1>2
  <2> DEFINE G == [d \in 0 .. n |-> IF d = n THEN ReachedLayer(F, n) ELSE F[d]]
  <2>2. \A d \in 0 .. n : ReachedLayer(G, d) = ReachedLayer(F, d)
    <3> SUFFICES ASSUME NEW d \in 0 .. n PROVE ReachedLayer(G, d) = ReachedLayer(F, d)
      OBVIOUS
    <3>1. d = 0 \/ G[d - 1] = F[d - 1]
      OBVIOUS
    <3> HIDE DEF G
    <3> QED
      BY <3>1 DEF ReachedLayer
  <2>3. \A d \in 0 .. n : G[d] = ReachedLayer(F, d)
    BY <2>1
  <2>4. G = [d \in 0 .. n |-> G[d]]
    OBVIOUS
  <2> HIDE DEF G
  <2>5. G = [d \in 0 .. n |-> ReachedLayer(G, d)]
    BY <2>2, <2>3, <2>4
  <2> QED
    BY <2>5
<1> HIDE DEF Defined
<1>3. T = {}
  <2> SUFFICES ASSUME T # {} PROVE FALSE
    OBVIOUS
  <2>1. PICK m \in T : \A n \in T : m <= n
    BY LeastNatural, T \in SUBSET Nat
  <2>2. m # 0
    BY <2>1, <1>1
  <2>3. m - 1 \in 0 .. 2 * MaxStep /\ m - 1 \notin T
    BY <2>1, <2>2
  <2> QED
    BY <2>1, <2>2, <2>3, <1>2
<1> QED
  BY <1>3 DEF Defined

\* ... which are Reached.
LEMMA ReachedEquation == Reached = [d \in 0 .. 2 * MaxStep |-> ReachedLayer(Reached, d)]
<1>1. Reached = CHOOSE F : F = [d \in 0 .. 2 * MaxStep |-> ReachedLayer(F, d)]
  BY DEF Reached, ReachedLayer
<1> QED
  BY <1>1, ReachedExist

-----------------------------------------------------------------------------
(* The invariants.                                                         *)

\* Steps take their sources from the sources there are and from other steps.
Typed ==
  /\ pool \in Seq(Func) /\ Len(pool) <= MaxStep
  /\ shim \in [Step -> [Slot -> Source \cup Added \cup {None}]]
  /\ \A k \in Added : \A i \in Inputs(k) : shim[k][i] \in Source \cup Added
  /\ client \in [Step -> BOOLEAN] /\ DOMAIN asked = Step
  /\ \A k \in Step : client[k] => k \in Added
  /\ task \subseteq Step /\ DOMAIN calls = Step
  /\ inst = [x \in Substrate |-> inst[x]]
  /\ wrong \in BOOLEAN /\ stale \in BOOLEAN

\* Among any steps there is one that takes none of its sources from them.
Grounded ==
  \A S \in SUBSET Added :
    S # {} => \E f \in S : \A i \in Inputs(f) : shim[f][i] \notin S

\* The sources of a step that is held are held.
Held == {k \in Added : client[k]}
HeldClosed == \A k \in Held : \A i \in Inputs(k) : shim[k][i] \in Source \cup Held

\* Both are all that is needed to compute with the filters of the steps.
Sound == Typed /\ Grounded

-----------------------------------------------------------------------------
(* The steps below one another.                                            *)

\* The sources of the steps of C are in C.
Closed(C) == \A g \in C : \A i \in Inputs(g) : shim[g][i] \in Source \cup C

\* What a step takes its frames from makes do without it.
LEMMA Around ==
  ASSUME Sound, NEW f \in Added
  PROVE  \E C \in SUBSET Added :
           Closed(C) /\ f \notin C /\ \A i \in Inputs(f) : shim[f][i] \in Source \cup C
<1> DEFINE Without == {D \in SUBSET Added : Closed(D) /\ f \notin D}
           C == UNION Without
           S == Added \ C
<1>1. C \in SUBSET Added /\ f \notin C
  OBVIOUS
<1>2. Closed(C)
  BY DEF Closed
<1>3. PICK m \in S : \A i \in Inputs(m) : shim[m][i] \notin S
  <2>1. S \in SUBSET Added /\ S # {}
    BY <1>1
  <2> HIDE DEF S
  <2> QED
    BY <2>1 DEF Sound, Grounded
<1>4. \A i \in Inputs(m) : shim[m][i] \in Source \cup C
  BY <1>3 DEF Sound, Typed
<1>5. m = f
  <2> SUFFICES ASSUME m # f PROVE FALSE
    OBVIOUS
  <2>1. Closed(C \cup {m})
    BY <1>2, <1>4 DEF Closed
  <2>2. C \cup {m} \in Without
    BY <1>1, <1>3, <2>1
  <2> QED
    BY <1>3, <2>2
<1> HIDE DEF C
<1> QED
  BY <1>1, <1>2, <1>4, <1>5

\* F is a function of the depth and of filters, and no other at a source, or at a
\* step whose sources it is no other at, when it looks one level deeper.
LooksDown(F) ==
  /\ \A g \in Source, d \in 0 .. MaxStep - 1 : F[d][g] = F[d + 1][g]
  /\ \A g \in Added, d \in 1 .. MaxStep - 1 :
       (\A i \in Inputs(g) : F[d - 1][shim[g][i]] = F[d][shim[g][i]])
         => F[d][g] = F[d + 1][g]

\* Such a function settles before the depth is that of all the steps there can be.
LEMMA Settles ==
  ASSUME Sound, NEW F, LooksDown(F), NEW f \in Added, NEW i \in Inputs(f)
  PROVE  F[MaxStep - 1][shim[f][i]] = F[MaxStep][shim[f][i]]
<1>1. MaxStep \in Nat /\ 1 <= MaxStep /\ Len(pool) \in Nat /\ Len(pool) <= MaxStep
  BY DEF Sound, Typed, Added
<1>2. PICK C \in SUBSET Added :
        Closed(C) /\ f \notin C /\ \A j \in Inputs(f) : shim[f][j] \in Source \cup C
  BY Around
<1>3. IsFiniteSet(Added) /\ Cardinality(Added) = Len(pool)
  <2>1. ASSUME NEW n \in Nat PROVE IsFiniteSet(1 .. n) /\ Cardinality(1 .. n) = n
    <3>1. n \in Int /\ 1 \in Int
      OBVIOUS
    <3>2. IsFiniteSet(1 .. n) /\ Cardinality(1 .. n) = IF 1 > n THEN 0 ELSE n - 1 + 1
      BY <3>1, FS_Interval
    <3> QED
      BY <3>2
  <2> QED
    BY <1>1, <2>1 DEF Added
<1>4. IsFiniteSet(C) /\ Cardinality(C) \in Nat /\ Cardinality(C) <= MaxStep - 1
  <2>1. IsFiniteSet(C) /\ Cardinality(C) <= Cardinality(Added)
        /\ (Cardinality(C) = Cardinality(Added) => C = Added)
    BY <1>3, FS_Subset
  <2>2. Cardinality(C) \in Nat
    BY <2>1, FS_CardinalityType
  <2> QED
    BY <1>1, <1>2, <1>3, <2>1, <2>2
<1> DEFINE Still(d) == {g \in C : \A e \in d .. MaxStep - 1 : F[e][g] = F[e + 1][g]}
           Far(d) == C \subseteq Still(d) \/ Cardinality(Still(d)) >= d
<1>5. \A d \in 0 .. MaxStep - 1 : IsFiniteSet(Still(d)) /\ Cardinality(Still(d)) \in Nat
  BY <1>4, FS_Subset, FS_CardinalityType
<1> HIDE DEF Still
<1>6. Far(0)
  BY <1>1, <1>5
<1>7. ASSUME NEW d \in 1 .. MaxStep - 1, Far(d - 1) PROVE Far(d)
  <2>1. Still(d - 1) \subseteq Still(d)
    BY <1>1 DEF Still
  <2>2. CASE C \subseteq Still(d - 1)
    BY <2>1, <2>2
  <2>3. CASE ~(C \subseteq Still(d - 1))
    <3> DEFINE S == C \ Still(d - 1)
    <3>1. PICK m \in S : \A j \in Inputs(m) : shim[m][j] \notin S
      <4>1. S \in SUBSET Added /\ S # {}
        BY <2>3
      <4> HIDE DEF S
      <4> QED
        BY <4>1 DEF Sound, Grounded
    <3>2. \A j \in Inputs(m) : shim[m][j] \in Source \cup Still(d - 1)
      BY <1>2, <3>1 DEF Closed
    <3>3. ASSUME NEW e \in d .. MaxStep - 1 PROVE F[e][m] = F[e + 1][m]
      <4>1. e \in 1 .. MaxStep - 1 /\ e - 1 \in d - 1 .. MaxStep - 1 /\ e - 1 \in 0 .. MaxStep - 1
            /\ (e - 1) + 1 = e
        BY <1>1
      <4>2. \A j \in Inputs(m) : F[e - 1][shim[m][j]] = F[e][shim[m][j]]
        BY <3>2, <4>1 DEF Still, LooksDown
      <4> QED
        BY <4>1, <4>2 DEF LooksDown
    <3>4. m \in Still(d) /\ m \notin Still(d - 1)
      BY <3>1, <3>3 DEF Still
    <3>5. Cardinality(Still(d - 1)) < Cardinality(Still(d))
      <4>1. d \in 0 .. MaxStep - 1 /\ d - 1 \in 0 .. MaxStep - 1
        BY <1>1
      <4>2. IsFiniteSet(Still(d)) /\ Cardinality(Still(d - 1)) \in Nat
            /\ Cardinality(Still(d)) \in Nat
        BY <1>5, <4>1
      <4>3. Cardinality(Still(d - 1)) <= Cardinality(Still(d))
            /\ Cardinality(Still(d - 1)) # Cardinality(Still(d))
        BY <2>1, <3>4, <4>2, FS_Subset
      <4> QED
        BY <4>2, <4>3
    <3>6. Cardinality(Still(d - 1)) >= d - 1
      BY <1>7, <2>3
    <3>7. Cardinality(Still(d - 1)) \in Nat /\ Cardinality(Still(d)) \in Nat
      <4>1. d \in 0 .. MaxStep - 1 /\ d - 1 \in 0 .. MaxStep - 1
        BY <1>1
      <4> QED
        BY <1>5, <4>1
    <3> QED
      BY <3>5, <3>6, <3>7
  <2> QED
    BY <2>2, <2>3
<1> HIDE DEF Far
<1>8. Far(MaxStep - 1)
  <2> DEFINE T == {d \in 0 .. MaxStep - 1 : ~Far(d)}
  <2> SUFFICES ASSUME T # {} PROVE FALSE
    BY <1>1
  <2>1. PICK d \in T : \A e \in T : d <= e
    <3>1. T \in SUBSET Nat
      BY <1>1
    <3> HIDE DEF T
    <3> QED
      BY <3>1, LeastNatural
  <2>2. d # 0
    BY <1>6, <2>1
  <2>3. d \in 1 .. MaxStep - 1 /\ d - 1 \in 0 .. MaxStep - 1 /\ d - 1 \notin T
    BY <1>1, <2>1, <2>2
  <2> QED
    BY <1>7, <2>1, <2>3
<1>9. C \subseteq Still(MaxStep - 1)
  <2> SUFFICES ASSUME Cardinality(Still(MaxStep - 1)) >= MaxStep - 1
               PROVE  C \subseteq Still(MaxStep - 1)
    BY <1>8 DEF Far
  <2>1. Still(MaxStep - 1) \in SUBSET C /\ Cardinality(Still(MaxStep - 1)) \in Nat
    <3>1. MaxStep - 1 \in 0 .. MaxStep - 1
      BY <1>1
    <3> QED
      BY <1>5, <3>1 DEF Still
  <2>2. Cardinality(Still(MaxStep - 1)) <= Cardinality(C)
        /\ (Cardinality(Still(MaxStep - 1)) = Cardinality(C) => Still(MaxStep - 1) = C)
    BY <2>1, <1>4, FS_Subset
  <2> QED
    BY <1>1, <1>4, <2>1, <2>2
<1> QED
  <2>1. shim[f][i] \in Source \cup Still(MaxStep - 1)
    BY <1>2, <1>9
  <2>2. MaxStep - 1 \in 0 .. MaxStep - 1 /\ (MaxStep - 1) + 1 = MaxStep
    BY <1>1
  <2> QED
    BY <2>1, <2>2 DEF Still, LooksDown

\* The frame of a filter is made of the frames of its sources.
SourceFrames == \A s \in Source : FrameOf(s) = <<s>>
StepFrames ==
  \A f \in Added : FrameOf(f) = <<pool[f], [i \in Inputs(f) |-> FrameOf(shim[f][i])]>>

\* The depth bound of Frames is never felt: both hold of grounded steps.
LEMMA FrameIs == Sound => SourceFrames /\ StepFrames
<1> SUFFICES ASSUME Sound PROVE SourceFrames /\ StepFrames
  OBVIOUS
<1>1. \A d \in 0 .. MaxStep : Frames[d] = FramesLayer(Frames, d)
  BY FramesEquation
<1>2. \A s \in Source, d \in 0 .. MaxStep : Frames[d][s] = <<s>>
  BY <1>1 DEF FramesLayer
<1>3. \A f \in Added, d \in 1 .. MaxStep :
        Frames[d][f] = <<pool[f], [i \in Inputs(f) |-> Frames[d - 1][shim[f][i]]]>>
  <2> SUFFICES ASSUME NEW f \in Added, NEW d \in 1 .. MaxStep
               PROVE  Frames[d][f] = <<pool[f], [i \in Inputs(f) |-> Frames[d - 1][shim[f][i]]]>>
    OBVIOUS
  <2>1. f \notin Source /\ d # 0 /\ d \in 0 .. MaxStep
    BY DEF Sound, Typed, Added, Step
  <2> QED
    BY <1>1, <2>1 DEF FramesLayer
<1>4. \A s \in Source, d \in 0 .. MaxStep - 1 : Frames[d][s] = Frames[d + 1][s]
  BY <1>2
<1>5. ASSUME NEW g \in Added, NEW d \in 1 .. MaxStep - 1,
             \A i \in Inputs(g) : Frames[d - 1][shim[g][i]] = Frames[d][shim[g][i]]
      PROVE  Frames[d][g] = Frames[d + 1][g]
  <2>1. Frames[d][g] = <<pool[g], [i \in Inputs(g) |-> Frames[d - 1][shim[g][i]]]>>
    BY <1>3
  <2>2. Frames[d + 1][g] = <<pool[g], [i \in Inputs(g) |-> Frames[d][shim[g][i]]]>>
    <3>1. d + 1 \in 1 .. MaxStep /\ (d + 1) - 1 = d
      OBVIOUS
    <3> QED
      BY <1>3, <3>1
  <2> QED
    BY <1>5, <2>1, <2>2
<1>6. ASSUME NEW f \in Added, NEW i \in Inputs(f)
      PROVE  Frames[MaxStep - 1][shim[f][i]] = Frames[MaxStep][shim[f][i]]
  <2>1. LooksDown(Frames)
    BY <1>4, <1>5 DEF LooksDown
  <2> QED
    BY <2>1, Settles
<1>7. ASSUME NEW f \in Added
      PROVE  FrameOf(f) = <<pool[f], [i \in Inputs(f) |-> FrameOf(shim[f][i])]>>
  <2>1. MaxStep \in 1 .. MaxStep
    BY DEF Sound, Typed, Added
  <2> QED
    BY <1>3, <1>6, <2>1 DEF FrameOf
<1> QED
  BY <1>2, <1>7 DEF FrameOf, SourceFrames, StepFrames

\* A step depends on its sources, and on what these depend on.
LEMMA DependsIs ==
  Sound =>
    \A f \in Added :
      LET direct == {shim[f][i] : i \in Inputs(f)} IN
      DependsOn(f) = direct \cup UNION {DependsOn(g) : g \in direct}
<1> SUFFICES ASSUME Sound, NEW f \in Added
             PROVE  LET direct == {shim[f][i] : i \in Inputs(f)} IN
                    DependsOn(f) = direct \cup UNION {DependsOn(g) : g \in direct}
  OBVIOUS
<1> DEFINE Direct(g) == {shim[g][i] : i \in Inputs(g)}
<1>1. \A d \in 0 .. MaxStep : Below[d] = BelowLayer(Below, d)
  BY BelowEquation
<1>2. \A s \in Source, d \in 0 .. MaxStep : Below[d][s] = {}
  BY <1>1 DEF BelowLayer
<1>3. \A g \in Added, d \in 1 .. MaxStep :
        Below[d][g] = Direct(g) \cup UNION {Below[d - 1][h] : h \in Direct(g)}
  <2> SUFFICES ASSUME NEW g \in Added, NEW d \in 1 .. MaxStep
               PROVE  Below[d][g] = Direct(g) \cup UNION {Below[d - 1][h] : h \in Direct(g)}
    OBVIOUS
  <2>1. g \notin Source /\ d # 0 /\ d \in 0 .. MaxStep
    BY DEF Sound, Typed, Added, Step
  <2> QED
    BY <1>1, <2>1 DEF BelowLayer
<1>4. ASSUME NEW s \in Source, NEW d \in 0 .. MaxStep - 1 PROVE Below[d][s] = Below[d + 1][s]
  <2>1. d \in 0 .. MaxStep /\ d + 1 \in 0 .. MaxStep
    OBVIOUS
  <2> QED
    BY <1>2, <2>1
<1>5. ASSUME NEW g \in Added, NEW d \in 1 .. MaxStep - 1,
             \A i \in Inputs(g) : Below[d - 1][shim[g][i]] = Below[d][shim[g][i]]
      PROVE  Below[d][g] = Below[d + 1][g]
  <2>1. Below[d][g] = Direct(g) \cup UNION {Below[d - 1][h] : h \in Direct(g)}
    BY <1>3
  <2>2. Below[d + 1][g] = Direct(g) \cup UNION {Below[d][h] : h \in Direct(g)}
    <3>1. d + 1 \in 1 .. MaxStep /\ (d + 1) - 1 = d
      OBVIOUS
    <3> QED
      BY <1>3, <3>1
  <2>3. \A h \in Direct(g) : Below[d - 1][h] = Below[d][h]
    BY <1>5
  <2> HIDE DEF Direct
  <2>4. {Below[d - 1][h] : h \in Direct(g)} = {Below[d][h] : h \in Direct(g)}
    BY <2>3
  <2> QED
    BY <2>1, <2>2, <2>4
<1>6. ASSUME NEW i \in Inputs(f)
      PROVE  Below[MaxStep - 1][shim[f][i]] = Below[MaxStep][shim[f][i]]
  <2>1. LooksDown(Below)
    BY <1>4, <1>5 DEF LooksDown
  <2> QED
    BY <2>1, Settles
<1>7. MaxStep \in 1 .. MaxStep
  BY DEF Sound, Typed, Added
<1>8. \A h \in Direct(f) : Below[MaxStep - 1][h] = Below[MaxStep][h]
  BY <1>6
<1> HIDE DEF Direct
<1>9. {Below[MaxStep - 1][h] : h \in Direct(f)} = {Below[MaxStep][h] : h \in Direct(f)}
  BY <1>8
<1>10. DependsOn(f) = Direct(f) \cup UNION {DependsOn(h) : h \in Direct(f)}
  BY <1>3, <1>7, <1>9 DEF DependsOn
<1> QED
  BY <1>10 DEF Direct

\* A source depends on nothing.
LEMMA DependsOnSource == \A s \in Source : DependsOn(s) = {}
<1>1. MaxStep \in 0 .. MaxStep
  OBVIOUS
<1>2. Below[MaxStep] = BelowLayer(Below, MaxStep)
  BY <1>1, BelowEquation
<1> QED
  BY <1>2 DEF BelowLayer, DependsOn

-----------------------------------------------------------------------------
(* What the steps of the pathway change.                                   *)

\* The step that add_step uses for f.
Target(f) == IF Reusable(f) = 0 THEN Len(pool) + 1 ELSE Reusable(f)

\* A step that is used again looks the same and is held by nobody.
LEMMA ReusableIs ==
  ASSUME Typed, NEW f \in Func, Reusable(f) # 0
  PROVE  Reusable(f) \in Added /\ pool[Reusable(f)] = f /\ is_unique(Reusable(f))
<1> DEFINE S == {k \in Added : pool[k] = f /\ is_unique(k)}
<1>1. S # {} /\ S \in SUBSET Nat
  BY DEF Reusable, Added
<1>2. \E k \in S : \A j \in S : k <= j
  <2> HIDE DEF S
  <2> QED
    BY <1>1, LeastNatural
<1>3. Reusable(f) = CHOOSE k \in S : \A j \in S : k <= j
  BY <1>1 DEF Reusable
<1> HIDE DEF S
<1>4. Reusable(f) \in S
  BY <1>2, <1>3
<1> QED
  BY <1>4 DEF S

\* add_step gives f's step its sources, and the client holds it from then on; it
\* did not before, and no other step is touched.
LEMMA AddStepDoes ==
  ASSUME Typed, NEW f \in Func, NEW srcs \in [Slot -> Source \cup Added \cup {None}],
         AddStep(f, srcs)
  PROVE  /\ Target(f) \in Step /\ Target(f) \notin Held
         /\ Target(f) \in Added => is_unique(Target(f))
         /\ pool' \in Seq(Func) /\ Len(pool') <= MaxStep
         /\ Added' = Added \cup {Target(f)} /\ Held' = Held \cup {Target(f)}
         /\ pool'[Target(f)] = f /\ \A g \in Added : pool'[g] = pool[g]
         /\ shim'[Target(f)] = srcs /\ \A g \in Step \ {Target(f)} : shim'[g] = shim[g]
         /\ \A i \in 1 .. Arity[f] : srcs[i] \in Source \cup Held
<1> DEFINE k == Target(f)
<1>1. k \in Step
  BY ReusableIs DEF AddStep, Target, Added, Step, Typed
<1>2. k \in Added => is_unique(k) /\ pool[k] = f
  BY ReusableIs DEF Target, Added, Typed
<1>3. k \notin Held
  BY <1>2 DEF Held, is_unique
<1>4. pool' = IF Reusable(f) = 0 THEN Append(pool, f) ELSE pool
  BY DEF AddStep
<1>5. /\ pool' \in Seq(Func) /\ Len(pool') <= MaxStep
      /\ Added' = Added \cup {k} /\ pool'[k] = f /\ \A g \in Added : pool'[g] = pool[g]
  <2>1. CASE Reusable(f) = 0
    <3>1. pool' = Append(pool, f) /\ k = Len(pool) + 1
      BY <1>4, <2>1 DEF Target
    <3> QED
      BY <1>1, <3>1 DEF Typed, Added, Step
  <2>2. CASE Reusable(f) # 0
    <3>1. pool' = pool /\ k = Reusable(f)
      BY <1>4, <2>2 DEF Target
    <3> QED
      BY <2>2, <3>1, ReusableIs DEF Typed, Added
  <2> QED
    BY <2>1, <2>2
<1>6. shim' = [shim EXCEPT ![k] = srcs] /\ client' = [client EXCEPT ![k] = TRUE]
      /\ \A i \in 1 .. Arity[f] : srcs[i] \in Source \cup Held
  BY DEF AddStep, Target, Held
<1>7. Held' = Held \cup {k}
  BY <1>1, <1>5, <1>6 DEF Held, Typed
<1> QED
  BY <1>1, <1>2, <1>3, <1>5, <1>6, <1>7 DEF Typed

\* The sources of the other steps stay what they were.
LEMMA OthersKeep ==
  ASSUME Typed, NEW f \in Func, NEW srcs \in [Slot -> Source \cup Added \cup {None}],
         AddStep(f, srcs), NEW g \in Added \ {Target(f)}
  PROVE  Inputs(g)' = Inputs(g) /\ \A i \in Inputs(g) : shim'[g][i] = shim[g][i]
BY AddStepDoes DEF Inputs, Added, Step, Typed

-----------------------------------------------------------------------------
(* The steps stay typed, grounded, and on sources that are held.           *)

\* Only add_step and the client's releases change what the steps are.
Elsewhere == UNCHANGED <<pool, shim, stale, clientVars>>

\* The moves of the maintainer and of the workers.
Running ==
  \/ \E k \in Step : GetFrame(k)
  \/ Destroy \/ Maintain \/ Work \/ \E x \in Substrate : Fail(x)
  \/ UNCHANGED vars

\* Frames come and go without a change to the steps.
LEMMA RunningElsewhere == Running => Elsewhere
BY DEF Running, Elsewhere, GetFrame, Destroy, Maintain, Construct, Sweep, Work, Process, Fail, vars

\* What a step of Pathway can be.
LEMMA NextCases ==
  ASSUME [Next]_vars
  PROVE  \/ \E f \in Func, srcs \in [Slot -> Source \cup Added \cup {None}] : AddStep(f, srcs)
         \/ \E k \in Step : Release(k)
         \/ Running
BY Zenon DEF Next, Running

\* At first there are no steps.
LEMMA TypedInit ==
  ASSUME Init
  PROVE  Typed /\ Added = {}
<1>1. pool \in Seq(Func) /\ Len(pool) = 0 /\ Added = {}
  BY DEF Init, Added
<1>2. shim \in [Step -> [Slot -> Source \cup Added \cup {None}]]
  BY DEF Init
<1>3. client \in [Step -> BOOLEAN] /\ DOMAIN asked = Step /\ \A k \in Step : ~client[k]
  BY DEF Init
<1>4. /\ task \subseteq Step /\ DOMAIN calls = Step /\ inst = [x \in Substrate |-> inst[x]]
      /\ wrong \in BOOLEAN /\ stale \in BOOLEAN
  BY DEF Init
<1> QED
  BY <1>1, <1>2, <1>3, <1>4 DEF Typed

\* Every step of Pathway leaves it well typed.
LEMMA TypedNext ==
  ASSUME Typed, [Next]_vars
  PROVE  Typed'
<1>1. ASSUME NEW f \in Func, NEW srcs \in [Slot -> Source \cup Added \cup {None}],
             AddStep(f, srcs)
      PROVE  Typed'
  <2> PICK k : k = Target(f)
    OBVIOUS
  <2>1. /\ k \in Step /\ pool' \in Seq(Func) /\ Len(pool') <= MaxStep
        /\ Added' = Added \cup {k}
        /\ pool'[k] = f /\ shim'[k] = srcs
        /\ \A i \in 1 .. Arity[f] : srcs[i] \in Source \cup Held
    BY <1>1, AddStepDoes
  <2>2. shim' = [shim EXCEPT ![k] = srcs] /\ client' = [client EXCEPT ![k] = TRUE]
        /\ DOMAIN asked' = DOMAIN asked
        /\ UNCHANGED frameVars /\ stale' \in BOOLEAN
    BY <1>1 DEF AddStep, Target, Typed
  <2>3. shim' \in [Step -> [Slot -> Source \cup Added \cup {None}]'] /\ client' \in [Step -> BOOLEAN]
    BY <2>1, <2>2 DEF Typed
  <2>4. ASSUME NEW g \in Added' PROVE \A i \in Inputs(g)' : shim'[g][i] \in Source \cup Added'
    <3>1. CASE g = k
      BY <2>1, <3>1 DEF Inputs, Held
    <3>2. CASE g # k
      <4>1. g \in Added \ {Target(f)}
        BY <2>1, <3>2
      <4>2. Inputs(g)' = Inputs(g) /\ \A i \in Inputs(g) : shim'[g][i] = shim[g][i]
        BY <1>1, <4>1, OthersKeep
      <4> QED
        BY <2>1, <4>1, <4>2 DEF Typed
    <3> QED
      BY <3>1, <3>2
  <2>5. \A g \in Step : client'[g] => g \in Added'
    BY <2>1, <2>2 DEF Typed
  <2> QED
    BY <2>1, <2>2, <2>3, <2>4, <2>5 DEF Typed, frameVars
<1>2. ASSUME NEW k \in Step, Release(k) PROVE Typed'
  BY <1>2 DEF Release, Typed, frameVars, Added, Inputs
<1>3. CASE Running
  <2>1. Elsewhere
    BY <1>3, RunningElsewhere
  <2>2. /\ task' \subseteq Step /\ DOMAIN calls' = Step /\ inst' = [x \in Substrate |-> inst'[x]]
        /\ wrong' \in BOOLEAN
    <3>1. ASSUME NEW k \in Step, GetFrame(k)
          PROVE  /\ task' \subseteq Step /\ DOMAIN calls' = Step
                 /\ inst' = [x \in Substrate |-> inst'[x]] /\ wrong' \in BOOLEAN
      BY <3>1 DEF GetFrame, Typed
    <3>2. ASSUME NEW k \in Step, Construct(k)
          PROVE  /\ task' \subseteq Step /\ DOMAIN calls' = Step
                 /\ inst' = [x \in Substrate |-> inst'[x]] /\ wrong' \in BOOLEAN
      BY <3>2 DEF Construct, Deliver, Typed
    <3>3. ASSUME NEW x \in Substrate, Process(x)
          PROVE  /\ task' \subseteq Step /\ DOMAIN calls' = Step
                 /\ inst' = [y \in Substrate |-> inst'[y]] /\ wrong' \in BOOLEAN
      BY <3>3 DEF Process, Deliver, Typed
    <3>4. ASSUME NEW x \in Substrate, Fail(x)
          PROVE  /\ task' \subseteq Step /\ DOMAIN calls' = Step
                 /\ inst' = [y \in Substrate |-> inst'[y]] /\ wrong' \in BOOLEAN
      BY <3>4 DEF Fail, Typed
    <3>5. ASSUME NEW spared \in SUBSET Finished, Sweep(spared)
          PROVE  /\ task' \subseteq Step /\ DOMAIN calls' = Step
                 /\ inst' = [y \in Substrate |-> inst'[y]] /\ wrong' \in BOOLEAN
      BY <3>5 DEF Sweep, Typed
    <3>6. CASE Destroy \/ UNCHANGED vars
      BY <3>6 DEF Destroy, vars, frameVars, Typed
    <3> QED
      BY <1>3, <3>1, <3>2, <3>3, <3>4, <3>5, <3>6 DEF Running, Maintain, Work
  <2> QED
    BY <2>1, <2>2 DEF Elsewhere, clientVars, Typed, Added, Inputs
<1> QED
  BY <1>1, <1>2, <1>3, NextCases

\* add_step puts f's step, which was not held, on sources that are.
LEMMA GroundedAdd ==
  ASSUME Typed, Grounded, HeldClosed, NEW f \in Func,
         NEW srcs \in [Slot -> Source \cup Added \cup {None}], AddStep(f, srcs)
  PROVE  Grounded' /\ HeldClosed'
<1> PICK k : k = Target(f)
  OBVIOUS
<1>1. /\ k \in Step /\ k \notin Held /\ Added' = Added \cup {k} /\ Held' = Held \cup {k}
      /\ pool'[k] = f /\ shim'[k] = srcs /\ \A i \in 1 .. Arity[f] : srcs[i] \in Source \cup Held
  BY AddStepDoes
<1>2. \A g \in Added \ {k} : Inputs(g)' = Inputs(g) /\ \A i \in Inputs(g) : shim'[g][i] = shim[g][i]
  BY OthersKeep
<1>3. Inputs(k)' = 1 .. Arity[f]
  BY <1>1 DEF Inputs
<1>4. Held \subseteq Added /\ k \notin Source /\ Added \subseteq Step
  BY <1>1 DEF Held, Typed, Added, Step
<1>5. Grounded'
  <2> SUFFICES ASSUME NEW S \in SUBSET Added', S # {}
               PROVE  \E g \in S : \A i \in Inputs(g)' : shim'[g][i] \notin S
    BY DEF Grounded
  <2>1. S \cap Source = {}
    BY <1>1, <1>4
  <2>2. CASE S \cap Held # {}
    <3>1. PICK g \in S \cap Held : \A i \in Inputs(g) : shim[g][i] \notin S \cap Held
      <4>1. S \cap Held \in SUBSET Added
        BY <1>4
      <4> QED
        BY <2>2, <4>1 DEF Grounded
    <3>2. \A i \in Inputs(g) : shim[g][i] \notin S
      BY <2>1, <3>1 DEF HeldClosed
    <3> QED
      BY <1>1, <1>2, <1>4, <3>1, <3>2
  <2>3. CASE S \cap Held = {} /\ k \in S
    BY <1>1, <1>3, <2>1, <2>3
  <2>4. CASE k \notin S
    <3>1. PICK g \in S : \A i \in Inputs(g) : shim[g][i] \notin S
      <4>1. S \in SUBSET Added
        BY <1>1, <2>4
      <4> QED
        BY <4>1 DEF Grounded
    <3> QED
      BY <1>1, <1>2, <2>4, <3>1
  <2> QED
    BY <2>2, <2>3, <2>4
<1>6. HeldClosed'
  <2> SUFFICES ASSUME NEW g \in Held'
               PROVE  \A i \in Inputs(g)' : shim'[g][i] \in Source \cup Held'
    BY DEF HeldClosed
  <2>1. CASE g = k
    BY <1>1, <1>3, <2>1
  <2>2. CASE g # k
    BY <1>1, <1>2, <1>4, <2>2 DEF HeldClosed
  <2> QED
    BY <2>1, <2>2
<1> QED
  BY <1>5, <1>6

\* What a held step depends on directly is held, so that none of it is released.
LEMMA GroundedNext ==
  ASSUME Typed, Grounded, HeldClosed, KeepsSources, [Next]_vars
  PROVE  Grounded' /\ HeldClosed'
<1>1. ASSUME NEW k \in Step, Release(k) PROVE Grounded' /\ HeldClosed'
  <2>1. pool' = pool /\ shim' = shim
    BY <1>1 DEF Release
  <2>2. Held' = Held \ {k}
    BY <1>1 DEF Release, Held, Typed, Added
  <2>3. ASSUME NEW g \in Held PROVE \A i \in Inputs(g) : shim[g][i] # k
    <3>1. k \notin DependsOn(g)
      BY <1>1, <2>3 DEF Release, Held
    <3>2. \A i \in Inputs(g) : shim[g][i] \in DependsOn(g)
      BY <2>3, DependsIs DEF Sound, Held
    <3> QED
      BY <3>1, <3>2
  <2> QED
    BY <2>1, <2>2, <2>3 DEF Grounded, HeldClosed, Inputs, Added
<1>2. CASE Running
  <2>1. pool' = pool /\ shim' = shim /\ client' = client
    BY <1>2, RunningElsewhere DEF Elsewhere, clientVars
  <2>2. Added' = Added /\ Held' = Held /\ \A k : Inputs(k)' = Inputs(k)
    BY <2>1 DEF Held, Inputs, Added
  <2> QED
    BY <2>1, <2>2 DEF Grounded, HeldClosed
<1> QED
  BY <1>1, <1>2, GroundedAdd, NextCases

-----------------------------------------------------------------------------
(* No step is its own source, and what is held stays what it was asked to be. *)

\* In grounded steps there is no cycle.
LEMMA GroundedHasNoCycle == ASSUME Sound PROVE NoCycle
<1> SUFFICES ASSUME NEW k \in Added, k \in DependsOn(k) PROVE FALSE
  BY DEF NoCycle
<1> DEFINE S == {g \in Added : k \in DependsOn(g)}
<1>1. PICK m \in S : \A i \in Inputs(m) : shim[m][i] \notin S
  <2>1. S \in SUBSET Added /\ S # {}
    OBVIOUS
  <2> HIDE DEF S
  <2> QED
    BY <2>1 DEF Sound, Grounded
<1>2. PICK i \in Inputs(m) : k = shim[m][i] \/ k \in DependsOn(shim[m][i])
  BY DependsIs
<1>3. shim[m][i] \in Added
  BY <1>2, DependsOnSource DEF Sound, Typed
<1> QED
  BY <1>1, <1>2, <1>3

\* Steps whose sources do not change, all the way down, keep their frames.
LEMMA SameFrames ==
  ASSUME Sound, Sound', NEW C \in SUBSET Added, Closed(C), C \subseteq Added',
         \A g \in C : /\ pool'[g] = pool[g] /\ Inputs(g)' = Inputs(g)
                      /\ \A i \in Inputs(g) : shim'[g][i] = shim[g][i]
  PROVE  \A g \in Source \cup C : FrameOf(g)' = FrameOf(g)
<1>1. \A s \in Source : FrameOf(s) = <<s>> /\ Frames'[MaxStep][s] = <<s>>
  <2>1. (Sound => SourceFrames)'
    BY FrameIs, PTL
  <2> QED
    BY <2>1, FrameIs DEF SourceFrames, FrameOf
<1>2. \A f \in Added' :
        Frames'[MaxStep][f]
          = <<pool'[f], [i \in Inputs(f)' |-> Frames'[MaxStep][shim'[f][i]]]>>
  <2>1. (Sound => StepFrames)'
    BY FrameIs, PTL
  <2> QED
    BY <2>1 DEF StepFrames, FrameOf
<1> DEFINE S == {g \in C : Frames'[MaxStep][g] # FrameOf(g)}
<1>3. S = {}
  <2> SUFFICES ASSUME S # {} PROVE FALSE
    OBVIOUS
  <2>1. PICK m \in S : \A i \in Inputs(m) : shim[m][i] \notin S
    <3>1. S \in SUBSET Added
      OBVIOUS
    <3> HIDE DEF S
    <3> QED
      BY <3>1 DEF Sound, Grounded
  <2>2. \A i \in Inputs(m) : Frames'[MaxStep][shim[m][i]] = FrameOf(shim[m][i])
    BY <1>1, <2>1 DEF Closed
  <2>3. Frames'[MaxStep][m]
          = <<pool[m], [i \in Inputs(m) |-> Frames'[MaxStep][shim[m][i]]]>>
    BY <1>2
  <2>4. FrameOf(m) = <<pool[m], [i \in Inputs(m) |-> FrameOf(shim[m][i])]>>
    BY FrameIs DEF StepFrames
  <2> QED
    BY <2>1, <2>2, <2>3, <2>4
<1> QED
  BY <1>1, <1>3 DEF FrameOf

-----------------------------------------------------------------------------
(* What is held stays what it was asked to be.                             *)

\* Steps that take nothing from the step that add_step uses keep their frames.
LEMMA AddKeepsFrames ==
  ASSUME Sound, Sound', NEW f \in Func,
         NEW srcs \in [Slot -> Source \cup Added \cup {None}], AddStep(f, srcs),
         NEW C \in SUBSET Added, Closed(C), Target(f) \notin C
  PROVE  \A g \in Source \cup C : FrameOf(g)' = FrameOf(g)
<1>1. Added' = Added \cup {Target(f)} /\ \A g \in Added : pool'[g] = pool[g]
  BY AddStepDoes DEF Sound
<1>2. \A g \in C : Inputs(g)' = Inputs(g) /\ \A i \in Inputs(g) : shim'[g][i] = shim[g][i]
  BY OthersKeep DEF Sound
<1> QED
  BY <1>1, <1>2, SameFrames

\* The step that add_step uses computes what it was asked to, and those that were
\* held still do: they do not rest on it.
LEMMA HeldStableNext ==
  ASSUME Sound, Sound', HeldClosed, HeldStable, [Next]_vars
  PROVE  HeldStable'
<1>1. ASSUME NEW f \in Func, NEW srcs \in [Slot -> Source \cup Added \cup {None}],
             AddStep(f, srcs)
      PROVE  HeldStable'
  <2> PICK k : k = Target(f)
    OBVIOUS
  <2>1. /\ k \in Step /\ k \notin Held /\ Added' = Added \cup {k} /\ Held' = Held \cup {k}
        /\ pool'[k] = f /\ shim'[k] = srcs
        /\ \A i \in 1 .. Arity[f] : srcs[i] \in Source \cup Held
    BY <1>1, AddStepDoes DEF Sound
  <2>2. asked' = [asked EXCEPT ![k] = <<f, [i \in 1 .. Arity[f] |-> FrameOf(srcs[i])]>>]
    BY <1>1 DEF AddStep, Target
  <2>3. \A g \in Source \cup Held : Frames'[MaxStep][g] = FrameOf(g)
    <3>1. Held \in SUBSET Added /\ Closed(Held) /\ Target(f) \notin Held
      BY <2>1 DEF Held, HeldClosed, Closed
    <3>2. \A g \in Source \cup Held : FrameOf(g)' = FrameOf(g)
      BY <1>1, <3>1, AddKeepsFrames
    <3> QED
      BY <3>2 DEF FrameOf
  <2>4. Frames'[MaxStep][k] = <<f, [i \in 1 .. Arity[f] |-> FrameOf(srcs[i])]>>
    <3>1. (Sound => StepFrames)'
      BY FrameIs, PTL
    <3>2. Frames'[MaxStep][k]
            = <<pool'[k], [i \in Inputs(k)' |-> Frames'[MaxStep][shim'[k][i]]]>>
      BY <2>1, <3>1 DEF StepFrames, FrameOf
    <3>3. Inputs(k)' = 1 .. Arity[f]
      BY <2>1 DEF Inputs
    <3> QED
      BY <2>1, <2>3, <3>2, <3>3
  <2>5. \A g \in Held : Frames'[MaxStep][g] = asked[g]
    BY <2>3 DEF HeldStable, Held
  <2>6. \A g \in Held' : Frames'[MaxStep][g] = asked'[g]
    <3>1. Held \subseteq Step /\ DOMAIN asked = Step
      BY DEF Sound, Typed, Held, Added, Step
    <3> QED
      BY <2>1, <2>2, <2>4, <2>5, <3>1
  <2> QED
    BY <2>6 DEF HeldStable, Held, FrameOf
<1>2. ASSUME NEW k \in Step, Release(k) PROVE HeldStable'
  <2>1. pool' = pool /\ shim' = shim
    BY <1>2 DEF Release
  <2>2. Added' = Added /\ \A g : FrameOf(g)' = FrameOf(g)
    BY <2>1 DEF FrameOf, Frames, Added, Inputs
  <2>3. client' = [client EXCEPT ![k] = FALSE] /\ asked' = [asked EXCEPT ![k] = None]
    BY <1>2 DEF Release
  <2>4. \A g \in Added : client'[g] => client[g] /\ asked'[g] = asked[g]
    BY <2>3 DEF Sound, Typed, Added, Step
  <2> QED
    BY <2>2, <2>4 DEF HeldStable
<1>3. CASE Running
  <2>1. pool' = pool /\ shim' = shim /\ client' = client /\ asked' = asked
    BY <1>3, RunningElsewhere DEF Elsewhere, clientVars
  <2>2. Added' = Added /\ \A g : FrameOf(g)' = FrameOf(g)
    BY <2>1 DEF FrameOf, Frames, Added, Inputs
  <2> QED
    BY <2>1, <2>2 DEF HeldStable
<1> QED
  BY <1>1, <1>2, <1>3, NextCases

\* What holds of the steps at all times.
Steady == Typed /\ Grounded /\ HeldClosed /\ HeldStable

\* All of this holds at first ...
LEMMA SteadyInit ==
  ASSUME Init
  PROVE  Steady
BY TypedInit DEF Steady, Grounded, HeldClosed, HeldStable, Held

\* ... and after every step.
LEMMA SteadyNext ==
  ASSUME Steady, KeepsSources, [Next]_vars
  PROVE  Steady'
<1>1. Typed'
  BY TypedNext DEF Steady
<1>2. Grounded' /\ HeldClosed'
  BY GroundedNext DEF Steady
<1>3. HeldStable'
  BY <1>1, <1>2, HeldStableNext DEF Steady, Sound
<1> QED
  BY <1>1, <1>2, <1>3 DEF Steady

\* It is an invariant of the pathway of a client that keeps its sources.
THEOREM AlwaysSteady ==
  ASSUME KeepsSources
  PROVE  Spec => []Steady
<1>1. Init => Steady
  BY SteadyInit
<1>2. Steady /\ [Next]_vars => Steady'
  BY SteadyNext
<1> QED
  BY <1>1, <1>2, PTL DEF Spec

\* add_step never makes a filter its own source, so that construct returns.
THEOREM NoStepIsItsOwnSource ==
  ASSUME KeepsSources
  PROVE  Spec => []NoCycle
<1>1. Steady => NoCycle
  BY GroundedHasNoCycle DEF Steady, Sound
<1> QED
  BY <1>1, AlwaysSteady, PTL

\* A step computes what add_step was asked for as long as it is held, whatever
\* other steps are used again meanwhile.
THEOREM HeldStepsStay ==
  ASSUME KeepsSources
  PROVE  Spec => []HeldStable
<1>1. Steady => HeldStable
  BY DEF Steady
<1> QED
  BY <1>1, AlwaysSteady, PTL

-----------------------------------------------------------------------------
(* The frames delivered.                                                   *)

\* The substrates there are: those of the steps and of their shims.
Made == {x \in Substrate : x[1] \in Added /\ (x[2] = 0 \/ x[2] \in Inputs(x[1]))}
Whole(x) == inst[x] = [inputs |-> inst[x].inputs, product |-> inst[x].product]
AliveMade == \A x \in Alive : x \in Made /\ Whole(x)

\* What an instance takes in, and what it computed, are what its filter means.
Meant(x) ==
  /\ inst[x].inputs = Dependencies(x)
  /\ inst[x].product # None => inst[x].product = FrameOf(FilterOf(x))
Fresh == ~stale => \A x \in Alive : Meant(x)

\* What the client waits for is what a step it holds is to compute.
CallsHeld ==
  \A k \in Step : calls[k] # None \/ k \in task => k \in Held /\ calls[k] = asked[k]

\* The filter of a substrate is there, and so are the substrates it requests.
LEMMA FilterIs ==
  ASSUME Typed, NEW x \in Made
  PROVE  /\ FilterOf(x) \in Source \cup Added
         /\ Dependencies(x) \subseteq Made
<1>1. FilterOf(x) \in Source \cup Added
  BY DEF Made, FilterOf, Typed
<1>2. ASSUME NEW f \in Added, NEW i \in Inputs(f) PROVE <<f, i>> \in Made
  <2>1. f \in Step /\ i \in Slot
    BY DEF Typed, Added, Step, Inputs, Slot
  <2> QED
    BY <2>1 DEF Made, Substrate, Shim
<1> QED
  BY <1>1, <1>2 DEF Dependencies

\* construct goes no further than these.
LEMMA ReachedMade ==
  ASSUME Typed
  PROVE  \A x \in Made : Reached[2 * MaxStep][x] \subseteq Made
<1> DEFINE Inside(d) == \A x \in Made : Reached[d][x] \subseteq Made
           T == {d \in 0 .. 2 * MaxStep : ~Inside(d)}
<1>1. \A d \in 0 .. 2 * MaxStep : Reached[d] = ReachedLayer(Reached, d)
  BY ReachedEquation
<1>2. \A x \in Made : x \in Substrate
  BY DEF Made
<1>3. Inside(0)
  <2>1. 0 \in 0 .. 2 * MaxStep
    OBVIOUS
  <2>2. Reached[0] = ReachedLayer(Reached, 0)
    BY <1>1, <2>1
  <2> QED
    BY <1>2, <2>2 DEF ReachedLayer
<1>4. ASSUME NEW d \in 1 .. 2 * MaxStep, Inside(d - 1) PROVE Inside(d)
  <2> SUFFICES ASSUME NEW x \in Made PROVE Reached[d][x] \subseteq Made
    OBVIOUS
  <2>1. Reached[d][x] \subseteq {x} \cup UNION {Reached[d - 1][y] : y \in Dependencies(x)}
    <3>1. d \in 0 .. 2 * MaxStep /\ x \in Substrate
      BY <1>2
    <3>2. Reached[d] = ReachedLayer(Reached, d)
      BY <1>1, <3>1
    <3> QED
      BY <3>1, <3>2 DEF ReachedLayer
  <2>2. \A y \in Dependencies(x) : Reached[d - 1][y] \subseteq Made
    BY <1>4, FilterIs
  <2> QED
    BY <2>1, <2>2
<1> HIDE DEF Inside
<1>5. T = {}
  <2> SUFFICES ASSUME T # {} PROVE FALSE
    OBVIOUS
  <2>1. PICK m \in T : \A n \in T : m <= n
    BY LeastNatural, T \in SUBSET Nat
  <2>2. m # 0
    BY <1>3, <2>1
  <2>3. m \in 1 .. 2 * MaxStep /\ m - 1 \in 0 .. 2 * MaxStep /\ m - 1 \notin T
    BY <2>1, <2>2
  <2> QED
    BY <1>4, <2>1, <2>3
<1>6. 2 * MaxStep \in 0 .. 2 * MaxStep
  OBVIOUS
<1> QED
  BY <1>5, <1>6 DEF Inside

\* Instances are where they were made to be, and mean what they did, when nothing
\* below them changes.
LEMMA StillMeant ==
  ASSUME Sound, Sound', inst' = inst, NEW C \in SUBSET Added, Closed(C), C \subseteq Added',
         \A g \in C : /\ pool'[g] = pool[g] /\ Inputs(g)' = Inputs(g)
                      /\ \A i \in Inputs(g) : shim'[g][i] = shim[g][i],
         NEW x \in Alive, Meant(x),
         FilterOf(x) \in Source \cup C, FilterOf(x)' = FilterOf(x)
  PROVE  Meant(x)'
<1>1. Frames'[MaxStep][FilterOf(x)] = FrameOf(FilterOf(x))
  <2>1. \A g \in Source \cup C : FrameOf(g)' = FrameOf(g)
    BY SameFrames
  <2> QED
    BY <2>1 DEF FrameOf
<1>2. FrameOf(FilterOf(x))' = FrameOf(FilterOf(x))
  BY <1>1 DEF FrameOf
<1>3. Dependencies(x)' = Dependencies(x)
  <2>1. FilterOf(x) \notin Source => Inputs(FilterOf(x))' = Inputs(FilterOf(x))
    BY DEF Inputs
  <2> QED
    BY <2>1 DEF Dependencies
<1> QED
  BY <1>2, <1>3 DEF Meant

\* Unless it leaves instances behind the step it uses again, add_step changes
\* nothing below any instance.
LEMMA FreshAdd ==
  ASSUME Sound, Sound', AliveMade, Fresh, NEW f \in Func,
         NEW srcs \in [Slot -> Source \cup Added \cup {None}], AddStep(f, srcs)
  PROVE  AliveMade' /\ Fresh'
<1> PICK k : k = Target(f)
  OBVIOUS
<1>1. /\ k \in Step /\ Added' = Added \cup {k} /\ shim'[k] = srcs
      /\ \A g \in Added : pool'[g] = pool[g]
  BY AddStepDoes DEF Sound
<1>2. \A g \in Added \ {k} : Inputs(g)' = Inputs(g) /\ \A i \in Inputs(g) : shim'[g][i] = shim[g][i]
  BY OthersKeep DEF Sound
<1>3. inst' = inst /\ (stale' <=> stale \/ (shim[k] # srcs /\ LeftBehind(k) # {}))
  BY DEF AddStep, Target, frameVars
<1>4. \A g \in Added : Inputs(g)' = Inputs(g)
  BY <1>1 DEF Inputs
<1>5. Alive' = Alive
  BY <1>3 DEF Alive
<1>6. AliveMade'
  BY <1>1, <1>3, <1>4, <1>5 DEF AliveMade, Made, Whole
<1>7. ASSUME NEW x \in Alive, ~stale' PROVE Meant(x)'
  <2>1. Meant(x) /\ x \in Made
    BY <1>3, <1>7 DEF Fresh, AliveMade
  <2>2. x[1] \in Added /\ FilterOf(x) \in Source \cup Added
    BY <2>1, FilterIs DEF Sound, Made
  <2>3. CASE k \in Added => shim[k] = srcs
    <3>1. \A g \in Added : \A i \in Inputs(g) : shim'[g][i] = shim[g][i]
      BY <1>1, <1>2, <2>3
    <3>2. Added \in SUBSET Added /\ Closed(Added) /\ Added \subseteq Added'
      BY <1>1 DEF Closed, Sound, Typed
    <3>3. FilterOf(x)' = FilterOf(x)
      BY <2>1, <3>1 DEF FilterOf, Made
    <3> QED
      BY <1>1, <1>3, <1>4, <2>1, <2>2, <3>1, <3>2, <3>3, StillMeant
  <2>4. CASE k \in Added /\ shim[k] # srcs
    <3> DEFINE C == {g \in Added : g # k /\ k \notin DependsOn(g)}
    <3>1. x \notin LeftBehind(k)
      BY <1>3, <1>7, <2>4
    <3>2. x[1] # k /\ FilterOf(x) # k /\ k \notin DependsOn(FilterOf(x))
      BY <3>1 DEF LeftBehind
    <3>3. Closed(C)
      <4> SUFFICES ASSUME NEW g \in C, NEW i \in Inputs(g) PROVE shim[g][i] \in Source \cup C
        BY DEF Closed
      <4>1. shim[g][i] \in DependsOn(g) /\ DependsOn(shim[g][i]) \subseteq DependsOn(g)
        BY DependsIs
      <4>2. shim[g][i] \in Source \cup Added
        BY DEF Sound, Typed
      <4> QED
        BY <4>1, <4>2
    <3>4. FilterOf(x) \in Source \cup C
      BY <2>2, <3>2
    <3>5. FilterOf(x)' = FilterOf(x)
      BY <1>2, <2>1, <3>2 DEF FilterOf, Made
    <3>6. C \in SUBSET Added /\ C \subseteq Added'
          /\ \A g \in C : /\ pool'[g] = pool[g] /\ Inputs(g)' = Inputs(g)
                          /\ \A i \in Inputs(g) : shim'[g][i] = shim[g][i]
      BY <1>1, <1>2
    <3> HIDE DEF C
    <3> QED
      BY <1>3, <2>1, <3>3, <3>4, <3>5, <3>6, StillMeant
  <2> QED
    BY <2>3, <2>4
<1> QED
  BY <1>5, <1>6, <1>7 DEF Fresh

\* The other steps leave the filters alone, so that it is enough that the instances
\* they leave mean what they did, and those they make what their filters do.
LEMMA FreshElsewhere ==
  ASSUME pool' = pool, shim' = shim, stale' = stale, AliveMade, Fresh,
         \A x \in Alive' : inst'[x] = inst[x] \/ (x \in Made /\ Whole(x)' /\ (~stale => Meant(x)'))
  PROVE  AliveMade' /\ Fresh'
<1>1. Made' = Made
  BY DEF Made, Added, Inputs
<1>2. \A x \in Alive' : inst'[x] = inst[x] => x \in Alive
  BY DEF Alive
<1>3. \A x : FilterOf(x)' = FilterOf(x) /\ Dependencies(x)' = Dependencies(x)
             /\ FrameOf(FilterOf(x))' = FrameOf(FilterOf(x))
  BY DEF FilterOf, Dependencies, FrameOf, Frames, Added, Inputs
<1>4. ASSUME NEW x \in Alive', inst'[x] = inst[x], ~stale PROVE Meant(x)'
  <2>1. Meant(x)
    BY <1>2, <1>4 DEF Fresh
  <2> QED
    BY <1>3, <1>4, <2>1 DEF Meant
<1> QED
  BY <1>1, <1>2, <1>4 DEF AliveMade, Whole, Fresh

\* A worker computes the frame of its filter.
LEMMA ProcessMeant ==
  ASSUME Sound, AliveMade, Fresh, ~stale, NEW x \in Substrate, Process(x)
  PROVE  inst'[x] = [inst[x] EXCEPT !.product = FrameOf(FilterOf(x))]
<1> DEFINE f == FilterOf(x)
           product == IF f \in Source THEN <<f>>
                      ELSE <<pool[f], [i \in Inputs(f) |->
                             IF <<f, i>> \in inst[x].inputs
                               THEN inst[<<f, i>>].product ELSE None]>>
<1>1. x \in Alive /\ x \in Made /\ Meant(x)
  BY DEF Process, Ready, AliveMade, Fresh
<1>2. f \in Source \cup Added
  BY <1>1, FilterIs DEF Sound
<1>3. inst' = [inst EXCEPT ![x].product = product]
  BY DEF Process
<1>4. product = FrameOf(f)
  <2>1. CASE f \in Source
    BY <2>1, FrameIs DEF SourceFrames
  <2>2. CASE f \notin Source
    <3>1. f \in Added /\ f # 0
      BY <1>2, <2>2 DEF Added
    <3>2. inst[x].inputs = {<<f, i>> : i \in Inputs(f)}
      BY <1>1, <2>2 DEF Meant, Dependencies
    <3>3. ASSUME NEW i \in Inputs(f)
          PROVE  <<f, i>> \in inst[x].inputs /\ inst[<<f, i>>].product = FrameOf(shim[f][i])
      <4>1. <<f, i>> \in inst[x].inputs
        BY <3>2
      <4>2. <<f, i>> \in Alive /\ inst[<<f, i>>].product # None
        BY <4>1 DEF Process, Ready
      <4>3. Meant(<<f, i>>)
        BY <4>2 DEF Fresh
      <4>4. FilterOf(<<f, i>>) = shim[f][i]
        BY DEF FilterOf, Inputs
      <4> QED
        BY <4>1, <4>2, <4>3, <4>4 DEF Meant
    <3>4. product = <<pool[f], [i \in Inputs(f) |-> FrameOf(shim[f][i])]>>
      BY <2>2, <3>3
    <3>5. FrameOf(f) = <<pool[f], [i \in Inputs(f) |-> FrameOf(shim[f][i])]>>
      BY <3>1, FrameIs DEF StepFrames
    <3> QED
      BY <3>4, <3>5
  <2> QED
    BY <2>1, <2>2
<1> HIDE DEF product
<1> QED
  BY <1>3, <1>4 DEF Sound, Typed

\* Instances mean what their filters do, as long as none was left behind.
LEMMA FreshNext ==
  ASSUME Sound, Sound', AliveMade, Fresh, CallsHeld, [Next]_vars
  PROVE  AliveMade' /\ Fresh'
<1>1. ASSUME NEW k \in Step, Release(k) PROVE AliveMade' /\ Fresh'
  <2>1. pool' = pool /\ shim' = shim /\ stale' = stale /\ inst' = inst
    BY <1>1 DEF Release, frameVars
  <2> QED
    BY <2>1, FreshElsewhere
<1>2. CASE Running
  <2>1. pool' = pool /\ shim' = shim /\ stale' = stale
    BY <1>2, RunningElsewhere DEF Elsewhere
  <2> SUFFICES \A x \in Alive' : inst'[x] = inst[x] \/ (x \in Made /\ Whole(x)' /\ (~stale => Meant(x)'))
    BY <2>1, FreshElsewhere
  <2>2. CASE inst' = inst
    BY <2>2
  <2>3. ASSUME NEW k \in Step, Construct(k), NEW x \in Alive', inst'[x] # inst[x]
        PROVE  x \in Made /\ Whole(x)' /\ Meant(x)'
    <3>0. k \in Added
      BY <2>3 DEF Construct, CallsHeld, Held
    <3>1. x \in Substrate
      BY <2>3 DEF Alive
    <3>2. x \in Reached[2 * MaxStep][Own(k)]
          /\ inst'[x] = [inputs |-> Dependencies(x), product |-> None]
      BY <2>3, <3>1 DEF Construct, Sound, Typed
    <3>3. Own(k) \in Made
      BY <3>0 DEF Made, Own, Substrate
    <3>4. x \in Made
      BY <3>2, <3>3, ReachedMade DEF Sound
    <3>5. Dependencies(x)' = Dependencies(x)
      BY <2>1 DEF Dependencies, FilterOf, Inputs
    <3> QED
      BY <3>2, <3>4, <3>5 DEF Meant, Whole
  <2>4. ASSUME NEW y \in Substrate, Process(y), NEW x \in Alive', inst'[x] # inst[x]
        PROVE  x \in Made /\ Whole(x)' /\ (~stale => Meant(x)')
    <3>1. x = y /\ x \in Made /\ Whole(x)
      <4>1. x = y
        BY <2>4 DEF Process, Sound, Typed
      <4> QED
        BY <2>4, <4>1 DEF Process, Ready, AliveMade
    <3>7. \E v : inst'[x] = [inst[x] EXCEPT !.product = v]
      BY <2>4, <3>1 DEF Process, Sound, Typed
    <3>8. Whole(x)'
      BY <3>1, <3>7 DEF Whole
    <3>2. SUFFICES ASSUME ~stale PROVE Meant(x)'
      BY <3>1, <3>8
    <3>3. Meant(x)
      BY <2>4, <3>1, <3>2 DEF Process, Ready, Fresh
    <3>4. inst'[x] = [inst[x] EXCEPT !.product = FrameOf(FilterOf(x))]
      BY <2>4, <3>1, <3>2, ProcessMeant
    <3>5. Dependencies(x)' = Dependencies(x) /\ FrameOf(FilterOf(x))' = FrameOf(FilterOf(x))
      BY <2>1 DEF FilterOf, Dependencies, FrameOf, Frames, Added, Inputs
    <3>6. inst'[x].inputs = inst[x].inputs
          /\ (inst'[x].product = FrameOf(FilterOf(x)) \/ inst'[x].product = inst[x].product)
      BY <3>1, <3>4 DEF Whole
    <3> QED
      BY <3>3, <3>5, <3>6 DEF Meant
  <2>5. ASSUME NEW y \in Substrate, Fail(y), NEW x \in Alive' PROVE inst'[x] = inst[x]
    BY <2>5 DEF Fail, Alive
  <2>6. ASSUME NEW spared \in SUBSET Finished, Sweep(spared), NEW x \in Alive'
        PROVE  inst'[x] = inst[x]
    BY <2>6 DEF Sweep, Alive
  <2>7. Destroy \/ (\E k \in Step : GetFrame(k)) \/ UNCHANGED vars => inst' = inst
    BY DEF Destroy, GetFrame, vars, frameVars
  <2> QED
    BY <1>2, <2>2, <2>3, <2>4, <2>5, <2>6, <2>7 DEF Running, Maintain, Work
<1> QED
  BY <1>1, <1>2, FreshAdd, NextCases

\* A frame is no None.
NoneIsNoFrame == \A h, s : None # <<h, s>>

\* A step whose frame is waited for is not released.
LEMMA CallsNext ==
  ASSUME Sound, HeldClosed, HeldStable, CallsHeld, KeepsSources, NoneIsNoFrame, [Next]_vars
  PROVE  CallsHeld'
<1>1. ASSUME NEW f \in Func, NEW srcs \in [Slot -> Source \cup Added \cup {None}],
             AddStep(f, srcs)
      PROVE  CallsHeld'
  <2> PICK k : k = Target(f)
    OBVIOUS
  <2>1. k \in Step /\ k \notin Held /\ Held' = Held \cup {k}
    BY <1>1, AddStepDoes DEF Sound
  <2>2. /\ \E v : asked' = [asked EXCEPT ![k] = v]
        /\ calls' = calls /\ task' = task
    BY <1>1 DEF AddStep, Target, frameVars
  <2>3. \A g \in Step \ {k} : asked'[g] = asked[g]
    BY <2>2 DEF Sound, Typed
  <2> QED
    BY <2>1, <2>2, <2>3 DEF CallsHeld
<1>2. ASSUME NEW k \in Step, Release(k) PROVE CallsHeld'
  <2>1. k \in Held /\ calls[k] = None
    BY <1>2 DEF Release, Held
  <2>2. asked[k] # None
    <3>1. asked[k] = FrameOf(k)
      BY <2>1 DEF HeldStable, Held
    <3>2. FrameOf(k) # None
      BY <2>1, FrameIs DEF StepFrames, Held, NoneIsNoFrame
    <3> QED
      BY <3>1, <3>2
  <2>3. k \notin task
    BY <2>1, <2>2 DEF CallsHeld
  <2>4. /\ asked' = [asked EXCEPT ![k] = None] /\ client' = [client EXCEPT ![k] = FALSE]
        /\ pool' = pool /\ calls' = calls /\ task' = task
    BY <1>2 DEF Release, frameVars
  <2>5. \A g \in Step \ {k} : asked'[g] = asked[g] /\ (g \in Held => g \in Held')
    BY <2>4 DEF Sound, Typed, Held, Added
  <2> QED
    BY <2>1, <2>3, <2>4, <2>5 DEF CallsHeld
<1>3. CASE Running
  <2>1. asked' = asked /\ Held' = Held
    BY <1>3, RunningElsewhere DEF Elsewhere, clientVars, Held, Added
  <2> SUFFICES ASSUME NEW g \in Step, calls'[g] # None \/ g \in task'
               PROVE  g \in Held /\ calls'[g] = asked[g]
    BY <2>1 DEF CallsHeld
  <2>2. ASSUME NEW k \in Step, GetFrame(k) PROVE g \in Held /\ calls'[g] = asked[g]
    <3>1. k \in Held /\ task' = task \cup {k} /\ calls' = [calls EXCEPT ![k] = asked[k]]
      BY <2>2 DEF GetFrame, Held
    <3> QED
      BY <3>1 DEF CallsHeld, Sound, Typed
  <2>3. ASSUME NEW k \in Step, Construct(k) PROVE g \in Held /\ calls'[g] = asked[g]
    <3>1. k \in task /\ task' = task \ {k}
          /\ (calls' = calls \/ calls' = [calls EXCEPT ![k] = None])
      BY <2>3 DEF Construct, Deliver
    <3> QED
      BY <3>1 DEF CallsHeld, Sound, Typed
  <2>4. ASSUME NEW x \in Substrate, Process(x) PROVE g \in Held /\ calls'[g] = asked[g]
    <3>1. /\ task' = task
          /\ calls' = calls \/ (x[1] \notin task /\ calls' = [calls EXCEPT ![x[1]] = None])
      BY <2>4 DEF Process, Deliver
    <3> QED
      BY <3>1 DEF CallsHeld, Sound, Typed
  <2>5. ASSUME NEW x \in Substrate, Fail(x) PROVE g \in Held /\ calls'[g] = asked[g]
    <3>1. task' = task /\ (calls'[g] = calls[g] \/ (g \notin task /\ calls'[g] = None))
      BY <2>5 DEF Fail
    <3> QED
      BY <3>1 DEF CallsHeld
  <2>6. ASSUME task' = task, calls' = calls PROVE g \in Held /\ calls'[g] = asked[g]
    BY <2>6 DEF CallsHeld
  <2>7. Destroy \/ (\E spared \in SUBSET Finished : Sweep(spared)) \/ UNCHANGED vars
          => task' = task /\ calls' = calls
    BY DEF Destroy, Sweep, vars, frameVars
  <2> QED
    BY <1>3, <2>2, <2>3, <2>4, <2>5, <2>6, <2>7 DEF Running, Maintain, Work
<1> QED
  BY <1>1, <1>2, <1>3, NextCases

\* Frames are delivered from construct, when the instance was finished already, and
\* from the worker that finishes it.
LEMMA FramesTrueNext ==
  ASSUME Sound, HeldStable, AliveMade, Fresh, CallsHeld, FramesTrue, [Next]_vars
  PROVE  FramesTrue'
<1> SUFFICES ASSUME wrong' PROVE stale'
  BY DEF FramesTrue
<1>1. ASSUME wrong' = wrong, stale => stale' PROVE stale'
  BY <1>1 DEF FramesTrue
<1>2. ASSUME NEW k \in Step, Construct(k) PROVE stale'
  <2> SUFFICES ASSUME ~stale PROVE wrong' = wrong
    BY <1>1, <1>2 DEF Construct
  <2>1. k \in Held /\ calls[k] = asked[k]
    BY <1>2 DEF Construct, CallsHeld
  <2>2. CASE inst[Own(k)] # None /\ inst[Own(k)].product # None
    <3>1. Own(k) \in Alive /\ FilterOf(Own(k)) = k
      BY <2>2 DEF Alive, Own, Substrate, FilterOf
    <3>2. inst[Own(k)].product = FrameOf(k)
      BY <2>2, <3>1 DEF Fresh, Meant
    <3>3. FrameOf(k) = calls[k]
      BY <2>1 DEF HeldStable, Held
    <3> QED
      BY <1>2, <2>2, <3>2, <3>3 DEF Construct, Deliver, Sound, Typed
  <2>3. CASE ~(inst[Own(k)] # None /\ inst[Own(k)].product # None)
    BY <1>2, <2>3 DEF Construct
  <2> QED
    BY <2>2, <2>3
<1>3. ASSUME NEW x \in Substrate, Process(x) PROVE stale'
  <2> SUFFICES ASSUME ~stale PROVE wrong' = wrong
    BY <1>1, <1>3 DEF Process
  <2>1. CASE x = Own(x[1]) /\ calls[x[1]] # None /\ x[1] \notin task
    <3> PICK k : k = x[1]
      OBVIOUS
    <3>1. k \in Step /\ FilterOf(x) = k
      BY <2>1 DEF Substrate, Shim, Own, FilterOf
    <3>2. k \in Held /\ calls[k] = asked[k]
      BY <2>1, <3>1 DEF CallsHeld
    <3>3. FrameOf(k) = calls[k]
      BY <3>2 DEF HeldStable, Held
    <3>4. \E v : inst' = [inst EXCEPT ![x].product = v] /\ wrong' = (wrong \/ v # calls[k])
      BY <1>3, <2>1 DEF Process, Deliver
    <3>5. PICK v : inst' = [inst EXCEPT ![x].product = v] /\ wrong' = (wrong \/ v # calls[k])
      BY <3>4
    <3>6. inst'[x] = [inst[x] EXCEPT !.product = v] /\ Whole(x)
      BY <1>3, <3>5 DEF Process, Ready, AliveMade, Sound, Typed
    <3>7. inst'[x] = [inst[x] EXCEPT !.product = FrameOf(k)]
      BY <1>3, <3>1, ProcessMeant
    <3>8. v = FrameOf(k)
      BY <3>6, <3>7 DEF Whole
    <3> QED
      BY <3>3, <3>5, <3>8 DEF Sound, Typed
  <2>2. CASE ~(x = Own(x[1]) /\ calls[x[1]] # None /\ x[1] \notin task)
    BY <1>3, <2>2 DEF Process
  <2> QED
    BY <2>1, <2>2
<1>4. ASSUME NEW f \in Func, NEW srcs \in [Slot -> Source \cup Added \cup {None}],
             AddStep(f, srcs)
      PROVE  stale'
  BY <1>1, <1>4 DEF AddStep, frameVars
<1>5. ASSUME NEW k \in Step, Release(k) \/ GetFrame(k) PROVE stale'
  BY <1>1, <1>5 DEF Release, GetFrame, frameVars
<1>6. ASSUME NEW x \in Substrate, Fail(x) PROVE stale'
  BY <1>1, <1>6 DEF Fail
<1>7. ASSUME NEW spared \in SUBSET Finished, Sweep(spared) PROVE stale'
  BY <1>1, <1>7 DEF Sweep
<1>8. ASSUME Destroy \/ UNCHANGED vars PROVE stale'
  <2>1. wrong' = wrong /\ stale' = stale
    BY <1>8 DEF Destroy, vars, frameVars
  <2> QED
    BY <1>1, <2>1
<1> QED
  BY <1>2, <1>3, <1>4, <1>5, <1>6, <1>7, <1>8, NextCases DEF Running, Maintain, Work

\* What holds of the steps and of the frames at all times.
Faithful == Steady /\ AliveMade /\ Fresh /\ CallsHeld /\ FramesTrue

\* A frame that is delivered is the one that was asked for, unless a step was given
\* other sources while instances were left behind it, which is_unique does not see.
THEOREM FramesAreTrue ==
  ASSUME KeepsSources, NoneIsNoFrame
  PROVE  Spec => []FramesTrue
<1>1. Init => Faithful
  <2>1. Init => Steady
    BY SteadyInit
  <2>2. Init => Alive = {} /\ ~wrong /\ task = {} /\ \A k \in Step : calls[k] = None
    BY DEF Init, Alive
  <2> QED
    BY <2>1, <2>2 DEF Faithful, AliveMade, Fresh, CallsHeld, FramesTrue
<1>2. Faithful /\ [Next]_vars => Faithful'
  <2> SUFFICES ASSUME Faithful, [Next]_vars PROVE Faithful'
    OBVIOUS
  <2>1. Steady' /\ Sound /\ Sound'
    BY SteadyNext DEF Faithful, Steady, Sound
  <2>2. AliveMade' /\ Fresh'
    BY <2>1, FreshNext DEF Faithful
  <2>3. CallsHeld'
    BY <2>1, CallsNext DEF Faithful, Steady
  <2>4. FramesTrue'
    BY <2>1, FramesTrueNext DEF Faithful, Steady
  <2> QED
    BY <2>1, <2>2, <2>3, <2>4 DEF Faithful
<1>3. Faithful => FramesTrue
  BY DEF Faithful
<1> QED
  BY <1>1, <1>2, <1>3, PTL DEF Spec

=============================================================================
