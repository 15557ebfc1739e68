---------------------------- MODULE FramesProofs ----------------------------
(***************************************************************************)
(* Proofs about Frames.  All the places that can refer to an object, the   *)
(* holders, the two members of a frame, the member of a table and the      *)
(* clones that were not assigned yet, are slots of one function, and the   *)
(* count of every object is the number of slots that point to it.  Every   *)
(* step of Frames is some changes of single slots.                         *)
(***************************************************************************)
EXTENDS Frames, FiniteSetTheorems, TLAPS

HoldsAt(h) == <<"holds", h>>
PlaneAt(f) == <<"plane", f>>
PropsAt(f) == <<"props", f>>
EntryAt(m) == <<"entry", m>>
CopyAt(t) == <<"copy", t>>

Slot ==
  {HoldsAt(h) : h \in Holder} \cup {PlaneAt(f) : f \in Frame}
    \cup {PropsAt(f) : f \in Frame} \cup {EntryAt(m) : m \in Table}
    \cup {CopyAt(t) : t \in Thread}

\* The function of the slots, from one function for every kind of slot.
Slots(H, L, R, E, C) ==
  [s \in Slot |->
     CASE s[1] = "holds" -> H[s[2]]
       [] s[1] = "plane" -> L[s[2]]
       [] s[1] = "props" -> R[s[2]]
       [] s[1] = "entry" -> E[s[2]]
       [] OTHER -> C[s[2]]]

\* The members of free memory count for nothing.
Planes(c, F) == [f \in Frame |-> IF c[f] > 0 THEN F[f].plane ELSE None]
Tables(c, F) == [f \in Frame |-> IF c[f] > 0 THEN F[f].props ELSE None]
Entries(c, E) == [m \in Table |-> IF c[m] > 0 THEN E[m] ELSE None]
Points(c, H, F, E, C) == Slots(H, Planes(c, F), Tables(c, F), Entries(c, E), C)

Users(P, o) == {s \in Slot : P[s] = o}
Exact(c, P) == \A o \in Object : c[o] = Cardinality(Users(P, o))

Counts == [Object -> Nat]
Pointers == [Slot -> Object \cup {None}]
-----------------------------------------------------------------------------
(* Slots *)

\* Tagging the elements of a finite set does not change their number.
LEMMA Tagged ==
  ASSUME NEW k, NEW S, IsFiniteSet(S)
  PROVE  LET T == {<<k, x>> : x \in S}
         IN  IsFiniteSet(T) /\ Cardinality(T) = Cardinality(S)
<1> DEFINE T == {<<k, x>> : x \in S}
           tag == [x \in S |-> <<k, x>>]
<1>1. tag \in [S -> T]
  OBVIOUS
<1>2. \A x, y \in S : tag[x] = tag[y] => x = y
  OBVIOUS
<1>3. \A y \in T : \E x \in S : tag[x] = y
  OBVIOUS
<1>4. tag \in Bijection(S, T)
  BY <1>1, <1>2, <1>3 DEF Bijection, Injection, Surjection, IsInjective
<1>5. ExistsBijection(S, T)
  BY <1>4 DEF ExistsBijection
<1> QED
  BY <1>5, FS_Bijection

\* There are finitely many slots.
LEMMA SlotsFinite == IsFiniteSet(Slot)
<1> DEFINE A == {HoldsAt(h) : h \in Holder}
           B == {PlaneAt(f) : f \in Frame}
           C == {PropsAt(f) : f \in Frame}
           D == {EntryAt(m) : m \in Table}
           E == {CopyAt(t) : t \in Thread}
<1>1. IsFiniteSet(Frame) /\ IsFiniteSet(Table) /\ IsFiniteSet(Thread)
  BY ObjectAssumption, HolderAssumption
<1>2. IsFiniteSet(Holder)
  BY HolderAssumption, FS_Union DEF Holder
<1>3. IsFiniteSet(A) /\ IsFiniteSet(B) /\ IsFiniteSet(C) /\ IsFiniteSet(D) /\ IsFiniteSet(E)
  <2>1. IsFiniteSet(A)
    BY <1>2, Tagged DEF HoldsAt
  <2>2. IsFiniteSet(B)
    BY <1>1, Tagged DEF PlaneAt
  <2>3. IsFiniteSet(C)
    BY <1>1, Tagged DEF PropsAt
  <2>4. IsFiniteSet(D)
    BY <1>1, Tagged DEF EntryAt
  <2>5. IsFiniteSet(E)
    BY <1>1, Tagged DEF CopyAt
  <2> QED
    BY <2>1, <2>2, <2>3, <2>4, <2>5
<1>4. IsFiniteSet(A \cup B) /\ IsFiniteSet(C \cup D)
  BY <1>3, FS_Union
<1>5. IsFiniteSet((A \cup B) \cup (C \cup D))
  BY <1>4, FS_Union
<1>6. IsFiniteSet(((A \cup B) \cup (C \cup D)) \cup E)
  BY <1>3, <1>5, FS_Union
<1>7. Slot = ((A \cup B) \cup (C \cup D)) \cup E
  BY DEF Slot
<1> QED
  BY <1>6, <1>7

\* Every slot is of one of the five kinds.
LEMMA SlotKinds ==
  /\ \A h \in Holder : HoldsAt(h) \in Slot
  /\ \A f \in Frame : PlaneAt(f) \in Slot /\ PropsAt(f) \in Slot
  /\ \A m \in Table : EntryAt(m) \in Slot
  /\ \A t \in Thread : CopyAt(t) \in Slot
  /\ \A s \in Slot :
       \/ \E h \in Holder : s = HoldsAt(h)
       \/ \E f \in Frame : s = PlaneAt(f) \/ s = PropsAt(f)
       \/ \E m \in Table : s = EntryAt(m)
       \/ \E t \in Thread : s = CopyAt(t)
BY DEF Slot

\* Slots of different kinds, or of different owners, are different.
LEMMA SlotsDiffer ==
  \A x, y :
    /\ HoldsAt(x) # PlaneAt(y) /\ HoldsAt(x) # PropsAt(y) /\ HoldsAt(x) # EntryAt(y)
    /\ HoldsAt(x) # CopyAt(y) /\ PlaneAt(x) # PropsAt(y) /\ PlaneAt(x) # EntryAt(y)
    /\ PlaneAt(x) # CopyAt(y) /\ PropsAt(x) # EntryAt(y) /\ PropsAt(x) # CopyAt(y)
    /\ EntryAt(x) # CopyAt(y)
    /\ HoldsAt(x) = HoldsAt(y) <=> x = y
    /\ PlaneAt(x) = PlaneAt(y) <=> x = y
    /\ PropsAt(x) = PropsAt(y) <=> x = y
    /\ EntryAt(x) = EntryAt(y) <=> x = y
    /\ CopyAt(x) = CopyAt(y) <=> x = y
BY DEF HoldsAt, PlaneAt, PropsAt, EntryAt, CopyAt

\* What every kind of slot points to.
LEMMA PointsAt ==
  ASSUME NEW c, NEW H, NEW F, NEW E, NEW C, NEW P, P = Points(c, H, F, E, C)
  PROVE  /\ P = [s \in Slot |-> P[s]]
         /\ \A h \in Holder : P[HoldsAt(h)] = H[h]
         /\ \A f \in Frame : P[PlaneAt(f)] = IF c[f] > 0 THEN F[f].plane ELSE None
         /\ \A f \in Frame : P[PropsAt(f)] = IF c[f] > 0 THEN F[f].props ELSE None
         /\ \A m \in Table : P[EntryAt(m)] = IF c[m] > 0 THEN E[m] ELSE None
         /\ \A t \in Thread : P[CopyAt(t)] = C[t]
<1>1. P = [s \in Slot |-> P[s]]
  BY DEF Points, Slots
<1>2. \A h \in Holder : P[HoldsAt(h)] = H[h]
  BY SlotKinds DEF Points, Slots, HoldsAt
<1>3. \A f \in Frame : P[PlaneAt(f)] = IF c[f] > 0 THEN F[f].plane ELSE None
  BY SlotKinds DEF Points, Slots, Planes, PlaneAt
<1>4. \A f \in Frame : P[PropsAt(f)] = IF c[f] > 0 THEN F[f].props ELSE None
  BY SlotKinds DEF Points, Slots, Tables, PropsAt
<1>5. \A m \in Table : P[EntryAt(m)] = IF c[m] > 0 THEN E[m] ELSE None
  BY SlotKinds DEF Points, Slots, Entries, EntryAt
<1>6. \A t \in Thread : P[CopyAt(t)] = C[t]
  BY SlotKinds DEF Points, Slots, CopyAt
<1> QED
  BY <1>1, <1>2, <1>3, <1>4, <1>5, <1>6

IsFunction(f, S) == f = [x \in S |-> f[x]]
Put(f, i, x) == [f EXCEPT ![i] = x]

\* A change of one slot is a change of one function: the holders.
LEMMA SetHolds ==
  ASSUME NEW H, NEW L, NEW R, NEW E, NEW C, NEW x, NEW i \in Holder,
         IsFunction(H, Holder)
  PROVE  /\ Put(Slots(H, L, R, E, C), HoldsAt(i), x)
              = Slots(Put(H, i, x), L, R, E, C)
         /\ Slots(H, L, R, E, C)[HoldsAt(i)] = H[i]
<1> DEFINE P == Slots(H, L, R, E, C)
           Q == Slots(Put(H, i, x), L, R, E, C)
<1>1. HoldsAt(i) \in Slot
  BY SlotKinds
<1>2. ASSUME NEW s \in Slot
      PROVE  Q[s] = IF s = HoldsAt(i) THEN x ELSE P[s]
  <2>1. CASE s[1] = "holds"
    <3>1. PICK j \in Holder : s = HoldsAt(j)
      BY <2>1, SlotKinds DEF HoldsAt, PlaneAt, PropsAt, EntryAt, CopyAt
    <3> QED
      BY <3>1 DEF Slots, HoldsAt, IsFunction, Put
  <2>2. CASE s[1] # "holds"
    BY <2>2 DEF Slots, HoldsAt
  <2> QED
    BY <2>1, <2>2
<1>3. P[HoldsAt(i)] = H[i]
  BY <1>1 DEF Slots, HoldsAt
<1> QED
  BY <1>1, <1>2, <1>3 DEF Slots, Put

\* A change of one slot is a change of one function: the planes of frames.
LEMMA SetPlane ==
  ASSUME NEW H, NEW L, NEW R, NEW E, NEW C, NEW x, NEW i \in Frame,
         IsFunction(L, Frame)
  PROVE  /\ Put(Slots(H, L, R, E, C), PlaneAt(i), x)
              = Slots(H, Put(L, i, x), R, E, C)
         /\ Slots(H, L, R, E, C)[PlaneAt(i)] = L[i]
<1> DEFINE P == Slots(H, L, R, E, C)
           Q == Slots(H, Put(L, i, x), R, E, C)
<1>1. PlaneAt(i) \in Slot
  BY SlotKinds
<1>2. ASSUME NEW s \in Slot
      PROVE  Q[s] = IF s = PlaneAt(i) THEN x ELSE P[s]
  <2>1. CASE s[1] = "plane"
    <3>1. PICK j \in Frame : s = PlaneAt(j)
      BY <2>1, SlotKinds DEF HoldsAt, PlaneAt, PropsAt, EntryAt, CopyAt
    <3> QED
      BY <3>1 DEF Slots, PlaneAt, IsFunction, Put
  <2>2. CASE s[1] # "plane"
    BY <2>2 DEF Slots, PlaneAt
  <2> QED
    BY <2>1, <2>2
<1>3. P[PlaneAt(i)] = L[i]
  BY <1>1 DEF Slots, PlaneAt
<1> QED
  BY <1>1, <1>2, <1>3 DEF Slots, Put

\* A change of one slot is a change of one function: the tables of frames.
LEMMA SetProps ==
  ASSUME NEW H, NEW L, NEW R, NEW E, NEW C, NEW x, NEW i \in Frame,
         IsFunction(R, Frame)
  PROVE  /\ Put(Slots(H, L, R, E, C), PropsAt(i), x)
              = Slots(H, L, Put(R, i, x), E, C)
         /\ Slots(H, L, R, E, C)[PropsAt(i)] = R[i]
<1> DEFINE P == Slots(H, L, R, E, C)
           Q == Slots(H, L, Put(R, i, x), E, C)
<1>1. PropsAt(i) \in Slot
  BY SlotKinds
<1>2. ASSUME NEW s \in Slot
      PROVE  Q[s] = IF s = PropsAt(i) THEN x ELSE P[s]
  <2>1. CASE s[1] = "props"
    <3>1. PICK j \in Frame : s = PropsAt(j)
      BY <2>1, SlotKinds DEF HoldsAt, PlaneAt, PropsAt, EntryAt, CopyAt
    <3> QED
      BY <3>1 DEF Slots, PropsAt, IsFunction, Put
  <2>2. CASE s[1] # "props"
    BY <2>2 DEF Slots, PropsAt
  <2> QED
    BY <2>1, <2>2
<1>3. P[PropsAt(i)] = R[i]
  BY <1>1 DEF Slots, PropsAt
<1> QED
  BY <1>1, <1>2, <1>3 DEF Slots, Put

\* A change of one slot is a change of one function: the members of tables.
LEMMA SetEntry ==
  ASSUME NEW H, NEW L, NEW R, NEW E, NEW C, NEW x, NEW i \in Table,
         IsFunction(E, Table)
  PROVE  /\ Put(Slots(H, L, R, E, C), EntryAt(i), x)
              = Slots(H, L, R, Put(E, i, x), C)
         /\ Slots(H, L, R, E, C)[EntryAt(i)] = E[i]
<1> DEFINE P == Slots(H, L, R, E, C)
           Q == Slots(H, L, R, Put(E, i, x), C)
<1>1. EntryAt(i) \in Slot
  BY SlotKinds
<1>2. ASSUME NEW s \in Slot
      PROVE  Q[s] = IF s = EntryAt(i) THEN x ELSE P[s]
  <2>1. CASE s[1] = "entry"
    <3>1. PICK j \in Table : s = EntryAt(j)
      BY <2>1, SlotKinds DEF HoldsAt, PlaneAt, PropsAt, EntryAt, CopyAt
    <3> QED
      BY <3>1 DEF Slots, EntryAt, IsFunction, Put
  <2>2. CASE s[1] # "entry"
    BY <2>2 DEF Slots, EntryAt
  <2> QED
    BY <2>1, <2>2
<1>3. P[EntryAt(i)] = E[i]
  BY <1>1 DEF Slots, EntryAt
<1> QED
  BY <1>1, <1>2, <1>3 DEF Slots, Put

\* A change of one slot is a change of one function: the clones.
LEMMA SetCopy ==
  ASSUME NEW H, NEW L, NEW R, NEW E, NEW C, NEW x, NEW i \in Thread,
         IsFunction(C, Thread)
  PROVE  /\ Put(Slots(H, L, R, E, C), CopyAt(i), x)
              = Slots(H, L, R, E, Put(C, i, x))
         /\ Slots(H, L, R, E, C)[CopyAt(i)] = C[i]
<1> DEFINE P == Slots(H, L, R, E, C)
           Q == Slots(H, L, R, E, Put(C, i, x))
<1>1. CopyAt(i) \in Slot
  BY SlotKinds
<1>2. ASSUME NEW s \in Slot
      PROVE  Q[s] = IF s = CopyAt(i) THEN x ELSE P[s]
  <2>1. CASE s[1] = "copy"
    <3>1. PICK j \in Thread : s = CopyAt(j)
      BY <2>1, SlotKinds DEF HoldsAt, PlaneAt, PropsAt, EntryAt, CopyAt
    <3> QED
      BY <3>1 DEF Slots, CopyAt, IsFunction, Put
  <2>2. CASE s[1] # "copy"
    <3>1. s[1] \in {"holds", "plane", "props", "entry"}
      BY <2>2, SlotKinds DEF HoldsAt, PlaneAt, PropsAt, EntryAt, CopyAt
    <3> QED
      BY <3>1 DEF Slots, CopyAt
  <2> QED
    BY <2>1, <2>2
<1>3. P[CopyAt(i)] = C[i]
  BY <1>1 DEF Slots, CopyAt
<1> QED
  BY <1>1, <1>2, <1>3 DEF Slots, Put

-----------------------------------------------------------------------------
(* Counting *)

\* The users of an object are finitely many.
LEMMA UsersFinite ==
  ASSUME NEW P, NEW o
  PROVE  IsFiniteSet(Users(P, o)) /\ Cardinality(Users(P, o)) \in Nat
BY SlotsFinite, FS_Subset, FS_CardinalityType DEF Users

\* What no slot points to has the count zero, and the other way round.
LEMMA Unused ==
  ASSUME NEW c, NEW P, Exact(c, P), NEW o \in Object
  PROVE  c[o] = 0 <=> \A s \in Slot : P[s] # o
<1>1. c[o] = Cardinality(Users(P, o))
  BY DEF Exact
<1>2. c[o] = 0 <=> Users(P, o) = {}
  BY <1>1, UsersFinite, FS_EmptySet
<1> QED
  BY <1>2 DEF Users

\* What has the count one is pointed to by one slot only.
LEMMA Sole ==
  ASSUME NEW c, NEW P, Exact(c, P), NEW o \in Object, NEW s \in Slot, P[s] = o
  PROVE  c[o] = 1 <=> \A r \in Slot : P[r] = o => r = s
<1>1. c[o] = Cardinality(Users(P, o))
  BY DEF Exact
<1>2. c[o] = 1 <=> \E x : Users(P, o) = {x}
  BY <1>1, UsersFinite, FS_Singleton
<1>3. s \in Users(P, o)
  BY DEF Users
<1>4. c[o] = 1 <=> Users(P, o) = {s}
  BY <1>2, <1>3
<1> QED
  BY <1>3, <1>4 DEF Users

\* A slot that is pointed elsewhere gives up its reference and takes another:
\* the counts stay exact.
LEMMA Repoint ==
  ASSUME NEW c \in Counts, NEW P \in Pointers, Exact(c, P),
         NEW s \in Slot, NEW x \in Object \cup {None},
         NEW Q, Q = [P EXCEPT ![s] = x],
         NEW d, d = Less(AddRefs(c, {x}), P[s])
  PROVE  d \in Counts /\ Q \in Pointers /\ Exact(d, Q)
<1>1. Q \in Pointers
  BY DEF Pointers
<1>2. d = [o \in Object |-> d[o]]
  BY DEF Less
<1>3. ASSUME NEW o \in Object
      PROVE  d[o] \in Nat /\ d[o] = Cardinality(Users(Q, o))
  <2>1. c[o] \in Nat /\ c[o] = Cardinality(Users(P, o))
    BY DEF Counts, Exact
  <2>2. d[o] = c[o] + (IF o = x THEN 1 ELSE 0) - (IF o = P[s] THEN 1 ELSE 0)
    BY <2>1 DEF Less, AddRefs
  <2>3. \A r \in Slot : Q[r] = IF r = s THEN x ELSE P[r]
    BY DEF Pointers
  <2>4. IsFiniteSet(Users(P, o))
    BY UsersFinite
  <2>5. CASE (o = x) <=> (o = P[s])
    <3>1. Users(Q, o) = Users(P, o)
      BY <2>3, <2>5 DEF Users
    <3> QED
      BY <3>1, <2>1, <2>2, <2>5
  <2>6. CASE o = x /\ o # P[s]
    <3>1. Users(Q, o) = Users(P, o) \cup {s} /\ s \notin Users(P, o)
      BY <2>3, <2>6 DEF Users
    <3>2. Cardinality(Users(Q, o)) = Cardinality(Users(P, o)) + 1
      BY <3>1, <2>4, FS_AddElement
    <3> QED
      BY <3>2, <2>1, <2>2, <2>6
  <2>7. CASE o # x /\ o = P[s]
    <3>1. Users(Q, o) = Users(P, o) \ {s} /\ s \in Users(P, o)
      BY <2>3, <2>7 DEF Users
    <3>2. Cardinality(Users(Q, o)) = Cardinality(Users(P, o)) - 1
      BY <3>1, <2>4, FS_RemoveElement
    <3>3. Cardinality(Users(Q, o)) \in Nat
      BY UsersFinite
    <3> QED
      BY <3>2, <3>3, <2>1, <2>2, <2>7
  <2> QED
    BY <2>5, <2>6, <2>7
<1>4. Exact(d, Q)
  BY <1>3 DEF Exact
<1>5. d \in Counts
  BY <1>2, <1>3 DEF Counts
<1> QED
  BY <1>1, <1>4, <1>5

-----------------------------------------------------------------------------
(* The inductive invariant *)

pts == Points(count, holds, frame, entry, copy)

Working == {"clone plane", "assign plane", "plane",
            "clone props", "assign props", "props", "append"}

TypeOK ==
  /\ count \in Counts
  /\ frame \in [Frame -> [plane : Plane \cup {None}, props : Table \cup {None}]]
  /\ bytes \in [Plane -> Byte]
  /\ entry \in [Table -> Number \cup {None}]
  /\ number \in [Number -> Elements]
  /\ holds \in [Holder -> Frame \cup {None}]
  /\ mutable \subseteq Ref
  /\ pc \in [Thread -> Working \cup {"idle"}]
  /\ ref \in [Thread -> Ref \cup {None}]
  /\ copy \in [Thread -> Plane \cup Table \cup {None}]

\* A frame that is referred to has a plane and a table.
Live ==
  \A f \in Frame : count[f] > 0 => frame[f].plane \in Plane /\ frame[f].props \in Table

CountsAgree == Exact(count, pts)

Base == TypeOK /\ Live /\ CountsAgree

\* A reference that may be written through is the only one to its frame.
Own ==
  \A h \in mutable :
    holds[h] # None /\ \A g \in Holder : holds[g] = holds[h] => g = h

\* The frame a thread writes to, its plane, its table and its number.
Written(t) == holds[ref[t]]
MyPlane(t) == frame[Written(t)].plane

\* What a thread writes to, or has just made, nothing else refers to.
Guarded(t) ==
  CASE pc[t] = "plane" -> {MyPlane(t)}
    [] pc[t] \in {"assign plane", "assign props"} -> {copy[t]}
    [] pc[t] = "props" -> {MyTable(t)}
    [] pc[t] = "append" -> {MyTable(t), MyNumber(t)}
    [] OTHER -> {}

\* What holds of every thread that is writing to a frame.
Writing(t) ==
  /\ pc[t] # "idle" => ref[t] \in mutable /\ ref[t][1] = t
  /\ pc[t] \notin {"assign plane", "assign props"} => copy[t] = None
  /\ \A o \in Guarded(t) : count[o] = 1
  /\ pc[t] = "assign plane" => copy[t] \in Plane /\ bytes[copy[t]] = bytes[MyPlane(t)]
  /\ pc[t] = "assign props" => copy[t] \in Table /\ entry[copy[t]] = entry[MyTable(t)]
  /\ pc[t] = "append" => MyNumber(t) \in Number /\ Len(number[MyNumber(t)]) < MaxLen

IInv == Base /\ Own /\ \A t \in Thread : Writing(t)
-----------------------------------------------------------------------------
(* What the invariant says of the objects *)

\* The slots point to objects.
LEMMA PointersTyped ==
  ASSUME TypeOK, Live
  PROVE  pts \in Pointers
<1>1. pts = [s \in Slot |-> pts[s]]
  BY PointsAt DEF pts
<1>2. ASSUME NEW s \in Slot
      PROVE  pts[s] \in Object \cup {None}
  <2>1. CASE \E h \in Holder : s = HoldsAt(h)
    BY <2>1, PointsAt DEF pts, TypeOK, Object
  <2>2. CASE \E f \in Frame : s = PlaneAt(f) \/ s = PropsAt(f)
    BY <2>2, PointsAt DEF pts, Live, Object
  <2>3. CASE \E m \in Table : s = EntryAt(m)
    BY <2>3, PointsAt DEF pts, TypeOK, Object
  <2>4. CASE \E t \in Thread : s = CopyAt(t)
    BY <2>4, PointsAt DEF pts, TypeOK, Object
  <2> QED
    BY <2>1, <2>2, <2>3, <2>4, SlotKinds
<1> QED
  BY <1>1, <1>2 DEF Pointers

\* What a slot points to is referred to.
LEMMA Counted ==
  ASSUME Base, NEW s \in Slot, pts[s] # None
  PROVE  pts[s] \in Object /\ count[pts[s]] \in Nat \ {0}
<1>1. pts[s] \in Object
  BY PointersTyped DEF Base, Pointers
<1>2. count[pts[s]] \in Nat /\ count[pts[s]] # 0
  BY <1>1, Unused DEF Base, TypeOK, Counts, CountsAgree
<1> QED
  BY <1>1, <1>2

\* A frame that is referred to, and what it refers to.
LEMMA FrameLive ==
  ASSUME Base, NEW f \in Frame, count[f] > 0
  PROVE  /\ frame[f].plane \in Plane /\ count[frame[f].plane] \in Nat \ {0}
         /\ frame[f].props \in Table /\ count[frame[f].props] \in Nat \ {0}
         /\ entry[frame[f].props] \in Number \cup {None}
         /\ entry[frame[f].props] # None => count[entry[frame[f].props]] \in Nat \ {0}
         /\ pts[PlaneAt(f)] = frame[f].plane /\ pts[PropsAt(f)] = frame[f].props
         /\ pts[EntryAt(frame[f].props)] = entry[frame[f].props]
<1>1. frame[f].plane \in Plane /\ frame[f].props \in Table
  BY DEF Base, Live
<1>2. frame[f].plane # None /\ frame[f].props # None
  BY <1>1, ObjectAssumption
<1>3. pts[PlaneAt(f)] = frame[f].plane /\ pts[PropsAt(f)] = frame[f].props
  BY PointsAt DEF pts
<1>4. count[frame[f].plane] \in Nat \ {0} /\ count[frame[f].props] \in Nat \ {0}
  BY <1>2, <1>3, Counted, SlotKinds
<1>5. pts[EntryAt(frame[f].props)] = entry[frame[f].props]
  BY <1>1, <1>4, PointsAt DEF pts
<1>6. entry[frame[f].props] # None => count[entry[frame[f].props]] \in Nat \ {0}
  BY <1>1, <1>5, Counted, SlotKinds
<1>7. entry[frame[f].props] \in Number \cup {None}
  BY <1>1 DEF Base, TypeOK
<1> QED
  BY <1>1, <1>3, <1>4, <1>5, <1>6, <1>7

\* What a holder refers to is referred to.
LEMMA HolderLive ==
  ASSUME Base, NEW h \in Holder, holds[h] # None
  PROVE  holds[h] \in Frame /\ count[holds[h]] \in Nat \ {0} /\ pts[HoldsAt(h)] = holds[h]
<1>1. pts[HoldsAt(h)] = holds[h]
  BY PointsAt DEF pts
<1>2. holds[h] \in Frame
  BY DEF Base, TypeOK
<1> QED
  BY <1>1, <1>2, Counted, SlotKinds

\* So is a clone.
LEMMA CopyLive ==
  ASSUME Base, NEW t \in Thread, copy[t] # None
  PROVE  /\ copy[t] \in Plane \cup Table /\ count[copy[t]] \in Nat \ {0}
         /\ pts[CopyAt(t)] = copy[t]
<1>1. pts[CopyAt(t)] = copy[t]
  BY PointsAt DEF pts
<1>2. copy[t] \in Plane \cup Table
  BY DEF Base, TypeOK
<1> QED
  BY <1>1, <1>2, Counted, SlotKinds

\* An object that is referred to once is referred to by one slot.
LEMMA OneSlot ==
  ASSUME Base, NEW o \in Object, count[o] = 1, NEW r \in Slot, NEW s \in Slot,
         pts[r] = o, pts[s] = o
  PROVE  r = s
BY Sole DEF Base, CountsAgree

-----------------------------------------------------------------------------
(* What is written to is apart from everything else *)

\* What a thread that is busy refers to.
LEMMA Busy ==
  ASSUME IInv, NEW t \in Thread, pc[t] # "idle"
  PROVE  /\ ref[t] \in mutable /\ ref[t] \in Ref /\ ref[t] \in Holder /\ ref[t][1] = t
         /\ Written(t) \in Frame /\ count[Written(t)] \in Nat \ {0}
         /\ \A g \in Holder : holds[g] = Written(t) => g = ref[t]
<1>1. ref[t] \in mutable /\ ref[t][1] = t
  BY DEF IInv, Writing
<1>2. ref[t] \in Ref /\ ref[t] \in Holder
  BY <1>1 DEF IInv, Base, TypeOK, Holder
<1>3. holds[ref[t]] # None /\ \A g \in Holder : holds[g] = holds[ref[t]] => g = ref[t]
  BY <1>1 DEF IInv, Own
<1>4. holds[ref[t]] \in Frame /\ count[holds[ref[t]]] \in Nat \ {0}
  BY <1>2, <1>3, HolderLive DEF IInv
<1> QED
  BY <1>1, <1>2, <1>3, <1>4 DEF Written

\* What is guarded is referred to by one slot.
LEMMA GuardedSlot ==
  ASSUME IInv, NEW t \in Thread, NEW o \in Guarded(t)
  PROVE  /\ pc[t] # "idle" /\ o \in Object /\ count[o] = 1
         /\ \/ o = MyPlane(t) /\ o \in Plane /\ pts[PlaneAt(Written(t))] = o
            \/ o = MyTable(t) /\ o \in Table /\ pts[PropsAt(Written(t))] = o
            \/ o = copy[t] /\ o \in Plane \cup Table /\ pts[CopyAt(t)] = o
            \/ o = MyNumber(t) /\ o \in Number /\ pts[EntryAt(MyTable(t))] = o
                 /\ MyTable(t) \in Guarded(t)
<1>1. count[o] = 1
  BY DEF IInv, Writing
<1>2. pc[t] # "idle" /\ pc[t] \in Working
  BY DEF Guarded, IInv, Base, TypeOK
<1>3. Written(t) \in Frame /\ count[Written(t)] \in Nat \ {0}
  BY <1>2, Busy
<1>4. CASE pc[t] = "plane"
  <2>1. o = MyPlane(t)
    BY <1>4 DEF Guarded
  <2>2. MyPlane(t) \in Plane /\ pts[PlaneAt(Written(t))] = MyPlane(t)
    BY <1>3, FrameLive DEF IInv, MyPlane
  <2> QED
    BY <1>1, <1>2, <2>1, <2>2 DEF Object
<1>5. CASE pc[t] \in {"assign plane", "assign props"}
  <2>1. o = copy[t]
    BY <1>5 DEF Guarded
  <2>2. copy[t] \in Plane \cup Table
    BY <1>5 DEF IInv, Writing
  <2>3. pts[CopyAt(t)] = copy[t]
    BY PointsAt DEF pts
  <2> QED
    BY <1>1, <1>2, <2>1, <2>2, <2>3 DEF Object
<1>6. CASE pc[t] \in {"props", "append"}
  <2>1. MyTable(t) \in Table /\ pts[PropsAt(Written(t))] = MyTable(t)
        /\ pts[EntryAt(MyTable(t))] = MyNumber(t)
    BY <1>3, FrameLive DEF IInv, MyTable, Written, MyNumber
  <2>2. CASE o = MyTable(t)
    BY <1>1, <1>2, <2>1, <2>2 DEF Object
  <2>3. CASE o # MyTable(t)
    <3>1. pc[t] = "append" /\ o = MyNumber(t) /\ MyTable(t) \in Guarded(t)
      BY <1>6, <2>3 DEF Guarded
    <3>2. MyNumber(t) \in Number
      BY <3>1 DEF IInv, Writing
    <3> QED
      BY <1>1, <1>2, <2>1, <3>1, <3>2 DEF Object
  <2> QED
    BY <2>2, <2>3
<1> QED
  BY <1>2, <1>4, <1>5, <1>6 DEF Guarded

\* Nothing that another holder's frame refers to is guarded.
LEMMA Apart ==
  ASSUME IInv, NEW t \in Thread, pc[t] # "idle",
         NEW h \in Holder, h # ref[t], holds[h] # None
  PROVE  /\ holds[h] # Written(t)
         /\ frame[holds[h]].plane \notin Guarded(t)
         /\ frame[holds[h]].props \notin Guarded(t)
         /\ entry[frame[holds[h]].props] \notin Guarded(t)
<1> DEFINE f == holds[h]
<1>1. f # Written(t) /\ Written(t) \in Frame /\ count[Written(t)] \in Nat \ {0}
  BY Busy
<1>2. f \in Frame /\ count[f] \in Nat \ {0}
  BY HolderLive DEF IInv
<1>3. /\ frame[f].plane \in Plane /\ frame[f].props \in Table
      /\ pts[PlaneAt(f)] = frame[f].plane /\ pts[PropsAt(f)] = frame[f].props
      /\ pts[EntryAt(frame[f].props)] = entry[frame[f].props]
      /\ entry[frame[f].props] \in Number \cup {None}
  BY <1>2, FrameLive DEF IInv
<1>4. /\ PlaneAt(f) \in Slot /\ PropsAt(f) \in Slot /\ EntryAt(frame[f].props) \in Slot
      /\ PlaneAt(Written(t)) \in Slot /\ PropsAt(Written(t)) \in Slot /\ CopyAt(t) \in Slot
  BY <1>1, <1>2, <1>3, SlotKinds
<1>5. frame[f].plane \notin Guarded(t)
  <2> SUFFICES ASSUME frame[f].plane \in Guarded(t) PROVE FALSE
    OBVIOUS
  <2>2. pts[PlaneAt(Written(t))] = frame[f].plane \/ pts[CopyAt(t)] = frame[f].plane
    BY <1>3, GuardedSlot, ObjectAssumption
  <2>3. frame[f].plane \in Object /\ count[frame[f].plane] = 1
    BY GuardedSlot
  <2>4. PlaneAt(f) = PlaneAt(Written(t)) \/ PlaneAt(f) = CopyAt(t)
    BY <1>3, <1>4, <2>2, <2>3, OneSlot DEF IInv
  <2> QED
    BY <2>4, <1>1, SlotsDiffer
<1>6. frame[f].props \notin Guarded(t)
  <2> SUFFICES ASSUME frame[f].props \in Guarded(t) PROVE FALSE
    OBVIOUS
  <2>2. pts[PropsAt(Written(t))] = frame[f].props \/ pts[CopyAt(t)] = frame[f].props
    BY <1>3, GuardedSlot, ObjectAssumption
  <2>3. frame[f].props \in Object /\ count[frame[f].props] = 1
    BY GuardedSlot
  <2>4. PropsAt(f) = PropsAt(Written(t)) \/ PropsAt(f) = CopyAt(t)
    BY <1>3, <1>4, <2>2, <2>3, OneSlot DEF IInv
  <2> QED
    BY <2>4, <1>1, SlotsDiffer
<1>7. entry[frame[f].props] \notin Guarded(t)
  <2> SUFFICES ASSUME entry[frame[f].props] \in Guarded(t) PROVE FALSE
    OBVIOUS
  <2>1. /\ pts[EntryAt(MyTable(t))] = entry[frame[f].props] /\ MyTable(t) \in Guarded(t)
        /\ entry[frame[f].props] \in Object /\ count[entry[frame[f].props]] = 1
    BY <1>3, GuardedSlot, ObjectAssumption DEF Object
  <2>2. MyTable(t) \in Table
    BY <1>1, FrameLive DEF IInv, MyTable, Written
  <2>3. EntryAt(frame[f].props) = EntryAt(MyTable(t))
    BY <1>3, <1>4, <2>1, <2>2, SlotKinds, OneSlot DEF IInv
  <2>4. frame[f].props = MyTable(t)
    BY <2>3, SlotsDiffer
  <2> QED
    BY <2>1, <2>4, <1>6
<1> QED
  BY <1>1, <1>5, <1>6, <1>7

\* Nor is another thread's clone.
LEMMA CopyApart ==
  ASSUME IInv, NEW t \in Thread, NEW u \in Thread, u # t, copy[u] # None
  PROVE  copy[u] \notin Guarded(t)
<1> SUFFICES ASSUME copy[u] \in Guarded(t) PROVE FALSE
  OBVIOUS
<1>1. /\ copy[u] \in Object /\ count[copy[u]] = 1 /\ pc[t] # "idle"
      /\ \/ pts[PlaneAt(Written(t))] = copy[u]
         \/ pts[PropsAt(Written(t))] = copy[u]
         \/ pts[CopyAt(t)] = copy[u]
         \/ copy[u] \in Number
  BY GuardedSlot
<1>2. pts[CopyAt(u)] = copy[u] /\ copy[u] \notin Number
  BY CopyLive, ObjectAssumption DEF IInv
<1>3. Written(t) \in Frame
  BY <1>1, Busy
<1>4. CopyAt(u) \in Slot /\ CopyAt(t) \in Slot
      /\ PlaneAt(Written(t)) \in Slot /\ PropsAt(Written(t)) \in Slot
  BY <1>3, SlotKinds
<1>5. \/ CopyAt(u) = PlaneAt(Written(t)) \/ CopyAt(u) = PropsAt(Written(t))
      \/ CopyAt(u) = CopyAt(t)
  BY <1>1, <1>2, <1>4, OneSlot DEF IInv
<1> QED
  BY <1>5, SlotsDiffer

\* A step that leaves alone what a thread refers to, and adds no reference to
\* what the thread guards, keeps what is said of the thread.
LEMMA Undisturbed ==
  ASSUME IInv, Base', NEW u \in Thread,
         pc'[u] = pc[u], ref'[u] = ref[u], copy'[u] = copy[u],
         \A o \in Guarded(u) : count'[o] <= count[o],
         pc[u] # "idle" =>
           /\ ref[u] \in mutable' /\ holds'[ref[u]] = holds[ref[u]]
           /\ frame'[Written(u)] = frame[Written(u)]
           /\ bytes'[MyPlane(u)] = bytes[MyPlane(u)]
           /\ entry'[MyTable(u)] = entry[MyTable(u)],
         pc[u] = "append" => number'[MyNumber(u)] = number[MyNumber(u)],
         copy[u] \in Plane => bytes'[copy[u]] = bytes[copy[u]],
         copy[u] \in Table => entry'[copy[u]] = entry[copy[u]]
  PROVE  Writing(u)'
<1>0. Writing(u)
  BY DEF IInv
<1>1. CASE pc[u] = "idle"
  BY <1>0, <1>1 DEF Writing, Guarded
<1>2. CASE pc[u] # "idle"
  <2>1. /\ ref[u] \in Holder /\ ref[u][1] = u
        /\ Written(u) \in Frame /\ count[Written(u)] \in Nat \ {0}
    BY <1>2, Busy
  <2>2. /\ Written(u)' = Written(u) /\ MyPlane(u)' = MyPlane(u)
        /\ MyTable(u)' = MyTable(u) /\ MyNumber(u)' = MyNumber(u)
    BY <1>2 DEF Written, MyPlane, MyTable, MyNumber
  <2>3. Guarded(u)' = Guarded(u)
    BY <2>2 DEF Guarded
  <2>4. /\ Exact(count', pts') /\ pts' = Points(count', holds', frame', entry', copy')
        /\ count' \in Counts
    BY DEF Base, CountsAgree, pts, TypeOK
  <2>5. \A s \in Slot : pts'[s] \in Object => count'[pts'[s]] > 0
    BY <2>4, Unused DEF Counts
  <2>6. count'[Written(u)] > 0
    <3>1. pts'[HoldsAt(ref[u])] = Written(u)
      BY <1>2, <2>1, <2>4, PointsAt DEF Written
    <3> QED
      BY <3>1, <2>1, <2>5, SlotKinds DEF Object
  <2>7. /\ pts'[PlaneAt(Written(u))] = MyPlane(u)
        /\ pts'[PropsAt(Written(u))] = MyTable(u)
        /\ pts'[CopyAt(u)] = copy[u]
    BY <1>2, <2>1, <2>4, <2>6, PointsAt DEF MyPlane, MyTable, Written
  <2>8. ASSUME NEW o \in Guarded(u)
        PROVE  count'[o] = 1
    <3>1. o \in Object /\ count[o] = 1
      BY GuardedSlot
    <3>2. \E s \in Slot : pts'[s] = o
      <4>1. CASE o = MyPlane(u) \/ o = MyTable(u) \/ o = copy[u]
        BY <4>1, <2>1, <2>7, SlotKinds
      <4>2. CASE o = MyNumber(u) /\ o \in Number /\ MyTable(u) \in Guarded(u)
        <5>1. MyTable(u) \in Table
          BY <2>1, FrameLive DEF IInv, MyTable, Written
        <5>2. count'[MyTable(u)] > 0
          BY <2>1, <2>5, <2>7, <5>1, SlotKinds DEF Object
        <5>3. pts'[EntryAt(MyTable(u))] = MyNumber(u)
          BY <1>2, <2>4, <5>1, <5>2, PointsAt DEF MyNumber
        <5> QED
          BY <4>2, <5>1, <5>3, SlotKinds
      <4> QED
        BY <4>1, <4>2, GuardedSlot
    <3>3. count'[o] > 0
      BY <3>1, <3>2, <2>5
    <3>4. count'[o] \in Nat
      BY <3>1, <2>4 DEF Counts
    <3> QED
      BY <3>1, <3>3, <3>4
  <2>9. Writing(u)' <=>
          /\ pc[u] # "idle" => ref[u] \in mutable' /\ ref[u][1] = u
          /\ pc[u] \notin {"assign plane", "assign props"} => copy[u] = None
          /\ \A o \in Guarded(u) : count'[o] = 1
          /\ pc[u] = "assign plane" => copy[u] \in Plane /\ bytes'[copy[u]] = bytes'[MyPlane(u)]
          /\ pc[u] = "assign props" => copy[u] \in Table /\ entry'[copy[u]] = entry'[MyTable(u)]
          /\ pc[u] = "append" => MyNumber(u) \in Number /\ Len(number'[MyNumber(u)]) < MaxLen
    BY <2>2, <2>3 DEF Writing
  <2> QED
    BY <1>0, <1>2, <2>1, <2>8, <2>9 DEF Writing
<1> QED
  BY <1>1, <1>2
-----------------------------------------------------------------------------
(* The changes that steps are made of *)

Agree(c, P) == c \in Counts /\ P \in Pointers /\ Exact(c, P)

\* A slot is pointed elsewhere.
LEMMA AgreeRepoint ==
  ASSUME NEW c, NEW P, Agree(c, P), NEW s \in Slot, NEW x \in Object \cup {None}
  PROVE  Agree(Less(AddRefs(c, {x}), P[s]), Put(P, s, x))
BY Repoint DEF Agree, Put

\* A holder takes another frame, or none.
LEMMA RepointHolds ==
  ASSUME NEW c, NEW H, NEW L, NEW R, NEW E, NEW C, Agree(c, Slots(H, L, R, E, C)),
         IsFunction(H, Holder), NEW i \in Holder, NEW x \in Object \cup {None}
  PROVE  Agree(Less(AddRefs(c, {x}), H[i]), Slots(Put(H, i, x), L, R, E, C))
<1>1. HoldsAt(i) \in Slot
  BY SlotKinds
<1>2. /\ Slots(H, L, R, E, C)[HoldsAt(i)] = H[i]
      /\ Put(Slots(H, L, R, E, C), HoldsAt(i), x) = Slots(Put(H, i, x), L, R, E, C)
  BY SetHolds
<1>3. PICK P : P = Slots(H, L, R, E, C)
  OBVIOUS
<1>4. Agree(Less(AddRefs(c, {x}), P[HoldsAt(i)]), Put(P, HoldsAt(i), x))
  BY <1>1, <1>3, AgreeRepoint
<1> QED
  BY <1>2, <1>3, <1>4

\* A frame takes another plane.
LEMMA RepointPlane ==
  ASSUME NEW c, NEW H, NEW L, NEW R, NEW E, NEW C, Agree(c, Slots(H, L, R, E, C)),
         IsFunction(L, Frame), NEW i \in Frame, NEW x \in Object \cup {None}
  PROVE  Agree(Less(AddRefs(c, {x}), L[i]), Slots(H, Put(L, i, x), R, E, C))
<1>1. PlaneAt(i) \in Slot
  BY SlotKinds
<1>2. /\ Slots(H, L, R, E, C)[PlaneAt(i)] = L[i]
      /\ Put(Slots(H, L, R, E, C), PlaneAt(i), x) = Slots(H, Put(L, i, x), R, E, C)
  BY SetPlane
<1>3. PICK P : P = Slots(H, L, R, E, C)
  OBVIOUS
<1>4. Agree(Less(AddRefs(c, {x}), P[PlaneAt(i)]), Put(P, PlaneAt(i), x))
  BY <1>1, <1>3, AgreeRepoint
<1> QED
  BY <1>2, <1>3, <1>4

\* A frame takes another table.
LEMMA RepointProps ==
  ASSUME NEW c, NEW H, NEW L, NEW R, NEW E, NEW C, Agree(c, Slots(H, L, R, E, C)),
         IsFunction(R, Frame), NEW i \in Frame, NEW x \in Object \cup {None}
  PROVE  Agree(Less(AddRefs(c, {x}), R[i]), Slots(H, L, Put(R, i, x), E, C))
<1>1. PropsAt(i) \in Slot
  BY SlotKinds
<1>2. /\ Slots(H, L, R, E, C)[PropsAt(i)] = R[i]
      /\ Put(Slots(H, L, R, E, C), PropsAt(i), x) = Slots(H, L, Put(R, i, x), E, C)
  BY SetProps
<1>3. PICK P : P = Slots(H, L, R, E, C)
  OBVIOUS
<1>4. Agree(Less(AddRefs(c, {x}), P[PropsAt(i)]), Put(P, PropsAt(i), x))
  BY <1>1, <1>3, AgreeRepoint
<1> QED
  BY <1>2, <1>3, <1>4

\* A table takes another number.
LEMMA RepointEntry ==
  ASSUME NEW c, NEW H, NEW L, NEW R, NEW E, NEW C, Agree(c, Slots(H, L, R, E, C)),
         IsFunction(E, Table), NEW i \in Table, NEW x \in Object \cup {None}
  PROVE  Agree(Less(AddRefs(c, {x}), E[i]), Slots(H, L, R, Put(E, i, x), C))
<1>1. EntryAt(i) \in Slot
  BY SlotKinds
<1>2. /\ Slots(H, L, R, E, C)[EntryAt(i)] = E[i]
      /\ Put(Slots(H, L, R, E, C), EntryAt(i), x) = Slots(H, L, R, Put(E, i, x), C)
  BY SetEntry
<1>3. PICK P : P = Slots(H, L, R, E, C)
  OBVIOUS
<1>4. Agree(Less(AddRefs(c, {x}), P[EntryAt(i)]), Put(P, EntryAt(i), x))
  BY <1>1, <1>3, AgreeRepoint
<1> QED
  BY <1>2, <1>3, <1>4

\* A thread takes another clone.
LEMMA RepointCopy ==
  ASSUME NEW c, NEW H, NEW L, NEW R, NEW E, NEW C, Agree(c, Slots(H, L, R, E, C)),
         IsFunction(C, Thread), NEW i \in Thread, NEW x \in Object \cup {None}
  PROVE  Agree(Less(AddRefs(c, {x}), C[i]), Slots(H, L, R, E, Put(C, i, x)))
<1>1. CopyAt(i) \in Slot
  BY SlotKinds
<1>2. /\ Slots(H, L, R, E, C)[CopyAt(i)] = C[i]
      /\ Put(Slots(H, L, R, E, C), CopyAt(i), x) = Slots(H, L, R, E, Put(C, i, x))
  BY SetCopy
<1>3. PICK P : P = Slots(H, L, R, E, C)
  OBVIOUS
<1>4. Agree(Less(AddRefs(c, {x}), P[CopyAt(i)]), Put(P, CopyAt(i), x))
  BY <1>1, <1>3, AgreeRepoint
<1> QED
  BY <1>2, <1>3, <1>4

\* No reference is taken to no object, or given up.
LEMMA NoneCounts ==
  ASSUME NEW c, NEW P, Agree(c, P)
  PROVE  AddRefs(c, {None}) = c /\ Less(c, None) = c
BY ObjectAssumption DEF Agree, Counts, AddRefs, Less, Object

\* What is left of the counts when a table is released.
LEMMA ReleaseTableCounts ==
  ASSUME NEW c, NEW m
  PROVE  /\ c[m] # 1 =>
              \A o \in Object : ReleaseTable(c, m)[o] = c[o] - IF o = m THEN 1 ELSE 0
         /\ c[m] = 1 =>
              \A o \in Object : ReleaseTable(c, m)[o]
                = (c[o] - IF o = m THEN 1 ELSE 0) - IF o = entry[m] THEN 1 ELSE 0
BY DEF ReleaseTable, Less

\* A frame's reference to a table is replaced, and with the last reference to the
\* table what it holds is released.
LEMMA RepointTable ==
  ASSUME NEW c, NEW H, NEW L, NEW R, NEW E, NEW C, Agree(c, Slots(H, L, R, E, C)),
         IsFunction(R, Frame), IsFunction(E, Table),
         NEW i \in Frame, NEW x \in Object \cup {None},
         NEW m \in Table, R[i] = m, E[m] = entry[m],
         NEW e, e = AddRefs(c, {x}),
         NEW K, K = IF e[m] = 1 THEN Put(E, m, None) ELSE E
  PROVE  Agree(ReleaseTable(e, m), Slots(H, L, Put(R, i, x), K, C))
<1>1. PICK d, Q : d = Less(e, m) /\ Q = Put(R, i, x)
  OBVIOUS
<1>2. Agree(d, Slots(H, L, Q, E, C))
  BY <1>1, RepointProps
<1>3. CASE e[m] # 1
  BY <1>1, <1>2, <1>3 DEF ReleaseTable
<1>4. CASE e[m] = 1
  <2>1. Agree(Less(AddRefs(d, {None}), E[m]), Slots(H, L, Q, Put(E, m, None), C))
    BY <1>2, RepointEntry
  <2>2. ReleaseTable(e, m) = Less(AddRefs(d, {None}), E[m])
    BY <1>1, <1>2, <1>4, NoneCounts DEF ReleaseTable
  <2> QED
    BY <2>1, <2>2, <1>1, <1>4
<1> QED
  BY <1>3, <1>4

\* What the slots say of a state.
LEMMA AgreeNow ==
  ASSUME IInv
  PROVE  \E L, R, E :
           /\ L = Planes(count, frame) /\ R = Tables(count, frame) /\ E = Entries(count, entry)
           /\ Agree(count, Slots(holds, L, R, E, copy))
           /\ IsFunction(holds, Holder) /\ IsFunction(L, Frame) /\ IsFunction(R, Frame)
           /\ IsFunction(E, Table) /\ IsFunction(copy, Thread)
<1>1. IsFunction(holds, Holder) /\ IsFunction(copy, Thread)
  BY DEF IInv, Base, TypeOK, IsFunction
<1>2. IsFunction(Planes(count, frame), Frame) /\ IsFunction(Tables(count, frame), Frame)
      /\ IsFunction(Entries(count, entry), Table)
  BY DEF IsFunction, Planes, Tables, Entries
<1>3. Agree(count, Points(count, holds, frame, entry, copy))
  BY PointersTyped DEF IInv, Base, Agree, TypeOK, CountsAgree, pts
<1> QED
  BY <1>1, <1>2, <1>3 DEF Points

\* And of the next.
LEMMA AgreeNext ==
  ASSUME NEW d, NEW H, NEW L, NEW R, NEW E, NEW C, Agree(d, Slots(H, L, R, E, C)),
         count' = d, holds' = H, Planes(count', frame') = L, Tables(count', frame') = R,
         Entries(count', entry') = E, copy' = C
  PROVE  Agree(count', pts')
BY DEF pts, Points

\* What an updated function is made of.
LEMMA PutAt ==
  ASSUME NEW f, NEW S, IsFunction(f, S), NEW i \in S, NEW x
  PROVE  /\ IsFunction(Put(f, i, x), S)
         /\ \A j \in S : Put(f, i, x)[j] = IF j = i THEN x ELSE f[j]
BY DEF IsFunction, Put

\* A function that differs from another in one place is its update.
LEMMA PutIs ==
  ASSUME NEW f, NEW g, NEW S, IsFunction(f, S), IsFunction(g, S), NEW i, NEW x,
         \A j \in S : g[j] = IF j = i THEN x ELSE f[j]
  PROVE  g = Put(f, i, x)
BY DEF IsFunction, Put

\* The types of the parts of a state.
LEMMA Typed ==
  ASSUME IInv
  PROVE  /\ count \in [Object -> Nat] /\ entry \in [Table -> Number \cup {None}]
         /\ frame \in [Frame -> [plane : Plane \cup {None}, props : Table \cup {None}]]
         /\ holds \in [Holder -> Frame \cup {None}]
         /\ copy \in [Thread -> Plane \cup Table \cup {None}]
BY DEF IInv, Base, TypeOK, Counts

\* Free memory is not referred to.
LEMMA NewFree ==
  ASSUME NEW K, FreeIn(K) # {}
  PROVE  New(K) \in K /\ count[New(K)] = 0
BY DEF New, FreeIn

\* The frames a thread may read are not those that others write to.
LEMMA SourceApart ==
  ASSUME IInv, NEW t \in Thread, NEW g \in Sources(t), pc[t] = "idle"
  PROVE  /\ g \in Holder /\ holds[g] # None
         /\ \A u \in Thread : pc[u] # "idle" => g # ref[u]
<1>1. g \in Holder /\ holds[g] # None
  BY DEF Sources, Mine, Holder
<1>2. ASSUME NEW u \in Thread, pc[u] # "idle"
      PROVE  g # ref[u]
  <2>1. ref[u] \in Ref /\ ref[u][1] = u
    BY <1>2, Busy
  <2>2. g \in Ref => g[1] = t
    BY HolderAssumption DEF Sources, Mine
  <2> QED
    BY <1>2, <2>1, <2>2, HolderAssumption
<1> QED
  BY <1>1, <1>2

-----------------------------------------------------------------------------
(* The steps: the counts stay exact *)

\* A new frame, as Create makes it.
CreateForm(t, h, a, b, f, p, m) ==
  /\ f \in Frame /\ count[f] = 0 /\ p \in Plane /\ m \in Table
  /\ a = None => count[p] = 0
  /\ a # None => holds[a] \in Frame /\ count[holds[a]] > 0 /\ p = frame[holds[a]].plane
  /\ b = None => count[m] = 0
  /\ b # None => holds[b] \in Frame /\ count[holds[b]] > 0 /\ m = frame[holds[b]].props /\ count[m] > 0
  /\ h \in Holder /\ h \in Ref /\ h[1] = t /\ holds[h] = None /\ pc[t] = "idle"
  /\ frame' = [frame EXCEPT ![f] = [plane |-> p, props |-> m]]
  /\ entry' = IF b = None THEN [entry EXCEPT ![m] = None] ELSE entry
  /\ count' = AddRefs(count, {f, p, m})
  /\ holds' = [holds EXCEPT ![h] = f]
  /\ mutable' = mutable \cup {h}
  /\ a = None => \E x \in Byte : bytes' = [bytes EXCEPT ![p] = x]
  /\ a # None => bytes' = bytes
  /\ UNCHANGED <<number, threadVars, crashed>>

\* Create makes a frame, a plane and a table out of free memory or takes those of
\* the frames it was given.
LEMMA CreateForms ==
  ASSUME IInv, NEW t \in Thread, NEW h, NEW a \in Sources(t) \cup {None},
         NEW b \in Sources(t) \cup {None}, Create(t, h, a, b)
  PROVE  \E f, p, m : CreateForm(t, h, a, b, f, p, m)
<1>1. PICK f, p, m :
        /\ f = New(Frame)
        /\ p = IF a = None THEN New(Plane) ELSE frame[holds[a]].plane
        /\ m = IF b = None THEN New(Table) ELSE frame[holds[b]].props
        /\ frame' = [frame EXCEPT ![f] = [plane |-> p, props |-> m]]
        /\ entry' = IF b = None THEN [entry EXCEPT ![m] = None] ELSE entry
        /\ count' = AddRefs(count, {f, p, m})
        /\ holds' = [holds EXCEPT ![h] = f]
        /\ mutable' = mutable \cup {h}
        /\ a = None => \E x \in Byte : bytes' = [bytes EXCEPT ![p] = x]
        /\ a # None => bytes' = bytes
        /\ UNCHANGED <<number, threadVars, crashed>>
  BY DEF Create
<1>2. /\ pc[t] = "idle" /\ h \in Free(t) /\ FreeIn(Frame) # {}
      /\ a = None => FreeIn(Plane) # {}
      /\ b = None => FreeIn(Table) # {}
  BY DEF Create
<1>3. h \in Holder /\ h \in Ref /\ h[1] = t /\ holds[h] = None
  BY <1>2 DEF Free, Holder
<1>4. f \in Frame /\ count[f] = 0
  BY <1>1, <1>2, NewFree
<1>5. /\ p \in Plane /\ (a = None => count[p] = 0)
      /\ a # None => holds[a] \in Frame /\ count[holds[a]] > 0 /\ p = frame[holds[a]].plane
  <2>1. CASE a = None
    BY <2>1, <1>1, <1>2, NewFree
  <2>2. CASE a # None
    BY <2>2, <1>1, <1>2, SourceApart, HolderLive, FrameLive DEF IInv
  <2> QED
    BY <2>1, <2>2
<1>6. /\ m \in Table /\ (b = None => count[m] = 0)
      /\ b # None => holds[b] \in Frame /\ count[holds[b]] > 0 /\ m = frame[holds[b]].props /\ count[m] > 0
  <2>1. CASE b = None
    BY <2>1, <1>1, <1>2, NewFree
  <2>2. CASE b # None
    BY <2>2, <1>1, <1>2, SourceApart, HolderLive, FrameLive DEF IInv
  <2> QED
    BY <2>1, <2>2
<1>7. CreateForm(t, h, a, b, f, p, m)
  BY <1>1, <1>2, <1>3, <1>4, <1>5, <1>6, Zenon DEF CreateForm
<1> QED
  BY <1>7

\* A new frame refers to its plane and its table.
LEMMA CreateAgrees ==
  ASSUME IInv, NEW t, NEW h, NEW a, NEW b, NEW f, NEW p, NEW m, CreateForm(t, h, a, b, f, p, m)
  PROVE  Agree(count', pts')
<1>1. PICK L, R, E :
        /\ L = Planes(count, frame) /\ R = Tables(count, frame) /\ E = Entries(count, entry)
        /\ Agree(count, Slots(holds, L, R, E, copy))
        /\ IsFunction(holds, Holder) /\ IsFunction(L, Frame) /\ IsFunction(R, Frame)
        /\ IsFunction(E, Table) /\ IsFunction(copy, Thread)
  BY AgreeNow
<1>2. /\ f \in Frame /\ count[f] = 0 /\ p \in Plane /\ m \in Table
      /\ h \in Holder /\ holds[h] = None /\ (b = None => count[m] = 0)
      /\ b # None => count[m] > 0
      /\ f \in Object /\ p \in Object /\ m \in Object
  BY DEF CreateForm, Object
<1>3. L[f] = None /\ R[f] = None
  BY <1>1, <1>2 DEF Planes, Tables
<1>4. PICK c1, c2, c3 :
        /\ c1 = Less(AddRefs(count, {f}), holds[h])
        /\ c2 = Less(AddRefs(c1, {p}), L[f])
        /\ c3 = Less(AddRefs(c2, {m}), R[f])
  OBVIOUS
<1>5. Agree(c1, Slots(Put(holds, h, f), L, R, E, copy))
  BY <1>1, <1>2, <1>4, RepointHolds
<1>6. Agree(c2, Slots(Put(holds, h, f), Put(L, f, p), R, E, copy))
  BY <1>1, <1>2, <1>4, <1>5, RepointPlane
<1>7. Agree(c3, Slots(Put(holds, h, f), Put(L, f, p), Put(R, f, m), E, copy))
  BY <1>1, <1>2, <1>4, <1>6, RepointProps
<1>8. count' = c3
  <2>1. count' = [o \in Object |-> count'[o]] /\ c3 = [o \in Object |-> c3[o]]
    BY <1>4 DEF CreateForm, AddRefs, Less
  <2>2. ASSUME NEW o \in Object
        PROVE  count'[o] = c3[o]
    <3>1. o # None /\ count[o] \in Nat
      BY Typed, ObjectAssumption DEF Object
    <3>2. c1[o] = count[o] + IF o = f THEN 1 ELSE 0
      BY <1>2, <1>4, <3>1 DEF AddRefs, Less
    <3>3. c2[o] = c1[o] + IF o = p THEN 1 ELSE 0
      BY <1>3, <1>4, <3>1, <3>2 DEF AddRefs, Less
    <3>4. c3[o] = c2[o] + IF o = m THEN 1 ELSE 0
      BY <1>3, <1>4, <3>1, <3>2, <3>3 DEF AddRefs, Less
    <3>5. count'[o] = count[o] + IF o \in {f, p, m} THEN 1 ELSE 0
      BY DEF CreateForm, AddRefs
    <3>6. f # p /\ f # m /\ p # m
      BY <1>2, ObjectAssumption
    <3> QED
      BY <3>1, <3>2, <3>3, <3>4, <3>5, <3>6
  <2> QED
    BY <2>1, <2>2
<1>9. holds' = Put(holds, h, f) /\ copy' = copy
  BY DEF CreateForm, Put, threadVars
<1>10. \A o \in Object : count'[o] = count[o] + IF o \in {f, p, m} THEN 1 ELSE 0
  BY DEF CreateForm, AddRefs
<1>11. /\ \A g \in Frame : count'[g] = IF g = f THEN 1 ELSE count[g]
       /\ \A k \in Table : count'[k] = (IF k = m THEN count[k] + 1 ELSE count[k]) /\ count[k] \in Nat
  BY <1>2, <1>10, Typed, ObjectAssumption DEF Object
<1>12. \A g \in Frame : frame'[g] = IF g = f THEN [plane |-> p, props |-> m] ELSE frame[g]
  BY <1>2, Typed DEF CreateForm
<1>13. Planes(count', frame') = Put(L, f, p) /\ Tables(count', frame') = Put(R, f, m)
  <2>1. \A g \in Frame : Planes(count', frame')[g] = IF g = f THEN p ELSE L[g]
    BY <1>1, <1>2, <1>11, <1>12 DEF Planes
  <2>2. \A g \in Frame : Tables(count', frame')[g] = IF g = f THEN m ELSE R[g]
    BY <1>1, <1>2, <1>11, <1>12 DEF Tables
  <2>3. IsFunction(Planes(count', frame'), Frame) /\ IsFunction(Tables(count', frame'), Frame)
    BY DEF IsFunction, Planes, Tables
  <2> QED
    BY <1>1, <1>2, <2>1, <2>2, <2>3, PutIs
<1>14. \A k \in Table : entry'[k] = IF b = None /\ k = m THEN None ELSE entry[k]
  BY <1>2, Typed DEF CreateForm
<1>15. Entries(count', entry') = E
  BY <1>1, <1>2, <1>11, <1>14 DEF Entries
<1> QED
  BY <1>7, <1>8, <1>9, <1>13, <1>15, AgreeNext

\* Giving up no reference leaves the counts.
LEMMA LessNone ==
  ASSUME NEW c \in Counts, NEW S
  PROVE  Less(AddRefs(c, S), None) = AddRefs(c, S)
BY ObjectAssumption DEF Counts, AddRefs, Less, Object

\* Another holder refers to the frame.
LEMMA ShareAgrees ==
  ASSUME IInv, NEW h \in Holder, NEW g \in Holder, holds[h] = None, holds[g] # None,
         holds' = [holds EXCEPT ![h] = holds[g]],
         count' = AddRefs(count, {holds[g]}),
         frame' = frame, entry' = entry, copy' = copy
  PROVE  Agree(count', pts')
<1>1. PICK L, R, E :
        /\ L = Planes(count, frame) /\ R = Tables(count, frame) /\ E = Entries(count, entry)
        /\ Agree(count, Slots(holds, L, R, E, copy))
        /\ IsFunction(holds, Holder) /\ IsFunction(L, Frame) /\ IsFunction(R, Frame)
        /\ IsFunction(E, Table) /\ IsFunction(copy, Thread)
  BY AgreeNow
<1>2. holds[g] \in Frame /\ holds[g] \in Object /\ count[holds[g]] \in Nat \ {0}
  BY HolderLive DEF IInv, Object
<1>3. Agree(Less(AddRefs(count, {holds[g]}), holds[h]), Slots(Put(holds, h, holds[g]), L, R, E, copy))
  BY <1>1, <1>2, RepointHolds
<1>4. Less(AddRefs(count, {holds[g]}), holds[h]) = count'
  BY <1>1, LessNone DEF Agree
<1>5. \A o \in Object : count'[o] > 0 <=> count[o] > 0
  BY <1>2, Typed DEF AddRefs
<1>6. Planes(count', frame') = L /\ Tables(count', frame') = R /\ Entries(count', entry') = E
  BY <1>1, <1>5 DEF Planes, Tables, Entries, Object
<1>7. holds' = Put(holds, h, holds[g])
  BY DEF Put
<1> QED
  BY <1>3, <1>4, <1>6, <1>7, AgreeNext

\* A holder hands its frame on to another.
LEMMA ReturnAgrees ==
  ASSUME IInv, NEW h \in Holder, NEW g \in Holder, g # h, holds[g] = None, holds[h] # None,
         holds' = [holds EXCEPT ![g] = holds[h], ![h] = None],
         count' = count, frame' = frame, entry' = entry, copy' = copy
  PROVE  Agree(count', pts')
<1>1. PICK L, R, E :
        /\ L = Planes(count, frame) /\ R = Tables(count, frame) /\ E = Entries(count, entry)
        /\ Agree(count, Slots(holds, L, R, E, copy))
        /\ IsFunction(holds, Holder) /\ IsFunction(L, Frame) /\ IsFunction(R, Frame)
        /\ IsFunction(E, Table) /\ IsFunction(copy, Thread)
  BY AgreeNow
<1>2. holds[h] \in Frame /\ holds[h] \in Object /\ count[holds[h]] \in Nat \ {0}
  BY HolderLive DEF IInv, Object
<1>3. PICK H : H = Put(holds, h, None)
  OBVIOUS
<1>4. IsFunction(H, Holder) /\ H[g] = None
  BY <1>1, <1>3, PutAt
<1>5. Agree(Less(AddRefs(count, {None}), holds[h]), Slots(H, L, R, E, copy))
  BY <1>1, <1>3, RepointHolds
<1>6. PICK c : c = Less(AddRefs(count, {None}), holds[h])
  OBVIOUS
<1>7. Agree(Less(AddRefs(c, {holds[h]}), H[g]), Slots(Put(H, g, holds[h]), L, R, E, copy))
  BY <1>2, <1>4, <1>5, <1>6, RepointHolds
<1>8. c = Less(count, holds[h]) /\ c \in Counts
  BY <1>1, <1>5, <1>6, NoneCounts DEF Agree
<1>9. Less(AddRefs(c, {holds[h]}), H[g]) = AddRefs(c, {holds[h]})
  BY <1>4, <1>8, LessNone
<1>10. AddRefs(c, {holds[h]}) = count
  BY <1>8, Typed DEF AddRefs, Less
<1>11. holds' = Put(H, g, holds[h])
  <2>1. IsFunction(holds', Holder)
    BY Typed DEF IsFunction
  <2>2. \A k \in Holder : H[k] = IF k = h THEN None ELSE holds[k]
    BY <1>1, <1>3, PutAt
  <2>3. \A k \in Holder : holds'[k] = IF k = h THEN None ELSE IF k = g THEN holds[h] ELSE holds[k]
    BY Typed
  <2>4. \A k \in Holder : holds'[k] = IF k = g THEN holds[h] ELSE H[k]
    BY <2>2, <2>3
  <2> QED
    BY <1>4, <2>1, <2>4 DEF Put, IsFunction
<1> QED
  BY <1>1, <1>7, <1>9, <1>10, <1>11, AgreeNext

\* A holder gives up its frame, and with the last reference the frame its plane and
\* its table.
LEMMA FreeAgrees ==
  ASSUME IInv, NEW h \in Holder, holds[h] # None,
         holds' = [holds EXCEPT ![h] = None],
         count' = ReleaseFrame(count, holds[h]),
         frame' = frame, entry' = entry, copy' = copy
  PROVE  Agree(count', pts') /\ \A o \in Object : count'[o] <= count[o]
<1>1. PICK L, R, E :
        /\ L = Planes(count, frame) /\ R = Tables(count, frame) /\ E = Entries(count, entry)
        /\ Agree(count, Slots(holds, L, R, E, copy))
        /\ IsFunction(holds, Holder) /\ IsFunction(L, Frame) /\ IsFunction(R, Frame)
        /\ IsFunction(E, Table) /\ IsFunction(copy, Thread)
  BY AgreeNow
<1>2. PICK f, p, m : f = holds[h] /\ p = frame[f].plane /\ m = frame[f].props
  OBVIOUS
<1>3. /\ f \in Frame /\ f \in Object /\ count[f] \in Nat \ {0}
      /\ p \in Plane /\ m \in Table /\ count[m] \in Nat \ {0}
      /\ p \in Object /\ m \in Object
  BY <1>2, HolderLive, FrameLive DEF IInv, Object
<1>4. holds' = Put(holds, h, None)
  BY DEF Put
<1>5. PICK c1 : c1 = Less(count, f)
  OBVIOUS
<1>6. Agree(c1, Slots(Put(holds, h, None), L, R, E, copy))
  <2>1. Agree(Less(AddRefs(count, {None}), holds[h]), Slots(Put(holds, h, None), L, R, E, copy))
    BY <1>1, RepointHolds
  <2> QED
    BY <2>1, <1>1, <1>2, <1>5, NoneCounts
<1>7. \A o \in Object : c1[o] = count[o] - IF o = f THEN 1 ELSE 0
  BY <1>5 DEF Less
<1>8. CASE count[f] # 1
  <2>1. count' = c1
    BY <1>2, <1>5, <1>8 DEF ReleaseFrame
  <2>2. ASSUME NEW o \in Object
        PROVE  (count'[o] > 0 <=> count[o] > 0) /\ count'[o] <= count[o]
    <3>1. count[o] \in Nat /\ count'[o] = count[o] - IF o = f THEN 1 ELSE 0
      BY <1>7, <2>1, Typed
    <3> QED
      BY <1>3, <1>8, <3>1
  <2>3. Planes(count', frame') = L /\ Tables(count', frame') = R /\ Entries(count', entry') = E
    BY <1>1, <2>2 DEF Planes, Tables, Entries, Object
  <2> QED
    BY <1>4, <1>6, <2>1, <2>2, <2>3, AgreeNext
<1>9. CASE count[f] = 1
  <2>1. PICK c2 : c2 = Less(c1, p)
    OBVIOUS
  <2>2. L[f] = p /\ R[f] = m /\ E[m] = entry[m]
    BY <1>1, <1>2, <1>3 DEF Planes, Tables, Entries
  <2>3. Agree(c2, Slots(Put(holds, h, None), Put(L, f, None), R, E, copy))
    <3>1. Agree(Less(AddRefs(c1, {None}), L[f]), Slots(Put(holds, h, None), Put(L, f, None), R, E, copy))
      BY <1>1, <1>3, <1>6, RepointPlane
    <3> QED
      BY <3>1, <1>6, <2>1, <2>2, NoneCounts
  <2>4. AddRefs(c2, {None}) = c2
    BY <2>3, NoneCounts
  <2>5. PICK K : K = IF c2[m] = 1 THEN Put(E, m, None) ELSE E
    OBVIOUS
  <2>6. Agree(ReleaseTable(c2, m), Slots(Put(holds, h, None), Put(L, f, None), Put(R, f, None), K, copy))
    BY <1>1, <1>3, <2>2, <2>3, <2>4, <2>5, RepointTable
  <2>7. count' = ReleaseTable(c2, m)
    BY <1>2, <1>5, <1>9, <2>1 DEF ReleaseFrame
  <2>8. \A o \in Object : c2[o] = c1[o] - IF o = p THEN 1 ELSE 0
    BY <2>1 DEF Less
  <2>9. /\ \A o \in Object : c2[o] \in Nat /\ count'[o] \in Nat /\ count'[o] <= c2[o] /\ c2[o] <= count[o]
        /\ \A g \in Frame : count'[g] = IF g = f THEN 0 ELSE count[g]
        /\ \A k \in Table : count'[k] = (IF k = m THEN count[k] - 1 ELSE count[k]) /\ c2[k] = count[k]
    <3>1. entry[m] \in Number \cup {None}
      BY <1>3, Typed
    <3>2. \A o \in Object : c2[o] \in Nat /\ count'[o] \in Nat
      BY <2>3, <2>6, <2>7 DEF Agree, Counts
    <3>3. \A o \in Object : c2[o] = (count[o] - IF o = f THEN 1 ELSE 0) - IF o = p THEN 1 ELSE 0
      BY <1>7, <2>8
    <3>4. \A o \in Object : c2[o] <= count[o]
      BY <3>3, Typed
    <3>5. /\ \A g \in Frame : c2[g] = IF g = f THEN 0 ELSE count[g]
          /\ \A k \in Table : c2[k] = count[k]
      BY <1>3, <1>9, <3>3, Typed, ObjectAssumption DEF Object
    <3>6. CASE c2[m] # 1
      <4>1. \A o \in Object : count'[o] = c2[o] - IF o = m THEN 1 ELSE 0
        BY <2>7, <3>6, ReleaseTableCounts
      <4> QED
        BY <1>3, <3>2, <3>4, <3>5, <4>1, ObjectAssumption DEF Object
    <3>7. CASE c2[m] = 1
      <4>1. \A o \in Object : count'[o] = (c2[o] - IF o = m THEN 1 ELSE 0) - IF o = entry[m] THEN 1 ELSE 0
        BY <2>7, <3>7, ReleaseTableCounts
      <4> QED
        BY <1>3, <3>1, <3>2, <3>4, <3>5, <4>1, ObjectAssumption DEF Object
    <3> QED
      BY <3>6, <3>7
  <2>10. Planes(count', frame') = Put(L, f, None) /\ Tables(count', frame') = Put(R, f, None)
    <3>1. \A g \in Frame : Planes(count', frame')[g] = IF g = f THEN None ELSE L[g]
      BY <1>1, <2>9 DEF Planes
    <3>2. \A g \in Frame : Tables(count', frame')[g] = IF g = f THEN None ELSE R[g]
      BY <1>1, <2>9 DEF Tables
    <3>3. IsFunction(Planes(count', frame'), Frame) /\ IsFunction(Tables(count', frame'), Frame)
      BY DEF IsFunction, Planes, Tables
    <3> QED
      BY <1>1, <3>1, <3>2, <3>3, PutIs
  <2>11. Entries(count', entry') = K
    <3>1. \A k \in Table : Entries(count', entry')[k] = IF c2[m] = 1 /\ k = m THEN None ELSE E[k]
      BY <1>1, <1>3, <2>9, Typed DEF Entries, Object
    <3>2. IsFunction(Entries(count', entry'), Table)
      BY DEF IsFunction, Entries
    <3>3. CASE c2[m] = 1
      BY <1>1, <2>5, <3>1, <3>2, <3>3, PutIs
    <3>4. CASE c2[m] # 1
      BY <1>1, <2>5, <3>1, <3>2, <3>4 DEF IsFunction
    <3> QED
      BY <3>3, <3>4
  <2>12. \A o \in Object : count'[o] <= count[o]
    BY <2>9, Typed
  <2> QED
    BY <1>4, <2>6, <2>7, <2>10, <2>11, <2>12, AgreeNext
<1> QED
  BY <1>8, <1>9

\* Giving up a reference and taking it again leaves the counts.
LEMMA LessAdd ==
  ASSUME NEW c \in Counts, NEW o
  PROVE  AddRefs(Less(c, o), {o}) = c
BY DEF Counts, AddRefs, Less

\* Nothing that slots depend on changes.
LEMMA SameAgrees ==
  ASSUME IInv, count' = count, holds' = holds, frame' = frame, entry' = entry, copy' = copy
  PROVE  Agree(count', pts')
<1>1. pts' = pts
  BY DEF pts
<1>2. Agree(count, pts)
  BY PointersTyped DEF IInv, Base, Agree, TypeOK, CountsAgree
<1> QED
  BY <1>1, <1>2

\* A new plane is the clone a thread has made.
LEMMA ClonePlaneAgrees ==
  ASSUME IInv, NEW t \in Thread, copy[t] = None, NEW p \in Plane, count[p] = 0,
         copy' = [copy EXCEPT ![t] = p], count' = AddRefs(count, {p}),
         frame' = frame, entry' = entry, holds' = holds
  PROVE  Agree(count', pts')
<1>1. PICK L, R, E :
        /\ L = Planes(count, frame) /\ R = Tables(count, frame) /\ E = Entries(count, entry)
        /\ Agree(count, Slots(holds, L, R, E, copy))
        /\ IsFunction(holds, Holder) /\ IsFunction(L, Frame) /\ IsFunction(R, Frame)
        /\ IsFunction(E, Table) /\ IsFunction(copy, Thread)
  BY AgreeNow
<1>2. p \in Object
  BY DEF Object
<1>3. Agree(Less(AddRefs(count, {p}), copy[t]), Slots(holds, L, R, E, Put(copy, t, p)))
  BY <1>1, <1>2, RepointCopy
<1>4. Less(AddRefs(count, {p}), copy[t]) = count'
  BY <1>1, LessNone DEF Agree
<1>5. \A o \in Frame \cup Table : count'[o] = count[o]
  BY <1>2, Typed, ObjectAssumption DEF AddRefs, Object
<1>6. Planes(count', frame') = L /\ Tables(count', frame') = R /\ Entries(count', entry') = E
  BY <1>1, <1>5 DEF Planes, Tables, Entries
<1>7. copy' = Put(copy, t, p)
  BY DEF Put
<1> QED
  BY <1>3, <1>4, <1>6, <1>7, AgreeNext

\* The clone becomes the frame's plane.
LEMMA AssignPlaneAgrees ==
  ASSUME IInv, NEW t \in Thread, NEW q \in Plane, copy[t] = q,
         NEW f \in Frame, count[f] > 0,
         copy' = [copy EXCEPT ![t] = None], count' = Less(count, frame[f].plane),
         frame' = [frame EXCEPT ![f].plane = q], entry' = entry, holds' = holds
  PROVE  Agree(count', pts')
<1>1. PICK L, R, E :
        /\ L = Planes(count, frame) /\ R = Tables(count, frame) /\ E = Entries(count, entry)
        /\ Agree(count, Slots(holds, L, R, E, copy))
        /\ IsFunction(holds, Holder) /\ IsFunction(L, Frame) /\ IsFunction(R, Frame)
        /\ IsFunction(E, Table) /\ IsFunction(copy, Thread)
  BY AgreeNow
<1>2. q \in Object /\ frame[f].plane \in Plane /\ L[f] = frame[f].plane
  BY <1>1, FrameLive DEF IInv, Object, Planes
<1>3. Agree(Less(AddRefs(count, {None}), q), Slots(holds, L, R, E, Put(copy, t, None)))
  BY <1>1, RepointCopy
<1>4. PICK c : c = Less(count, q)
  OBVIOUS
<1>5. Agree(c, Slots(holds, L, R, E, Put(copy, t, None)))
  BY <1>1, <1>3, <1>4, NoneCounts
<1>6. Agree(Less(AddRefs(c, {q}), L[f]), Slots(holds, Put(L, f, q), R, E, Put(copy, t, None)))
  BY <1>1, <1>2, <1>5, RepointPlane
<1>7. count' = Less(AddRefs(c, {q}), L[f])
  BY <1>1, <1>2, <1>4, LessAdd DEF Agree
<1>8. \A o \in Frame \cup Table : count'[o] = count[o]
  BY <1>2, Typed, ObjectAssumption DEF Less, Object
<1>9. \A g \in Frame : /\ frame'[g].plane = IF g = f THEN q ELSE frame[g].plane
                       /\ frame'[g].props = frame[g].props
  BY Typed
<1>10. Tables(count', frame') = R /\ Entries(count', entry') = E
  BY <1>1, <1>8, <1>9 DEF Tables, Entries
<1>11. Planes(count', frame') = Put(L, f, q)
  <2>1. \A g \in Frame : Planes(count', frame')[g] = IF g = f THEN q ELSE L[g]
    BY <1>1, <1>8, <1>9 DEF Planes
  <2>2. IsFunction(Planes(count', frame'), Frame)
    BY DEF IsFunction, Planes
  <2> QED
    BY <1>1, <2>1, <2>2 DEF Put, IsFunction
<1>12. copy' = Put(copy, t, None)
  BY DEF Put
<1> QED
  BY <1>6, <1>7, <1>10, <1>11, <1>12, AgreeNext

\* A new table, with another's entries, is the clone a thread has made.
LEMMA CloneTableAgrees ==
  ASSUME IInv, NEW t \in Thread, copy[t] = None, NEW m \in Table, count[m] = 0,
         NEW n \in Number \cup {None},
         copy' = [copy EXCEPT ![t] = m], count' = AddRefs(count, {m, n}),
         entry' = [entry EXCEPT ![m] = n], frame' = frame, holds' = holds
  PROVE  Agree(count', pts')
<1>1. PICK L, R, E :
        /\ L = Planes(count, frame) /\ R = Tables(count, frame) /\ E = Entries(count, entry)
        /\ Agree(count, Slots(holds, L, R, E, copy))
        /\ IsFunction(holds, Holder) /\ IsFunction(L, Frame) /\ IsFunction(R, Frame)
        /\ IsFunction(E, Table) /\ IsFunction(copy, Thread)
  BY AgreeNow
<1>2. m \in Object /\ n \in Object \cup {None} /\ E[m] = None /\ m # n
  BY <1>1, ObjectAssumption DEF Object, Entries
<1>3. PICK c : c = AddRefs(count, {m})
  OBVIOUS
<1>4. Agree(Less(c, copy[t]), Slots(holds, L, R, E, Put(copy, t, m)))
  BY <1>1, <1>2, <1>3, RepointCopy
<1>5. Less(c, copy[t]) = c
  BY <1>1, <1>3, LessNone DEF Agree
<1>6. Agree(Less(AddRefs(c, {n}), E[m]), Slots(holds, L, R, Put(E, m, n), Put(copy, t, m)))
  BY <1>1, <1>2, <1>4, <1>5, RepointEntry
<1>7. Less(AddRefs(c, {n}), E[m]) = AddRefs(c, {n})
  BY <1>2, <1>4, <1>5, LessNone DEF Agree
<1>8. count' = AddRefs(c, {n})
  BY <1>2, <1>3, Typed DEF AddRefs
<1>9. /\ \A g \in Frame : count'[g] = count[g]
      /\ \A k \in Table : count'[k] = IF k = m THEN 1 ELSE count[k]
  BY <1>2, Typed, ObjectAssumption DEF AddRefs, Object
<1>10. Planes(count', frame') = L /\ Tables(count', frame') = R
  BY <1>1, <1>9 DEF Planes, Tables
<1>11. Entries(count', entry') = Put(E, m, n)
  <2>0. \A k \in Table : entry'[k] = IF k = m THEN n ELSE entry[k]
    BY Typed
  <2>1. \A k \in Table : Entries(count', entry')[k] = IF k = m THEN n ELSE E[k]
    <3>1. \A k \in Table : E[k] = IF count[k] > 0 THEN entry[k] ELSE None
      BY <1>1 DEF Entries
    <3>2. \A k \in Table : Entries(count', entry')[k] = IF count'[k] > 0 THEN entry'[k] ELSE None
      BY DEF Entries
    <3> SUFFICES ASSUME NEW k \in Table
                 PROVE  Entries(count', entry')[k] = IF k = m THEN n ELSE E[k]
      OBVIOUS
    <3>3. count'[k] = IF k = m THEN 1 ELSE count[k]
      BY <1>9
    <3>4. CASE k = m
      <4>1. count'[k] > 0
        BY <3>3, <3>4
      <4>2. entry'[k] = n
        BY <2>0, <3>4
      <4>3. Entries(count', entry')[k] = entry'[k]
        BY <3>2, <4>1
      <4> QED
        BY <3>4, <4>2, <4>3
    <3>5. CASE k # m
      <4>1. count'[k] = count[k] /\ entry'[k] = entry[k]
        BY <2>0, <3>3, <3>5
      <4> QED
        BY <3>1, <3>2, <3>5, <4>1
    <3> QED
      BY <3>4, <3>5
  <2>2. IsFunction(Entries(count', entry'), Table)
    BY DEF IsFunction, Entries
  <2> QED
    BY <1>1, <2>1, <2>2 DEF Put, IsFunction
<1>12. copy' = Put(copy, t, m)
  BY DEF Put
<1> QED
  BY <1>6, <1>7, <1>8, <1>10, <1>11, <1>12, AgreeNext

\* Of frames and tables only the count of the table m has become less.
Released(c, m, d) ==
  /\ \A o \in Object : d[o] \in Nat /\ d[o] <= c[o]
  /\ \A g \in Frame : d[g] = c[g]
  /\ \A k \in Table : d[k] = c[k] - IF k = m THEN 1 ELSE 0

\* That is what releasing a table does.
LEMMA ReleasedCounts ==
  ASSUME NEW c \in Counts, NEW m \in Table, NEW d, d = ReleaseTable(c, m), d \in Counts,
         entry[m] \in Number \cup {None}
  PROVE  Released(c, m, d)
<1>1. \A o \in Object : c[o] \in Nat /\ d[o] \in Nat
  BY DEF Counts
<1>2. /\ \A g \in Frame : g \in Object /\ g # m /\ g # entry[m]
      /\ \A k \in Table : k \in Object /\ k # entry[m]
  BY ObjectAssumption DEF Object
<1>3. CASE c[m] # 1
  <2>1. \A o \in Object : d[o] = c[o] - IF o = m THEN 1 ELSE 0
    BY <1>3, ReleaseTableCounts
  <2> QED
    BY <1>1, <1>2, <2>1 DEF Released
<1>4. CASE c[m] = 1
  <2>1. \A o \in Object : d[o] = (c[o] - IF o = m THEN 1 ELSE 0) - IF o = entry[m] THEN 1 ELSE 0
    BY <1>4, ReleaseTableCounts
  <2> QED
    BY <1>1, <1>2, <2>1 DEF Released
<1> QED
  BY <1>3, <1>4

\* A frame takes another table, whose reference may be a clone's.
LEMMA ReplaceTableAgrees ==
  ASSUME IInv, NEW c, NEW C, NEW L, NEW R, NEW E, NEW e,
         L = Planes(count, frame), R = Tables(count, frame), E = Entries(count, entry),
         IsFunction(R, Frame), IsFunction(E, Table),
         Agree(c, Slots(holds, L, R, E, C)),
         NEW x \in Table, e = AddRefs(c, {x}), e \in Counts,
         \A o \in Frame \cup Table : e[o] > 0 <=> count[o] > 0,
         NEW f \in Frame, count[f] > 0, NEW m, m = frame[f].props,
         count' = ReleaseTable(e, m), frame' = [frame EXCEPT ![f].props = x],
         entry' = entry, holds' = holds, copy' = C
  PROVE  Agree(count', pts') /\ \A o \in Object : count'[o] <= e[o]
<1>1. /\ m \in Table /\ count[m] \in Nat \ {0} /\ entry[m] \in Number \cup {None}
      /\ m \in Object /\ x \in Object
  BY FrameLive DEF IInv, Object
<1>2. R[f] = m /\ E[m] = entry[m]
  BY <1>1 DEF Tables, Entries
<1>3. PICK K : K = IF e[m] = 1 THEN Put(E, m, None) ELSE E
  OBVIOUS
<1>4. Agree(ReleaseTable(e, m), Slots(holds, L, Put(R, f, x), K, C))
  BY <1>1, <1>2, <1>3, RepointTable
<1>5. /\ \A o \in Object : count'[o] \in Nat /\ count'[o] <= e[o]
      /\ \A g \in Frame : count'[g] = e[g]
      /\ \A k \in Table : count'[k] = e[k] - IF k = m THEN 1 ELSE 0
  <2>1. PICK d : d = ReleaseTable(e, m)
    OBVIOUS
  <2>2. d \in Counts
    BY <1>4, <2>1 DEF Agree
  <2>3. Released(e, m, d)
    BY <1>1, <2>1, <2>2, ReleasedCounts
  <2>4. count' = d
    BY <2>1
  <2> QED
    BY <2>3, <2>4 DEF Released
<1>6. \A g \in Frame : /\ frame'[g].props = IF g = f THEN x ELSE frame[g].props
                       /\ frame'[g].plane = frame[g].plane
  BY Typed
<1>7. Planes(count', frame') = L
  <2>1. \A g \in Frame : count'[g] > 0 <=> count[g] > 0
    BY <1>5
  <2> QED
    BY <1>6, <2>1 DEF Planes
<1>8. Tables(count', frame') = Put(R, f, x)
  <2>1. \A g \in Frame : Tables(count', frame')[g] = IF g = f THEN x ELSE R[g]
    BY <1>5, <1>6 DEF Tables
  <2>2. IsFunction(Tables(count', frame'), Frame)
    BY DEF IsFunction, Tables
  <2> QED
    BY <2>1, <2>2 DEF Put, IsFunction
<1>9. Entries(count', entry') = K
  <2>1. \A k \in Table : Entries(count', entry')[k] = IF e[m] = 1 /\ k = m THEN None ELSE E[k]
    <3> SUFFICES ASSUME NEW k \in Table
                 PROVE  Entries(count', entry')[k] = IF e[m] = 1 /\ k = m THEN None ELSE E[k]
      OBVIOUS
    <3>1. e[k] \in Nat /\ (e[k] > 0 <=> count[k] > 0) /\ count'[k] = e[k] - IF k = m THEN 1 ELSE 0
      BY <1>5 DEF Counts, Object
    <3>2. e[m] \in Nat \ {0}
      BY <1>1 DEF Counts
    <3> QED
      BY <3>1, <3>2 DEF Entries
  <2>2. IsFunction(Entries(count', entry'), Table)
    BY DEF IsFunction, Entries
  <2>3. CASE e[m] = 1
    BY <1>3, <2>1, <2>2, <2>3, PutIs
  <2>4. CASE e[m] # 1
    BY <1>3, <2>1, <2>2, <2>4 DEF IsFunction
  <2> QED
    BY <2>3, <2>4
<1> QED
  BY <1>4, <1>5, <1>7, <1>8, <1>9, AgreeNext

\* The clone becomes the frame's table.
LEMMA AssignPropsAgrees ==
  ASSUME IInv, NEW t \in Thread, NEW q \in Table, copy[t] = q,
         NEW f \in Frame, count[f] > 0,
         copy' = [copy EXCEPT ![t] = None], count' = ReleaseTable(count, frame[f].props),
         frame' = [frame EXCEPT ![f].props = q], entry' = entry, holds' = holds
  PROVE  Agree(count', pts') /\ \A o \in Object : count'[o] <= count[o]
<1>1. PICK L, R, E :
        /\ L = Planes(count, frame) /\ R = Tables(count, frame) /\ E = Entries(count, entry)
        /\ Agree(count, Slots(holds, L, R, E, copy))
        /\ IsFunction(holds, Holder) /\ IsFunction(L, Frame) /\ IsFunction(R, Frame)
        /\ IsFunction(E, Table) /\ IsFunction(copy, Thread)
  BY AgreeNow
<1>2. Agree(Less(AddRefs(count, {None}), q), Slots(holds, L, R, E, Put(copy, t, None)))
  BY <1>1, RepointCopy
<1>3. PICK c : c = Less(count, q)
  OBVIOUS
<1>4. Agree(c, Slots(holds, L, R, E, Put(copy, t, None)))
  BY <1>1, <1>2, <1>3, NoneCounts
<1>5. count = AddRefs(c, {q}) /\ count \in Counts
  BY <1>1, <1>3, LessAdd DEF Agree
<1>6. copy' = Put(copy, t, None)
  BY DEF Put
<1> QED
  BY <1>1, <1>4, <1>5, <1>6, ReplaceTableAgrees

\* A frame shares another's table.
LEMMA CopyPropsAgrees ==
  ASSUME IInv, NEW x \in Table, count[x] > 0, NEW f \in Frame, count[f] > 0,
         count' = ReleaseTable(AddRefs(count, {x}), frame[f].props),
         frame' = [frame EXCEPT ![f].props = x], entry' = entry, holds' = holds, copy' = copy
  PROVE  Agree(count', pts') /\ \A o \in Object : o # x => count'[o] <= count[o]
<1>1. PICK L, R, E :
        /\ L = Planes(count, frame) /\ R = Tables(count, frame) /\ E = Entries(count, entry)
        /\ Agree(count, Slots(holds, L, R, E, copy))
        /\ IsFunction(holds, Holder) /\ IsFunction(L, Frame) /\ IsFunction(R, Frame)
        /\ IsFunction(E, Table) /\ IsFunction(copy, Thread)
  BY AgreeNow
<1>2. PICK e : e = AddRefs(count, {x})
  OBVIOUS
<1>3. e \in Counts /\ \A o \in Object : e[o] = count[o] + IF o = x THEN 1 ELSE 0
  BY <1>2, Typed DEF AddRefs, Counts
<1>4. \A o \in Frame \cup Table : e[o] > 0 <=> count[o] > 0
  BY <1>3, Typed DEF Object
<1>5. Agree(count', pts') /\ \A o \in Object : count'[o] <= e[o]
  BY <1>1, <1>2, <1>3, <1>4, ReplaceTableAgrees
<1>6. \A o \in Object : o # x => e[o] = count[o]
  BY <1>3, Typed
<1> QED
  BY <1>5, <1>6

\* A table holds another number, or none.
LEMMA SetEntryAgrees ==
  ASSUME IInv, NEW m \in Table, count[m] > 0, NEW n \in Number \cup {None},
         count' = Less(AddRefs(count, {n}), entry[m]), entry' = [entry EXCEPT ![m] = n],
         frame' = frame, holds' = holds, copy' = copy
  PROVE  Agree(count', pts')
<1>1. PICK L, R, E :
        /\ L = Planes(count, frame) /\ R = Tables(count, frame) /\ E = Entries(count, entry)
        /\ Agree(count, Slots(holds, L, R, E, copy))
        /\ IsFunction(holds, Holder) /\ IsFunction(L, Frame) /\ IsFunction(R, Frame)
        /\ IsFunction(E, Table) /\ IsFunction(copy, Thread)
  BY AgreeNow
<1>2. n \in Object \cup {None} /\ E[m] = entry[m] /\ entry[m] \in Number \cup {None}
  BY <1>1, Typed DEF Object, Entries
<1>3. Agree(count', Slots(holds, L, R, Put(E, m, n), copy))
  BY <1>1, <1>2, RepointEntry
<1>4. \A o \in Frame \cup Table : count'[o] = count[o]
  BY <1>2, Typed, ObjectAssumption DEF Less, AddRefs, Object
<1>5. Planes(count', frame') = L /\ Tables(count', frame') = R
  BY <1>1, <1>4 DEF Planes, Tables
<1>6. Entries(count', entry') = Put(E, m, n)
  <2>1. \A k \in Table : Entries(count', entry')[k] = IF k = m THEN n ELSE E[k]
    BY <1>1, <1>4, Typed DEF Entries
  <2>2. IsFunction(Entries(count', entry'), Table)
    BY DEF IsFunction, Entries
  <2> QED
    BY <1>1, <2>1, <2>2 DEF Put, IsFunction
<1> QED
  BY <1>3, <1>5, <1>6, AgreeNext

-----------------------------------------------------------------------------
(* The steps: the invariant is kept *)

\* The parts of the invariant after a step.
LEMMA BaseNext ==
  ASSUME TypeOK', Live', Agree(count', pts')
  PROVE  Base'
BY DEF Base, CountsAgree, Agree

\* Nothing needs to be shown of a thread that is idle.
LEMMA IdleNext ==
  ASSUME NEW u \in Thread, pc'[u] = "idle", copy'[u] = None
  PROVE  Writing(u)'
BY DEF Writing, Guarded

\* An idle thread has no clone.
LEMMA IdleNow ==
  ASSUME IInv, NEW u \in Thread, pc[u] = "idle"
  PROVE  copy[u] = None
BY DEF IInv, Writing

\* Guarded objects are planes, tables and numbers, referred to once.
LEMMA GuardedIs ==
  ASSUME IInv, NEW u \in Thread, NEW o \in Guarded(u)
  PROVE  o \in Object /\ o \notin Frame /\ count[o] = 1 /\ pc[u] # "idle"
BY GuardedSlot, ObjectAssumption

\* Another reference to a frame that is final.
LEMMA ShareKeeps ==
  ASSUME IInv, NEW t \in Thread, NEW h, NEW g, Share(t, h, g)
  PROVE  IInv'
<1>1. /\ h \in Holder /\ h \in Ref /\ holds[h] = None /\ pc[t] = "idle"
      /\ g \in Holder /\ holds[g] # None /\ g \notin mutable /\ g # h
      /\ holds' = [holds EXCEPT ![h] = holds[g]] /\ count' = AddRefs(count, {holds[g]})
      /\ frame' = frame /\ bytes' = bytes /\ entry' = entry /\ number' = number
      /\ mutable' = mutable /\ pc' = pc /\ ref' = ref /\ copy' = copy
  BY SourceApart DEF Share, Free, Holder, threadVars
<1>2. holds[g] \in Frame
  BY <1>1, HolderLive DEF IInv
<1>3. Agree(count', pts')
  BY <1>1, ShareAgrees
<1>4. \A o \in Object : count'[o] = count[o] + IF o = holds[g] THEN 1 ELSE 0
  BY <1>1 DEF AddRefs
<1>5. TypeOK'
  BY <1>1, <1>2, <1>3 DEF IInv, Base, TypeOK, Agree
<1>6. Live'
  <2>1. count[holds[g]] > 0
    BY <1>1, HolderLive DEF IInv
  <2>2. \A f \in Frame : f \in Object /\ count[f] \in Nat
    BY Typed DEF Object
  <2>3. \A f \in Frame : count'[f] > 0 => count[f] > 0
    BY <1>4, <2>1, <2>2
  <2> QED
    BY <1>1, <2>3 DEF IInv, Base, Live
<1>7. Base'
  BY <1>3, <1>5, <1>6, BaseNext
<1>8. Own'
  BY <1>1, Typed DEF IInv, Base, TypeOK, Own, Holder
<1>9. ASSUME NEW u \in Thread
      PROVE  Writing(u)'
  <2>1. \A o \in Guarded(u) : count'[o] <= count[o]
    BY <1>2, <1>4, GuardedIs, Typed
  <2>2. pc[u] # "idle" => holds'[ref[u]] = holds[ref[u]] /\ ref[u] \in mutable'
    BY <1>1, Busy, Typed DEF IInv, Own
  <2> QED
    BY <1>1, <1>7, <2>1, <2>2, Undisturbed
<1> QED
  BY <1>7, <1>8, <1>9 DEF IInv

\* The end of a reference.
LEMMA FreeKeeps ==
  ASSUME IInv, NEW h \in Holder, FreeRef(h)
  PROVE  IInv'
<1>1. /\ holds[h] # None /\ (h \in Ref => pc[h[1]] = "idle")
      /\ holds' = [holds EXCEPT ![h] = None] /\ count' = ReleaseFrame(count, holds[h])
      /\ frame' = frame /\ bytes' = bytes /\ entry' = entry /\ number' = number
      /\ mutable' = mutable \ {h} /\ pc' = pc /\ ref' = ref /\ copy' = copy
  BY DEF FreeRef, threadVars
<1>2. Agree(count', pts') /\ \A o \in Object : count'[o] <= count[o]
  BY <1>1, FreeAgrees
<1>3. TypeOK'
  BY <1>1, <1>2 DEF IInv, Base, TypeOK, Agree
<1>4. Live'
  <2>1. \A f \in Frame : count'[f] > 0 => count[f] > 0
    BY <1>2, Typed DEF Object, Agree, Counts
  <2> QED
    BY <1>1, <2>1 DEF IInv, Base, Live
<1>5. Base'
  BY <1>2, <1>3, <1>4, BaseNext
<1>6. Own'
  BY <1>1, Typed DEF IInv, Base, TypeOK, Own, Holder
<1>7. ASSUME NEW u \in Thread
      PROVE  Writing(u)'
  <2>1. \A o \in Guarded(u) : count'[o] <= count[o]
    BY <1>2, GuardedIs
  <2>2. pc[u] # "idle" => holds'[ref[u]] = holds[ref[u]] /\ ref[u] \in mutable'
    BY <1>1, Busy, Typed DEF IInv, Own
  <2> QED
    BY <1>1, <1>5, <2>1, <2>2, Undisturbed
<1> QED
  BY <1>5, <1>6, <1>7 DEF IInv

\* A frame becomes a product.
LEMMA ReturnKeeps ==
  ASSUME IInv, NEW t \in Thread, NEW h, NEW g, Return(t, h, g)
  PROVE  IInv'
<1>1. /\ h \in Holder /\ h \in Ref /\ h[1] = t /\ holds[h] # None /\ pc[t] = "idle"
      /\ g \in Holder /\ g \notin Ref /\ g # h /\ holds[g] = None
      /\ holds' = [holds EXCEPT ![g] = holds[h], ![h] = None]
      /\ count' = count /\ frame' = frame /\ bytes' = bytes /\ entry' = entry
      /\ number' = number /\ mutable' = mutable \ {h}
      /\ pc' = pc /\ ref' = ref /\ copy' = copy
  BY HolderAssumption DEF Return, Mine, Holder, heapVars, threadVars
<1>2. Agree(count', pts')
  BY <1>1, ReturnAgrees
<1>3. holds[h] \in Frame
  BY <1>1, HolderLive DEF IInv
<1>4. \A k \in Holder : holds'[k] = IF k = h THEN None ELSE IF k = g THEN holds[h] ELSE holds[k]
  BY <1>1, Typed
<1>5. TypeOK'
  BY <1>1, <1>2, <1>3 DEF IInv, Base, TypeOK, Agree
<1>6. Base'
  BY <1>1, <1>2, <1>5, BaseNext DEF IInv, Base, Live
<1>7. Own'
  <2> SUFFICES ASSUME NEW k \in mutable \ {h}
               PROVE  holds'[k] # None /\ \A i \in Holder : holds'[i] = holds'[k] => i = k
    BY <1>1 DEF Own
  <2>1. k \in Holder /\ k # h /\ k # g
    BY <1>1 DEF IInv, Base, TypeOK, Holder
  <2>2. holds[k] # None /\ \A i \in Holder : holds[i] = holds[k] => i = k
    BY DEF IInv, Own
  <2> QED
    BY <1>1, <1>4, <2>1, <2>2
<1>8. ASSUME NEW u \in Thread
      PROVE  Writing(u)'
  <2>1. \A o \in Guarded(u) : count'[o] <= count[o]
    BY <1>1, GuardedIs
  <2>2. pc[u] # "idle" => holds'[ref[u]] = holds[ref[u]] /\ ref[u] \in mutable'
    <3> SUFFICES ASSUME pc[u] # "idle"
                 PROVE  holds'[ref[u]] = holds[ref[u]] /\ ref[u] \in mutable'
      OBVIOUS
    <3>1. ref[u] \in mutable /\ ref[u] \in Ref /\ ref[u] \in Holder /\ ref[u][1] = u
      BY Busy
    <3>2. pc[t] = "idle" /\ h[1] = t /\ g \notin Ref /\ mutable' = mutable \ {h}
      BY <1>1
    <3>3. ref[u] # h /\ ref[u] # g
      BY <3>1, <3>2
    <3> QED
      BY <1>4, <3>1, <3>2, <3>3
  <2> QED
    BY <1>1, <1>6, <2>1, <2>2, Undisturbed
<1> QED
  BY <1>6, <1>7, <1>8 DEF IInv

\* A new frame.
LEMMA CreateKeeps ==
  ASSUME IInv, NEW t \in Thread, NEW h, NEW a \in Sources(t) \cup {None},
         NEW b \in Sources(t) \cup {None}, Create(t, h, a, b)
  PROVE  IInv'
<1>1. PICK f, p, m : CreateForm(t, h, a, b, f, p, m)
  BY CreateForms
<1>2. /\ f \in Frame /\ count[f] = 0 /\ p \in Plane /\ m \in Table
      /\ a = None => count[p] = 0
      /\ a # None => p = frame[holds[a]].plane
      /\ b = None => count[m] = 0
      /\ b # None => m = frame[holds[b]].props
      /\ h \in Holder /\ h \in Ref /\ h[1] = t /\ holds[h] = None /\ pc[t] = "idle"
      /\ frame' = [frame EXCEPT ![f] = [plane |-> p, props |-> m]]
      /\ b = None => entry' = [entry EXCEPT ![m] = None]
      /\ b # None => entry' = entry
      /\ count' = AddRefs(count, {f, p, m})
      /\ holds' = [holds EXCEPT ![h] = f]
      /\ mutable' = mutable \cup {h}
      /\ a = None => \E x \in Byte : bytes' = [bytes EXCEPT ![p] = x]
      /\ a # None => bytes' = bytes
      /\ number' = number /\ pc' = pc /\ ref' = ref /\ copy' = copy
  BY <1>1 DEF CreateForm, threadVars
<1>3. Agree(count', pts')
  BY <1>1, CreateAgrees
<1>4. \A o \in Object : count'[o] = count[o] + IF o \in {f, p, m} THEN 1 ELSE 0
  BY <1>2 DEF AddRefs
<1>5. TypeOK'
  <2>1. bytes' \in [Plane -> Byte]
    BY <1>2 DEF IInv, Base, TypeOK
  <2>2. entry' \in [Table -> Number \cup {None}]
    BY <1>2 DEF IInv, Base, TypeOK
  <2>3. frame' \in [Frame -> [plane : Plane \cup {None}, props : Table \cup {None}]]
    BY <1>2 DEF IInv, Base, TypeOK
  <2>4. holds' \in [Holder -> Frame \cup {None}] /\ mutable' \subseteq Ref
    BY <1>2 DEF IInv, Base, TypeOK
  <2>5. number' \in [Number -> Elements] /\ pc' \in [Thread -> Working \cup {"idle"}]
        /\ ref' \in [Thread -> Ref \cup {None}]
        /\ copy' \in [Thread -> Plane \cup Table \cup {None}]
    BY <1>2 DEF IInv, Base, TypeOK
  <2> QED
    BY <1>3, <2>1, <2>2, <2>3, <2>4, <2>5 DEF TypeOK, Agree
<1>6. Live'
  <2>1. \A g \in Frame : g \in Object /\ count[g] \in Nat /\ g # p /\ g # m
    BY <1>2, Typed, ObjectAssumption DEF Object
  <2>2. \A g \in Frame : g # f /\ count'[g] > 0 => count[g] > 0
    BY <1>4, <2>1
  <2>3. \A g \in Frame : frame'[g] = IF g = f THEN [plane |-> p, props |-> m] ELSE frame[g]
    BY <1>2, Typed
  <2> QED
    <3> SUFFICES ASSUME NEW g \in Frame, count'[g] > 0
                 PROVE  frame'[g].plane \in Plane /\ frame'[g].props \in Table
      BY DEF Live
    <3>1. CASE g = f
      BY <1>2, <2>3, <3>1
    <3>2. CASE g # f
      BY <2>2, <2>3, <3>2 DEF IInv, Base, Live
    <3> QED
      BY <3>1, <3>2
<1>7. Base'
  BY <1>3, <1>5, <1>6, BaseNext
<1>8. Own'
  <2>1. \A g \in Holder : holds[g] # f
    BY <1>2, HolderLive, ObjectAssumption DEF IInv
  <2>2. \A g \in Holder : holds'[g] = IF g = h THEN f ELSE holds[g]
    BY <1>2, Typed
  <2>3. f # None
    BY <1>2, ObjectAssumption
  <2> SUFFICES ASSUME NEW k \in mutable \cup {h}
               PROVE  holds'[k] # None /\ \A i \in Holder : holds'[i] = holds'[k] => i = k
    BY <1>2 DEF Own
  <2>4. k \in Holder
    BY <1>2 DEF IInv, Base, TypeOK, Holder
  <2>5. k # h => holds[k] # None /\ \A i \in Holder : holds[i] = holds[k] => i = k
    BY DEF IInv, Own
  <2> QED
    BY <2>1, <2>2, <2>3, <2>4, <2>5
<1>9. ASSUME NEW u \in Thread
      PROVE  Writing(u)'
  <2>1. CASE pc[u] = "idle"
    BY <1>2, <2>1, IdleNow, IdleNext
  <2>2. CASE pc[u] # "idle"
    <3>1. p \notin Guarded(u)
      <4>1. CASE a = None
        BY <1>2, <4>1, GuardedIs
      <4>2. CASE a # None
        BY <1>2, <2>2, <4>2, SourceApart, Apart
      <4> QED
        BY <4>1, <4>2
    <3>2. m \notin Guarded(u)
      <4>1. CASE b = None
        BY <1>2, <4>1, GuardedIs
      <4>2. CASE b # None
        BY <1>2, <2>2, <4>2, SourceApart, Apart
      <4> QED
        BY <4>1, <4>2
    <3>3. \A o \in Guarded(u) : count'[o] <= count[o]
      <4>1. \A o \in Guarded(u) : o \in Object /\ o \notin {f, p, m} /\ count[o] \in Nat
        BY <1>2, <3>1, <3>2, GuardedIs
      <4> QED
        BY <1>4, <4>1
    <3>4. /\ ref[u] \in Holder /\ ref[u] \in mutable /\ ref[u] # h
          /\ Written(u) \in Frame /\ Written(u) # f /\ count[Written(u)] > 0
      BY <1>2, <2>2, Busy, ObjectAssumption DEF Written
    <3>5. /\ MyPlane(u) \in Plane /\ count[MyPlane(u)] > 0
          /\ MyTable(u) \in Table /\ count[MyTable(u)] > 0
      BY <3>4, FrameLive DEF IInv, MyPlane, MyTable, Written
    <3>6. copy[u] # None => copy[u] \in Plane \cup Table /\ count[copy[u]] > 0
      BY CopyLive DEF IInv
    <3>7. None \notin Plane /\ None \notin Table
      BY ObjectAssumption
    <3>8. \A q \in Plane : count[q] > 0 => bytes'[q] = bytes[q]
      BY <1>2 DEF IInv, Base, TypeOK
    <3>9. \A q \in Table : count[q] > 0 => entry'[q] = entry[q]
      BY <1>2 DEF IInv, Base, TypeOK
    <3>10. /\ ref[u] \in mutable' /\ holds'[ref[u]] = holds[ref[u]]
           /\ frame'[Written(u)] = frame[Written(u)]
      BY <1>2, <3>4, Typed
    <3> QED
      BY <1>2, <1>7, <3>3, <3>5, <3>6, <3>7, <3>8, <3>9, <3>10, Undisturbed
  <2> QED
    BY <2>1, <2>2
<1> QED
  BY <1>7, <1>8, <1>9 DEF IInv

\* A step that only one thread's own variables change in.
LEMMA LocalKeeps ==
  ASSUME IInv, NEW t \in Thread, heapVars' = heapVars, holds' = holds, mutable' = mutable,
         copy' = copy, TypeOK', Writing(t)',
         \A u \in Thread \ {t} : pc'[u] = pc[u] /\ ref'[u] = ref[u]
  PROVE  IInv'
<1>1. /\ count' = count /\ frame' = frame /\ bytes' = bytes /\ entry' = entry
      /\ number' = number
  BY DEF heapVars
<1>2. Base'
  <2>1. Agree(count', pts')
    BY <1>1, SameAgrees
  <2>2. Live'
    BY <1>1 DEF IInv, Base, Live
  <2> QED
    BY <2>1, <2>2, BaseNext
<1>3. Own'
  BY DEF IInv, Own
<1>4. ASSUME NEW u \in Thread, u # t
      PROVE  Writing(u)'
  <2>1. \A o \in Guarded(u) : count'[o] <= count[o]
    BY <1>1, GuardedIs
  <2>2. pc[u] # "idle" => ref[u] \in mutable'
    BY Busy
  <2> QED
    BY <1>1, <1>2, <1>4, <2>1, <2>2, Undisturbed
<1> QED
  BY <1>2, <1>3, <1>4 DEF IInv

\* The check of a plane's count.
LEMMA GetWritePtrKeeps ==
  ASSUME IInv, NEW t \in Thread, NEW h, GetWritePtr(t, h)
  PROVE  IInv'
<1>1. /\ pc[t] = "idle" /\ h \in Ref /\ h \in mutable /\ h[1] = t /\ copy[t] = None
      /\ ref' = [ref EXCEPT ![t] = h]
      /\ pc' = [pc EXCEPT ![t] = IF count[frame[holds[h]].plane] = 1 THEN "plane" ELSE "clone plane"]
      /\ heapVars' = heapVars /\ holds' = holds /\ mutable' = mutable /\ copy' = copy
  BY IdleNow DEF GetWritePtr, Mine, Goto, is_unique
<1>2. TypeOK'
  BY <1>1 DEF IInv, Base, TypeOK, heapVars, Working
<1>3. ref'[t] = h /\ pc'[t] \in {"plane", "clone plane"}
      /\ (pc'[t] = "plane" => count[frame[holds[h]].plane] = 1)
  BY <1>1 DEF IInv, Base, TypeOK
<1>4. Writing(t)'
  <2>1. MyPlane(t)' = frame[holds[h]].plane /\ count' = count
    BY <1>1, <1>3 DEF Written, MyPlane, heapVars
  <2>0. ref'[t] \in mutable' /\ ref'[t][1] = t /\ copy'[t] = None
    <3>1. ref'[t] = h /\ h[1] = t
      BY <1>1, <1>3
    <3>2. h \in mutable'
      BY <1>1
    <3>3. copy'[t] = None
      BY <1>1
    <3> QED
      BY <3>1, <3>2, <3>3
  <2>2. CASE pc'[t] = "plane"
    <3>1. Guarded(t)' = {frame[holds[h]].plane}
      BY <2>1, <2>2 DEF Guarded
    <3> QED
      BY <1>3, <2>1, <2>0, <2>2, <3>1 DEF Writing
  <2>3. CASE pc'[t] = "clone plane"
    <3>1. Guarded(t)' = {}
      BY <2>3 DEF Guarded
    <3> QED
      BY <2>0, <2>3, <3>1 DEF Writing
  <2> QED
    BY <1>3, <2>2, <2>3
<1> QED
  BY <1>1, <1>2, <1>4, LocalKeeps DEF IInv, Base, TypeOK

\* The check of a table's count.
LEMMA GetFramePropsRWKeeps ==
  ASSUME IInv, NEW t \in Thread, NEW h, GetFramePropsRW(t, h)
  PROVE  IInv'
<1>1. /\ pc[t] = "idle" /\ h \in Ref /\ h \in mutable /\ h[1] = t /\ copy[t] = None
      /\ ref' = [ref EXCEPT ![t] = h]
      /\ pc' = [pc EXCEPT ![t] = IF count[frame[holds[h]].props] = 1 THEN "props" ELSE "clone props"]
      /\ heapVars' = heapVars /\ holds' = holds /\ mutable' = mutable /\ copy' = copy
  BY IdleNow DEF GetFramePropsRW, Mine, Goto, is_unique
<1>2. TypeOK'
  BY <1>1 DEF IInv, Base, TypeOK, heapVars, Working
<1>3. ref'[t] = h /\ pc'[t] \in {"props", "clone props"}
      /\ (pc'[t] = "props" => count[frame[holds[h]].props] = 1)
  BY <1>1 DEF IInv, Base, TypeOK
<1>4. Writing(t)'
  <2>1. MyTable(t)' = frame[holds[h]].props /\ count' = count
    BY <1>1, <1>3 DEF Written, MyTable, heapVars
  <2>0. ref'[t] \in mutable' /\ ref'[t][1] = t /\ copy'[t] = None
    <3>1. ref'[t] = h /\ h[1] = t
      BY <1>1, <1>3
    <3>2. h \in mutable'
      BY <1>1
    <3>3. copy'[t] = None
      BY <1>1
    <3> QED
      BY <3>1, <3>2, <3>3
  <2>2. CASE pc'[t] = "props"
    <3>1. Guarded(t)' = {frame[holds[h]].props}
      BY <2>1, <2>2 DEF Guarded
    <3> QED
      BY <1>3, <2>1, <2>0, <2>2, <3>1 DEF Writing
  <2>3. CASE pc'[t] = "clone props"
    <3>1. Guarded(t)' = {}
      BY <2>3 DEF Guarded
    <3> QED
      BY <2>0, <2>3, <3>1 DEF Writing
  <2> QED
    BY <1>3, <2>2, <2>3
<1> QED
  BY <1>1, <1>2, <1>4, LocalKeeps DEF IInv, Base, TypeOK

\* The check of a number's count.
LEMMA PropAppendIntKeeps ==
  ASSUME IInv, NEW t \in Thread, PropAppendInt(t)
  PROVE  IInv'
<1>1. /\ pc[t] = "props" /\ MyNumber(t) # None /\ Len(number[MyNumber(t)]) < MaxLen
      /\ \/ pc' = [pc EXCEPT ![t] = "append"] /\ count[MyNumber(t)] = 1
         \/ pc' = pc
      /\ heapVars' = heapVars /\ holds' = holds /\ mutable' = mutable
      /\ ref' = ref /\ copy' = copy
  BY DEF PropAppendInt, Goto, is_unique
<1>2. TypeOK'
  <2>1. pc' \in [Thread -> Working \cup {"idle"}]
    BY <1>1 DEF IInv, Base, TypeOK, Working
  <2>2. /\ count' = count /\ frame' = frame /\ bytes' = bytes /\ entry' = entry
        /\ number' = number /\ holds' = holds /\ mutable' = mutable
        /\ ref' = ref /\ copy' = copy
    BY <1>1 DEF heapVars
  <2> QED
    BY <2>1, <2>2 DEF IInv, Base, TypeOK
<1>3. /\ MyTable(t)' = MyTable(t) /\ MyNumber(t)' = MyNumber(t)
      /\ count' = count /\ number' = number
  BY <1>1 DEF MyTable, MyNumber, heapVars
<1>4. MyNumber(t) \in Number
  BY <1>1, Busy, FrameLive DEF IInv, MyNumber, MyTable, Written
<1>5. Writing(t) /\ Guarded(t) = {MyTable(t)}
  BY <1>1 DEF IInv, Guarded
<1>6. CASE pc' = [pc EXCEPT ![t] = "append"] /\ count[MyNumber(t)] = 1
  <2>1. pc'[t] = "append"
    BY <1>6 DEF IInv, Base, TypeOK
  <2>2. Guarded(t)' = {MyTable(t), MyNumber(t)}
    BY <1>3, <2>1 DEF Guarded
  <2>3. Writing(t)'
    BY <1>1, <1>3, <1>4, <1>5, <1>6, <2>1, <2>2 DEF Writing
  <2> QED
    BY <1>1, <1>2, <1>6, <2>3, LocalKeeps DEF IInv, Base, TypeOK
<1>7. CASE pc' = pc
  <2>1. Guarded(t)' = {MyTable(t)}
    BY <1>1, <1>3, <1>7 DEF Guarded
  <2>2. Writing(t)'
    BY <1>1, <1>3, <1>5, <1>7, <2>1 DEF Writing
  <2> QED
    BY <1>1, <1>2, <1>7, <2>2, LocalKeeps
<1> QED
  BY <1>1, <1>6, <1>7

\* The filter is finished.
LEMMA DoneKeeps ==
  ASSUME IInv, NEW t \in Thread, Done(t)
  PROVE  IInv'
<1>1. /\ pc[t] \in {"plane", "props"}
      /\ ref' = [ref EXCEPT ![t] = None] /\ pc' = [pc EXCEPT ![t] = "idle"]
      /\ heapVars' = heapVars /\ holds' = holds /\ mutable' = mutable /\ copy' = copy
  BY DEF Done, Goto
<1>2. TypeOK'
  BY <1>1 DEF IInv, Base, TypeOK, heapVars
<1>3. pc'[t] = "idle" /\ copy'[t] = None
  BY <1>1 DEF IInv, Base, TypeOK, Writing
<1>4. Writing(t)'
  BY <1>3, IdleNext
<1> QED
  BY <1>1, <1>2, <1>4, LocalKeeps DEF IInv, Base, TypeOK

\* What a thread that is busy refers to is referred to, and has its type.
LEMMA Works ==
  ASSUME IInv, NEW t \in Thread, pc[t] # "idle"
  PROVE  /\ Written(t) \in Frame /\ count[Written(t)] > 0
         /\ MyPlane(t) \in Plane /\ count[MyPlane(t)] \in Nat \ {0}
         /\ MyTable(t) \in Table /\ count[MyTable(t)] \in Nat \ {0}
         /\ MyNumber(t) \in Number \cup {None}
         /\ MyNumber(t) # None => count[MyNumber(t)] \in Nat \ {0}
         /\ pts[PlaneAt(Written(t))] = MyPlane(t) /\ pts[PropsAt(Written(t))] = MyTable(t)
         /\ MyPlane(t) = frame[Written(t)].plane /\ MyTable(t) = frame[Written(t)].props
         /\ MyNumber(t) = entry[MyTable(t)]
<1>1. Written(t) \in Frame /\ count[Written(t)] \in Nat \ {0}
  BY Busy
<1> QED
  BY <1>1, FrameLive DEF IInv, MyPlane, MyTable, MyNumber, Written

\* A busy thread changes what it guards and free memory, and takes no reference to
\* what another thread guards: nothing changes for the others.
LEMMA OthersKeep ==
  ASSUME IInv, Base', NEW t \in Thread, pc[t] # "idle", holds' = holds, mutable' = mutable,
         \A u \in Thread \ {t} : pc'[u] = pc[u] /\ ref'[u] = ref[u] /\ copy'[u] = copy[u],
         \A f \in Frame : f # Written(t) => frame'[f] = frame[f],
         \A o \in Object : count[o] = 1 /\ o # MyNumber(t) => count'[o] <= count[o],
         \A p \in Plane : count[p] > 0 /\ p \notin Guarded(t) => bytes'[p] = bytes[p],
         \A m \in Table : count[m] > 0 /\ m \notin Guarded(t) => entry'[m] = entry[m],
         \A n \in Number : count[n] > 0 /\ n \notin Guarded(t) => number'[n] = number[n]
  PROVE  \A u \in Thread \ {t} : Writing(u)'
<1> SUFFICES ASSUME NEW u \in Thread, u # t
             PROVE  Writing(u)'
  OBVIOUS
<1>1. CASE pc[u] = "idle"
  BY <1>1, IdleNow, IdleNext
<1>2. CASE pc[u] # "idle"
  <2>1. /\ ref[t] \in Holder /\ holds[ref[t]] # None /\ ref[t][1] = t
        /\ ref[u] \in Holder /\ holds[ref[u]] # None /\ ref[u][1] = u
        /\ ref[u] \in mutable /\ ref[u] # ref[t]
    BY <1>2, Busy, HolderLive, ObjectAssumption DEF Written
  <2>2. /\ holds[ref[u]] # Written(t)
        /\ frame[holds[ref[u]]].plane \notin Guarded(t)
        /\ frame[holds[ref[u]]].props \notin Guarded(t)
        /\ entry[frame[holds[ref[u]]].props] \notin Guarded(t)
    BY <2>1, Apart
  <2>3. entry[frame[holds[ref[t]]].props] \notin Guarded(u)
    BY <1>2, <2>1, Apart
  <2>4. /\ Written(u) # Written(t) /\ MyPlane(u) \notin Guarded(t)
        /\ MyTable(u) \notin Guarded(t) /\ MyNumber(u) \notin Guarded(t)
        /\ MyNumber(t) \notin Guarded(u)
    BY <2>2, <2>3 DEF Written, MyPlane, MyTable, MyNumber
  <2>5. /\ Written(u) \in Frame
        /\ MyPlane(u) \in Plane /\ count[MyPlane(u)] > 0
        /\ MyTable(u) \in Table /\ count[MyTable(u)] > 0
        /\ MyNumber(u) \in Number \cup {None}
        /\ MyNumber(u) # None => count[MyNumber(u)] > 0
    BY <1>2, Works
  <2>6. \A o \in Guarded(u) : count'[o] <= count[o]
    BY <2>4, GuardedIs
  <2>7. /\ frame'[Written(u)] = frame[Written(u)]
        /\ bytes'[MyPlane(u)] = bytes[MyPlane(u)]
        /\ entry'[MyTable(u)] = entry[MyTable(u)]
    BY <2>4, <2>5
  <2>8. pc[u] = "append" => number'[MyNumber(u)] = number[MyNumber(u)]
    <3>1. pc[u] = "append" => MyNumber(u) \in Number
      BY DEF IInv, Writing
    <3>2. None \notin Number
      BY ObjectAssumption
    <3> QED
      BY <2>4, <2>5, <3>1, <3>2
  <2>9. /\ copy[u] \in Plane => bytes'[copy[u]] = bytes[copy[u]]
        /\ copy[u] \in Table => entry'[copy[u]] = entry[copy[u]]
    <3>1. copy[u] # None => copy[u] \notin Guarded(t) /\ count[copy[u]] > 0
      BY CopyApart, CopyLive DEF IInv
    <3>2. None \notin Plane /\ None \notin Table
      BY ObjectAssumption
    <3> QED
      BY <3>1, <3>2
  <2> QED
    BY <2>1, <2>6, <2>7, <2>8, <2>9, Undisturbed
<1> QED
  BY <1>1, <1>2

\* What holders see, other than the reference a thread writes through, does not change.
OthersSee(t) == \A h \in Holder \ {ref[t]} : Seen(h)' = Seen(h)

\* What a holder sees depends on its frame, plane, table and number only.
LEMMA SeenSame ==
  ASSUME NEW h, holds'[h] = holds[h],
         holds[h] # None =>
           /\ frame'[holds[h]] = frame[holds[h]]
           /\ bytes'[frame[holds[h]].plane] = bytes[frame[holds[h]].plane]
           /\ entry'[frame[holds[h]].props] = entry[frame[holds[h]].props]
           /\ entry[frame[holds[h]].props] # None =>
                number'[entry[frame[holds[h]].props]] = number[entry[frame[holds[h]].props]]
  PROVE  Seen(h)' = Seen(h)
BY DEF Seen

\* A busy thread changes what it guards and free memory only: others see no change.
LEMMA OthersSeeSame ==
  ASSUME IInv, NEW t \in Thread, pc[t] # "idle", holds' = holds,
         \A f \in Frame : f # Written(t) => frame'[f] = frame[f],
         \A p \in Plane : count[p] > 0 /\ p \notin Guarded(t) => bytes'[p] = bytes[p],
         \A m \in Table : count[m] > 0 /\ m \notin Guarded(t) => entry'[m] = entry[m],
         \A n \in Number : count[n] > 0 /\ n \notin Guarded(t) => number'[n] = number[n]
  PROVE  OthersSee(t)
<1> SUFFICES ASSUME NEW h \in Holder, h # ref[t]
             PROVE  Seen(h)' = Seen(h)
  BY DEF OthersSee
<1>1. holds'[h] = holds[h]
  OBVIOUS
<1>2. ASSUME holds[h] # None
      PROVE  /\ frame'[holds[h]] = frame[holds[h]]
             /\ bytes'[frame[holds[h]].plane] = bytes[frame[holds[h]].plane]
             /\ entry'[frame[holds[h]].props] = entry[frame[holds[h]].props]
             /\ entry[frame[holds[h]].props] # None =>
                  number'[entry[frame[holds[h]].props]] = number[entry[frame[holds[h]].props]]
  <2>1. /\ holds[h] # Written(t)
        /\ frame[holds[h]].plane \notin Guarded(t)
        /\ frame[holds[h]].props \notin Guarded(t)
        /\ entry[frame[holds[h]].props] \notin Guarded(t)
    BY <1>2, Apart
  <2>2. holds[h] \in Frame /\ count[holds[h]] > 0
    BY <1>2, HolderLive DEF IInv
  <2>3. /\ frame[holds[h]].plane \in Plane /\ count[frame[holds[h]].plane] > 0
        /\ frame[holds[h]].props \in Table /\ count[frame[holds[h]].props] > 0
        /\ entry[frame[holds[h]].props] \in Number \cup {None}
        /\ entry[frame[holds[h]].props] # None => count[entry[frame[holds[h]].props]] > 0
    BY <2>2, FrameLive DEF IInv
  <2> QED
    BY <2>1, <2>2, <2>3
<1> QED
  BY <1>1, <1>2, SeenSame

\* A step after which the counts are exact and nothing changes for the other threads.
LEMMA BusyKeeps ==
  ASSUME IInv, TypeOK', Live', Agree(count', pts'),
         NEW t \in Thread, pc[t] # "idle", holds' = holds, mutable' = mutable,
         \A u \in Thread \ {t} : pc'[u] = pc[u] /\ ref'[u] = ref[u] /\ copy'[u] = copy[u],
         \A f \in Frame : f # Written(t) => frame'[f] = frame[f],
         \A o \in Object : count[o] = 1 /\ o # MyNumber(t) => count'[o] <= count[o],
         \A p \in Plane : count[p] > 0 /\ p \notin Guarded(t) => bytes'[p] = bytes[p],
         \A m \in Table : count[m] > 0 /\ m \notin Guarded(t) => entry'[m] = entry[m],
         \A n \in Number : count[n] > 0 /\ n \notin Guarded(t) => number'[n] = number[n],
         Writing(t)'
  PROVE  IInv' /\ OthersSee(t)
<1>1. Base'
  BY BaseNext
<1>2. \A u \in Thread \ {t} : Writing(u)'
  BY <1>1, OthersKeep
<1>3. Own'
  BY DEF IInv, Own
<1>4. OthersSee(t)
  BY OthersSeeSame
<1> QED
  BY <1>1, <1>2, <1>3, <1>4 DEF IInv

\* A plane is cloned.
LEMMA ClonePlaneKeeps ==
  ASSUME IInv, NEW t \in Thread, ClonePlane(t)
  PROVE  IInv' /\ OthersSee(t)
<1>1. PICK p : p = New(Plane)
  OBVIOUS
<1>2. /\ pc[t] = "clone plane" /\ p \in Plane /\ count[p] = 0
      /\ bytes' = [bytes EXCEPT ![p] = bytes[MyPlane(t)]] /\ count' = AddRefs(count, {p})
      /\ copy' = [copy EXCEPT ![t] = p] /\ pc' = [pc EXCEPT ![t] = "assign plane"]
      /\ frame' = frame /\ entry' = entry /\ number' = number /\ holds' = holds
      /\ mutable' = mutable /\ ref' = ref
  BY <1>1, NewFree DEF ClonePlane, Goto, MyPlane, Written
<1>3. copy[t] = None /\ ref[t] \in mutable /\ ref[t][1] = t
  BY <1>2 DEF IInv, Writing
<1>4. Agree(count', pts')
  BY <1>2, <1>3, ClonePlaneAgrees
<1>5. /\ \A o \in Object : count'[o] = count[o] + IF o = p THEN 1 ELSE 0
      /\ p \in Plane /\ count[p] = 0
  BY <1>2 DEF AddRefs
<1>6. MyPlane(t) \in Plane /\ MyPlane(t) # p /\ MyPlane(t)' = MyPlane(t)
  BY <1>2, Works DEF MyPlane, Written
<1>7. TypeOK'
  BY <1>2, <1>4, <1>6 DEF IInv, Base, TypeOK, Agree, Working
<1>8. Live'
  <2>1. \A f \in Frame : f \in Object /\ count'[f] = count[f]
    BY <1>5, Typed, ObjectAssumption DEF Object
  <2> QED
    BY <1>2, <2>1 DEF IInv, Base, Live
<1>9. pc'[t] = "assign plane" /\ copy'[t] = p
      /\ \A q \in Plane : bytes'[q] = IF q = p THEN bytes[MyPlane(t)] ELSE bytes[q]
  BY <1>2 DEF IInv, Base, TypeOK
<1>10. Writing(t)'
  <2>1. Guarded(t)' = {p}
    BY <1>9 DEF Guarded
  <2>2. count'[p] = 1
    BY <1>5 DEF Object
  <2>3. ref'[t] = ref[t]
    BY <1>2
  <2> QED
    BY <1>2, <1>3, <1>6, <1>9, <2>1, <2>2, <2>3 DEF Writing
<1>11. \A u \in Thread \ {t} : pc'[u] = pc[u] /\ ref'[u] = ref[u] /\ copy'[u] = copy[u]
  BY <1>2, Typed DEF IInv, Base, TypeOK
<1>12. \A o \in Object : count[o] = 1 => count'[o] <= count[o]
  BY <1>5
<1>13. \A q \in Plane : count[q] > 0 => bytes'[q] = bytes[q]
  <2>1. count[p] = 0 /\ \A q \in Plane : q # p => bytes'[q] = bytes[q]
    BY <1>5, <1>9
  <2> QED
    BY <2>1
<1>14. /\ pc[t] # "idle" /\ holds' = holds /\ mutable' = mutable
       /\ frame' = frame /\ entry' = entry /\ number' = number
  BY <1>2
<1> QED
  BY <1>4, <1>7, <1>8, <1>10, <1>11, <1>12, <1>13, <1>14, BusyKeeps

\* The clone becomes the plane of the frame.
LEMMA AssignPlaneKeeps ==
  ASSUME IInv, NEW t \in Thread, AssignPlane(t)
  PROVE  IInv' /\ OthersSee(t)
<1>1. PICK f, q : f = Written(t) /\ q = copy[t]
  OBVIOUS
<1>2. /\ pc[t] = "assign plane" /\ frame' = [frame EXCEPT ![f].plane = q]
      /\ count' = Less(count, frame[f].plane)
      /\ copy' = [copy EXCEPT ![t] = None] /\ pc' = [pc EXCEPT ![t] = "plane"]
      /\ bytes' = bytes /\ entry' = entry /\ number' = number /\ holds' = holds
      /\ mutable' = mutable /\ ref' = ref
  BY <1>1 DEF AssignPlane, Goto, Written
<1>3. /\ ref[t] \in mutable /\ ref[t][1] = t /\ q \in Plane
      /\ q \in Guarded(t) /\ count[q] = 1 /\ q \in Object
  BY <1>1, <1>2 DEF IInv, Writing, Guarded, Object
<1>4. /\ f \in Frame /\ count[f] > 0 /\ frame[f].plane \in Plane /\ q # frame[f].plane
      /\ count[frame[f].plane] \in Nat \ {0}
  <2>1. /\ f \in Frame /\ count[f] > 0 /\ frame[f].plane \in Plane
        /\ count[frame[f].plane] \in Nat \ {0} /\ pts[PlaneAt(f)] = frame[f].plane
    BY <1>1, <1>2, Works
  <2>2. pts[CopyAt(t)] = q
    BY <1>1, PointsAt DEF pts
  <2>3. q = frame[f].plane => CopyAt(t) = PlaneAt(f)
    BY <1>3, <2>1, <2>2, SlotKinds, OneSlot DEF IInv
  <2> QED
    BY <2>1, <2>3, SlotsDiffer
<1>5. Agree(count', pts')
  BY <1>1, <1>2, <1>3, <1>4, AssignPlaneAgrees
<1>6. \A o \in Object : count'[o] = count[o] - IF o = frame[f].plane THEN 1 ELSE 0
  BY <1>2 DEF Less
<1>7. TypeOK'
  BY <1>2, <1>3, <1>5 DEF IInv, Base, TypeOK, Agree, Working
<1>8. \A g \in Frame : frame'[g] = IF g = f THEN [frame[f] EXCEPT !.plane = q] ELSE frame[g]
  BY <1>2, Typed
<1>9. Live'
  <2>1. \A g \in Frame : g \in Object /\ count'[g] = count[g]
    BY <1>4, <1>6, Typed, ObjectAssumption DEF Object
  <2>2. \A g \in Frame : count[g] > 0 => frame[g].plane \in Plane /\ frame[g].props \in Table
    BY DEF IInv, Base, Live
  <2>3. \A g \in Frame : /\ frame'[g].props = frame[g].props
                         /\ frame'[g].plane = IF g = f THEN q ELSE frame[g].plane
    BY <1>2, Typed
  <2> QED
    BY <1>3, <2>1, <2>2, <2>3 DEF Live
<1>10. pc'[t] = "plane" /\ copy'[t] = None
  BY <1>2 DEF IInv, Base, TypeOK
<1>11. Writing(t)'
  <2>0. frame'[f].plane = q
    BY <1>2, <1>4, Typed
  <2>1. MyPlane(t)' = q
    BY <1>1, <1>2, <2>0 DEF MyPlane, Written
  <2>2. Guarded(t)' = {q}
    BY <1>10, <2>1 DEF Guarded
  <2>3. count'[q] = 1
    BY <1>3, <1>4, <1>6
  <2>4. ref'[t] = ref[t]
    BY <1>2
  <2> QED
    BY <1>2, <1>3, <1>10, <2>2, <2>3, <2>4 DEF Writing
<1>12. \A u \in Thread \ {t} : pc'[u] = pc[u] /\ ref'[u] = ref[u] /\ copy'[u] = copy[u]
  BY <1>2, Typed DEF IInv, Base, TypeOK
<1>13. \A o \in Object : count'[o] <= count[o]
  BY <1>6, Typed
<1>14. \A g \in Frame : g # Written(t) => frame'[g] = frame[g]
  BY <1>1, <1>8
<1> QED
  BY <1>2, <1>5, <1>7, <1>9, <1>11, <1>12, <1>13, <1>14, BusyKeeps

\* The plane is written to.
LEMMA WritePlaneKeeps ==
  ASSUME IInv, NEW t \in Thread, NEW b \in Byte, WritePlane(t, b)
  PROVE  IInv' /\ OthersSee(t)
<1>1. /\ pc[t] = "plane" /\ bytes' = [bytes EXCEPT ![MyPlane(t)] = b]
      /\ count' = count /\ frame' = frame /\ entry' = entry /\ number' = number
      /\ holds' = holds /\ mutable' = mutable /\ pc' = pc /\ ref' = ref /\ copy' = copy
  BY DEF WritePlane, MyPlane, Written, threadVars
<1>2. Agree(count', pts')
  BY <1>1, SameAgrees
<1>3. TypeOK'
  BY <1>1 DEF IInv, Base, TypeOK
<1>4. Live'
  BY <1>1 DEF IInv, Base, Live
<1>5. Guarded(t) = {MyPlane(t)} /\ Guarded(t)' = {MyPlane(t)} /\ MyPlane(t)' = MyPlane(t)
  BY <1>1 DEF Guarded, MyPlane, Written
<1>6. Writing(t)'
  BY <1>1, <1>5 DEF IInv, Writing
<1>7. \A p \in Plane : p \notin Guarded(t) => bytes'[p] = bytes[p]
  BY <1>1, <1>5 DEF IInv, Base, TypeOK
<1>8. \A o \in Object : count'[o] <= count[o]
  BY <1>1, Typed
<1> QED
  BY <1>1, <1>2, <1>3, <1>4, <1>6, <1>7, <1>8, BusyKeeps

\* A table is cloned.
LEMMA CloneTableKeeps ==
  ASSUME IInv, NEW t \in Thread, CloneTable(t)
  PROVE  IInv' /\ OthersSee(t)
<1>1. PICK m, n : m = New(Table) /\ n = MyNumber(t)
  OBVIOUS
<1>2. /\ pc[t] = "clone props" /\ m \in Table /\ count[m] = 0
      /\ entry' = [entry EXCEPT ![m] = n] /\ count' = AddRefs(count, {m, n})
      /\ copy' = [copy EXCEPT ![t] = m] /\ pc' = [pc EXCEPT ![t] = "assign props"]
      /\ frame' = frame /\ bytes' = bytes /\ number' = number /\ holds' = holds
      /\ mutable' = mutable /\ ref' = ref
  BY <1>1, NewFree DEF CloneTable, Goto, MyTable, MyNumber
<1>3. copy[t] = None /\ ref[t] \in mutable /\ ref[t][1] = t
  BY <1>2 DEF IInv, Writing
<1>4. /\ MyTable(t) \in Table /\ MyTable(t) # m /\ MyTable(t)' = MyTable(t)
      /\ n \in Number \cup {None} /\ n = entry[MyTable(t)]
  BY <1>1, <1>2, Works DEF MyTable, Written
<1>5. Agree(count', pts')
  BY <1>2, <1>3, <1>4, CloneTableAgrees
<1>6. /\ \A o \in Object : count'[o] = count[o] + IF o \in {m, n} THEN 1 ELSE 0
      /\ m \in Table /\ count[m] = 0
  BY <1>2 DEF AddRefs
<1>7. TypeOK'
  BY <1>2, <1>4, <1>5 DEF IInv, Base, TypeOK, Agree, Working
<1>8. Live'
  <2>1. \A f \in Frame : f \in Object /\ count'[f] = count[f]
    BY <1>4, <1>6, Typed, ObjectAssumption DEF Object
  <2> QED
    BY <1>2, <2>1 DEF IInv, Base, Live
<1>9. pc'[t] = "assign props" /\ copy'[t] = m
      /\ \A k \in Table : entry'[k] = IF k = m THEN n ELSE entry[k]
  BY <1>2 DEF IInv, Base, TypeOK
<1>10. Writing(t)'
  <2>1. Guarded(t)' = {m}
    BY <1>9 DEF Guarded
  <2>2. count'[m] = 1
    BY <1>6 DEF Object
  <2>3. ref'[t] = ref[t]
    BY <1>2
  <2>4. entry'[m] = n /\ entry'[MyTable(t)] = n
    BY <1>2, <1>4, <1>9
  <2> QED
    BY <1>2, <1>3, <1>4, <1>9, <2>1, <2>2, <2>3, <2>4 DEF Writing
<1>11. \A u \in Thread \ {t} : pc'[u] = pc[u] /\ ref'[u] = ref[u] /\ copy'[u] = copy[u]
  BY <1>2, Typed DEF IInv, Base, TypeOK
<1>12. \A o \in Object : count[o] = 1 /\ o # MyNumber(t) => count'[o] <= count[o]
  BY <1>1, <1>6
<1>13. \A k \in Table : count[k] > 0 => entry'[k] = entry[k]
  <2>1. count[m] = 0 /\ \A k \in Table : k # m => entry'[k] = entry[k]
    BY <1>6, <1>9
  <2> QED
    BY <2>1
<1>14. /\ pc[t] # "idle" /\ holds' = holds /\ mutable' = mutable
       /\ frame' = frame /\ bytes' = bytes /\ number' = number
  BY <1>2
<1> QED
  BY <1>5, <1>7, <1>8, <1>10, <1>11, <1>12, <1>13, <1>14, BusyKeeps

\* The clone becomes the table of the frame.
LEMMA AssignPropsKeeps ==
  ASSUME IInv, NEW t \in Thread, AssignProps(t)
  PROVE  IInv' /\ OthersSee(t)
<1>1. PICK f, q : f = Written(t) /\ q = copy[t]
  OBVIOUS
<1>2. /\ pc[t] = "assign props" /\ frame' = [frame EXCEPT ![f].props = q]
      /\ count' = ReleaseTable(count, frame[f].props)
      /\ copy' = [copy EXCEPT ![t] = None] /\ pc' = [pc EXCEPT ![t] = "props"]
      /\ bytes' = bytes /\ entry' = entry /\ number' = number /\ holds' = holds
      /\ mutable' = mutable /\ ref' = ref
  BY <1>1 DEF AssignProps, Goto, Written
<1>3. /\ ref[t] \in mutable /\ ref[t][1] = t /\ q \in Table
      /\ q \in Guarded(t) /\ count[q] = 1 /\ q \in Object
  BY <1>1, <1>2 DEF IInv, Writing, Guarded, Object
<1>4. f \in Frame /\ count[f] > 0
  BY <1>1, <1>2, Works
<1>5. Agree(count', pts') /\ \A o \in Object : count'[o] <= count[o]
  BY <1>1, <1>2, <1>3, <1>4, AssignPropsAgrees
<1>6. TypeOK'
  BY <1>2, <1>3, <1>5 DEF IInv, Base, TypeOK, Agree, Working
<1>7. \A g \in Frame : /\ frame'[g].plane = frame[g].plane
                       /\ frame'[g].props = IF g = f THEN q ELSE frame[g].props
                       /\ g # f => frame'[g] = frame[g]
  BY <1>2, Typed
<1>8. Live'
  <2>1. \A g \in Frame : count'[g] > 0 => count[g] > 0
    BY <1>5, Typed DEF Object, Agree, Counts
  <2>2. \A g \in Frame : count[g] > 0 => frame[g].plane \in Plane /\ frame[g].props \in Table
    BY DEF IInv, Base, Live
  <2> QED
    BY <1>3, <1>7, <2>1, <2>2 DEF Live
<1>9. pc'[t] = "props" /\ copy'[t] = None
  BY <1>2 DEF IInv, Base, TypeOK
<1>10. MyTable(t)' = q
  <2>1. frame'[f].props = q
    BY <1>4, <1>7
  <2> QED
    BY <1>1, <1>2, <2>1 DEF MyTable, Written
<1>11. count'[q] = 1
  <2>1. /\ Exact(count', pts') /\ pts' = Points(count', holds', frame', entry', copy')
        /\ count' \in Counts
    BY <1>5 DEF Agree, pts
  <2>2. count'[f] > 0
    <3>1. pts'[HoldsAt(ref[t])] = f
      <4>1. ref[t] \in Holder /\ holds'[ref[t]] = f
        BY <1>1, <1>2, Busy DEF Written
      <4> QED
        BY <2>1, <4>1, PointsAt
    <3>2. HoldsAt(ref[t]) \in Slot
      BY <1>2, Busy, SlotKinds
    <3>3. f \in Object
      BY <1>4 DEF Object
    <3>4. count'[f] # 0
      BY <2>1, <3>1, <3>2, <3>3, Unused
    <3> QED
      BY <2>1, <3>3, <3>4 DEF Counts
  <2>3. pts'[PropsAt(f)] = q
    BY <1>4, <1>7, <2>1, <2>2, PointsAt
  <2>4. count'[q] # 0
    BY <1>3, <1>4, <2>1, <2>3, SlotKinds, Unused
  <2> QED
    BY <1>3, <1>5, <2>1, <2>4 DEF Counts
<1>12. Writing(t)'
  <2>1. Guarded(t)' = {q}
    BY <1>9, <1>10 DEF Guarded
  <2>2. ref'[t] = ref[t]
    BY <1>2
  <2> QED
    BY <1>2, <1>3, <1>9, <1>11, <2>1, <2>2 DEF Writing
<1>13. \A u \in Thread \ {t} : pc'[u] = pc[u] /\ ref'[u] = ref[u] /\ copy'[u] = copy[u]
  BY <1>2, Typed DEF IInv, Base, TypeOK
<1>14. \A g \in Frame : g # Written(t) => frame'[g] = frame[g]
  BY <1>1, <1>7
<1> QED
  BY <1>2, <1>5, <1>6, <1>8, <1>12, <1>13, <1>14, BusyKeeps

\* The number a thread may write to is as long as it should be.
LEMMA ElementsGrow ==
  /\ <<1>> \in Elements
  /\ \A e \in Elements : Len(e) < MaxLen => Append(e, 1) \in Elements
<1>1. <<1>> \in [1 .. 1 -> {1}] /\ 1 \in 0 .. MaxLen
  BY ContentsAssumption
<1>2. ASSUME NEW e \in Elements, Len(e) < MaxLen
      PROVE  Append(e, 1) \in Elements
  <2>1. PICK k \in 0 .. MaxLen : e \in [1 .. k -> {1}]
    BY DEF Elements
  <2>2. e \in Seq({1}) /\ Len(e) = k /\ k \in Nat
    BY <2>1, ContentsAssumption
  <2>3. k + 1 \in 0 .. MaxLen
    BY <1>2, <2>1, <2>2, ContentsAssumption
  <2>4. Append(e, 1) \in [1 .. k + 1 -> {1}]
    <3>1. Append(e, 1) \in Seq({1}) /\ Len(Append(e, 1)) = k + 1
      BY <2>2
    <3>2. \A s \in Seq({1}) : s \in [1 .. Len(s) -> {1}]
      OBVIOUS
    <3> QED
      BY <3>1, <3>2
  <2> QED
    BY <2>3, <2>4 DEF Elements
<1> QED
  BY <1>1, <1>2 DEF Elements

\* A new number for a key.
LEMMA PropSetIntKeeps ==
  ASSUME IInv, NEW t \in Thread, PropSetInt(t)
  PROVE  IInv' /\ OthersSee(t)
<1>1. PICK m, n, o : m = MyTable(t) /\ n = New(Number) /\ o = MyNumber(t)
  OBVIOUS
<1>2. /\ pc[t] = "props" /\ n \in Number /\ count[n] = 0
      /\ number' = [number EXCEPT ![n] = <<1>>] /\ entry' = [entry EXCEPT ![m] = n]
      /\ count' = Less(AddRefs(count, {n}), entry[m])
      /\ frame' = frame /\ bytes' = bytes /\ holds' = holds /\ mutable' = mutable
      /\ pc' = pc /\ ref' = ref /\ copy' = copy
  BY <1>1, NewFree DEF PropSetInt, MyNumber, threadVars
<1>3. /\ m \in Table /\ count[m] \in Nat \ {0} /\ o \in Number \cup {None} /\ o = entry[m]
      /\ o # None => count[o] \in Nat \ {0}
      /\ m \in Guarded(t) /\ count[m] = 1
  BY <1>1, <1>2, Works DEF IInv, Writing, Guarded
<1>4. Agree(count', pts')
  <2>1. m \in Table /\ count[m] > 0 /\ n \in Number \cup {None}
    BY <1>2, <1>3
  <2> QED
    BY <1>2, <2>1, SetEntryAgrees
<1>5. /\ \A x \in Object : count'[x] = (count[x] + IF x = n THEN 1 ELSE 0) - IF x = o THEN 1 ELSE 0
      /\ n \in Number /\ count[n] = 0
  BY <1>2, <1>3 DEF AddRefs, Less
<1>6. TypeOK'
  BY <1>2, <1>4, ElementsGrow DEF IInv, Base, TypeOK, Agree
<1>7. Live'
  <2>1. \A f \in Frame : f \in Object /\ count'[f] = count[f]
    BY <1>3, <1>5, Typed, ObjectAssumption DEF Object
  <2> QED
    BY <1>2, <2>1 DEF IInv, Base, Live
<1>8. /\ \A k \in Table : k # m => entry'[k] = entry[k]
      /\ \A k \in Number : k # n => number'[k] = number[k]
  BY <1>2 DEF IInv, Base, TypeOK
<1>9. /\ pc'[t] = "props" /\ ref'[t] = ref[t] /\ copy'[t] = copy[t]
      /\ MyTable(t)' = m /\ mutable' = mutable
  BY <1>1, <1>2 DEF MyTable
<1>10. Writing(t)'
  <2>1. Guarded(t)' = {m}
    BY <1>9 DEF Guarded
  <2>2. count'[m] = 1
    BY <1>3, <1>5, ObjectAssumption DEF Object
  <2>3. ref[t] \in mutable /\ ref[t][1] = t /\ copy[t] = None
    BY <1>2 DEF IInv, Writing
  <2> QED
    BY <1>9, <2>1, <2>2, <2>3 DEF Writing
<1>11. \A x \in Object : count[x] = 1 => count'[x] <= count[x]
  BY <1>5
<1>12. /\ \A k \in Table : count[k] > 0 /\ k \notin Guarded(t) => entry'[k] = entry[k]
       /\ \A k \in Number : count[k] > 0 => number'[k] = number[k]
  BY <1>3, <1>5, <1>8
<1>13. /\ pc[t] # "idle" /\ holds' = holds /\ mutable' = mutable /\ frame' = frame
       /\ bytes' = bytes /\ pc' = pc /\ ref' = ref /\ copy' = copy
  BY <1>2
<1> QED
  BY <1>4, <1>6, <1>7, <1>10, <1>11, <1>12, <1>13, BusyKeeps

\* An element is added to a number.
LEMMA StoreElementKeeps ==
  ASSUME IInv, NEW t \in Thread, StoreElement(t)
  PROVE  IInv' /\ OthersSee(t)
<1>1. PICK n : n = MyNumber(t)
  OBVIOUS
<1>2. /\ pc[t] = "append" /\ number' = [number EXCEPT ![n] = Append(number[n], 1)]
      /\ pc' = [pc EXCEPT ![t] = "props"]
      /\ count' = count /\ frame' = frame /\ bytes' = bytes /\ entry' = entry
      /\ holds' = holds /\ mutable' = mutable /\ ref' = ref /\ copy' = copy
  BY <1>1 DEF StoreElement, Goto
<1>3. n \in Number /\ Len(number[n]) < MaxLen /\ n \in Guarded(t)
  BY <1>1, <1>2 DEF IInv, Writing, Guarded
<1>4. Agree(count', pts')
  BY <1>2, SameAgrees
<1>5. TypeOK'
  <2>1. number[n] \in Elements /\ number \in [Number -> Elements]
    BY <1>3 DEF IInv, Base, TypeOK
  <2>2. Append(number[n], 1) \in Elements
    BY <1>3, <2>1, ElementsGrow
  <2>3. number' \in [Number -> Elements]
    BY <1>2, <2>1, <2>2
  <2> QED
    BY <1>2, <2>3 DEF IInv, Base, TypeOK, Working
<1>6. Live'
  BY <1>2 DEF IInv, Base, Live
<1>7. pc'[t] = "props" /\ ref'[t] = ref[t] /\ copy'[t] = copy[t] /\ mutable' = mutable
      /\ count' = count /\ MyTable(t)' = MyTable(t)
  BY <1>2 DEF IInv, Base, TypeOK, MyTable
<1>8. Writing(t)'
  <2>1. Guarded(t)' = {MyTable(t)} /\ MyTable(t) \in Guarded(t)
    BY <1>2, <1>7 DEF Guarded
  <2>2. ref[t] \in mutable /\ ref[t][1] = t /\ copy[t] = None /\ count[MyTable(t)] = 1
    BY <1>2, <2>1 DEF IInv, Writing
  <2> QED
    BY <1>7, <2>1, <2>2 DEF Writing
<1>9. \A k \in Number : k \notin Guarded(t) => number'[k] = number[k]
  BY <1>2, <1>3 DEF IInv, Base, TypeOK
<1>10. \A u \in Thread \ {t} : pc'[u] = pc[u]
  BY <1>2 DEF IInv, Base, TypeOK
<1>11. \A x \in Object : count'[x] <= count[x]
  BY <1>7, Typed
<1>12. /\ pc[t] # "idle" /\ holds' = holds /\ mutable' = mutable /\ frame' = frame
       /\ bytes' = bytes /\ entry' = entry /\ ref' = ref /\ copy' = copy
  BY <1>2
<1> QED
  BY <1>4, <1>5, <1>6, <1>8, <1>9, <1>10, <1>11, <1>12, BusyKeeps

\* A key is taken out.
LEMMA PropDeleteKeyKeeps ==
  ASSUME IInv, NEW t \in Thread, PropDeleteKey(t)
  PROVE  IInv' /\ OthersSee(t)
<1>1. PICK m, o : m = MyTable(t) /\ o = MyNumber(t)
  OBVIOUS
<1>2. /\ pc[t] = "props" /\ entry' = [entry EXCEPT ![m] = None]
      /\ count' = Less(count, entry[m])
      /\ frame' = frame /\ bytes' = bytes /\ number' = number /\ holds' = holds
      /\ mutable' = mutable /\ pc' = pc /\ ref' = ref /\ copy' = copy
  BY <1>1 DEF PropDeleteKey, MyNumber, threadVars
<1>3. /\ m \in Table /\ count[m] \in Nat \ {0} /\ o \in Number \cup {None} /\ o = entry[m]
      /\ m \in Guarded(t) /\ count[m] = 1
  BY <1>1, <1>2, Works DEF IInv, Writing, Guarded
<1>4. Agree(count', pts')
  <2>1. Agree(count, pts)
    BY PointersTyped DEF IInv, Base, Agree, TypeOK, CountsAgree
  <2>2. AddRefs(count, {None}) = count
    BY <2>1, NoneCounts
  <2> QED
    <3>1. m \in Table /\ count[m] > 0
      BY <1>3
    <3>2. count' = Less(AddRefs(count, {None}), entry[m])
      BY <1>2, <2>2
    <3> QED
      BY <1>2, <3>1, <3>2, SetEntryAgrees
<1>5. \A x \in Object : count'[x] = count[x] - IF x = o THEN 1 ELSE 0
  BY <1>2, <1>3 DEF Less
<1>6. TypeOK'
  BY <1>2, <1>4 DEF IInv, Base, TypeOK, Agree
<1>7. Live'
  <2>1. \A f \in Frame : f \in Object /\ count'[f] = count[f]
    BY <1>3, <1>5, Typed, ObjectAssumption DEF Object
  <2> QED
    BY <1>2, <2>1 DEF IInv, Base, Live
<1>8. \A k \in Table : k # m => entry'[k] = entry[k]
  BY <1>2 DEF IInv, Base, TypeOK
<1>9. /\ pc'[t] = "props" /\ ref'[t] = ref[t] /\ copy'[t] = copy[t]
      /\ MyTable(t)' = m /\ mutable' = mutable
  BY <1>1, <1>2 DEF MyTable
<1>10. Writing(t)'
  <2>1. Guarded(t)' = {m}
    BY <1>9 DEF Guarded
  <2>2. count'[m] = 1
    BY <1>3, <1>5, ObjectAssumption DEF Object
  <2>3. ref[t] \in mutable /\ ref[t][1] = t /\ copy[t] = None
    BY <1>2 DEF IInv, Writing
  <2> QED
    BY <1>9, <2>1, <2>2, <2>3 DEF Writing
<1>11. \A x \in Object : count'[x] <= count[x]
  BY <1>5, Typed
<1>12. \A k \in Table : count[k] > 0 /\ k \notin Guarded(t) => entry'[k] = entry[k]
  BY <1>3, <1>8
<1>13. /\ pc[t] # "idle" /\ holds' = holds /\ mutable' = mutable /\ frame' = frame
       /\ bytes' = bytes /\ number' = number /\ pc' = pc /\ ref' = ref /\ copy' = copy
  BY <1>2
<1> QED
  BY <1>4, <1>6, <1>7, <1>10, <1>11, <1>12, <1>13, BusyKeeps

\* A frame takes the table of a frame that is read.
LEMMA CopyFramePropsKeeps ==
  ASSUME IInv, NEW t \in Thread, NEW src \in Sources(t), NEW dst, CopyFrameProps(t, src, dst)
  PROVE  IInv'
<1>1. PICK f, x : f = holds[dst] /\ x = frame[holds[src]].props
  OBVIOUS
<1>2. /\ pc[t] = "idle" /\ dst \in mutable /\ dst \in Ref /\ dst[1] = t
      /\ frame' = [frame EXCEPT ![f].props = x]
      /\ count' = ReleaseTable(AddRefs(count, {x}), frame[f].props)
      /\ bytes' = bytes /\ entry' = entry /\ number' = number /\ holds' = holds
      /\ mutable' = mutable /\ pc' = pc /\ ref' = ref /\ copy' = copy
  BY <1>1 DEF CopyFrameProps, Mine, threadVars
<1>3. /\ f \in Frame /\ count[f] > 0 /\ x \in Table /\ count[x] > 0
      /\ dst \in Holder /\ f # None
  <2>1. holds[dst] # None /\ dst \in Holder
    BY <1>2 DEF IInv, Own, Holder
  <2>2. src \in Holder /\ holds[src] # None
    BY <1>2, SourceApart
  <2>3. holds[src] \in Frame /\ count[holds[src]] > 0
    BY <2>2, HolderLive DEF IInv
  <2>4. x \in Table /\ count[x] > 0
    BY <1>1, <2>3, FrameLive DEF IInv
  <2> QED
    BY <1>1, <2>1, <2>4, HolderLive DEF IInv
<1>4. Agree(count', pts') /\ \A o \in Object : o # x => count'[o] <= count[o]
  BY <1>2, <1>3, CopyPropsAgrees
<1>5. TypeOK'
  BY <1>2, <1>3, <1>4 DEF IInv, Base, TypeOK, Agree
<1>6. \A g \in Frame : /\ frame'[g].plane = frame[g].plane
                       /\ frame'[g].props = IF g = f THEN x ELSE frame[g].props
                       /\ g # f => frame'[g] = frame[g]
  BY <1>2, Typed
<1>7. Live'
  <2>1. \A g \in Frame : g # x /\ g \in Object
    BY <1>3, ObjectAssumption DEF Object
  <2>2. \A g \in Frame : count'[g] > 0 => count[g] > 0
    BY <1>4, <2>1, Typed DEF Agree, Counts
  <2>3. \A g \in Frame : count[g] > 0 => frame[g].plane \in Plane /\ frame[g].props \in Table
    BY DEF IInv, Base, Live
  <2> QED
    BY <1>3, <1>6, <2>2, <2>3 DEF Live
<1>8. Base'
  BY <1>4, <1>5, <1>7, BaseNext
<1>9. Own'
  BY <1>2 DEF IInv, Own
<1>10. ASSUME NEW u \in Thread
       PROVE  Writing(u)'
  <2>1. CASE pc[u] = "idle"
    BY <1>2, <2>1, IdleNow, IdleNext
  <2>2. CASE pc[u] # "idle"
    <3>1. src \in Holder /\ holds[src] # None /\ src # ref[u]
      BY <1>2, <2>2, SourceApart
    <3>2. x \notin Guarded(u)
      BY <1>1, <2>2, <3>1, Apart
    <3>3. \A o \in Guarded(u) : count'[o] <= count[o]
      BY <1>4, <3>2, GuardedIs
    <3>4. /\ ref[u] \in mutable /\ ref[u][1] = u /\ u # t /\ Written(u) \in Frame
          /\ \A g \in Holder : holds[g] = Written(u) => g = ref[u]
      BY <1>2, <2>2, Busy
    <3>5. Written(u) # f
      BY <1>1, <1>2, <1>3, <3>4
    <3>6. frame'[Written(u)] = frame[Written(u)] /\ ref[u] \in mutable'
      BY <1>2, <1>6, <3>4, <3>5
    <3>7. /\ holds' = holds /\ bytes' = bytes /\ entry' = entry /\ number' = number
          /\ pc' = pc /\ ref' = ref /\ copy' = copy
      BY <1>2
    <3> QED
      BY <1>8, <3>3, <3>6, <3>7, Undisturbed
  <2> QED
    BY <2>1, <2>2
<1> QED
  BY <1>8, <1>9, <1>10 DEF IInv

-----------------------------------------------------------------------------
(* Safety *)

\* Nothing is referred to at the start.
LEMMA InitHolds == Init => IInv
<1> SUFFICES ASSUME Init PROVE IInv
  OBVIOUS
<1>1. TypeOK
  <2>1. <<>> \in Elements
    <3>1. <<>> \in [1 .. 0 -> {1}] /\ 0 \in 0 .. MaxLen
      BY ContentsAssumption
    <3> QED
      BY <3>1 DEF Elements
  <2>2. bytes \in [Plane -> Byte]
    BY ContentsAssumption DEF Init
  <2> QED
    BY <2>1, <2>2 DEF Init, TypeOK, Counts
<1>2. \A o \in Object : count[o] = 0
  BY DEF Init
<1>3. Live
  BY <1>2 DEF Live, Object
<1>4. CountsAgree
  <2>1. \A s \in Slot : pts[s] = None
    <3>1. \A h \in Holder : pts[HoldsAt(h)] = None
      BY PointsAt DEF pts, Init
    <3>2. \A f \in Frame : pts[PlaneAt(f)] = None /\ pts[PropsAt(f)] = None
      BY PointsAt DEF pts, Init
    <3>3. \A m \in Table : pts[EntryAt(m)] = None
      BY PointsAt DEF pts, Init
    <3>4. \A t \in Thread : pts[CopyAt(t)] = None
      BY PointsAt DEF pts, Init
    <3> QED
      BY <3>1, <3>2, <3>3, <3>4, SlotKinds
  <2>2. \A o \in Object : Users(pts, o) = {}
    BY <2>1, ObjectAssumption DEF Users, Object
  <2> QED
    BY <1>2, <2>2, FS_EmptySet DEF CountsAgree, Exact
<1>5. Own
  BY DEF Init, Own
<1>6. \A t \in Thread : Writing(t)
  BY DEF Init, Writing, Guarded
<1> QED
  BY <1>1, <1>3, <1>4, <1>5, <1>6 DEF IInv, Base

\* Every step keeps the invariant.
LEMMA StepKeeps ==
  ASSUME IInv, NEW t \in Thread, Step(t)
  PROVE  IInv'
<1>1. CASE \E h \in Free(t) : \E a, b \in Sources(t) \cup {None} : Create(t, h, a, b)
  BY <1>1, CreateKeeps
<1>2. CASE \E h \in Free(t) : \E g \in Holder : Share(t, h, g)
  BY <1>2, ShareKeeps
<1>3. CASE \E h \in Mine(t) : FreeRef(h)
  BY <1>3, FreeKeeps DEF Mine, Holder
<1>4. CASE \E h \in Mine(t) : GetWritePtr(t, h)
  BY <1>4, GetWritePtrKeeps
<1>5. CASE \E h \in Mine(t) : GetFramePropsRW(t, h)
  BY <1>5, GetFramePropsRWKeeps
<1>6. CASE \E h \in Mine(t) : \E g \in Product : Return(t, h, g)
  BY <1>6, ReturnKeeps
<1>7. CASE \E h \in Mine(t) : \E g \in Sources(t) : CopyFrameProps(t, g, h)
  BY <1>7, CopyFramePropsKeeps
<1>8. CASE ClonePlane(t)
  BY <1>8, ClonePlaneKeeps
<1>9. CASE AssignPlane(t)
  BY <1>9, AssignPlaneKeeps
<1>10. CASE \E b \in Byte : WritePlane(t, b)
  BY <1>10, WritePlaneKeeps
<1>11. CASE CloneTable(t)
  BY <1>11, CloneTableKeeps
<1>12. CASE AssignProps(t)
  BY <1>12, AssignPropsKeeps
<1>13. CASE PropSetInt(t)
  BY <1>13, PropSetIntKeeps
<1>14. CASE PropAppendInt(t)
  BY <1>14, PropAppendIntKeeps
<1>15. CASE StoreElement(t)
  BY <1>15, StoreElementKeeps
<1>16. CASE PropDeleteKey(t)
  BY <1>16, PropDeleteKeyKeeps
<1>17. CASE Done(t)
  BY <1>17, DoneKeeps
<1> QED
  BY <1>1, <1>2, <1>3, <1>4, <1>5, <1>6, <1>7, <1>8, <1>9, <1>10, <1>11, <1>12, <1>13,
     <1>14, <1>15, <1>16, <1>17, Zenon DEF Step

\* What holds of the states of Frames: every count is the number of the slots that
\* point to the object, and what is written to has one.
THEOREM Invariance == Spec => []IInv
<1>1. ASSUME IInv, [Next]_vars PROVE IInv'
  <2>1. CASE \E t \in Thread : Step(t)
    BY <1>1, <2>1, StepKeeps
  <2>2. CASE \E g \in Product : FreeRef(g)
    BY <1>1, <2>2, FreeKeeps DEF Holder
  <2>3. CASE UNCHANGED vars
    <3>1. /\ count' = count /\ frame' = frame /\ bytes' = bytes /\ entry' = entry
          /\ number' = number /\ holds' = holds /\ mutable' = mutable /\ pc' = pc
          /\ ref' = ref /\ copy' = copy
      BY <2>3 DEF vars, heapVars, threadVars
    <3>2. Base' /\ Own'
      BY <1>1, <3>1 DEF IInv, Base, TypeOK, Live, CountsAgree, pts, Own
    <3>3. \A t \in Thread : Writing(t)'
      <4> SUFFICES ASSUME NEW t \in Thread PROVE Writing(t)'
        OBVIOUS
      <4>1. \A o \in Guarded(t) : count'[o] <= count[o]
        BY <1>1, <3>1, GuardedIs
      <4>2. pc[t] # "idle" => ref[t] \in mutable'
        BY <1>1, <3>1, Busy
      <4> QED
        BY <1>1, <3>1, <3>2, <4>1, <4>2, Undisturbed
    <3> QED
      BY <3>2, <3>3 DEF IInv
  <2> QED
    BY <1>1, <2>1, <2>2, <2>3 DEF Next
<1> QED
  BY <1>1, InitHolds, PTL DEF Spec

\* What the slots of every kind can point to.
LEMMA KindsPoint ==
  ASSUME Base
  PROVE  /\ \A h \in Holder : pts[HoldsAt(h)] \in Frame \cup {None}
         /\ \A f \in Frame : /\ pts[PlaneAt(f)] \in Plane \cup {None}
                             /\ pts[PropsAt(f)] \in Table \cup {None}
         /\ \A m \in Table : pts[EntryAt(m)] \in Number \cup {None}
         /\ \A t \in Thread : pts[CopyAt(t)] \in Plane \cup Table \cup {None}
<1>1. \A h \in Holder : pts[HoldsAt(h)] \in Frame \cup {None}
  BY PointsAt DEF Base, TypeOK, pts
<1>2. \A f \in Frame : /\ pts[PlaneAt(f)] \in Plane \cup {None}
                       /\ pts[PropsAt(f)] \in Table \cup {None}
  BY PointsAt DEF Base, Live, pts
<1>3. \A m \in Table : pts[EntryAt(m)] \in Number \cup {None}
  BY PointsAt DEF Base, TypeOK, pts
<1>4. \A t \in Thread : pts[CopyAt(t)] \in Plane \cup Table \cup {None}
  BY PointsAt DEF Base, TypeOK, pts
<1> QED
  BY <1>1, <1>2, <1>3, <1>4

\* The users of a frame are holders.
LEMMA FrameUsers ==
  ASSUME Base, NEW f \in Frame
  PROVE  count[f] = Cardinality({h \in Holder : holds[h] = f})
<1> DEFINE S == {h \in Holder : holds[h] = f}
<1>1. Users(pts, f) = {HoldsAt(h) : h \in S}
  <2>1. \A h \in Holder : pts[HoldsAt(h)] = holds[h]
    BY PointsAt DEF pts
  <2>2. \A s \in Slot : pts[s] = f => \E h \in Holder : s = HoldsAt(h)
    BY SlotKinds, KindsPoint, ObjectAssumption
  <2> QED
    BY <2>1, <2>2, SlotKinds DEF Users
<1>2. IsFiniteSet(S)
  BY HolderAssumption, FS_Union, FS_Subset DEF Holder
<1>3. Cardinality({HoldsAt(h) : h \in S}) = Cardinality(S)
  BY <1>2, Tagged DEF HoldsAt
<1> QED
  BY <1>1, <1>3 DEF Base, CountsAgree, Exact, Object

\* The users of a number are tables.
LEMMA NumberUsers ==
  ASSUME Base, NEW n \in Number
  PROVE  count[n] = Cardinality({m \in Alive(Table) : entry[m] = n})
<1> DEFINE S == {m \in Alive(Table) : entry[m] = n}
<1>1. Users(pts, n) = {EntryAt(m) : m \in S}
  <2>1. \A m \in Table : pts[EntryAt(m)] = n <=> m \in S
    BY PointsAt, ObjectAssumption DEF pts, Alive
  <2>2. \A s \in Slot : pts[s] = n => \E m \in Table : s = EntryAt(m)
    BY SlotKinds, KindsPoint, ObjectAssumption
  <2> QED
    BY <2>1, <2>2, SlotKinds DEF Users, Alive
<1>2. IsFiniteSet(S)
  BY ObjectAssumption, FS_Subset DEF Alive
<1>3. Cardinality({EntryAt(m) : m \in S}) = Cardinality(S)
  BY <1>2, Tagged DEF EntryAt
<1> QED
  BY <1>1, <1>3 DEF Base, CountsAgree, Exact, Object

\* The numbers of the elements of two disjoint sets add up.
LEMMA Disjoint ==
  ASSUME NEW A, NEW B, IsFiniteSet(A), IsFiniteSet(B), A \cap B = {}
  PROVE  Cardinality(A \cup B) = Cardinality(A) + Cardinality(B)
<1>1. Cardinality(A \cap B) = 0
  BY FS_EmptySet
<1>2. Cardinality(A \cup B) = Cardinality(A) + Cardinality(B) - Cardinality(A \cap B)
  BY FS_Union
<1>3. Cardinality(A) \in Nat /\ Cardinality(B) \in Nat
  BY FS_CardinalityType
<1> QED
  BY <1>1, <1>2, <1>3

\* The users of a plane are frames and clones.
LEMMA PlaneUsers ==
  ASSUME Base, NEW p \in Plane
  PROVE  count[p] = Cardinality({f \in Alive(Frame) : frame[f].plane = p})
                      + Cardinality({t \in Thread : copy[t] = p})
<1> DEFINE S == {f \in Alive(Frame) : frame[f].plane = p}
           T == {t \in Thread : copy[t] = p}
<1>1. Users(pts, p) = {PlaneAt(f) : f \in S} \cup {CopyAt(t) : t \in T}
  <2>1. \A f \in Frame : pts[PlaneAt(f)] = p <=> f \in S
    BY PointsAt, ObjectAssumption DEF pts, Alive
  <2>2. \A t \in Thread : pts[CopyAt(t)] = p <=> t \in T
    BY PointsAt DEF pts
  <2>3. \A s \in Slot : pts[s] = p =>
          (\E f \in Frame : s = PlaneAt(f)) \/ \E t \in Thread : s = CopyAt(t)
    BY SlotKinds, KindsPoint, ObjectAssumption
  <2> QED
    BY <2>1, <2>2, <2>3, SlotKinds DEF Users, Alive
<1>2. IsFiniteSet(S) /\ IsFiniteSet(T)
  <2>1. S \subseteq Frame /\ T \subseteq Thread
    BY DEF Alive
  <2> QED
    BY <2>1, ObjectAssumption, HolderAssumption, FS_Subset
<1>3. Cardinality({PlaneAt(f) : f \in S} \cup {CopyAt(t) : t \in T})
        = Cardinality(S) + Cardinality(T)
  <2> DEFINE A == {PlaneAt(f) : f \in S}
             B == {CopyAt(t) : t \in T}
  <2>1. IsFiniteSet(A) /\ Cardinality(A) = Cardinality(S)
    BY <1>2, Tagged DEF PlaneAt
  <2>2. IsFiniteSet(B) /\ Cardinality(B) = Cardinality(T)
    BY <1>2, Tagged DEF CopyAt
  <2>3. A \cap B = {}
    BY SlotsDiffer
  <2> HIDE DEF A, B
  <2>4. Cardinality(A \cup B) = Cardinality(A) + Cardinality(B)
    BY <2>1, <2>2, <2>3, Disjoint
  <2> QED
    BY <2>1, <2>2, <2>4 DEF A, B
<1> QED
  BY <1>1, <1>3 DEF Base, CountsAgree, Exact, Object

\* So are the users of a table.
LEMMA TableUsers ==
  ASSUME Base, NEW m \in Table
  PROVE  count[m] = Cardinality({f \in Alive(Frame) : frame[f].props = m})
                      + Cardinality({t \in Thread : copy[t] = m})
<1> DEFINE S == {f \in Alive(Frame) : frame[f].props = m}
           T == {t \in Thread : copy[t] = m}
<1>1. Users(pts, m) = {PropsAt(f) : f \in S} \cup {CopyAt(t) : t \in T}
  <2>1. \A f \in Frame : pts[PropsAt(f)] = m <=> f \in S
    BY PointsAt, ObjectAssumption DEF pts, Alive
  <2>2. \A t \in Thread : pts[CopyAt(t)] = m <=> t \in T
    BY PointsAt DEF pts
  <2>3. \A s \in Slot : pts[s] = m =>
          (\E f \in Frame : s = PropsAt(f)) \/ \E t \in Thread : s = CopyAt(t)
    BY SlotKinds, KindsPoint, ObjectAssumption
  <2> QED
    BY <2>1, <2>2, <2>3, SlotKinds DEF Users, Alive
<1>2. IsFiniteSet(S) /\ IsFiniteSet(T)
  <2>1. S \subseteq Frame /\ T \subseteq Thread
    BY DEF Alive
  <2> QED
    BY <2>1, ObjectAssumption, HolderAssumption, FS_Subset
<1>3. Cardinality({PropsAt(f) : f \in S} \cup {CopyAt(t) : t \in T})
        = Cardinality(S) + Cardinality(T)
  <2> DEFINE A == {PropsAt(f) : f \in S}
             B == {CopyAt(t) : t \in T}
  <2>1. IsFiniteSet(A) /\ Cardinality(A) = Cardinality(S)
    BY <1>2, Tagged DEF PropsAt
  <2>2. IsFiniteSet(B) /\ Cardinality(B) = Cardinality(T)
    BY <1>2, Tagged DEF CopyAt
  <2>3. A \cap B = {}
    BY SlotsDiffer
  <2> HIDE DEF A, B
  <2>4. Cardinality(A \cup B) = Cardinality(A) + Cardinality(B)
    BY <2>1, <2>2, <2>3, Disjoint
  <2> QED
    BY <2>1, <2>2, <2>4 DEF A, B
<1> QED
  BY <1>1, <1>3 DEF Base, CountsAgree, Exact, Object

\* Whatever filters and the sweep do at the same time, the count of every object is
\* the number of references to it: nothing is freed that something refers to, and
\* nothing stays behind.
THEOREM CountsAreExact == Spec => []CountsExact
<1>1. IInv => CountsExact
  BY FrameUsers, PlaneUsers, TableUsers, NumberUsers DEF IInv, CountsExact
<1> QED
  BY <1>1, Invariance, PTL

\* From the check of usurp_or_clone to the last write nobody else comes to refer to
\* what a filter writes to.
THEOREM WritesArePrivate == Spec => []WritesPrivate
<1>1. ASSUME IInv PROVE WritesPrivate
  <2> SUFFICES ASSUME NEW t \in Thread
               PROVE  /\ pc[t] # "idle" => {h \in Holder : holds[h] = Written(t)} = {ref[t]}
                      /\ pc[t] = "plane" => count[MyPlane(t)] = 1
                      /\ pc[t] \in {"props", "append"} => count[MyTable(t)] = 1
                      /\ pc[t] = "append" => count[MyNumber(t)] = 1
    BY DEF WritesPrivate, Written, MyPlane, MyTable
  <2>1. pc[t] # "idle" => {h \in Holder : holds[h] = Written(t)} = {ref[t]}
    BY <1>1, Busy DEF Written
  <2>2. \A o \in Guarded(t) : count[o] = 1
    BY <1>1 DEF IInv, Writing
  <2> QED
    BY <2>1, <2>2 DEF Guarded
<1> QED
  BY <1>1, Invariance, PTL

-----------------------------------------------------------------------------
(* Frames implements FrameValues *)

\* What the holders see.
seen == [h \in Holder |-> Seen(h)]

\* A holder that refers to a frame sees a value.
LEMMA SeenValue ==
  ASSUME IInv, NEW h \in Holder
  PROVE  /\ holds[h] # None => Seen(h) \in Values!Value /\ Seen(h) # None
         /\ holds[h] = None => Seen(h) = None
         /\ h \in mutable => holds[h] # None
<1>1. ASSUME holds[h] # None
      PROVE  Seen(h) \in [plane : Byte, props : Elements]
  <2>1. PICK f : f = holds[h]
    OBVIOUS
  <2>2. f \in Frame /\ count[f] > 0
    BY <1>1, <2>1, HolderLive DEF IInv
  <2>3. /\ frame[f].plane \in Plane /\ frame[f].props \in Table
        /\ entry[frame[f].props] \in Number \cup {None}
    BY <2>2, FrameLive DEF IInv
  <2>4. bytes[frame[f].plane] \in Byte
    BY <2>3 DEF IInv, Base, TypeOK
  <2>5. entry[frame[f].props] # None => number[entry[frame[f].props]] \in Elements
    BY <2>3 DEF IInv, Base, TypeOK
  <2>6. <<>> \in Elements
    <3>1. <<>> \in [1 .. 0 -> {1}] /\ 0 \in 0 .. MaxLen
      BY ContentsAssumption
    <3> QED
      BY <3>1 DEF Elements
  <2>7. Seen(h) = [plane |-> bytes[frame[f].plane],
                   props |-> IF entry[frame[f].props] = None THEN <<>>
                             ELSE number[entry[frame[f].props]]]
    BY <1>1, <2>1 DEF Seen
  <2> QED
    BY <2>4, <2>5, <2>6, <2>7
<1>2. holds[h] # None => Seen(h) # None
  BY <1>1, ContentsAssumption
<1>3. holds[h] = None => Seen(h) = None
  BY DEF Seen
<1>4. h \in mutable => holds[h] # None
  BY DEF IInv, Own
<1> QED
  BY <1>1, <1>2, <1>3, <1>4 DEF Values!Value

\* The two things that are said of it.
MutableHeld == \A h \in Holder : h \in mutable => holds[h] # None
HeldSeen ==
  \A h \in Holder : IF holds[h] = None THEN Seen(h) = None
                    ELSE Seen(h) \in Values!Value /\ Seen(h) # None

\* They hold after a step as well.
LEMMA SeenNext == IInv' => MutableHeld' /\ HeldSeen'
<1>1. IInv => MutableHeld /\ HeldSeen
  BY SeenValue DEF MutableHeld, HeldSeen
<1> QED
  BY <1>1, PTL

\* A step in which one holder comes to see something else.
LEMMA OneSees ==
  ASSUME NEW h \in Holder, \A g \in Holder \ {h} : Seen(g)' = Seen(g)
  PROVE  seen' = [seen EXCEPT ![h] = Seen(h)']
BY DEF seen

\* Writing through a reference, and what is done before the first write.
LEMMA WriteImplements ==
  ASSUME IInv, IInv', NEW h \in mutable, \A g \in Holder \ {h} : Seen(g)' = Seen(g),
         mutable' = mutable
  PROVE  Values!Next
<1>1. h \in Holder
  BY DEF IInv, Base, TypeOK, Holder
<1>2. PICK v : v = Seen(h)'
  OBVIOUS
<1>3. v \in Values!Value
  BY <1>1, <1>2, SeenNext DEF MutableHeld, HeldSeen, Values!Value
<1>4. seen' = [seen EXCEPT ![h] = v]
  BY <1>1, <1>2, OneSees
<1>5. Values!Write(h, v)
  BY <1>4 DEF Values!Write, seen
<1> QED
  BY <1>1, <1>3, <1>5 DEF Values!Next

\* A thread that writes to a frame.
LEMMA BusyImplements ==
  ASSUME IInv, IInv', NEW t \in Thread, pc[t] # "idle", OthersSee(t), mutable' = mutable
  PROVE  Values!Next
BY Busy, WriteImplements DEF OthersSee

\* A step in which nobody sees a change.
LEMMA NothingSeen ==
  ASSUME heapVars' = heapVars, holds' = holds, mutable' = mutable
  PROVE  seen' = seen /\ mutable' = mutable
<1>1. ASSUME NEW h \in Holder
      PROVE  Seen(h)' = Seen(h)
  BY DEF Seen, heapVars
<1> QED
  BY <1>1 DEF seen

\* The properties of another frame are copied.
LEMMA CopyFramePropsImplements ==
  ASSUME IInv, IInv', NEW t \in Thread, NEW src, NEW dst, CopyFrameProps(t, src, dst)
  PROVE  Values!Next
<1>1. PICK f, x : f = holds[dst] /\ x = frame[holds[src]].props
  OBVIOUS
<1>2. /\ dst \in mutable /\ frame' = [frame EXCEPT ![f].props = x]
      /\ bytes' = bytes /\ entry' = entry /\ number' = number /\ holds' = holds
      /\ mutable' = mutable
  BY <1>1 DEF CopyFrameProps
<1>3. ASSUME NEW g \in Holder \ {dst}
      PROVE  Seen(g)' = Seen(g)
  <2>1. holds[g] # f
    BY <1>1, <1>2 DEF IInv, Own
  <2>2. holds[g] # None => holds[g] \in Frame
    BY HolderLive DEF IInv
  <2>3. holds[g] # None => frame'[holds[g]] = frame[holds[g]]
    BY <1>2, <2>1, <2>2, Typed
  <2>4. holds' = holds /\ bytes' = bytes /\ entry' = entry /\ number' = number
    BY <1>2
  <2> QED
    BY <2>3, <2>4, SeenSame
<1> QED
  BY <1>2, <1>3, WriteImplements

\* Another reference to a frame sees what the frame's references see.
LEMMA ShareImplements ==
  ASSUME IInv, NEW t \in Thread, NEW h, NEW g, Share(t, h, g)
  PROVE  Values!Next
<1>1. /\ h \in Holder /\ holds[h] = None
      /\ g \in Holder /\ holds[g] # None /\ g \notin mutable
      /\ holds' = [holds EXCEPT ![h] = holds[g]]
      /\ frame' = frame /\ bytes' = bytes /\ entry' = entry /\ number' = number
      /\ mutable' = mutable
  BY SourceApart DEF Share, Free, Holder
<1>2. \A k \in Holder : holds'[k] = IF k = h THEN holds[g] ELSE holds[k]
  BY <1>1, Typed
<1>3. \A k \in Holder \ {h} : Seen(k)' = Seen(k)
  BY <1>1, <1>2, SeenSame
<1>4. Seen(h)' = Seen(g)
  BY <1>1, <1>2 DEF Seen
<1>5. seen' = [seen EXCEPT ![h] = seen[g]]
  BY <1>1, <1>3, <1>4, OneSees DEF seen
<1>6. seen[h] = None /\ seen[g] # None
  BY <1>1, SeenValue DEF seen
<1>7. Values!Share(h, g)
  BY <1>1, <1>5, <1>6 DEF Values!Share, Values!Held, seen
<1> QED
  BY <1>1, <1>7 DEF Values!Next

\* A reference is given up.
LEMMA FreeImplements ==
  ASSUME IInv, NEW h \in Holder, FreeRef(h)
  PROVE  Values!Next
<1>1. /\ holds[h] # None /\ holds' = [holds EXCEPT ![h] = None]
      /\ frame' = frame /\ bytes' = bytes /\ entry' = entry /\ number' = number
      /\ mutable' = mutable \ {h}
  BY DEF FreeRef
<1>2. \A k \in Holder : holds'[k] = IF k = h THEN None ELSE holds[k]
  BY <1>1, Typed
<1>3. \A k \in Holder \ {h} : Seen(k)' = Seen(k)
  BY <1>1, <1>2, SeenSame
<1>4. Seen(h)' = None
  BY <1>2 DEF Seen
<1>5. seen' = [seen EXCEPT ![h] = None]
  BY <1>3, <1>4, OneSees
<1>6. seen[h] # None
  BY <1>1, SeenValue DEF seen
<1>7. Values!Drop(h)
  BY <1>1, <1>5, <1>6 DEF Values!Drop, Values!Held, seen
<1> QED
  BY <1>7 DEF Values!Next

\* A frame is returned.
LEMMA ReturnImplements ==
  ASSUME IInv, NEW t \in Thread, NEW h, NEW g, Return(t, h, g)
  PROVE  Values!Next
<1>1. /\ h \in Holder /\ holds[h] # None /\ g \in Holder /\ g # h /\ holds[g] = None
      /\ holds' = [holds EXCEPT ![g] = holds[h], ![h] = None]
      /\ frame' = frame /\ bytes' = bytes /\ entry' = entry /\ number' = number
      /\ mutable' = mutable \ {h}
  BY HolderAssumption DEF Return, Mine, Holder, heapVars
<1>2. \A k \in Holder : holds'[k] = IF k = h THEN None ELSE IF k = g THEN holds[h] ELSE holds[k]
  BY <1>1, Typed
<1>3. \A k \in Holder \ {g, h} : Seen(k)' = Seen(k)
  BY <1>1, <1>2, SeenSame
<1>4. Seen(g)' = Seen(h) /\ Seen(h)' = None
  BY <1>1, <1>2 DEF Seen
<1>5. seen' = [seen EXCEPT ![g] = seen[h], ![h] = None]
  BY <1>1, <1>3, <1>4 DEF seen
<1>6. seen[g] = None /\ seen[h] # None
  BY <1>1, SeenValue DEF seen
<1>7. Values!HandOn(g, h)
  BY <1>1, <1>5, <1>6 DEF Values!HandOn, Values!Held, seen
<1> QED
  BY <1>1, <1>7 DEF Values!Next

\* A new frame.
LEMMA CreateImplements ==
  ASSUME IInv, IInv', NEW t \in Thread, NEW h, NEW a \in Sources(t) \cup {None},
         NEW b \in Sources(t) \cup {None}, Create(t, h, a, b)
  PROVE  Values!Next
<1>1. PICK f, p, m : CreateForm(t, h, a, b, f, p, m)
  BY CreateForms
<1>2. /\ f \in Frame /\ count[f] = 0 /\ p \in Plane /\ m \in Table
      /\ a = None => count[p] = 0
      /\ b = None => count[m] = 0
      /\ h \in Holder /\ holds[h] = None
      /\ frame' = [frame EXCEPT ![f] = [plane |-> p, props |-> m]]
      /\ b = None => entry' = [entry EXCEPT ![m] = None]
      /\ b # None => entry' = entry
      /\ holds' = [holds EXCEPT ![h] = f]
      /\ mutable' = mutable \cup {h}
      /\ a = None => \E x \in Byte : bytes' = [bytes EXCEPT ![p] = x]
      /\ a # None => bytes' = bytes
      /\ number' = number
  BY <1>1 DEF CreateForm
<1>3. /\ \A q \in Plane : count[q] > 0 => bytes'[q] = bytes[q]
      /\ \A q \in Table : count[q] > 0 => entry'[q] = entry[q]
      /\ \A q \in Frame : count[q] > 0 => frame'[q] = frame[q]
      /\ \A k \in Holder : holds'[k] = IF k = h THEN f ELSE holds[k]
      /\ number' = number
  <2>1. \A q \in Plane : count[q] > 0 => bytes'[q] = bytes[q]
    BY <1>2 DEF IInv, Base, TypeOK
  <2>2. \A q \in Table : count[q] > 0 => entry'[q] = entry[q]
    BY <1>2 DEF IInv, Base, TypeOK
  <2>3. \A q \in Frame : count[q] > 0 => frame'[q] = frame[q]
    BY <1>2, Typed
  <2>4. \A k \in Holder : holds'[k] = IF k = h THEN f ELSE holds[k]
    BY <1>2, Typed
  <2> QED
    BY <1>2, <2>1, <2>2, <2>3, <2>4
<1>4. ASSUME NEW g \in Holder \ {h}
      PROVE  Seen(g)' = Seen(g)
  <2>1. holds'[g] = holds[g]
    BY <1>3
  <2>2. holds[g] # None => holds[g] \in Frame /\ count[holds[g]] > 0
    BY HolderLive DEF IInv
  <2>3. holds[g] # None =>
          /\ frame[holds[g]].plane \in Plane /\ count[frame[holds[g]].plane] > 0
          /\ frame[holds[g]].props \in Table /\ count[frame[holds[g]].props] > 0
    BY <2>2, FrameLive DEF IInv
  <2> QED
    BY <1>3, <2>1, <2>2, <2>3, SeenSame
<1>5. PICK v : v = Seen(h)'
  OBVIOUS
<1>6. v \in Values!Value
  <2>1. holds'[h] # None
    BY <1>2, <1>3, ObjectAssumption
  <2> QED
    BY <1>2, <1>5, <2>1, SeenNext DEF HeldSeen, Values!Value
<1>7. seen' = [seen EXCEPT ![h] = v]
  BY <1>2, <1>4, <1>5, OneSees
<1>8. seen[h] = None
  BY <1>2, SeenValue DEF seen
<1>9. Values!Make(h, v)
  BY <1>2, <1>7, <1>8 DEF Values!Make, seen
<1> QED
  BY <1>2, <1>6, <1>9 DEF Values!Next

\* Every step of Frames is a step of FrameValues, or nobody sees a change.
LEMMA StepImplements ==
  ASSUME IInv, IInv', NEW t \in Thread, Step(t)
  PROVE  Values!Next \/ (seen' = seen /\ mutable' = mutable)
<1>1. CASE \E h \in Free(t) : \E a, b \in Sources(t) \cup {None} : Create(t, h, a, b)
  BY <1>1, CreateImplements
<1>2. CASE \E h \in Free(t) : \E g \in Holder : Share(t, h, g)
  BY <1>2, ShareImplements
<1>3. CASE \E h \in Mine(t) : FreeRef(h)
  BY <1>3, FreeImplements DEF Mine, Holder
<1>4. CASE \E h \in Mine(t) : GetWritePtr(t, h)
  BY <1>4, NothingSeen DEF GetWritePtr
<1>5. CASE \E h \in Mine(t) : GetFramePropsRW(t, h)
  BY <1>5, NothingSeen DEF GetFramePropsRW
<1>6. CASE \E h \in Mine(t) : \E g \in Product : Return(t, h, g)
  BY <1>6, ReturnImplements
<1>7. CASE \E h \in Mine(t) : \E g \in Sources(t) : CopyFrameProps(t, g, h)
  BY <1>7, CopyFramePropsImplements
<1>8. CASE ClonePlane(t)
  BY <1>8, ClonePlaneKeeps, BusyImplements DEF ClonePlane
<1>9. CASE AssignPlane(t)
  BY <1>9, AssignPlaneKeeps, BusyImplements DEF AssignPlane
<1>10. CASE \E b \in Byte : WritePlane(t, b)
  BY <1>10, WritePlaneKeeps, BusyImplements DEF WritePlane
<1>11. CASE CloneTable(t)
  BY <1>11, CloneTableKeeps, BusyImplements DEF CloneTable
<1>12. CASE AssignProps(t)
  BY <1>12, AssignPropsKeeps, BusyImplements DEF AssignProps
<1>13. CASE PropSetInt(t)
  BY <1>13, PropSetIntKeeps, BusyImplements DEF PropSetInt
<1>14. CASE PropAppendInt(t)
  BY <1>14, NothingSeen DEF PropAppendInt
<1>15. CASE StoreElement(t)
  BY <1>15, StoreElementKeeps, BusyImplements DEF StoreElement
<1>16. CASE PropDeleteKey(t)
  BY <1>16, PropDeleteKeyKeeps, BusyImplements DEF PropDeleteKey
<1>17. CASE Done(t)
  BY <1>17, NothingSeen DEF Done
<1> QED
  BY <1>1, <1>2, <1>3, <1>4, <1>5, <1>6, <1>7, <1>8, <1>9, <1>10, <1>11, <1>12, <1>13,
     <1>14, <1>15, <1>16, <1>17, Zenon DEF Step

\* Sharing planes, tables and numbers cannot be told from copying them: every holder
\* has a value of its own, which only writes through that holder change.
THEOREM CopiesOnWrite == Spec => ImplementsFrameValues
<1>1. Init => Values!Init
  BY DEF Init, Values!Init, Seen
<1>2. ASSUME IInv, IInv', [Next]_vars
      PROVE  [Values!Next]_<<seen, mutable>>
  <2>1. CASE \E t \in Thread : Step(t)
    BY <1>2, <2>1, StepImplements
  <2>2. CASE \E g \in Product : FreeRef(g)
    BY <1>2, <2>2, FreeImplements DEF Holder
  <2>3. CASE UNCHANGED vars
    BY <2>3, NothingSeen DEF vars
  <2> QED
    BY <1>2, <2>1, <2>2, <2>3 DEF Next
<1>3. [Values!Next]_<<seen, mutable>> => [Values!Next]_<<[h \in Holder |-> Seen(h)], mutable>>
  BY DEF seen
<1>4. ASSUME IInv, IInv', [Next]_vars
      PROVE  [Values!Next]_<<[h \in Holder |-> Seen(h)], mutable>>
  BY <1>2, <1>3, <1>4
<1> QED
  BY <1>1, <1>4, Invariance, PTL DEF Spec, ImplementsFrameValues, Values!Spec

\* What usurp_or_clone does before the first write.
Cloning(t) == ClonePlane(t) \/ AssignPlane(t) \/ CloneTable(t) \/ AssignProps(t)

\* The thread that clones sees no change either.
LEMMA CloneSame ==
  ASSUME IInv, NEW t \in Thread, Cloning(t)
  PROVE  \A h \in Holder : Seen(h)' = Seen(h)
<1> DEFINE f == Written(t)
<1>0. PICK h : h = ref[t]
  OBVIOUS
<1> SUFFICES Seen(h)' = Seen(h) /\ OthersSee(t)
  BY <1>0 DEF OthersSee
<1>1. pc[t] # "idle" /\ ref' = ref /\ holds' = holds /\ number' = number
  BY DEF Cloning, ClonePlane, AssignPlane, CloneTable, AssignProps
<1>2. /\ f = holds[h] /\ f \in Frame /\ f # None
      /\ MyPlane(t) \in Plane /\ count[MyPlane(t)] \in Nat \ {0} /\ MyPlane(t) = frame[f].plane
      /\ MyTable(t) \in Table /\ count[MyTable(t)] \in Nat \ {0} /\ MyTable(t) = frame[f].props
  BY <1>0, <1>1, Works, ObjectAssumption DEF Written
<1>3. CASE ClonePlane(t)
  <2>1. New(Plane) \in Plane /\ count[New(Plane)] = 0 /\ frame' = frame /\ entry' = entry
        /\ bytes' = [bytes EXCEPT ![New(Plane)] = bytes[MyPlane(t)]]
    BY <1>3, NewFree DEF ClonePlane, MyPlane, Written
  <2>2. New(Plane) # MyPlane(t)
    BY <1>2, <2>1
  <2>3. bytes'[MyPlane(t)] = bytes[MyPlane(t)]
    BY <1>2, <2>1, <2>2 DEF IInv, Base, TypeOK
  <2>4. frame' = frame /\ entry' = entry
    BY <2>1
  <2> QED
    BY <1>1, <1>2, <1>3, <2>3, <2>4, SeenSame, ClonePlaneKeeps
<1>4. CASE AssignPlane(t)
  <2>1. frame' = [frame EXCEPT ![f].plane = copy[t]] /\ bytes' = bytes /\ entry' = entry
    BY <1>4 DEF AssignPlane, Written
  <2>2. bytes[copy[t]] = bytes[MyPlane(t)]
    BY <1>4 DEF AssignPlane, IInv, Writing
  <2>3. frame'[f].plane = copy[t] /\ frame'[f].props = frame[f].props
    BY <1>2, <2>1, Typed
  <2>4. bytes' = bytes /\ entry' = entry
    BY <2>1
  <2>5. Seen(h)' = Seen(h)
    BY <1>1, <1>2, <2>2, <2>3, <2>4 DEF Seen
  <2> QED
    BY <1>4, <2>5, AssignPlaneKeeps
<1>5. CASE CloneTable(t)
  <2>1. New(Table) \in Table /\ count[New(Table)] = 0 /\ frame' = frame /\ bytes' = bytes
        /\ entry' = [entry EXCEPT ![New(Table)] = entry[MyTable(t)]]
    BY <1>5, NewFree DEF CloneTable, MyTable
  <2>2. New(Table) # MyTable(t)
    BY <1>2, <2>1
  <2>3. entry'[MyTable(t)] = entry[MyTable(t)]
    BY <1>2, <2>1, <2>2 DEF IInv, Base, TypeOK
  <2>4. frame' = frame /\ bytes' = bytes
    BY <2>1
  <2> QED
    BY <1>1, <1>2, <1>5, <2>3, <2>4, SeenSame, CloneTableKeeps
<1>6. CASE AssignProps(t)
  <2>1. frame' = [frame EXCEPT ![f].props = copy[t]] /\ bytes' = bytes /\ entry' = entry
    BY <1>6 DEF AssignProps, Written
  <2>2. entry[copy[t]] = entry[MyTable(t)]
    BY <1>6 DEF AssignProps, IInv, Writing
  <2>3. frame'[f].props = copy[t] /\ frame'[f].plane = frame[f].plane
    BY <1>2, <2>1, Typed
  <2>4. bytes' = bytes /\ entry' = entry
    BY <2>1
  <2>5. Seen(h)' = Seen(h)
    BY <1>1, <1>2, <2>2, <2>3, <2>4 DEF Seen
  <2> QED
    BY <1>6, <2>5, AssignPropsKeeps
<1> QED
  BY <1>3, <1>4, <1>5, <1>6 DEF Cloning

\* Getting a pointer to write through shows nobody a change: the clone that takes the
\* place of what is shared has the same contents.
THEOREM CloningUnseen == Spec => [][\A t \in Thread : Cloning(t) => UNCHANGED seen]_vars
<1>1. ASSUME IInv PROVE [\A t \in Thread : Cloning(t) => UNCHANGED seen]_vars
  <2> SUFFICES ASSUME NEW t \in Thread, Cloning(t)
               PROVE  seen' = seen
    OBVIOUS
  <2>1. \A h \in Holder : Seen(h)' = Seen(h)
    BY <1>1, CloneSame
  <2> QED
    BY <2>1 DEF seen
<1> QED
  BY <1>1, Invariance, PTL
=============================================================================
