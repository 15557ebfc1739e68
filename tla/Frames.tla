------------------------------- MODULE Frames -------------------------------
(***************************************************************************)
(* Frames and their reference counts: IObject of CatSyn/include/catsyn.h,  *)
(* cat_ptr of cathelper.h, Frame and Bytes of CatSyn/src/frame.cpp, Table  *)
(* of table.cpp, and the functions of Metalloporphyrin's frame.cpp and     *)
(* map.cpp that filters reach them through.                                *)
(*                                                                         *)
(* A frame refers to a plane of bytes and to a table of properties, and a  *)
(* table to the numbers it holds; all are counted, and shared between      *)
(* frames until one of them is written to.  Filters run on several         *)
(* threads.  A frame a filter has made is written through the filter's own *)
(* reference; once it was returned it is one of the products, which other  *)
(* threads read and copy, and which the maintainer releases.               *)
(*                                                                         *)
(* One plane and one property stand for all.  An action makes at most one  *)
(* access to a count of an object that other threads can reach, with two   *)
(* exceptions: Create shares the plane and the table of its sources in one *)
(* step, for a frame nobody else knows of yet, and CopyFrameProps takes    *)
(* one table and releases another one.  What is released with the last     *)
(* reference to a frame or a table is released with it.  A filter keeps    *)
(* the pointer getWritePtr or getFramePropsRW gave it for several writes,  *)
(* but not past the next call that shares the frame.                       *)
(***************************************************************************)
EXTENDS Integers, Sequences, FiniteSets

CONSTANTS
  Thread,       \* the threads that run filters
  Ref,          \* the references filters can have: pairs of a thread and a number
  Product,      \* the products that are kept
  Frame, Plane, Table, Number,  \* the objects there is memory for
  Byte,         \* what a plane can hold
  MaxLen,       \* bound on the elements of a property
  None          \* no object

ASSUME ObjectAssumption ==
  /\ None \notin Frame \cup Plane \cup Table \cup Number
  /\ Frame \cap (Plane \cup Table \cup Number) = {}
  /\ Plane \cap (Table \cup Number) = {} /\ Table \cap Number = {}
  /\ IsFiniteSet(Frame) /\ IsFiniteSet(Table)
ASSUME HolderAssumption ==
  /\ Ref \subseteq Thread \X Nat /\ Ref \cap Product = {}
  /\ None \notin Ref \cup Product
  /\ IsFiniteSet(Thread) /\ IsFiniteSet(Ref) /\ IsFiniteSet(Product)
\* What a number can hold; what is held is not None.
Elements == UNION {[1 .. k -> {1}] : k \in 0 .. MaxLen}
ASSUME ContentsAssumption ==
  /\ Byte # {} /\ MaxLen \in Nat \ {0}
  /\ None \notin [plane : Byte, props : Elements]

Object == Frame \cup Plane \cup Table \cup Number
Holder == Ref \cup Product

VARIABLES
  count,        \* refcount of every object; those at zero are free memory
  frame,        \* frame[f]: the plane and the table it refers to
  bytes,        \* bytes[p]: the contents of a plane
  entry,        \* entry[t]: the number a table holds, or None
  number,       \* number[n]: the elements of a number
  holds,        \* holds[h]: the frame a VSFrameRef or a product refers to
  mutable,      \* the references their filters may write through
  pc,           \* what each thread is doing
  ref,          \* the reference it is doing it to
  copy,         \* the clone it has just made and not yet assigned
  crashed       \* the process has run into undefined behaviour

heapVars == <<count, frame, bytes, entry, number>>
threadVars == <<pc, ref, copy>>
vars == <<heapVars, holds, mutable, threadVars, crashed>>

Init ==
  /\ count = [o \in Object |-> 0]
  /\ frame = [f \in Frame |-> [plane |-> None, props |-> None]]
  /\ bytes \in [Plane -> {CHOOSE b \in Byte : TRUE}]
  /\ entry = [t \in Table |-> None]
  /\ number = [n \in Number |-> <<>>]
  /\ holds = [h \in Holder |-> None]
  /\ mutable = {}
  /\ pc = [t \in Thread |-> "idle"]
  /\ ref = [t \in Thread |-> None]
  /\ copy = [t \in Thread |-> None]
  /\ crashed = FALSE

-----------------------------------------------------------------------------
(* Counting *)

FreeIn(K) == {o \in K : count[o] = 0}
\* operator new: any free memory will do.
New(K) == CHOOSE o \in FreeIn(K) : TRUE

\* add_ref of every object of a set.
AddRefs(c, S) == [o \in Object |-> c[o] + IF o \in S THEN 1 ELSE 0]

\* release of an object that releases nothing in turn, or of no object.
Less(c, o) == [x \in Object |-> c[x] - IF x = o THEN 1 ELSE 0]

\* release of a table: with the last reference the destructor releases what it holds.
ReleaseTable(c, m) ==
  IF c[m] = 1 THEN Less(Less(c, m), entry[m]) ELSE Less(c, m)

\* release of a frame: with the last reference, its plane and its table.
ReleaseFrame(c, f) ==
  IF c[f] = 1 THEN ReleaseTable(Less(Less(c, f), frame[f].plane), frame[f].props)
  ELSE Less(c, f)

is_unique(o) == count[o] = 1

Goto(t, to) == pc' = [pc EXCEPT ![t] = to]
Free(t) == {h \in Ref : h[1] = t /\ holds[h] = None}
Mine(t) == {h \in Ref : h[1] = t /\ holds[h] # None}

-----------------------------------------------------------------------------
(* Making, sharing and releasing frames *)

\* The frames a filter can read: its own, and its inputs', which are products.
Sources(t) == Mine(t) \cup {g \in Product : holds[g] # None}

\* The constructor of Frame, for newVideoFrame, newVideoFrame2 and copyFrame:
\* the plane and the properties are another frame's, or new.  A new plane is
\* not initialised: it holds anything.
Create(t, h, planeSrc, propSrc) ==
  LET f == New(Frame)
      p == IF planeSrc = None THEN New(Plane) ELSE frame[holds[planeSrc]].plane
      m == IF propSrc = None THEN New(Table) ELSE frame[holds[propSrc]].props
  IN
  /\ pc[t] = "idle"
  /\ h \in Free(t) /\ FreeIn(Frame) # {}
  /\ planeSrc = None => FreeIn(Plane) # {}
  /\ propSrc = None => FreeIn(Table) # {}
  /\ frame' = [frame EXCEPT ![f] = [plane |-> p, props |-> m]]
  /\ entry' = IF propSrc = None THEN [entry EXCEPT ![m] = None] ELSE entry
  /\ count' = AddRefs(count, {f, p, m})
  /\ holds' = [holds EXCEPT ![h] = f]
  /\ mutable' = mutable \cup {h}
  /\ IF planeSrc = None
       THEN \E b \in Byte : bytes' = [bytes EXCEPT ![p] = b]
       ELSE UNCHANGED bytes
  /\ UNCHANGED <<number, threadVars, crashed>>

\* cloneFrameRef, and getFrameFilter's reference to a product.
Share(t, h, g) ==
  /\ pc[t] = "idle"
  /\ h \in Free(t)
  /\ g \in Sources(t) \ mutable
  /\ holds' = [holds EXCEPT ![h] = holds[g]]
  /\ count' = AddRefs(count, {holds[g]})
  /\ UNCHANGED <<frame, bytes, entry, number, mutable, threadVars, crashed>>

\* freeFrame, and the sweep's release of a product.
FreeRef(h) ==
  /\ holds[h] # None
  /\ h \in Ref => pc[h[1]] = "idle"
  /\ holds' = [holds EXCEPT ![h] = None]
  /\ mutable' = mutable \ {h}
  /\ count' = ReleaseFrame(count, holds[h])
  /\ UNCHANGED <<frame, bytes, entry, number, threadVars, crashed>>

\* A filter returns a frame: the product takes over its reference.
Return(t, h, g) ==
  /\ pc[t] = "idle"
  /\ h \in Mine(t)
  /\ g \in Product /\ holds[g] = None
  /\ holds' = [holds EXCEPT ![g] = holds[h], ![h] = None]
  /\ mutable' = mutable \ {h}
  /\ UNCHANGED <<heapVars, threadVars, crashed>>

-----------------------------------------------------------------------------
(* getWritePtr: Frame::get_plane_mut *)

\* Mutant: the plane is written in place whoever else refers to it.
GetWritePtr_InPlace(t, h) ==
  /\ pc[t] = "idle"
  /\ h \in Mine(t) \cap mutable
  /\ ref' = [ref EXCEPT ![t] = h]
  /\ Goto(t, "plane")
  /\ UNCHANGED <<heapVars, holds, mutable, copy, crashed>>

\* usurp_or_clone: the check.
GetWritePtr(t, h) ==
  /\ pc[t] = "idle"
  /\ h \in Mine(t) \cap mutable
  /\ ref' = [ref EXCEPT ![t] = h]
  /\ Goto(t, IF is_unique(frame[holds[h]].plane) THEN "plane" ELSE "clone plane")
  /\ UNCHANGED <<heapVars, holds, mutable, copy, crashed>>

\* Bytes::clone
ClonePlane(t) ==
  LET p == New(Plane) IN
  /\ pc[t] = "clone plane"
  /\ FreeIn(Plane) # {}
  /\ bytes' = [bytes EXCEPT ![p] = bytes[frame[holds[ref[t]]].plane]]
  /\ count' = AddRefs(count, {p})
  /\ copy' = [copy EXCEPT ![t] = p]
  /\ Goto(t, "assign plane")
  /\ UNCHANGED <<frame, entry, number, holds, mutable, ref, crashed>>

\* Mutant: the frame's old reference is not released.
AssignPlane_Leak(t) ==
  LET f == holds[ref[t]] IN
  /\ pc[t] = "assign plane"
  /\ frame' = [frame EXCEPT ![f].plane = copy[t]]
  /\ copy' = [copy EXCEPT ![t] = None]
  /\ Goto(t, "plane")
  /\ UNCHANGED <<count, bytes, entry, number, holds, mutable, ref, crashed>>

\* plane = plane_mut releases the plane the frame referred to; the reference
\* of plane_mut goes over to the frame.
AssignPlane(t) ==
  LET f == holds[ref[t]] IN
  /\ pc[t] = "assign plane"
  /\ frame' = [frame EXCEPT ![f].plane = copy[t]]
  /\ count' = Less(count, frame[f].plane)
  /\ copy' = [copy EXCEPT ![t] = None]
  /\ Goto(t, "plane")
  /\ UNCHANGED <<bytes, entry, number, holds, mutable, ref, crashed>>

\* The filter writes through the pointer it was given.
WritePlane(t, b) ==
  /\ pc[t] = "plane"
  /\ bytes' = [bytes EXCEPT ![frame[holds[ref[t]]].plane] = b]
  /\ UNCHANGED <<count, frame, entry, number, holds, mutable, threadVars, crashed>>

-----------------------------------------------------------------------------
(* getFramePropsRW: Frame::get_frame_props_mut, and the functions of VSMap *)

\* usurp_or_clone: the check.
GetFramePropsRW(t, h) ==
  /\ pc[t] = "idle"
  /\ h \in Mine(t) \cap mutable
  /\ ref' = [ref EXCEPT ![t] = h]
  /\ Goto(t, IF is_unique(frame[holds[h]].props) THEN "props" ELSE "clone props")
  /\ UNCHANGED <<heapVars, holds, mutable, copy, crashed>>

\* Table::clone shares the entries.
CloneTable(t) ==
  LET m == New(Table)
      old == frame[holds[ref[t]]].props
  IN
  /\ pc[t] = "clone props"
  /\ FreeIn(Table) # {}
  /\ entry' = [entry EXCEPT ![m] = entry[old]]
  /\ count' = AddRefs(count, {m, entry[old]})
  /\ copy' = [copy EXCEPT ![t] = m]
  /\ Goto(t, "assign props")
  /\ UNCHANGED <<frame, bytes, number, holds, mutable, ref, crashed>>

\* props = props_mut
AssignProps(t) ==
  LET f == holds[ref[t]] IN
  /\ pc[t] = "assign props"
  /\ frame' = [frame EXCEPT ![f].props = copy[t]]
  /\ count' = ReleaseTable(count, frame[f].props)
  /\ copy' = [copy EXCEPT ![t] = None]
  /\ Goto(t, "props")
  /\ UNCHANGED <<bytes, entry, number, holds, mutable, ref, crashed>>

MyTable(t) == frame[holds[ref[t]]].props
MyNumber(t) == entry[MyTable(t)]

\* propSetInt with paReplace: a new number, and Table::set releases the old.
PropSetInt(t) ==
  LET n == New(Number) IN
  /\ pc[t] = "props"
  /\ FreeIn(Number) # {}
  /\ number' = [number EXCEPT ![n] = <<1>>]
  /\ entry' = [entry EXCEPT ![MyTable(t)] = n]
  /\ count' = Less(AddRefs(count, {n}), MyNumber(t))
  /\ UNCHANGED <<frame, bytes, holds, mutable, threadVars, crashed>>

\* Mutant: the number is written in place whoever else refers to it.
PropAppendInt_InPlace(t) ==
  /\ pc[t] = "props"
  /\ MyNumber(t) # None /\ Len(number[MyNumber(t)]) < MaxLen
  /\ Goto(t, "append")
  /\ UNCHANGED <<heapVars, holds, mutable, ref, copy, crashed>>

\* propSetInt with paAppend, when there is a number.  A number that is shared
\* is cloned by Bytes::clone, through a pointer to the wrong type.
PropAppendInt(t) ==
  /\ pc[t] = "props"
  /\ MyNumber(t) # None /\ Len(number[MyNumber(t)]) < MaxLen
  /\ IF is_unique(MyNumber(t))
       THEN Goto(t, "append") /\ UNCHANGED crashed
       ELSE crashed' = TRUE /\ UNCHANGED pc
  /\ UNCHANGED <<heapVars, holds, mutable, ref, copy>>

\* marr->realloc and the store of the new element.
StoreElement(t) ==
  /\ pc[t] = "append"
  /\ number' = [number EXCEPT ![MyNumber(t)] = Append(@, 1)]
  /\ Goto(t, "props")
  /\ UNCHANGED <<count, frame, bytes, entry, holds, mutable, ref, copy, crashed>>

\* propDeleteKey
PropDeleteKey(t) ==
  /\ pc[t] = "props"
  /\ MyNumber(t) # None
  /\ entry' = [entry EXCEPT ![MyTable(t)] = None]
  /\ count' = Less(count, MyNumber(t))
  /\ UNCHANGED <<frame, bytes, number, holds, mutable, threadVars, crashed>>

\* The filter does not use the pointer any more.
Done(t) ==
  /\ pc[t] \in {"plane", "props"}
  /\ ref' = [ref EXCEPT ![t] = None]
  /\ Goto(t, "idle")
  /\ UNCHANGED <<heapVars, holds, mutable, copy, crashed>>

\* copyFrameProps: the new table is referred to before the old is released.
CopyFrameProps(t, src, dst) ==
  LET f == holds[dst]
      new == frame[holds[src]].props
  IN
  /\ pc[t] = "idle"
  /\ src \in Sources(t) /\ dst \in Mine(t) \cap mutable
  /\ frame' = [frame EXCEPT ![f].props = new]
  /\ count' = ReleaseTable(AddRefs(count, {new}), frame[f].props)
  /\ UNCHANGED <<bytes, entry, number, holds, mutable, threadVars, crashed>>

-----------------------------------------------------------------------------
Step(t) ==
  \/ \E h \in Free(t) :
       \/ \E a, b \in Sources(t) \cup {None} : Create(t, h, a, b)
       \/ \E g \in Holder : Share(t, h, g)
  \/ \E h \in Mine(t) :
       \/ FreeRef(h) \/ GetWritePtr(t, h) \/ GetFramePropsRW(t, h)
       \/ \E g \in Product : Return(t, h, g)
       \/ \E g \in Sources(t) : CopyFrameProps(t, g, h)
  \/ ClonePlane(t) \/ AssignPlane(t)
  \/ \E b \in Byte : WritePlane(t, b)
  \/ CloneTable(t) \/ AssignProps(t)
  \/ PropSetInt(t) \/ PropAppendInt(t) \/ StoreElement(t) \/ PropDeleteKey(t)
  \/ Done(t)

Next ==
  /\ ~crashed
  /\ \/ \E t \in Thread : Step(t)
     \/ \E g \in Product : FreeRef(g)

Spec == Init /\ [][Next]_vars
-----------------------------------------------------------------------------
Alive(K) == {o \in K : count[o] > 0}

\* The count of an object is the number of references to it, whatever filters
\* and the sweep do at the same time: nothing is freed while something refers
\* to it, and nothing stays behind.
CountsExact ==
  /\ \A f \in Frame : count[f] = Cardinality({h \in Holder : holds[h] = f})
  /\ \A p \in Plane :
       count[p] = Cardinality({f \in Alive(Frame) : frame[f].plane = p})
                    + Cardinality({t \in Thread : copy[t] = p})
  /\ \A m \in Table :
       count[m] = Cardinality({f \in Alive(Frame) : frame[f].props = m})
                    + Cardinality({t \in Thread : copy[t] = m})
  /\ \A n \in Number :
       count[n] = Cardinality({m \in Alive(Table) : entry[m] = n})

\* From the check of usurp_or_clone to the last write through the pointer a
\* filter was given, nobody else comes to refer to what it writes to.
WritesPrivate ==
  \A t \in Thread :
    LET f == holds[ref[t]] IN
    /\ pc[t] # "idle" => {h \in Holder : holds[h] = f} = {ref[t]}
    /\ pc[t] = "plane" => count[frame[f].plane] = 1
    /\ pc[t] \in {"props", "append"} => count[frame[f].props] = 1
    /\ pc[t] = "append" => count[MyNumber(t)] = 1

\* Sharing cannot be told from copying: every holder of a frame has a value of
\* its own, which only writes through that holder change.
Seen(h) ==
  IF holds[h] = None THEN None
  ELSE LET f == frame[holds[h]] IN
       [plane |-> bytes[f.plane],
        props |-> IF entry[f.props] = None THEN <<>> ELSE number[entry[f.props]]]
Values == INSTANCE FrameValues WITH
  Plane <- Byte, Props <- Elements, value <- [h \in Holder |-> Seen(h)]
ImplementsFrameValues == Values!Spec
=============================================================================
