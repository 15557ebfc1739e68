----------------------------- MODULE QueueProofs -----------------------------
(***************************************************************************)
(* Theorems about CatSyn/src/queue.h.                                      *)
(*                                                                         *)
(* Wedge: the invariants of the lock, for any finite set of threads        *)
(* smaller than the top bit of the word.                                   *)
(*                                                                         *)
(* SCQueue: it never reads or writes a node that was deleted, and is a     *)
(* FIFO queue, for any set of producers and any number of pushes.          *)
(***************************************************************************)
EXTENDS Wedge, SCQueue, FiniteSetTheorems, SequenceTheorems, TLAPS

-----------------------------------------------------------------------------
(* Wedge *)

USE ThreadAssumption, HighestAssumption

\* Arithmetic modulo the width of the word is exact below it.
LEMMA SmallModulo ==
  ASSUME NEW m \in Nat, NEW x \in 0 .. m - 1
  PROVE  x % m = x
BY SMTT(30)

\* The increments in the word come from distinct threads, so there are fewer
\* of them than the top bit counts.
LEMMA CountBound ==
  /\ IsFiniteSet(Counted)
  /\ Cardinality(Counted) \in Nat
  /\ Cardinality(Counted) < Highest
  /\ Cardinality(Counted) = 0 <=> Counted = {}
<1>1. Counted \subseteq Thread
  BY DEF Counted
<1>2. IsFiniteSet(Counted) /\ Cardinality(Counted) <= Cardinality(Thread)
  BY <1>1, FS_Subset
<1>3. Cardinality(Counted) \in Nat /\ Cardinality(Thread) \in Nat
  BY <1>2, FS_CardinalityType
<1>4. Cardinality(Counted) = 0 <=> Counted = {}
  BY <1>2, FS_EmptySet
<1> QED
  BY <1>2, <1>3, <1>4

\* The top bit is set exactly while some thread holds the lock exclusively.
LEMMA TopBit ==
  ASSUME WordAccounts
  PROVE  HasHighest(atm) <=> Writers # {}
BY CountBound DEF WordAccounts, HasHighest

\* Once the lock is free of every holder and attempt the word is zero, and
\* conversely.
LEMMA ZeroWord ==
  ASSUME WordAccounts
  PROVE  atm = 0 <=> Counted = {} /\ Writers = {}
BY CountBound DEF WordAccounts

\* Adding a thread to those counted, and removing one.
LEMMA CountUp ==
  ASSUME NEW t, t \notin Counted, Counted' = Counted \cup {t}
  PROVE  Cardinality(Counted') = Cardinality(Counted) + 1
BY CountBound, FS_AddElement

LEMMA CountDown ==
  ASSUME NEW t, t \in Counted, Counted' = Counted \ {t}
  PROVE  Cardinality(Counted') = Cardinality(Counted) - 1
BY CountBound, FS_RemoveElement

LEMMA WedgeInitIInv == WedgeInit => WedgeIInv
<1> SUFFICES ASSUME WedgeInit PROVE WedgeIInv
  OBVIOUS
<1>1. TypeOK
  BY CountBound DEF WedgeInit, TypeOK, States, Modulus
<1>2. Counted = {} /\ Writers = {}
  BY DEF WedgeInit, Counted, Writers
<1>3. WordAccounts
  BY <1>2, CountBound DEF WedgeInit, WordAccounts
<1>4. InitialisesAlone
  BY DEF WedgeInit, InitialisesAlone
<1> QED
  BY <1>1, <1>3, <1>4 DEF WedgeIInv

LEMMA WedgeNextIInv == WedgeIInv /\ [WedgeNext]_wedgeVars => WedgeIInv'
<1> SUFFICES ASSUME WedgeIInv, [WedgeNext]_wedgeVars PROVE WedgeIInv'
  OBVIOUS
<1> USE DEF WedgeIInv, Goto
<1>ok. TypeOK /\ WordAccounts /\ InitialisesAlone
  OBVIOUS
<1>n. /\ Cardinality(Counted) \in Nat
      /\ Cardinality(Counted) < Highest
      /\ Highest \in Nat
  BY CountBound
<1>1. ASSUME NEW t \in Thread, TryLockShared(t) PROVE WedgeIInv'
  <2>0. atm + 1 < Modulus
    <3>1. IsFiniteSet(Counted \cup {t}) /\ Counted \cup {t} \subseteq Thread
      BY CountBound, FS_AddElement DEF Counted
    <3>2. Cardinality(Counted \cup {t}) = Cardinality(Counted) + 1
      BY <1>1, CountBound, FS_AddElement DEF TryLockShared, Counted
    <3>3. Cardinality(Counted \cup {t}) <= Cardinality(Thread)
      BY <3>1, FS_Subset
    <3>4. Cardinality(Thread) \in Nat
      BY FS_CardinalityType
    <3> QED
      BY <1>n, <3>2, <3>3, <3>4 DEF WordAccounts, Modulus
  <2>1. atm' = atm + 1
    <3>1. Modulus \in Nat /\ atm + 1 \in 0 .. Modulus - 1
      BY <2>0, <1>n DEF TypeOK, Modulus
    <3> QED
      BY <1>1, <3>1, SmallModulo DEF TryLockShared
  <2>2. TypeOK'
    <3>1. atm' \in 0 .. Modulus - 1
      BY <1>n, <2>0, <2>1 DEF TypeOK, Modulus
    <3> QED
      BY <1>1, <3>1 DEF TryLockShared, TypeOK, States
  <2>3. t \notin Counted /\ Counted' = Counted \cup {t}
    BY <1>1 DEF TryLockShared, TypeOK, Counted
  <2>4. Writers' = Writers
    BY <1>1 DEF TryLockShared, TypeOK, Writers
  <2>5. WordAccounts'
    BY <1>n, <2>1, <2>3, <2>4, CountUp DEF WordAccounts
  <2>6. InitialisesAlone'
    BY <1>1, TopBit DEF TryLockShared, TypeOK, InitialisesAlone, Writers
  <2> QED
    BY <2>2, <2>5, <2>6
<1>2. ASSUME NEW t \in Thread, t \in Counted, atm' = (atm - 1) % Modulus,
             pc' = [pc EXCEPT ![t] = "idle"], inited' = inited
      PROVE  WedgeIInv'
  <2>0. Cardinality(Counted) # 0
    BY <1>2, CountBound
  <2>1. atm - 1 \in 0 .. Modulus - 1
    BY <2>0, <1>n DEF WordAccounts, Modulus
  <2>2. atm' = atm - 1
    <3>1. Modulus \in Nat
      BY <1>n DEF Modulus
    <3> QED
      BY <1>2, <2>1, <3>1, SmallModulo
  <2>3. TypeOK'
    BY <1>2, <2>1, <2>2 DEF TypeOK, States
  <2>4. Counted' = Counted \ {t}
    BY <1>2 DEF TypeOK, Counted
  <2>5. Writers' = Writers
    BY <1>2 DEF TypeOK, Writers, Counted
  <2>6. WordAccounts'
    <3>1. Cardinality(Counted') = Cardinality(Counted) - 1
      BY <1>2, <2>4, CountDown
    <3>2. CASE Writers = {}
      BY <1>n, <2>2, <2>5, <3>1, <3>2 DEF WordAccounts
    <3>3. CASE Writers # {}
      BY <1>n, <2>2, <2>5, <3>1, <3>3 DEF WordAccounts
    <3> QED
      BY <3>2, <3>3
  <2>7. InitialisesAlone'
    BY <1>2 DEF TypeOK, InitialisesAlone
  <2> QED
    BY <2>3, <2>6, <2>7
<1>3. ASSUME NEW t \in Thread, UndoShared(t) PROVE WedgeIInv'
  BY <1>2, <1>3 DEF UndoShared, Counted
<1>4. ASSUME NEW t \in Thread, UnlockShared(t) PROVE WedgeIInv'
  BY <1>2, <1>4 DEF UnlockShared, Counted
<1>5. ASSUME NEW t \in Thread, LoadWord(t) PROVE WedgeIInv'
  <2>1. Counted' = Counted /\ Writers' = Writers /\ atm' = atm
    BY <1>5 DEF LoadWord, TypeOK, Counted, Writers
  <2>2. TypeOK'
    BY <1>5 DEF LoadWord, TypeOK, States
  <2>3. WordAccounts'
    BY <2>1 DEF WordAccounts
  <2>4. InitialisesAlone'
    BY <1>5 DEF LoadWord, TypeOK, InitialisesAlone
  <2> QED
    BY <2>2, <2>3, <2>4
<1>6. ASSUME NEW t \in Thread, ExchangeWord(t) PROVE WedgeIInv'
  <2>1. CASE /\ atm = 0 /\ atm' = Highest
             /\ inited' = inited \cup {t}
             /\ pc' = [pc EXCEPT ![t] = "exclusive"]
    <3>1. Counted = {} /\ Writers = {}
      BY <2>1, ZeroWord
    <3>2. Counted' = {} /\ Writers' = {t}
      BY <2>1, <3>1 DEF TypeOK, Counted, Writers
    <3>3. TypeOK'
      BY <2>1 DEF TypeOK, States, Modulus
    <3>4. Cardinality(Counted') = 0
      BY <3>2, FS_EmptySet
    <3>5. WordAccounts'
      BY <2>1, <3>2, <3>4 DEF WordAccounts
    <3>6. InitialisesAlone'
      BY <2>1, <3>1 DEF TypeOK, InitialisesAlone, Counted, Writers
    <3> QED
      BY <3>3, <3>5, <3>6
  <2>2. CASE pc[t] = "cas" /\ pc' = [pc EXCEPT ![t] = "idle"] /\ UNCHANGED <<atm, inited>>
    <3>1. Counted' = Counted /\ Writers' = Writers
      BY <2>2 DEF TypeOK, Counted, Writers
    <3>2. TypeOK'
      BY <2>2 DEF TypeOK, States
    <3>3. WordAccounts'
      BY <2>2, <3>1 DEF WordAccounts
    <3>4. InitialisesAlone'
      BY <2>2 DEF TypeOK, InitialisesAlone
    <3> QED
      BY <3>2, <3>3, <3>4
  <2> QED
    BY <1>6, <2>1, <2>2 DEF ExchangeWord
<1>7. ASSUME NEW t \in Thread, UnlockExclusive(t) PROVE WedgeIInv'
  <2>1. t \in Writers /\ HasHighest(atm)
    BY <1>7, TopBit DEF UnlockExclusive, Writers
  <2>2. Writers = {t}
    BY <2>1 DEF Writers, InitialisesAlone
  <2>3. atm' = atm - Highest
    BY <1>7, <2>1 DEF UnlockExclusive
  <2>4. Counted' = Counted /\ Writers' = {}
    BY <1>7, <2>2 DEF UnlockExclusive, TypeOK, Counted, Writers
  <2>5. atm' = Cardinality(Counted)
    <3>1. atm = Cardinality(Counted) + Highest
      BY <2>2 DEF WordAccounts
    <3> QED
      BY <1>n, <2>3, <3>1
  <2>6. TypeOK'
    BY <1>7, <1>n, <2>5 DEF UnlockExclusive, TypeOK, States, Modulus
  <2>7. WordAccounts'
    BY <1>n, <2>4, <2>5 DEF WordAccounts
  <2>8. InitialisesAlone'
    BY <1>7 DEF UnlockExclusive, TypeOK, InitialisesAlone
  <2> QED
    BY <2>6, <2>7, <2>8
<1>8. CASE UNCHANGED wedgeVars
  BY <1>8 DEF wedgeVars, TypeOK, WordAccounts, InitialisesAlone, Counted, Writers
<1> QED
  BY <1>1, <1>3, <1>4, <1>5, <1>6, <1>7, <1>8 DEF WedgeNext

LEMMA WedgeInductive == WedgeSpec => []WedgeIInv
<1>1. WedgeInit => WedgeIInv
  BY WedgeInitIInv
<1>2. WedgeIInv /\ [WedgeNext]_wedgeVars => WedgeIInv'
  BY WedgeNextIInv
<1> QED
  BY <1>1, <1>2, PTL DEF WedgeSpec

\* The word never overflows and every thread is at a known place.
THEOREM TypeCorrect == WedgeSpec => []TypeOK
<1>1. WedgeIInv => TypeOK
  BY DEF WedgeIInv
<1> QED
  BY <1>1, WedgeInductive, PTL

\* A worker that initialises its per-thread state in a filter (substrate.cpp
\* lines 106-115) is alone in that filter, for any number of workers.
THEOREM Exclusion == WedgeSpec => []InitialisesAlone
<1>1. WedgeIInv => InitialisesAlone
  BY DEF WedgeIInv
<1> QED
  BY <1>1, WedgeInductive, PTL

\* The failed attempts that race with an unlock leave no trace in the word.
THEOREM NoTrace == WedgeSpec => []FreeWhenUnused
<1>1. WedgeIInv => FreeWhenUnused
  <2> SUFFICES ASSUME WedgeIInv, \A t \in Thread : pc[t] \in {"idle", "cas"}
               PROVE  atm = 0
    BY DEF FreeWhenUnused
  <2>1. Counted = {} /\ Writers = {}
    BY DEF Counted, Writers
  <2> QED
    BY <2>1, ZeroWord DEF WedgeIInv
<1> QED
  BY <1>1, WedgeInductive, PTL

-----------------------------------------------------------------------------
(* SCQueue *)

USE MaxPushAssumption

Typed ==
  /\ drains \in BOOLEAN /\ waits \in BOOLEAN
  /\ head \in Nat \ {0} /\ tail \in 1 .. head
  /\ value \in Seq({"stub", "task", "stop"}) /\ Len(value) = head
  /\ \A n \in 2 .. head : value[n] \in {"task", "stop"}
  /\ ppc \in [Producer -> {"idle", "link", "clear", "notify"}]
  /\ node \in [Producer -> 1 .. head]
  /\ cpc \in {"load", "compare", "gate", "look", "asleep", "over"}

\* What the consumer has gone past was linked; a node is linked once, by the producer that
\* exchanged it in, and never before.
Linking ==
  /\ linked \subseteq 1 .. head - 1
  /\ 1 .. tail - 1 \subseteq linked
  /\ \A p \in Producer : ppc[p] = "link" => node[p] # 1 /\ node[p] - 1 \notin linked
  /\ \A p, q \in Producer :
       ppc[p] = "link" /\ ppc[q] = "link" /\ node[p] = node[q] => p = q

IInv == Typed /\ Linking

-----------------------------------------------------------------------------
LEMMA InitIInv == Init => IInv
<1> SUFFICES ASSUME Init PROVE IInv
  OBVIOUS
<1>1. Typed
  BY DEF Init, Typed, Stub
<1>2. Linking
  BY DEF Init, Linking, Stub
<1> QED
  BY <1>1, <1>2 DEF IInv

LEMMA NextIInv == IInv /\ [Next]_vars => IInv'
<1> SUFFICES ASSUME IInv, [Next]_vars PROVE IInv'
  OBVIOUS
<1>ok. Typed /\ Linking
  BY DEF IInv
<1> USE DEF vars, producerVars, consumerVars, PGoto, CGoto
<1>1. ASSUME NEW p \in Producer, NEW v \in {"task", "stop"}, Exchange(p, v) PROVE IInv'
  <2>1. /\ value' \in Seq({"stub", "task", "stop"}) /\ Len(value') = head'
        /\ \A n \in 2 .. head' : value'[n] \in {"task", "stop"}
    BY <1>ok, <1>1 DEF Exchange, Typed
  <2>2. Typed'
    BY <1>ok, <1>1, <2>1 DEF Exchange, Typed
  <2>3. Linking'
    BY <1>ok, <1>1 DEF Exchange, Linking, Typed
  <2> QED
    BY <2>2, <2>3 DEF IInv
<1>2. ASSUME NEW p \in Producer, Link(p) PROVE IInv'
  <2>1. ppc' \in [Producer -> {"idle", "link", "clear", "notify"}]
    BY <1>ok, <1>2 DEF Link, Typed
  <2>2. UNCHANGED <<head, tail, value, node, drains, cpc, waits>>
    BY <1>2 DEF Link
  <2>3. Typed'
    BY <1>ok, <2>1, <2>2 DEF Typed
  <2>4. Linking'
    <3>1. node[p] - 1 \in 1 .. head - 1
      BY <1>ok, <1>2 DEF Link, Linking, Typed
    <3>2. linked' = linked \cup {node[p] - 1} /\ linked' \subseteq 1 .. head' - 1
      BY <1>ok, <1>2, <3>1 DEF Link, Linking
    <3>3. ASSUME NEW q \in Producer, ppc'[q] = "link"
          PROVE  ppc[q] = "link" /\ q # p /\ node'[q] = node[q]
      BY <1>ok, <1>2, <3>3 DEF Link, Typed
    <3>4. ASSUME NEW q \in Producer, ppc'[q] = "link"
          PROVE  node'[q] # 1 /\ node'[q] - 1 \notin linked'
      <4>1. node[q] # node[p] /\ node[q] # 1 /\ node[q] - 1 \notin linked
        BY <1>ok, <1>2, <3>3, <3>4 DEF Link, Linking
      <4>2. node[q] \in Int /\ node[p] \in Int
        BY <1>ok DEF Typed
      <4> QED
        BY <3>2, <3>3, <3>4, <4>1, <4>2
    <3> QED
      BY <1>ok, <1>2, <3>2, <3>3, <3>4 DEF Link, Linking
  <2> QED
    BY <2>3, <2>4 DEF IInv
<1>3. ASSUME NEW p \in Producer, ClearSem(p) \/ NotifyOne(p) PROVE IInv'
  <2>1. Typed'
    BY <1>ok, <1>3 DEF ClearSem, NotifyOne, Typed
  <2>2. Linking'
    BY <1>ok, <1>3 DEF ClearSem, NotifyOne, Linking, Typed
  <2> QED
    BY <2>1, <2>2 DEF IInv
<1>4. ASSUME TakeNext PROVE IInv'
  <2>1. tail' \in 1 .. head
    BY <1>ok, <1>4 DEF TakeNext, Typed, Linking
  <2>2. waits' \in BOOLEAN
    BY <1>ok, <1>4 DEF TakeNext, AfterTask, NextBatch, Typed
  <2>3. cpc' \in {"load", "over"}
    BY <1>4 DEF TakeNext
  <2>4. UNCHANGED <<drains, head, value, ppc, node>>
    BY <1>4 DEF TakeNext
  <2>5. Typed'
    BY <1>ok, <2>1, <2>2, <2>3, <2>4 DEF Typed
  <2>6. Linking'
    BY <1>ok, <1>4 DEF TakeNext, Linking, Typed
  <2> QED
    BY <2>5, <2>6 DEF IInv
<1>5. ASSUME NoNext \/ CompareHead \/ TestAndSet \/ Look PROVE IInv'
  <2>1. Typed'
    BY <1>ok, <1>5 DEF NoNext, CompareHead, TestAndSet, Look, NextBatch, Typed
  <2>2. Linking'
    BY <1>ok, <1>5 DEF NoNext, CompareHead, TestAndSet, Look, Linking, Typed
  <2> QED
    BY <2>1, <2>2 DEF IInv
<1>6. CASE UNCHANGED vars
  BY <1>ok, <1>6 DEF IInv, Typed, Linking
<1> QED
  BY <1>1, <1>2, <1>3, <1>4, <1>5, <1>6 DEF Next, Pushing, Consumer

LEMMA Inductive == Spec => []IInv
<1>1. Init => IInv
  BY InitIInv
<1>2. IInv /\ [Next]_vars => IInv'
  BY NextIInv
<1> QED
  BY <1>1, <1>2, PTL DEF Spec

\* The store to prev->next (queue.h line 31) never goes to a node that the consumer
\* has deleted (line 54).
THEOREM NoStoreToFreed == Spec => []NoUseAfterFree
<1>1. IInv => NoUseAfterFree
  <2> SUFFICES ASSUME IInv, NEW p \in Producer, ppc[p] = "link" PROVE node[p] - 1 >= tail
    BY DEF NoUseAfterFree
  <2>1. node[p] \in Nat /\ node[p] # 1 /\ node[p] # 0 /\ tail \in Nat
    BY DEF IInv, Typed, Linking
  <2>2. node[p] - 1 \notin 1 .. tail - 1
    BY DEF IInv, Linking
  <2> QED
    BY <2>1, <2>2
<1> QED
  BY <1>1, Inductive, PTL

-----------------------------------------------------------------------------
(* The refinement of FifoQueue *)

queue == SubSeq(value, tail + 1, head)
mode == IF cpc = "over" THEN "over" ELSE IF waits THEN "waiting" ELSE "draining"

\* What a put does to the part of the sequence behind the tail, and what a take does.
LEMMA PutBehind ==
  ASSUME NEW S, NEW s \in Seq(S), NEW e \in S, NEW m \in 1 .. Len(s)
  PROVE  SubSeq(Append(s, e), m + 1, Len(s) + 1) = Append(SubSeq(s, m + 1, Len(s)), e)
<1> DEFINE whole == SubSeq(Append(s, e), m + 1, Len(s) + 1)
           part == SubSeq(s, m + 1, Len(s))
<1>1. /\ Append(s, e) \in Seq(S) /\ Len(Append(s, e)) = Len(s) + 1
      /\ \A i \in 1 .. Len(s) : Append(s, e)[i] = s[i]
      /\ Append(s, e)[Len(s) + 1] = e
  OBVIOUS
<1>2. /\ whole \in Seq(S) /\ Len(whole) = Len(s) + 1 - m
      /\ \A i \in 1 .. Len(s) + 1 - m : whole[i] = Append(s, e)[m + i]
  BY <1>1, SubSeqProperties
<1>3. /\ part \in Seq(S) /\ Len(part) = Len(s) - m
      /\ \A i \in 1 .. Len(s) - m : part[i] = s[m + i]
  BY SubSeqProperties
<1>4. /\ Append(part, e) \in Seq(S) /\ Len(Append(part, e)) = Len(s) + 1 - m
      /\ \A i \in 1 .. Len(s) - m : Append(part, e)[i] = part[i]
      /\ Append(part, e)[Len(s) + 1 - m] = e
  BY <1>3
<1>5. \A i \in 1 .. Len(s) + 1 - m : whole[i] = Append(part, e)[i]
  BY <1>1, <1>2, <1>3, <1>4
<1> QED
  BY <1>2, <1>4, <1>5, SeqEqual

LEMMA TakeBehind ==
  ASSUME NEW S, NEW s \in Seq(S), NEW m \in 1 .. Len(s) - 1
  PROVE  /\ SubSeq(s, m + 1, Len(s)) # <<>>
         /\ Head(SubSeq(s, m + 1, Len(s))) = s[m + 1]
         /\ Tail(SubSeq(s, m + 1, Len(s))) = SubSeq(s, m + 2, Len(s))
<1>1. Len(SubSeq(s, m + 1, Len(s))) # 0
  BY SubSeqProperties
<1>2. m + 1 \in 1 .. Len(s) /\ Len(s) \in m + 1 .. Len(s) /\ (m + 1) + 1 = m + 2
  OBVIOUS
<1>3. /\ Head(SubSeq(s, m + 1, Len(s))) = s[m + 1]
      /\ Tail(SubSeq(s, m + 1, Len(s))) = SubSeq(s, (m + 1) + 1, Len(s))
  BY <1>2, HeadTailOfSubSeq
<1>4. Len(<<>>) = 0
  OBVIOUS
<1> QED
  BY <1>1, <1>2, <1>3, <1>4

LEMMA NoneBehind ==
  ASSUME NEW S, NEW s \in Seq(S)
  PROVE  SubSeq(s, Len(s) + 1, Len(s)) = <<>>
OBVIOUS

LEMMA InitFifo == Init => Fifo!Init
BY NoneBehind DEF Init, Fifo!Init, Stub

LEMMA StepFifo == IInv /\ [Next]_vars => [Fifo!Next]_(Fifo!vars)
<1> SUFFICES ASSUME IInv, [Next]_vars PROVE [Fifo!Next]_(Fifo!vars)
  OBVIOUS
<1> USE DEF vars, producerVars, consumerVars, PGoto, CGoto, IInv
<1>1. ASSUME NEW p \in Producer, NEW v \in {"task", "stop"}, Exchange(p, v)
      PROVE  Fifo!Put(v)
  <2>0. /\ value \in Seq({"stub", "task", "stop"}) /\ v \in {"stub", "task", "stop"}
        /\ Len(value) = head /\ tail \in 1 .. Len(value)
    BY DEF Typed
  <2>1. queue' = Append(queue, v)
    <3>1. /\ value' = Append(value, v) /\ head' = Len(value) + 1 /\ tail' = tail
      BY <1>1, <2>0 DEF Exchange
    <3>2. SubSeq(Append(value, v), tail + 1, Len(value) + 1) = Append(SubSeq(value, tail + 1, Len(value)), v)
      BY <2>0, PutBehind
    <3>3. /\ queue' = SubSeq(value', tail' + 1, head')
          /\ queue = SubSeq(value, tail + 1, Len(value))
      BY <2>0 DEF queue
    <3> QED
      BY <3>1, <3>2, <3>3
  <2> QED
    BY <1>1, <2>1 DEF Exchange, Fifo!Put, queue, mode
<1>2. ASSUME TakeNext PROVE Fifo!Take
  <2>1. tail \in 1 .. Len(value) - 1
    BY <1>2 DEF TakeNext, Typed, Linking
  <2>2. queue # <<>> /\ Head(queue) = value[tail + 1] /\ queue' = Tail(queue)
    <3>1. value \in Seq({"stub", "task", "stop"}) /\ Len(value) = head /\ (tail + 1) + 1 = tail + 2
      BY DEF Typed
    <3> QED
      BY <1>2, <2>1, <3>1, TakeBehind DEF TakeNext, queue
  <2>3. value[tail + 1] \in {"task", "stop"}
    BY <2>1 DEF Typed
  <2>4. mode # "over" /\ UNCHANGED drains
    BY <1>2 DEF TakeNext, mode
  <2>5. mode' = CASE Head(queue) = "stop" /\ mode = "waiting"  -> "over"
                  [] Head(queue) = "stop" /\ mode = "draining" -> "waiting"
                  [] OTHER -> IF drains THEN "draining" ELSE "waiting"
    BY <1>2, <2>2, <2>3 DEF TakeNext, Typed, AfterTask, NextBatch, mode
  <2> QED
    BY <2>2, <2>4, <2>5 DEF Fifo!Take, queue, mode
<1>3. ASSUME CompareHead PROVE Fifo!FoundEmpty \/ UNCHANGED <<drains, queue, mode>>
  <2>1. CASE head = tail /\ ~waits
    <3>1. queue = <<>>
      BY <2>1, NoneBehind DEF Typed, queue
    <3> QED
      BY <1>3, <2>1, <3>1 DEF CompareHead, NextBatch, Fifo!FoundEmpty, queue, mode
  <2>2. CASE ~(head = tail /\ ~waits)
    BY <1>3, <2>2 DEF CompareHead, queue, mode
  <2> QED
    BY <2>1, <2>2
<1>4. ASSUME (\E p \in Producer : Pushing(p)) \/ NoNext \/ TestAndSet \/ Look \/ UNCHANGED vars
      PROVE  UNCHANGED <<drains, queue, mode>>
  <2>1. UNCHANGED <<drains, head, tail, value, waits>> /\ (cpc' = "over" <=> cpc = "over")
    <3>1. CASE \E p \in Producer : Pushing(p)
      BY <3>1 DEF Pushing, Link, ClearSem, NotifyOne
    <3>2. CASE NoNext \/ TestAndSet \/ Look
      BY <3>2 DEF NoNext, TestAndSet, Look
    <3> QED
      BY <1>4, <3>1, <3>2
  <2> QED
    BY <2>1 DEF queue, mode
<1> QED
  BY <1>1, <1>2, <1>3, <1>4 DEF Next, Consumer, Fifo!Next, Fifo!vars, queue, mode

\* The queue is a FIFO queue whose consumer stops as FifoQueue says.
THEOREM Refinement == Spec => ImplementsFifo
<1>1. Init => Fifo!Init
  BY InitFifo
<1>2. IInv /\ [Next]_vars => [Fifo!Next]_(Fifo!vars)
  BY StepFifo
<1> QED
  BY <1>1, <1>2, Inductive, PTL DEF Spec, ImplementsFifo, Fifo!Spec
=============================================================================
