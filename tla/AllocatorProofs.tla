-------------------------- MODULE AllocatorProofs --------------------------
(***************************************************************************)
(* The pool never hands a block out twice and never loses one, for any     *)
(* threads, any number and sizes of classes, and low_memory at any time.   *)
(* The places a block can be in are followed as three sets: Held, Getting  *)
(* and Free, which together are what was ever taken from the bins.         *)
(* What a holder relies on and what is copied stays inside the blocks, and  *)
(* the pool implements Heap.                                               *)
(***************************************************************************)
EXTENDS Allocator, SequenceTheorems, WellFoundedInduction, TLAPS

USE ClassAssumption, BinAssumption, RoundSizeAssumption, NoneAssumption

Typed ==
  /\ stacks \in [Class -> Seq(Address)] /\ cur \in [Class -> Nat]
  /\ live \subseteq Address /\ asked \in [Address -> Nat]
  /\ pc \in [Thread -> {"idle", "grow", "got", "drop"}]
  /\ want \in [Thread -> Nat] /\ drops \in [Thread -> BOOLEAN]
  /\ from \in [Thread -> Address \cup {None}] /\ fresh \in [Thread -> Address \cup {None}]
  /\ lpc \in {"idle", "aside", "back"} /\ scan \in Class /\ temp \in Seq(Address)
  /\ panicked \in BOOLEAN

\* What a thread has at each place, and that low_memory is done with what it took aside.
Placed ==
  /\ \A t \in Thread :
       /\ pc[t] = "got" <=> fresh[t] # None
       /\ (drops[t] /\ pc[t] # "idle") \/ pc[t] = "drop" => from[t] # None
       /\ ~panicked /\ pc[t] = "idle" => from[t] = None
       /\ pc[t] = "grow" => ~TooLarge(want[t])
  /\ lpc = "idle" => temp = <<>>

\* The free blocks.
FreeApart ==
  /\ \A c \in Class : Elements(stacks[c]) \subseteq Taken(c) /\ Once(stacks[c])
  /\ Elements(temp) \subseteq Taken(scan) /\ Once(temp)
  /\ \A c \in Class : Elements(stacks[c]) \cap Elements(temp) = {}

\* The blocks that are not free are with one thread, or with callers.
FromApart ==
  /\ \A t, u \in Thread : t # u /\ from[t] = from[u] => from[t] = None
  /\ \A t \in Thread : from[t] \notin live
FreshApart == \A t, u \in Thread : t # u /\ fresh[t] = fresh[u] => fresh[t] = None

AllTaken == UNION {Taken(c) : c \in Class}
Partition ==
  /\ Held \cap Getting = {} /\ Held \cap Free = {} /\ Getting \cap Free = {}
  /\ Held \cup Getting \cup Free = AllTaken

IInv == Typed /\ Placed /\ FreeApart /\ FromApart /\ FreshApart /\ Partition

-----------------------------------------------------------------------------
(* addresses and sizes *)

LEMMA Quotient ==
  ASSUME NEW m \in Nat \ {0}, NEW q \in Nat, NEW r \in 0 .. m - 1
  PROVE  (m * q + r) \div m = q
BY SMTT(30)

LEMMA InBin ==
  ASSUME NEW c \in Class, NEW i \in Nat, i * RoundSize[c] < Bin
  PROVE  /\ i * RoundSize[c] \in 0 .. Bin - 1
         /\ Block(c, i) \in Address
         /\ (Block(c, i) - Base) \div Bin = c
         /\ AllocSize(Block(c, i)) = RoundSize[c]
<1> DEFINE k == i * RoundSize[c]
<1>0. c \in Nat /\ Base \in Nat /\ Bin \in Nat \ {0} /\ NumClasses \in Nat /\ c <= NumClasses - 1
  BY DEF Class
<1>1. k \in Nat
  <2>1. RoundSize[c] \in Nat
    OBVIOUS
  <2> QED
    BY <2>1
<1>2. k \in 0 .. Bin - 1
  BY <1>0, <1>1
<1> HIDE DEF k
<1>3. (Bin * c + k) \div Bin = c
  BY <1>0, <1>2, Quotient
<1>4. Bin * c \in Nat /\ Bin * c <= Bin * (NumClasses - 1)
  BY <1>0
<1>5. Bin * (NumClasses - 1) = Bin * NumClasses - Bin
  BY <1>0
<1>6. Block(c, i) = Base + Bin * c + k
  BY DEF Block, k
<1>7. Bin * NumClasses \in Nat
  BY <1>0
<1>8. Block(c, i) \in Address
  BY <1>0, <1>2, <1>4, <1>5, <1>6, <1>7 DEF Address
<1>9. (Block(c, i) - Base) \div Bin = c
  BY <1>0, <1>1, <1>3, <1>4, <1>6
<1> QED
  BY <1>2, <1>8, <1>9 DEF AllocSize, k

LEMMA SameBlock ==
  ASSUME NEW c \in Class, NEW d \in Class, NEW i \in Nat, NEW j \in Nat,
         i * RoundSize[c] < Bin, j * RoundSize[d] < Bin, Block(c, i) = Block(d, j)
  PROVE  c = d /\ i = j
<1>1. c = d
  BY InBin
<1>2. Bin * c \in Int /\ Base \in Int
  BY DEF Class
<1>3. i * RoundSize[c] \in Int /\ j * RoundSize[c] \in Int
  BY <1>1, InBin
<1>4. i * RoundSize[c] = j * RoundSize[c]
  <2> DEFINE a == i * RoundSize[c]
             b == j * RoundSize[c]
             e == Bin * c
  <2>1. Base + e + a = Base + e + b
    BY <1>1 DEF Block
  <2>2. a \in Int /\ b \in Int /\ e \in Int /\ Base \in Int
    BY <1>2, <1>3
  <2> HIDE DEF a, b, e
  <2>3. a = b
    BY <2>1, <2>2
  <2> QED
    BY <2>3 DEF a, b
<1>5. RoundSize[c] \in Nat \ {0}
  OBVIOUS
<1>6. \A m \in Nat \ {0} : i * m = j * m => i = j
  OBVIOUS
<1> QED
  BY <1>1, <1>4, <1>5, <1>6

LEMMA SizeClassOfBlock ==
  ASSUME NEW c \in Class
  PROVE  SizeClass(RoundSize[c]) = c
<1>1. /\ RoundSize[c] <= RoundSize[c]
      /\ \A d \in Class : d < c => RoundSize[d] < RoundSize[c]
  OBVIOUS
<1>2. ASSUME NEW e \in Class, RoundSize[c] <= RoundSize[e],
             \A d \in Class : d < e => RoundSize[d] < RoundSize[c]
      PROVE  e = c
  <2>1. e \in Int /\ c \in Int /\ RoundSize[c] \in Int /\ RoundSize[e] \in Int
    BY DEF Class
  <2>2. ~(c < e)
    BY <1>2, <2>1
  <2>3. ~(e < c)
    BY <1>2, <2>1
  <2> QED
    BY <2>1, <2>2, <2>3
<1> QED
  BY <1>1, <1>2 DEF SizeClass

LEMMA SizeClassType ==
  ASSUME NEW s \in Nat, ~TooLarge(s)
  PROVE  SizeClass(s) \in Class /\ s <= RoundSize[SizeClass(s)]
<1> DEFINE Fits == {c \in Class : s <= RoundSize[c]}
<1>1. PICK c \in Class : s <= RoundSize[c]
  BY DEF TooLarge
<1>2. Fits \subseteq Nat
  BY DEF Class
<1>3. Fits # {}
  BY <1>1
<1> HIDE DEF Fits
<1>4. PICK m \in Fits : \A k \in Fits : <<k, m>> \notin OpToRel(<, Nat)
  BY <1>2, <1>3, NatLessThanWellFounded, WFMin
<1>5. \A k \in Fits : ~(k < m)
  BY <1>2, <1>4 DEF OpToRel
<1> USE DEF Fits
<1>6. \A d \in Class : d < m => RoundSize[d] < s
  <2> SUFFICES ASSUME NEW d \in Class, d < m PROVE RoundSize[d] < s
    OBVIOUS
  <2>1. d \notin Fits
    BY <1>5
  <2> QED
    BY <2>1
<1> QED
  BY <1>4, <1>6 DEF SizeClass

\* A block of a class is recognised by its address.
LEMMA TakenClass ==
  ASSUME Typed, NEW c \in Class, NEW a \in Taken(c)
  PROVE  a \in Address /\ SizeClass(AllocSize(a)) = c /\ \A d \in Class : a \in Taken(d) => d = c
<1>1. ASSUME NEW d \in Class, a \in Taken(d)
      PROVE  a \in Address /\ SizeClass(AllocSize(a)) = d
  <2>1. PICK i \in Nat : i * RoundSize[d] < Bin /\ a = Block(d, i)
    BY <1>1 DEF Taken, Typed
  <2> QED
    BY <2>1, InBin, SizeClassOfBlock
<1> QED
  BY <1>1

\* The next block of a bin is a new one.
LEMMA TakenGrows ==
  ASSUME Typed, NEW c \in Class, cur' = [cur EXCEPT ![c] = @ + 1]
  PROVE  /\ cur[c] * RoundSize[c] < Bin =>
              /\ Block(c, cur[c]) \in Address \ AllTaken
              /\ AllTaken' = AllTaken \cup {Block(c, cur[c])}
         /\ ~(cur[c] * RoundSize[c] < Bin) => AllTaken' = AllTaken
         /\ \A d \in Class : Taken(d) \subseteq Taken(d)'
<1>1. /\ cur[c] \in Nat /\ cur'[c] = cur[c] + 1
      /\ \A d \in Class : d # c => cur'[d] = cur[d]
  BY DEF Typed
<1>2. 0 .. cur'[c] - 1 = (0 .. cur[c] - 1) \cup {cur[c]}
  <2>1. \A n \in Nat : 0 .. (n + 1) - 1 = (0 .. n - 1) \cup {n}
    OBVIOUS
  <2> QED
    BY <1>1, <2>1
<1>3. \A d \in Class : d # c => Taken(d)' = Taken(d)
  BY <1>1 DEF Taken
<1>4. Taken(c)' = Taken(c) \cup {Block(c, i) : i \in {j \in {cur[c]} : j * RoundSize[c] < Bin}}
  BY <1>2 DEF Taken
<1>5. CASE cur[c] * RoundSize[c] < Bin
  <2>1. Taken(c)' = Taken(c) \cup {Block(c, cur[c])}
    BY <1>4, <1>5
  <2>2. ASSUME NEW d \in Class, Block(c, cur[c]) \in Taken(d) PROVE FALSE
    <3>1. PICK i \in 0 .. cur[d] - 1 : i * RoundSize[d] < Bin /\ Block(c, cur[c]) = Block(d, i)
      BY <2>2 DEF Taken
    <3>2. i \in Nat /\ i < cur[d]
      <4>1. cur[d] \in Nat
        BY DEF Typed
      <4> QED
        BY <3>1, <4>1
    <3>3. d = c /\ i = cur[c]
      BY <1>1, <1>5, <3>1, <3>2, SameBlock
    <3> QED
      BY <1>1, <3>2, <3>3
  <2>3. Block(c, cur[c]) \in Address
    BY <1>1, <1>5, InBin
  <2> QED
    BY <1>3, <1>5, <2>1, <2>2, <2>3 DEF AllTaken
<1>6. CASE ~(cur[c] * RoundSize[c] < Bin)
  <2>1. Taken(c)' = Taken(c)
    BY <1>4, <1>6
  <2> QED
    BY <1>3, <1>6, <2>1 DEF AllTaken
<1> QED
  BY <1>5, <1>6

-----------------------------------------------------------------------------
(* stacks *)

LEMMA PopElements ==
  ASSUME NEW S, NEW s \in Seq(S), s # <<>>, Once(s)
  PROVE  /\ Head(s) \in Elements(s) /\ Head(s) \in S
         /\ Tail(s) \in Seq(S) /\ Once(Tail(s))
         /\ Elements(Tail(s)) = Elements(s) \ {Head(s)}
<1>1. /\ Len(s) \in Nat \ {0} /\ DOMAIN s = 1 .. Len(s) /\ Head(s) = s[1]
      /\ Tail(s) \in Seq(S) /\ Len(Tail(s)) = Len(s) - 1 /\ DOMAIN Tail(s) = 1 .. Len(s) - 1
      /\ \A i \in 1 .. Len(s) - 1 : Tail(s)[i] = s[i + 1]
      /\ Head(s) \in S
  BY HeadTailProperties
<1>2. Once(Tail(s))
  BY <1>1 DEF Once
<1>3. Head(s) \in Elements(s)
  BY <1>1 DEF Elements
<1>4. Elements(Tail(s)) \subseteq Elements(s) \ {Head(s)}
  <2> SUFFICES ASSUME NEW i \in 1 .. Len(s) - 1
               PROVE  Tail(s)[i] \in Elements(s) /\ Tail(s)[i] # Head(s)
    BY <1>1 DEF Elements
  <2>1. i + 1 \in DOMAIN s /\ 1 \in DOMAIN s /\ i + 1 # 1 /\ Tail(s)[i] = s[i + 1]
    BY <1>1
  <2> QED
    BY <1>1, <2>1 DEF Elements, Once
<1>5. Elements(s) \ {Head(s)} \subseteq Elements(Tail(s))
  <2> SUFFICES ASSUME NEW i \in 1 .. Len(s), i # 1 PROVE s[i] \in Elements(Tail(s))
    BY <1>1 DEF Elements
  <2>1. i - 1 \in DOMAIN Tail(s) /\ Tail(s)[i - 1] = s[i]
    BY <1>1
  <2> QED
    BY <2>1 DEF Elements
<1> QED
  BY <1>1, <1>2, <1>3, <1>4, <1>5

LEMMA PushElements ==
  ASSUME NEW S, NEW s \in Seq(S), NEW a \in S
  PROVE  /\ Push(s, a) \in Seq(S) /\ Elements(Push(s, a)) = Elements(s) \cup {a}
         /\ a \notin Elements(s) /\ Once(s) => Once(Push(s, a))
<1> DEFINE p == Push(s, a)
<1>1. /\ Len(s) \in Nat /\ DOMAIN s = 1 .. Len(s)
      /\ p \in Seq(S) /\ Len(p) = Len(s) + 1 /\ DOMAIN p = 1 .. Len(s) + 1
      /\ p[1] = a /\ \A i \in 1 .. Len(s) : p[i + 1] = s[i]
  BY DEF Push
<1> HIDE DEF p
<1>2. \A i \in DOMAIN p : i = 1 \/ (i - 1 \in DOMAIN s /\ p[i] = s[i - 1])
  <2> SUFFICES ASSUME NEW i \in 1 .. Len(s) + 1, i # 1 PROVE i - 1 \in 1 .. Len(s) /\ p[i] = s[i - 1]
    BY <1>1
  <2>1. i - 1 \in 1 .. Len(s) /\ (i - 1) + 1 = i
    BY <1>1
  <2> QED
    BY <1>1, <2>1
<1>3. Elements(p) \subseteq Elements(s) \cup {a}
  BY <1>1, <1>2 DEF Elements
<1>4. Elements(s) \cup {a} \subseteq Elements(p)
  <2>1. \A i \in DOMAIN s : i + 1 \in DOMAIN p /\ p[i + 1] = s[i]
    BY <1>1
  <2>2. 1 \in DOMAIN p
    BY <1>1
  <2> QED
    BY <1>1, <2>1, <2>2 DEF Elements
<1>5. ASSUME a \notin Elements(s), Once(s) PROVE Once(p)
  <2> SUFFICES ASSUME NEW i \in DOMAIN p, NEW j \in DOMAIN p, p[i] = p[j] PROVE i = j
    BY DEF Once
  <2>1. \A k \in DOMAIN s : s[k] # a
    BY <1>5 DEF Elements
  <2>2. i \in Int /\ j \in Int
    BY <1>1
  <2>3. CASE i = 1 \/ j = 1
    BY <1>1, <1>2, <2>1, <2>3
  <2>4. CASE i # 1 /\ j # 1
    <3>1. i - 1 \in DOMAIN s /\ j - 1 \in DOMAIN s /\ s[i - 1] = s[j - 1]
      BY <1>2, <2>4
    <3>2. i - 1 = j - 1
      BY <1>5, <3>1 DEF Once
    <3> QED
      BY <2>2, <3>2
  <2> QED
    BY <2>3, <2>4
<1> QED
  BY <1>1, <1>3, <1>4, <1>5 DEF p
-----------------------------------------------------------------------------
(* what a step does to the free blocks *)

LEMMA FreeMembers ==
  /\ \A x : x \in Free <=> x \in Elements(temp) \/ \E c \in Class : x \in Elements(stacks[c])
  /\ \A x : x \in Free' <=> x \in Elements(temp') \/ \E c \in Class : x \in Elements(stacks'[c])
BY DEF Free

\* FreeApart, after a step.
LEMMA FreeApartNext ==
  ASSUME \A c \in Class : /\ Elements(stacks'[c]) \subseteq Taken(c)' /\ Once(stacks'[c])
                          /\ Elements(stacks'[c]) \cap Elements(temp') = {},
         Elements(temp') \subseteq Taken(scan)', Once(temp')
  PROVE  FreeApart'
BY DEF FreeApart

\* The top of a stack leaves it.
LEMMA FreePop ==
  ASSUME Typed, FreeApart, NEW c \in Class, stacks[c] # <<>>,
         stacks' = [stacks EXCEPT ![c] = Tail(@)], UNCHANGED <<cur, scan, temp>>
  PROVE  /\ stacks' \in [Class -> Seq(Address)]
         /\ Head(stacks[c]) \in Address /\ Head(stacks[c]) \in Taken(c) \ Elements(temp)
         /\ Head(stacks[c]) \in Free /\ Free' = Free \ {Head(stacks[c])}
         /\ FreeApart'
<1> DEFINE a == Head(stacks[c])
<1>1. stacks[c] \in Seq(Address) /\ Once(stacks[c])
  BY DEF Typed, FreeApart
<1>2. /\ a \in Elements(stacks[c]) /\ a \in Address
      /\ Tail(stacks[c]) \in Seq(Address) /\ Once(Tail(stacks[c]))
      /\ Elements(Tail(stacks[c])) = Elements(stacks[c]) \ {a}
  BY <1>1, PopElements
<1>3. /\ stacks'[c] = Tail(stacks[c])
      /\ \A d \in Class : d # c => stacks'[d] = stacks[d]
      /\ stacks' \in [Class -> Seq(Address)]
  BY <1>2 DEF Typed
<1>4. \A d \in Class : Taken(d)' = Taken(d)
  BY DEF Taken
<1>5. /\ Elements(stacks'[c]) = Elements(stacks[c]) \ {a}
      /\ \A d \in Class : d # c => Elements(stacks'[d]) = Elements(stacks[d])
  BY <1>2, <1>3
<1>6. a \in Taken(c) /\ \A d \in Class : d # c => a \notin Elements(stacks[d])
  BY <1>2, TakenClass DEF FreeApart
<1>7. a \notin Elements(temp)
  BY <1>2 DEF FreeApart
<1> HIDE DEF a
<1>8. Free' = Free \ {a}
  <2>1. \A x : x \in Free' <=> x \in Free /\ x # a
    BY <1>5, <1>6, <1>7, FreeMembers
  <2> QED
    BY <2>1
<1>9. FreeApart'
  <2>1. \A d \in Class : /\ Elements(stacks'[d]) \subseteq Taken(d)' /\ Once(stacks'[d])
                         /\ Elements(stacks'[d]) \cap Elements(temp') = {}
    BY <1>2, <1>3, <1>4, <1>5 DEF FreeApart
  <2>2. Elements(temp') \subseteq Taken(scan)' /\ Once(temp')
    BY <1>4 DEF FreeApart, Typed
  <2> QED
    BY <2>1, <2>2, FreeApartNext
<1>10. a \in Elements(stacks[c])
  BY <1>2
<1>11. a \in Free
  BY <1>10, FreeMembers
<1>12. a \notin Free'
  BY <1>8
<1> QED
  BY <1>2, <1>3, <1>6, <1>7, <1>8, <1>9, <1>11, <1>12 DEF a

\* A block goes on top of the stack of its class.
LEMMA FreePush ==
  ASSUME Typed, FreeApart, NEW c \in Class, NEW a \in Taken(c), a \notin Free,
         stacks' = [stacks EXCEPT ![c] = Push(@, a)], UNCHANGED <<cur, scan, temp>>
  PROVE  /\ stacks' \in [Class -> Seq(Address)]
         /\ Free' = Free \cup {a}
         /\ FreeApart'
<1>1. stacks[c] \in Seq(Address) /\ Once(stacks[c]) /\ a \in Address
  <2>1. stacks[c] \in Seq(Address)
    BY DEF Typed
  <2>2. Once(stacks[c])
    BY DEF FreeApart
  <2> QED
    BY <2>1, <2>2, TakenClass
<1>2. a \notin Elements(stacks[c]) /\ a \notin Elements(temp)
  BY FreeMembers
<1>3. /\ Push(stacks[c], a) \in Seq(Address) /\ Once(Push(stacks[c], a))
      /\ Elements(Push(stacks[c], a)) = Elements(stacks[c]) \cup {a}
  BY <1>1, <1>2, PushElements
<1>4. /\ stacks'[c] = Push(stacks[c], a)
      /\ \A d \in Class : d # c => stacks'[d] = stacks[d]
      /\ stacks' \in [Class -> Seq(Address)]
  BY <1>3 DEF Typed
<1>5. /\ Elements(stacks'[c]) = Elements(stacks[c]) \cup {a}
      /\ \A d \in Class : d # c => Elements(stacks'[d]) = Elements(stacks[d])
  BY <1>3, <1>4
<1>6. \A d \in Class : Taken(d)' = Taken(d)
  BY DEF Taken
<1>7. Free' = Free \cup {a}
  BY <1>5, FreeMembers
<1>8. FreeApart'
  <2>1. \A d \in Class : /\ Elements(stacks'[d]) \subseteq Taken(d)' /\ Once(stacks'[d])
                         /\ Elements(stacks'[d]) \cap Elements(temp') = {}
    BY <1>2, <1>3, <1>4, <1>5, <1>6 DEF FreeApart
  <2>2. Elements(temp') \subseteq Taken(scan)' /\ Once(temp')
    BY <1>6 DEF FreeApart, Typed
  <2> QED
    BY <2>1, <2>2, FreeApartNext
<1> QED
  BY <1>4, <1>7, <1>8
\* low_memory takes the top of a stack aside.
LEMMA FreeAside ==
  ASSUME Typed, FreeApart, stacks[scan] # <<>>, temp' = Push(temp, Head(stacks[scan])),
         stacks' = [stacks EXCEPT ![scan] = Tail(@)], UNCHANGED <<cur, scan>>
  PROVE  /\ stacks' \in [Class -> Seq(Address)] /\ temp' \in Seq(Address)
         /\ Free' = Free /\ FreeApart'
<1> DEFINE a == Head(stacks[scan])
<1>1. stacks[scan] \in Seq(Address) /\ Once(stacks[scan]) /\ scan \in Class /\ temp \in Seq(Address)
  BY DEF Typed, FreeApart
<1>2. /\ a \in Elements(stacks[scan]) /\ a \in Address
      /\ Tail(stacks[scan]) \in Seq(Address) /\ Once(Tail(stacks[scan]))
      /\ Elements(Tail(stacks[scan])) = Elements(stacks[scan]) \ {a}
  BY <1>1, PopElements
<1>3. a \in Taken(scan) /\ a \notin Elements(temp)
  BY <1>1, <1>2 DEF FreeApart
<1> HIDE DEF a
<1>4. temp' \in Seq(Address) /\ Elements(temp') = Elements(temp) \cup {a} /\ Once(temp')
  <2>1. Once(temp)
    BY DEF FreeApart
  <2>2. /\ Push(temp, a) \in Seq(Address) /\ Elements(Push(temp, a)) = Elements(temp) \cup {a}
        /\ Once(Push(temp, a))
    BY <1>1, <1>2, <1>3, <2>1, PushElements
  <2>3. temp' = Push(temp, a)
    BY DEF a
  <2> QED
    BY <2>2, <2>3
<1>5. /\ stacks'[scan] = Tail(stacks[scan])
      /\ \A d \in Class : d # scan => stacks'[d] = stacks[d]
      /\ stacks' \in [Class -> Seq(Address)]
  BY <1>2 DEF Typed
<1>6. /\ Elements(stacks'[scan]) = Elements(stacks[scan]) \ {a}
      /\ \A d \in Class : d # scan => Elements(stacks'[d]) = Elements(stacks[d])
  BY <1>2, <1>5
<1>7. \A d \in Class : Taken(d)' = Taken(d)
  BY DEF Taken
<1>8. \A d \in Class : d # scan => a \notin Elements(stacks[d])
  BY <1>1, <1>3, TakenClass DEF FreeApart
<1>9. \A x : x \in Free' <=> x \in Free
  BY <1>1, <1>2, <1>4, <1>6, FreeMembers
<1>10. FreeApart'
  <2>1. \A d \in Class : /\ Elements(stacks'[d]) \subseteq Taken(d)' /\ Once(stacks'[d])
                         /\ Elements(stacks'[d]) \cap Elements(temp') = {}
    BY <1>2, <1>4, <1>5, <1>6, <1>7, <1>8 DEF FreeApart
  <2>2. Elements(temp') \subseteq Taken(scan)'
    BY <1>1, <1>3, <1>4, <1>7 DEF FreeApart
  <2> QED
    BY <1>4, <2>1, <2>2, FreeApartNext
<1> QED
  BY <1>4, <1>5, <1>9, <1>10

\* And puts it back.
LEMMA FreeBack ==
  ASSUME Typed, FreeApart, temp # <<>>, temp' = Tail(temp),
         stacks' = [stacks EXCEPT ![scan] = Push(@, Head(temp))], UNCHANGED <<cur, scan>>
  PROVE  /\ stacks' \in [Class -> Seq(Address)] /\ temp' \in Seq(Address)
         /\ Free' = Free /\ FreeApart'
<1> DEFINE a == Head(temp)
<1>1. /\ stacks[scan] \in Seq(Address) /\ Once(stacks[scan]) /\ scan \in Class
      /\ temp \in Seq(Address) /\ Once(temp)
  BY DEF Typed, FreeApart
<1>2. /\ a \in Elements(temp) /\ a \in Address
      /\ Tail(temp) \in Seq(Address) /\ Once(Tail(temp))
      /\ Elements(Tail(temp)) = Elements(temp) \ {a}
  BY <1>1, PopElements
<1>3. a \in Taken(scan) /\ a \notin Elements(stacks[scan])
  BY <1>1, <1>2 DEF FreeApart
<1> HIDE DEF a
<1>4. /\ Push(stacks[scan], a) \in Seq(Address) /\ Once(Push(stacks[scan], a))
      /\ Elements(Push(stacks[scan], a)) = Elements(stacks[scan]) \cup {a}
  <2> DEFINE s == stacks[scan]
  <2>1. s \in Seq(Address) /\ a \in Address /\ a \notin Elements(s) /\ Once(s)
    BY <1>1, <1>2, <1>3
  <2> HIDE DEF s
  <2>2. Push(s, a) \in Seq(Address) /\ Elements(Push(s, a)) = Elements(s) \cup {a} /\ Once(Push(s, a))
    BY <2>1, PushElements
  <2> QED
    BY <2>2 DEF s
<1>5. /\ stacks'[scan] = Push(stacks[scan], a)
      /\ \A d \in Class : d # scan => stacks'[d] = stacks[d]
      /\ stacks' \in [Class -> Seq(Address)]
  BY <1>4 DEF Typed, a
<1>6. /\ Elements(stacks'[scan]) = Elements(stacks[scan]) \cup {a}
      /\ \A d \in Class : d # scan => Elements(stacks'[d]) = Elements(stacks[d])
      /\ Elements(temp') = Elements(temp) \ {a}
  BY <1>2, <1>4, <1>5
<1>7. \A d \in Class : Taken(d)' = Taken(d)
  BY DEF Taken
<1>9. \A x : x \in Free' <=> x \in Free
  BY <1>1, <1>2, <1>6, FreeMembers
<1>10. FreeApart'
  <2>1. \A d \in Class : /\ Elements(stacks'[d]) \subseteq Taken(d)' /\ Once(stacks'[d])
                         /\ Elements(stacks'[d]) \cap Elements(temp') = {}
    BY <1>3, <1>4, <1>5, <1>6, <1>7 DEF FreeApart
  <2>2. Elements(temp') \subseteq Taken(scan)' /\ Once(temp')
    BY <1>1, <1>2, <1>6, <1>7 DEF FreeApart
  <2> QED
    BY <2>1, <2>2, FreeApartNext
<1> QED
  BY <1>2, <1>5, <1>9, <1>10

-----------------------------------------------------------------------------
(* what a step does to the blocks that are not free *)

\* A thread takes a block to copy from out of the callers' hands.
LEMMA HeldTaken ==
  ASSUME Typed, FromApart, NEW t \in Thread, from[t] = None, NEW a \in live \cup {None},
         from' = [from EXCEPT ![t] = a], live' = live \ {a}
  PROVE  Held' = Held /\ FromApart' /\ live' \subseteq Address /\ from' \in [Thread -> Address \cup {None}]
<1>1. /\ from'[t] = a /\ \A u \in Thread : u # t => from'[u] = from[u]
      /\ live' \subseteq Address /\ from' \in [Thread -> Address \cup {None}]
  BY DEF Typed
<1>2. None \notin Address
  BY DEF Address
<1>3. \A x : x \in Held' <=> x \in Held
  BY <1>1, <1>2 DEF Held, Typed
<1>4. FromApart'
  BY <1>1 DEF FromApart
<1> QED
  BY <1>1, <1>3, <1>4

\* A thread has got a block that no other has.
LEMMA GettingMore ==
  ASSUME Typed, FreshApart, NEW t \in Thread, fresh[t] = None, NEW a \in Address, a \notin Getting,
         fresh' = [fresh EXCEPT ![t] = a]
  PROVE  Getting' = Getting \cup {a} /\ FreshApart' /\ fresh' \in [Thread -> Address \cup {None}]
<1>1. /\ fresh'[t] = a /\ \A u \in Thread : u # t => fresh'[u] = fresh[u]
      /\ fresh' \in [Thread -> Address \cup {None}]
  BY DEF Typed
<1>2. a # None
  BY DEF Address
<1>3. \A x : x \in Getting' <=> x \in Getting \/ x = a
  BY <1>1, <1>2 DEF Getting
<1>4. FreshApart'
  BY <1>1, <1>2 DEF FreshApart, Getting
<1> QED
  BY <1>1, <1>3, <1>4

\* And hands it out.
LEMMA GettingLess ==
  ASSUME Typed, FreshApart, NEW t \in Thread, fresh[t] # None, fresh' = [fresh EXCEPT ![t] = None]
  PROVE  Getting' = Getting \ {fresh[t]} /\ FreshApart' /\ fresh' \in [Thread -> Address \cup {None}]
<1>1. /\ fresh'[t] = None /\ \A u \in Thread : u # t => fresh'[u] = fresh[u]
      /\ fresh' \in [Thread -> Address \cup {None}]
  BY DEF Typed
<1>2. \A x : x \in Getting' <=> x \in Getting /\ x # fresh[t]
  BY <1>1 DEF Getting, FreshApart
<1>3. FreshApart'
  BY <1>1 DEF FreshApart
<1>4. Getting' = Getting \ {fresh[t]}
  BY <1>2
<1> QED
  BY <1>1, <1>3, <1>4

\* The block goes to the callers, and with it the one it was cloned from.
LEMMA HeldMore ==
  ASSUME Typed, FromApart, NEW t \in Thread, fresh[t] \in Address, fresh[t] \notin Held,
         \/ live' = live \cup {fresh[t]} /\ from' = from
         \/ /\ live' = live \cup {fresh[t]} \cup ({from[t]} \ {None})
            /\ from' = [from EXCEPT ![t] = None]
  PROVE  /\ Held' = Held \cup {fresh[t]} /\ FromApart'
         /\ live' \subseteq Address /\ from' \in [Thread -> Address \cup {None}]
<1>1. None \notin Address /\ live \subseteq Address /\ from \in [Thread -> Address \cup {None}]
  <2>1. None \notin Address
    BY DEF Address
  <2> QED
    BY <2>1 DEF Typed
<1>2. \A u \in Thread : from[u] # fresh[t]
  BY <1>1 DEF Held
<1>3. CASE live' = live \cup {fresh[t]} /\ from' = from
  <2>1. Held' = Held \cup {fresh[t]}
    BY <1>3 DEF Held
  <2>2. FromApart'
    BY <1>2, <1>3 DEF FromApart
  <2> QED
    BY <1>1, <1>3, <2>1, <2>2
<1>4. CASE /\ live' = live \cup {fresh[t]} \cup ({from[t]} \ {None})
           /\ from' = [from EXCEPT ![t] = None]
  <2>1. /\ from'[t] = None /\ \A u \in Thread : u # t => from'[u] = from[u]
        /\ from' \in [Thread -> Address \cup {None}] /\ live' \subseteq Address
    BY <1>1, <1>4
  <2>2. \A x : x \in Held' <=> x \in Held \/ x = fresh[t]
    BY <1>1, <1>4, <2>1 DEF Held
  <2>3. FromApart'
    <3>1. ASSUME NEW u \in Thread, NEW v \in Thread, u # v, from'[u] = from'[v]
          PROVE  from'[u] = None
      BY <2>1, <3>1 DEF FromApart
    <3>2. ASSUME NEW u \in Thread PROVE from'[u] \notin live'
      <4>1. CASE u = t
        BY <1>1, <1>4, <2>1, <4>1
      <4>2. CASE u # t
        BY <1>1, <1>2, <1>4, <2>1, <4>2 DEF FromApart
      <4> QED
        BY <4>1, <4>2
    <3> QED
      BY <3>1, <3>2 DEF FromApart
  <2>4. /\ live' \subseteq Address /\ Held' = Held \cup {fresh[t]}
        /\ from' \in [Thread -> Address \cup {None}]
    BY <1>1, <1>4, <2>1, <2>2
  <2> QED
    BY <2>3, <2>4
<1> QED
  BY <1>3, <1>4

\* A block is given up by the thread that copied from it, or by a caller.
LEMMA HeldLess ==
  ASSUME Typed, FromApart, NEW a \in Address,
         \/ \E t \in Thread : a = from[t] /\ from' = [from EXCEPT ![t] = None] /\ live' = live
         \/ a \in live /\ live' = live \ {a} /\ from' = from
  PROVE  /\ a \in Held /\ Held' = Held \ {a} /\ FromApart'
         /\ live' \subseteq Address /\ from' \in [Thread -> Address \cup {None}]
<1>1. /\ None \notin Address /\ live \subseteq Address /\ from \in [Thread -> Address \cup {None}]
      /\ a # None
  <2>1. None \notin Address /\ a # None
    BY DEF Address
  <2> QED
    BY <2>1 DEF Typed
<1>2. ASSUME NEW t \in Thread, a = from[t], from' = [from EXCEPT ![t] = None], live' = live
      PROVE  /\ a \in Held /\ Held' = Held \ {a} /\ FromApart'
             /\ from' \in [Thread -> Address \cup {None}]
  <2>1. /\ from'[t] = None /\ \A u \in Thread : u # t => from'[u] = from[u]
        /\ from' \in [Thread -> Address \cup {None}]
    BY <1>1, <1>2
  <2>2. \A u \in Thread : u # t => from[u] # a
    BY <1>1, <1>2 DEF FromApart
  <2>3. a \notin live
    BY <1>2 DEF FromApart
  <2>4. \A x : x \in Held' <=> x \in Held /\ x # a
    BY <1>2, <2>1, <2>2, <2>3 DEF Held
  <2>5. FromApart'
    BY <1>1, <1>2, <2>1 DEF FromApart
  <2> QED
    BY <1>1, <1>2, <2>1, <2>4, <2>5 DEF Held
<1>3. ASSUME a \in live, live' = live \ {a}, from' = from
      PROVE  a \in Held /\ Held' = Held \ {a} /\ FromApart'
  <2>1. \A u \in Thread : from[u] # a
    BY <1>3 DEF FromApart
  <2>2. \A x : x \in Held' <=> x \in Held /\ x # a
    BY <1>3, <2>1 DEF Held
  <2>3. FromApart'
    BY <1>3 DEF FromApart
  <2> QED
    BY <1>3, <2>2, <2>3 DEF Held
<1> QED
  BY <1>1, <1>2, <1>3

\* A block that callers give up belongs to a class, and FreeTo puts it there.
LEMMA GivenBack ==
  ASSUME IInv, NEW a \in Held, FreeTo(a), UNCHANGED <<cur, scan, temp>>,
         Held' = Held \ {a}, Getting' = Getting
  PROVE  /\ stacks' \in [Class -> Seq(Address)] /\ asked' \in [Address -> Nat]
         /\ FreeApart' /\ Partition'
<1>1. PICK c \in Class : a \in Taken(c)
  BY DEF IInv, Partition, AllTaken
<1>2. a \in Address /\ SizeClass(AllocSize(a)) = c
  BY <1>1, TakenClass DEF IInv
<1>3. stacks' = [stacks EXCEPT ![c] = Push(@, a)] /\ asked' \in [Address -> Nat]
  BY <1>2 DEF FreeTo, IInv, Typed
<1>4. a \notin Free
  BY DEF IInv, Partition
<1>5. stacks' \in [Class -> Seq(Address)] /\ Free' = Free \cup {a} /\ FreeApart'
  BY <1>1, <1>3, <1>4, FreePush DEF IInv
<1>6. AllTaken' = AllTaken
  BY DEF AllTaken, Taken
<1>7. Partition'
  BY <1>5, <1>6 DEF IInv, Partition
<1> QED
  BY <1>3, <1>5, <1>7

\* What does not move stays where it was.
LEMMA SameTaken ==
  ASSUME UNCHANGED cur
  PROVE  AllTaken' = AllTaken /\ \A c \in Class : Taken(c)' = Taken(c)
BY DEF AllTaken, Taken
LEMMA SameFree ==
  ASSUME UNCHANGED <<cur, stacks, temp, scan>>, FreeApart
  PROVE  Free' = Free /\ FreeApart'
<1>1. \A c \in Class : Taken(c)' = Taken(c)
  BY DEF Taken
<1>2. FreeApart'
  <2>1. \A c \in Class : /\ Elements(stacks'[c]) \subseteq Taken(c)' /\ Once(stacks'[c])
                         /\ Elements(stacks'[c]) \cap Elements(temp') = {}
    BY <1>1 DEF FreeApart
  <2>2. Elements(temp') \subseteq Taken(scan)' /\ Once(temp')
    BY DEF FreeApart, Taken
  <2> QED
    BY <2>1, <2>2, FreeApartNext
<1>3. Free' = Free
  BY DEF Free, Elements
<1> QED
  BY <1>2, <1>3
LEMMA SameHeld ==
  ASSUME UNCHANGED <<live, from>>, FromApart
  PROVE  Held' = Held /\ FromApart'
BY DEF Held, FromApart
LEMMA SameGetting ==
  ASSUME UNCHANGED fresh, FreshApart
  PROVE  Getting' = Getting /\ FreshApart'
BY DEF Getting, FreshApart

-----------------------------------------------------------------------------
(* one step for each action *)

LEMMA BeginStep ==
  ASSUME IInv, ~panicked, NEW t \in Thread, NEW s \in Nat, NEW source \in live \cup {None},
         NEW drop \in BOOLEAN, drop => source # None, Begin(t, s, source, drop)
  PROVE  IInv'
<1>1. from[t] = None /\ fresh[t] = None /\ pc[t] = "idle"
  BY DEF Begin, IInv, Placed
<1>2. /\ Held' = Held /\ FromApart' /\ live' \subseteq Address
      /\ from' \in [Thread -> Address \cup {None}] /\ from'[t] = source
  BY <1>1, HeldTaken DEF Begin, IInv, Typed
<1>3. /\ want' \in [Thread -> Nat] /\ drops' \in [Thread -> BOOLEAN]
      /\ want'[t] = s /\ drops'[t] = drop
      /\ \A u \in Thread : u # t => want'[u] = want[u] /\ drops'[u] = drops[u] /\ from'[u] = from[u]
  BY DEF Begin, IInv, Typed
<1>4. UNCHANGED <<cur, asked, lpc, scan, temp>>
  BY DEF Begin, lowVars
<1>5. AllTaken' = AllTaken
  BY <1>4, SameTaken
<1>6. CASE TooLarge(s)
  <2>1. UNCHANGED <<stacks, pc, fresh>> /\ panicked' = TRUE
    BY <1>6 DEF Begin
  <2>2. Free' = Free /\ FreeApart' /\ Getting' = Getting /\ FreshApart'
    BY <1>4, <2>1, SameFree, SameGetting DEF IInv
  <2>3. Partition'
    BY <1>2, <1>5, <2>2 DEF IInv, Partition
  <2>4. Typed'
    BY <1>2, <1>3, <1>4, <2>1 DEF IInv, Typed
  <2>5. Placed'
    BY <1>1, <1>3, <1>4, <2>1 DEF IInv, Placed
  <2> QED
    BY <1>2, <2>2, <2>3, <2>4, <2>5 DEF IInv
<1>7. CASE ~TooLarge(s) /\ stacks[SizeClass(s)] = <<>>
  <2>1. /\ UNCHANGED <<stacks, fresh, panicked>> /\ pc' = [pc EXCEPT ![t] = "grow"]
    BY <1>7 DEF Begin, Goto
  <2>2. Free' = Free /\ FreeApart' /\ Getting' = Getting /\ FreshApart'
    BY <1>4, <2>1, SameFree, SameGetting DEF IInv
  <2>3. Partition'
    BY <1>2, <1>5, <2>2 DEF IInv, Partition
  <2>4. /\ pc' \in [Thread -> {"idle", "grow", "got", "drop"}] /\ pc'[t] = "grow"
        /\ \A u \in Thread : u # t => pc'[u] = pc[u]
    BY <2>1 DEF IInv, Typed
  <2>5. Typed'
    BY <1>2, <1>3, <1>4, <2>1, <2>4 DEF IInv, Typed
  <2>6. Placed'
    <3>1. ASSUME NEW u \in Thread
          PROVE  /\ pc'[u] = "got" <=> fresh'[u] # None
                 /\ (drops'[u] /\ pc'[u] # "idle") \/ pc'[u] = "drop" => from'[u] # None
                 /\ ~panicked' /\ pc'[u] = "idle" => from'[u] = None
                 /\ pc'[u] = "grow" => ~TooLarge(want'[u])
      <4>1. CASE u = t
        BY <1>1, <1>2, <1>3, <1>7, <2>1, <2>4, <4>1
      <4>2. CASE u # t
        BY <1>3, <2>1, <2>4, <4>2 DEF IInv, Placed
      <4> QED
        BY <4>1, <4>2
    <3>2. lpc' = "idle" => temp' = <<>>
      BY <1>4 DEF IInv, Placed
    <3> QED
      BY <3>1, <3>2 DEF Placed, TooLarge
  <2> QED
    BY <1>2, <2>2, <2>3, <2>5, <2>6 DEF IInv
<1>8. CASE ~TooLarge(s) /\ stacks[SizeClass(s)] # <<>>
  <2> DEFINE c == SizeClass(s)
             a == Head(stacks[c])
  <2>1. /\ fresh' = [fresh EXCEPT ![t] = a] /\ stacks' = [stacks EXCEPT ![c] = Tail(@)]
        /\ pc' = [pc EXCEPT ![t] = "got"] /\ UNCHANGED panicked
    BY <1>8 DEF Begin, Goto
  <2>2. c \in Class
    BY <1>8, SizeClassType
  <2>3. /\ stacks' \in [Class -> Seq(Address)] /\ a \in Address /\ a \in Free
        /\ Free' = Free \ {a} /\ FreeApart'
    BY <1>4, <1>8, <2>1, <2>2, FreePop DEF IInv
  <2> HIDE DEF a
  <2>4. a \notin Getting
    BY <2>3 DEF IInv, Partition
  <2>5. Getting' = Getting \cup {a} /\ FreshApart' /\ fresh' \in [Thread -> Address \cup {None}]
    BY <1>1, <2>1, <2>3, <2>4, GettingMore DEF IInv
  <2>6. Partition'
    BY <1>2, <1>5, <2>3, <2>5 DEF IInv, Partition
  <2>7. /\ pc' \in [Thread -> {"idle", "grow", "got", "drop"}] /\ pc'[t] = "got"
        /\ \A u \in Thread : u # t => pc'[u] = pc[u] /\ fresh'[u] = fresh[u]
        /\ fresh'[t] = a /\ a # None
    <3>1. a # None
      BY <2>3 DEF Address
    <3> QED
      BY <2>1, <3>1 DEF IInv, Typed
  <2>8. Typed'
    BY <1>2, <1>3, <1>4, <2>1, <2>3, <2>5, <2>7 DEF IInv, Typed
  <2>9. Placed'
    <3>1. ASSUME NEW u \in Thread
          PROVE  /\ pc'[u] = "got" <=> fresh'[u] # None
                 /\ (drops'[u] /\ pc'[u] # "idle") \/ pc'[u] = "drop" => from'[u] # None
                 /\ ~panicked' /\ pc'[u] = "idle" => from'[u] = None
                 /\ pc'[u] = "grow" => ~TooLarge(want'[u])
      <4>1. CASE u = t
        BY <1>2, <1>3, <2>7, <4>1
      <4>2. CASE u # t
        BY <1>3, <2>1, <2>7, <4>2 DEF IInv, Placed
      <4> QED
        BY <4>1, <4>2
    <3>2. lpc' = "idle" => temp' = <<>>
      BY <1>4 DEF IInv, Placed
    <3> QED
      BY <3>1, <3>2 DEF Placed, TooLarge
  <2> QED
    BY <1>2, <2>3, <2>5, <2>6, <2>8, <2>9 DEF IInv
<1> QED
  BY <1>6, <1>7, <1>8

LEMMA GrowStep ==
  ASSUME IInv, ~panicked, NEW t \in Thread, Grow(t)
  PROVE  IInv'
<1> DEFINE c == SizeClass(want[t])
           b == Block(c, cur[c])
<1>1. pc[t] = "grow" /\ fresh[t] = None /\ want[t] \in Nat /\ ~TooLarge(want[t])
  BY DEF Grow, IInv, Placed, Typed
<1>2. c \in Class
  BY <1>1, SizeClassType
<1>3. /\ cur' = [cur EXCEPT ![c] = @ + 1] /\ cur' \in [Class -> Nat]
      /\ UNCHANGED <<stacks, live, asked, want, from, drops, lpc, scan, temp>>
  <2>1. /\ cur' = [cur EXCEPT ![c] = @ + 1]
        /\ UNCHANGED <<stacks, live, asked, want, from, drops, lpc, scan, temp>>
    BY DEF Grow, lowVars
  <2>2. cur \in [Class -> Nat]
    BY DEF IInv, Typed
  <2> HIDE DEF c
  <2> QED
    BY <1>2, <2>1, <2>2
<1>4. /\ cur[c] * RoundSize[c] < Bin => b \in Address \ AllTaken /\ AllTaken' = AllTaken \cup {b}
      /\ ~(cur[c] * RoundSize[c] < Bin) => AllTaken' = AllTaken
      /\ \A d \in Class : Taken(d) \subseteq Taken(d)'
  BY <1>2, <1>3, TakenGrows DEF IInv
<1>5. Held' = Held /\ FromApart'
  BY <1>3, SameHeld DEF IInv
<1>6. Free' = Free
  BY <1>3 DEF Free, Elements
<1>7. FreeApart'
  <2>1. \A d \in Class : /\ Elements(stacks'[d]) \subseteq Taken(d)' /\ Once(stacks'[d])
                         /\ Elements(stacks'[d]) \cap Elements(temp') = {}
    BY <1>3, <1>4 DEF IInv, FreeApart
  <2>2. Elements(temp') \subseteq Taken(scan)' /\ Once(temp')
    <3>1. scan \in Class /\ scan' = scan /\ temp' = temp
      BY <1>3 DEF IInv, Typed
    <3> QED
      BY <1>4, <3>1 DEF IInv, FreeApart
  <2> QED
    BY <2>1, <2>2, FreeApartNext
<1>8. CASE cur[c] * RoundSize[c] < Bin
  <2>1. /\ fresh' = [fresh EXCEPT ![t] = b] /\ pc' = [pc EXCEPT ![t] = "got"] /\ UNCHANGED panicked
    BY <1>8 DEF Grow, Goto
  <2> HIDE DEF b, c
  <2>2. b \in Address /\ b # None /\ b \notin AllTaken
    <3>1. b \in Address /\ b \notin AllTaken
      BY <1>4, <1>8
    <3> QED
      BY <3>1 DEF Address
  <2>3. Getting' = Getting \cup {b} /\ FreshApart' /\ fresh' \in [Thread -> Address \cup {None}]
    <3>1. b \notin Getting
      BY <2>2 DEF IInv, Partition
    <3> QED
      BY <1>1, <2>1, <2>2, <3>1, GettingMore DEF IInv
  <2>4. Partition'
    BY <1>4, <1>5, <1>6, <1>8, <2>2, <2>3 DEF IInv, Partition
  <2>5. /\ pc' \in [Thread -> {"idle", "grow", "got", "drop"}] /\ pc'[t] = "got" /\ fresh'[t] = b
        /\ \A u \in Thread : u # t => pc'[u] = pc[u] /\ fresh'[u] = fresh[u]
    BY <2>1 DEF IInv, Typed
  <2>6. Typed'
    BY <1>3, <2>1, <2>3, <2>5 DEF IInv, Typed
  <2>7. Placed'
    <3>1. ASSUME NEW u \in Thread
          PROVE  /\ pc'[u] = "got" <=> fresh'[u] # None
                 /\ (drops'[u] /\ pc'[u] # "idle") \/ pc'[u] = "drop" => from'[u] # None
                 /\ ~panicked' /\ pc'[u] = "idle" => from'[u] = None
                 /\ pc'[u] = "grow" => ~TooLarge(want'[u])
      <4>1. CASE u = t
        BY <1>1, <1>3, <2>2, <2>5, <4>1 DEF IInv, Placed
      <4>2. CASE u # t
        BY <1>3, <2>1, <2>5, <4>2 DEF IInv, Placed
      <4> QED
        BY <4>1, <4>2
    <3>2. lpc' = "idle" => temp' = <<>>
      BY <1>3 DEF IInv, Placed
    <3> QED
      BY <3>1, <3>2 DEF Placed, TooLarge
  <2> QED
    BY <1>5, <1>7, <2>3, <2>4, <2>6, <2>7 DEF IInv
<1>9. CASE ~(cur[c] * RoundSize[c] < Bin)
  <2>1. UNCHANGED <<fresh, pc>> /\ panicked' = TRUE
    BY <1>9 DEF Grow
  <2>2. Getting' = Getting /\ FreshApart'
    BY <2>1, SameGetting DEF IInv
  <2>3. Partition'
    BY <1>4, <1>5, <1>6, <1>9, <2>2 DEF IInv, Partition
  <2>4. Typed'
    BY <1>3, <2>1 DEF IInv, Typed
  <2>5. Placed'
    BY <1>3, <2>1 DEF IInv, Placed, TooLarge
  <2> QED
    BY <1>5, <1>7, <2>2, <2>3, <2>4, <2>5 DEF IInv
<1> QED
  BY <1>8, <1>9

LEMMA HandOutStep ==
  ASSUME IInv, ~panicked, NEW t \in Thread, HandOut(t)
  PROVE  IInv'
<1> DEFINE a == fresh[t]
<1>1. pc[t] = "got" /\ a # None /\ a \in Address /\ a \in Getting
  BY DEF HandOut, IInv, Placed, Typed, Getting
<1>2. /\ asked' \in [Address -> Nat] /\ fresh' = [fresh EXCEPT ![t] = None]
      /\ want' = [want EXCEPT ![t] = 0] /\ want' \in [Thread -> Nat]
      /\ UNCHANGED <<stacks, cur, drops, lpc, scan, temp, panicked>>
  BY <1>1 DEF HandOut, lowVars, IInv, Typed
<1>3. Getting' = Getting \ {a} /\ FreshApart' /\ fresh' \in [Thread -> Address \cup {None}]
  BY <1>1, <1>2, GettingLess DEF IInv
<1>4. AllTaken' = AllTaken /\ Free' = Free /\ FreeApart'
  BY <1>2, SameTaken, SameFree DEF IInv
<1>5. \/ /\ drops[t] /\ live' = live \cup {a} /\ from' = from /\ pc' = [pc EXCEPT ![t] = "drop"]
      \/ /\ ~drops[t] /\ live' = live \cup {a} \cup ({from[t]} \ {None})
         /\ from' = [from EXCEPT ![t] = None] /\ pc' = [pc EXCEPT ![t] = "idle"]
  BY DEF HandOut, Goto
<1>6. /\ Held' = Held \cup {a} /\ FromApart'
      /\ live' \subseteq Address /\ from' \in [Thread -> Address \cup {None}]
  <2>1. a \notin Held
    BY <1>1 DEF IInv, Partition
  <2> QED
    BY <1>1, <1>5, <2>1, HeldMore DEF IInv
<1>7. Partition'
  BY <1>1, <1>3, <1>4, <1>6 DEF IInv, Partition
<1>8. /\ pc' \in [Thread -> {"idle", "grow", "got", "drop"}]
      /\ fresh'[t] = None /\ want'[t] = 0
      /\ \/ drops[t] /\ pc'[t] = "drop" /\ from'[t] = from[t]
         \/ pc'[t] = "idle" /\ from'[t] = None
      /\ \A u \in Thread : u # t => /\ pc'[u] = pc[u] /\ from'[u] = from[u]
                                    /\ fresh'[u] = fresh[u] /\ want'[u] = want[u]
  BY <1>2, <1>5 DEF IInv, Typed
<1>9. Typed'
  BY <1>2, <1>3, <1>4, <1>6, <1>8 DEF IInv, Typed
<1>10. Placed'
  <2>1. ASSUME NEW u \in Thread
        PROVE  /\ pc'[u] = "got" <=> fresh'[u] # None
               /\ (drops'[u] /\ pc'[u] # "idle") \/ pc'[u] = "drop" => from'[u] # None
               /\ ~panicked' /\ pc'[u] = "idle" => from'[u] = None
               /\ pc'[u] = "grow" => ~TooLarge(want'[u])
    <3>1. CASE u = t
      BY <1>1, <1>2, <1>8, <3>1 DEF IInv, Placed
    <3>2. CASE u # t
      BY <1>2, <1>8, <3>2 DEF IInv, Placed
    <3> QED
      BY <3>1, <3>2
  <2>2. lpc' = "idle" => temp' = <<>>
    BY <1>2 DEF IInv, Placed
  <2> QED
    BY <2>1, <2>2 DEF Placed, TooLarge
<1> QED
  BY <1>3, <1>4, <1>6, <1>7, <1>9, <1>10 DEF IInv

LEMMA DropOldStep ==
  ASSUME IInv, ~panicked, NEW t \in Thread, DropOld(t)
  PROVE  IInv'
<1> DEFINE a == from[t]
<1>1. pc[t] = "drop" /\ a # None /\ a \in Address /\ fresh[t] = None
  BY DEF DropOld, IInv, Placed, Typed
<1>2. /\ FreeTo(a) /\ from' = [from EXCEPT ![t] = None]
      /\ drops' = [drops EXCEPT ![t] = FALSE] /\ drops' \in [Thread -> BOOLEAN]
      /\ pc' = [pc EXCEPT ![t] = "idle"]
      /\ UNCHANGED <<cur, live, want, fresh, lpc, scan, temp, panicked>>
  BY DEF DropOld, Goto, lowVars, IInv, Typed
<1>3. /\ a \in Held /\ Held' = Held \ {a} /\ FromApart'
      /\ live' \subseteq Address /\ from' \in [Thread -> Address \cup {None}]
  BY <1>1, <1>2, HeldLess DEF IInv
<1>4. Getting' = Getting /\ FreshApart'
  BY <1>2, SameGetting DEF IInv
<1>5. /\ stacks' \in [Class -> Seq(Address)] /\ asked' \in [Address -> Nat]
      /\ FreeApart' /\ Partition'
  BY <1>2, <1>3, <1>4, GivenBack
<1>6. /\ pc' \in [Thread -> {"idle", "grow", "got", "drop"}] /\ pc'[t] = "idle" /\ from'[t] = None
      /\ \A u \in Thread : u # t => pc'[u] = pc[u] /\ from'[u] = from[u] /\ drops'[u] = drops[u]
  BY <1>2 DEF IInv, Typed
<1>7. Typed'
  BY <1>2, <1>3, <1>5, <1>6 DEF IInv, Typed
<1>8. Placed'
  <2>1. ASSUME NEW u \in Thread
        PROVE  /\ pc'[u] = "got" <=> fresh'[u] # None
               /\ (drops'[u] /\ pc'[u] # "idle") \/ pc'[u] = "drop" => from'[u] # None
               /\ ~panicked' /\ pc'[u] = "idle" => from'[u] = None
               /\ pc'[u] = "grow" => ~TooLarge(want'[u])
    <3>1. CASE u = t
      BY <1>1, <1>2, <1>6, <3>1
    <3>2. CASE u # t
      BY <1>2, <1>6, <3>2 DEF IInv, Placed
    <3> QED
      BY <3>1, <3>2
  <2>2. lpc' = "idle" => temp' = <<>>
    BY <1>2 DEF IInv, Placed
  <2> QED
    BY <2>1, <2>2 DEF Placed, TooLarge
<1> QED
  BY <1>3, <1>4, <1>5, <1>7, <1>8 DEF IInv

LEMMA DeleteStep ==
  ASSUME IInv, ~panicked, Delete
  PROVE  IInv'
<1>1. PICK a \in live : FreeTo(a) /\ live' = live \ {a}
  BY DEF Delete
<1>2. UNCHANGED <<cur, pc, want, from, fresh, drops, lpc, scan, temp, panicked>>
  BY DEF Delete, allocVars, lowVars
<1>3. /\ a \in Held /\ Held' = Held \ {a} /\ FromApart'
      /\ live' \subseteq Address /\ from' \in [Thread -> Address \cup {None}]
  <2>1. a \in Address
    BY DEF IInv, Typed
  <2> QED
    BY <1>1, <1>2, <2>1, HeldLess DEF IInv
<1>4. Getting' = Getting /\ FreshApart'
  BY <1>2, SameGetting DEF IInv
<1>5. /\ stacks' \in [Class -> Seq(Address)] /\ asked' \in [Address -> Nat]
      /\ FreeApart' /\ Partition'
  BY <1>1, <1>2, <1>3, <1>4, GivenBack
<1>6. Typed'
  BY <1>2, <1>3, <1>5 DEF IInv, Typed
<1>7. Placed'
  BY <1>2 DEF IInv, Placed, TooLarge
<1> QED
  BY <1>3, <1>4, <1>5, <1>6, <1>7 DEF IInv

LEMMA ReAllocInPlaceStep ==
  ASSUME IInv, ReAllocInPlace
  PROVE  IInv'
<1>1. /\ asked' \in [Address -> Nat]
      /\ UNCHANGED <<stacks, cur, live, pc, want, from, fresh, drops, lpc, scan, temp, panicked>>
  BY SizeAssumption DEF ReAllocInPlace, allocVars, lowVars, IInv, Typed
<1>2. /\ AllTaken' = AllTaken /\ Free' = Free /\ FreeApart' /\ Held' = Held /\ FromApart'
      /\ Getting' = Getting /\ FreshApart'
  BY <1>1, SameTaken, SameFree, SameHeld, SameGetting DEF IInv
<1>3. Partition' /\ Typed' /\ Placed'
  BY <1>1, <1>2 DEF IInv, Partition, Typed, Placed, TooLarge
<1> QED
  BY <1>2, <1>3 DEF IInv

LEMMA LowStep ==
  ASSUME IInv, Low
  PROVE  IInv'
<1>1. UNCHANGED <<cur, live, asked, pc, want, from, fresh, drops, panicked>>
  BY DEF Low, LowMemory, TakeAside, PutBack, allocVars
<1>2. /\ AllTaken' = AllTaken /\ Held' = Held /\ FromApart' /\ Getting' = Getting /\ FreshApart'
  BY <1>1, SameTaken, SameHeld, SameGetting DEF IInv
<1>3. SUFFICES /\ stacks' \in [Class -> Seq(Address)] /\ temp' \in Seq(Address)
               /\ lpc' \in {"idle", "aside", "back"} /\ scan' \in Class
               /\ Free' = Free /\ FreeApart' /\ (lpc' = "idle" => temp' = <<>>)
  <2>1. ASSUME stacks' \in [Class -> Seq(Address)], temp' \in Seq(Address),
               lpc' \in {"idle", "aside", "back"}, scan' \in Class,
               Free' = Free, FreeApart', lpc' = "idle" => temp' = <<>>
        PROVE  IInv'
    <3>1. Typed'
      BY <1>1, <2>1 DEF IInv, Typed
    <3>2. Placed'
      BY <1>1, <2>1 DEF IInv, Placed, TooLarge
    <3>3. Partition'
      BY <1>2, <2>1 DEF IInv, Partition
    <3> QED
      BY <1>2, <2>1, <3>1, <3>2, <3>3 DEF IInv
  <2> QED
    BY <2>1
<1>4. 0 \in Class
  BY DEF Class
<1>5. ASSUME temp = <<>>, UNCHANGED <<stacks, temp>>
      PROVE  Free' = Free /\ FreeApart'
  <2>1. Elements(temp) = {} /\ Once(temp)
    BY <1>5 DEF Elements, Once
  <2>2. Free' = Free
    BY <1>5 DEF Free, Elements
  <2>3. \A c \in Class : Taken(c)' = Taken(c)
    BY <1>1, SameTaken
  <2>4. FreeApart'
    BY <1>5, <2>1, <2>3 DEF IInv, FreeApart, Elements, Once
  <2> QED
    BY <2>2, <2>4
<1>6. CASE LowMemory
  BY <1>4, <1>5, <1>6 DEF LowMemory, IInv, Placed, Typed
<1>7. CASE TakeAside
  <2>1. CASE stacks[scan] # <<>>
    BY <1>1, <1>7, <2>1, FreeAside DEF TakeAside, IInv, Typed
  <2>2. CASE stacks[scan] = <<>>
    <3>1. UNCHANGED <<stacks, temp, scan, cur>> /\ lpc' = "back"
      BY <1>1, <1>7, <2>2 DEF TakeAside
    <3> QED
      BY <3>1, SameFree DEF IInv, Typed
  <2> QED
    BY <2>1, <2>2
<1>8. CASE PutBack
  <2>1. CASE temp # <<>>
    BY <1>1, <1>8, <2>1, FreeBack DEF PutBack, IInv, Typed
  <2>2. CASE temp = <<>>
    <3>1. UNCHANGED <<stacks, temp>>
      BY <1>8, <2>2 DEF PutBack
    <3>2. lpc' \in {"idle", "aside", "back"} /\ scan' \in Class
      <4>1. scan \in Class
        BY DEF IInv, Typed
      <4>2. scan + 1 < NumClasses => scan + 1 \in Class
        BY <4>1 DEF Class
      <4> QED
        BY <1>8, <2>2, <4>1, <4>2 DEF PutBack
    <3> QED
      BY <1>5, <2>2, <3>1, <3>2 DEF IInv, Typed
  <2> QED
    BY <2>1, <2>2
<1> QED
  BY <1>6, <1>7, <1>8 DEF Low

LEMMA InitIInv == Init => IInv
<1> SUFFICES ASSUME Init PROVE IInv
  OBVIOUS
<1>1. 0 \in Class
  BY DEF Class
<1>2. Typed
  <2>1. <<>> \in Seq(Address)
    OBVIOUS
  <2>2. temp \in Seq(Address) /\ stacks \in [Class -> Seq(Address)]
    BY <2>1 DEF Init
  <2>3. cur \in [Class -> Nat] /\ asked \in [Address -> Nat] /\ want \in [Thread -> Nat]
    BY DEF Init
  <2> QED
    BY <1>1, <2>2, <2>3 DEF Init, Typed
<1>8. Placed
  BY DEF Init, Placed
<1>3. \A c \in Class : Elements(stacks[c]) = {} /\ Once(stacks[c]) /\ Taken(c) = {}
  BY DEF Init, Elements, Once, Taken
<1>4. Elements(temp) = {} /\ Once(temp)
  BY DEF Init, Elements, Once
<1>5. FreeApart /\ FromApart /\ FreshApart
  BY <1>3, <1>4 DEF Init, FreeApart, FromApart, FreshApart
<1>6. Held = {} /\ Getting = {} /\ Free = {} /\ AllTaken = {}
  BY <1>3, <1>4 DEF Init, Held, Getting, Free, AllTaken
<1>7. Partition
  BY <1>6 DEF Partition
<1> QED
  BY <1>2, <1>5, <1>7, <1>8 DEF IInv

LEMMA NextIInv == IInv /\ [Next]_vars => IInv'
<1> SUFFICES ASSUME IInv, [Next]_vars PROVE IInv'
  OBVIOUS
<1>1. CASE UNCHANGED vars
  <2>1. /\ UNCHANGED <<stacks, cur, live, asked, pc, want, from, fresh, drops, lpc, scan, temp, panicked>>
    BY <1>1 DEF vars, allocVars, lowVars
  <2>2. /\ AllTaken' = AllTaken /\ Free' = Free /\ FreeApart' /\ Held' = Held /\ FromApart'
        /\ Getting' = Getting /\ FreshApart'
    BY <2>1, SameTaken, SameFree, SameHeld, SameGetting DEF IInv
  <2>3. Partition' /\ Typed' /\ Placed'
    BY <2>1, <2>2 DEF IInv, Partition, Typed, Placed, TooLarge
  <2> QED
    BY <2>2, <2>3 DEF IInv
<1>2. CASE Next
  <2>1. ASSUME NEW t \in Thread, New(t), ~panicked PROVE IInv'
    BY <2>1, SizeAssumption, BeginStep DEF New
  <2>2. ASSUME NEW t \in Thread, CloneBytes(t), ~panicked PROVE IInv'
    <3>1. PICK a \in live : Begin(t, asked[a], a, FALSE)
      BY <2>2 DEF CloneBytes
    <3>2. asked[a] \in Nat
      BY DEF IInv, Typed
    <3> QED
      BY <2>2, <3>1, <3>2, BeginStep
  <2>3. ASSUME NEW t \in Thread, ReAlloc(t), ~panicked PROVE IInv'
    <3>1. PICK a \in live, s \in Size : Begin(t, s, a, TRUE)
      BY <2>3 DEF ReAlloc
    <3>2. a # None /\ s \in Nat
      BY SizeAssumption DEF IInv, Typed, Address
    <3> QED
      BY <2>3, <3>1, <3>2, BeginStep
  <2> QED
    BY <1>2, <2>1, <2>2, <2>3, GrowStep, HandOutStep, DropOldStep, DeleteStep,
       ReAllocInPlaceStep, LowStep DEF Next, Allocate
<1> QED
  BY <1>1, <1>2

\* EachBlockOnce, for any threads, size classes and sizes: whatever alloc,
\* re_alloc, dealloc and low_memory do at once, a block that was taken from its
\* bin is in exactly one place.
THEOREM BlocksConserved == Spec => []EachBlockOnce
<1>1. IInv => EachBlockOnce
  BY DEF IInv, FreeApart, FromApart, FreshApart, Partition, AllTaken, EachBlockOnce
<1> QED
  BY <1>1, InitIInv, NextIInv, PTL DEF Spec

-----------------------------------------------------------------------------
(* sizes: a block is as large as its holder asked, and what is copied fits  *)

\* The holder of a block asked for no more than it has; a clone is as large as the
\* block it is made from, and a block that replaces another is larger; the block a
\* thread has got is large enough.
HeldFits == \A a \in Held : asked[a] <= AllocSize(a)
CopyFits ==
  \A t \in Thread : pc[t] \in {"grow", "got"} /\ from[t] # None =>
    IF drops[t] THEN AllocSize(from[t]) < want[t] ELSE want[t] = asked[from[t]]
FreshFits == \A t \in Thread : pc[t] = "got" => want[t] <= AllocSize(fresh[t])
Sized == HeldFits /\ CopyFits /\ FreshFits

\* A block that was taken is as large as the blocks of its class.
LEMMA TakenSize ==
  ASSUME Typed, NEW c \in Class, NEW a \in Taken(c)
  PROVE  AllocSize(a) = RoundSize[c]
<1>1. PICK i \in Nat : i * RoundSize[c] < Bin /\ a = Block(c, i)
  BY DEF Taken, Typed
<1> QED
  BY <1>1, InBin

LEMMA HeldSize ==
  ASSUME IInv, NEW a \in Held
  PROVE  /\ \E c \in Class : AllocSize(a) = RoundSize[c]
         /\ a \in Address /\ asked[a] \in Nat
<1>1. PICK c \in Class : a \in Taken(c)
  BY DEF IInv, Partition, AllTaken
<1>2. Typed /\ asked \in [Address -> Nat]
  BY DEF IInv, Typed
<1>3. a \in Address
  BY <1>1, <1>2, TakenClass
<1>4. AllocSize(a) = RoundSize[c]
  BY <1>1, <1>2, TakenSize
<1> QED
  BY <1>2, <1>3, <1>4

\* A thread begins, for a block whose size or a larger one it asks for.
LEMMA BeginSized ==
  ASSUME IInv, Sized, ~panicked, NEW t \in Thread, NEW s \in Nat, NEW source \in live \cup {None},
         NEW drop \in BOOLEAN, Begin(t, s, source, drop),
         source # None => IF drop THEN AllocSize(source) < s ELSE s = asked[source]
  PROVE  Sized'
<1>1. pc[t] = "idle" /\ from[t] = None
  BY DEF Begin, IInv, Placed
<1>2. Held' = Held /\ asked' = asked
  BY <1>1, HeldTaken DEF Begin, IInv
<1>3. /\ want'[t] = s /\ drops'[t] = drop /\ from'[t] = source
      /\ \A u \in Thread : u # t => want'[u] = want[u] /\ drops'[u] = drops[u] /\ from'[u] = from[u]
  BY DEF Begin, IInv, Typed
<1>4. \A u \in Thread : u # t => pc'[u] = pc[u] /\ fresh'[u] = fresh[u]
  BY DEF Begin, Goto, IInv, Typed
<1>5. HeldFits'
  BY <1>2 DEF Sized, HeldFits, AllocSize
<1>6. CopyFits'
  <2>1. ASSUME NEW u \in Thread, pc'[u] \in {"grow", "got"}, from'[u] # None
        PROVE  IF drops'[u] THEN AllocSize(from'[u]) < want'[u] ELSE want'[u] = asked'[from'[u]]
    <3>1. CASE u = t
      BY <1>2, <1>3, <2>1, <3>1
    <3>2. CASE u # t
      BY <1>2, <1>3, <1>4, <2>1, <3>2 DEF Sized, CopyFits
    <3> QED
      BY <3>1, <3>2
  <2> QED
    BY <2>1 DEF CopyFits, AllocSize
<1>7. pc'[t] = "got" => s <= AllocSize(fresh'[t])
  <2> SUFFICES ASSUME pc'[t] = "got" PROVE s <= AllocSize(fresh'[t])
    OBVIOUS
  <2> DEFINE c == SizeClass(s)
  <2>1. ~TooLarge(s) /\ stacks[c] # <<>> /\ fresh'[t] = Head(stacks[c])
    BY <1>1 DEF Begin, Goto, IInv, Typed
  <2>2. c \in Class /\ s <= RoundSize[c]
    BY <2>1, SizeClassType
  <2>3. Head(stacks[c]) \in Taken(c)
    <3>1. stacks[c] \in Seq(Address) /\ Once(stacks[c]) /\ Elements(stacks[c]) \subseteq Taken(c)
      BY <2>2 DEF IInv, Typed, FreeApart
    <3> QED
      BY <2>1, <3>1, PopElements
  <2> QED
    BY <2>1, <2>2, <2>3, TakenSize DEF IInv
<1>8. FreshFits'
  BY <1>3, <1>4, <1>7 DEF Sized, FreshFits, AllocSize
<1> QED
  BY <1>5, <1>6, <1>8 DEF Sized

LEMMA GrowSized ==
  ASSUME IInv, Sized, NEW t \in Thread, Grow(t)
  PROVE  Sized'
<1> DEFINE c == SizeClass(want[t])
<1>1. UNCHANGED <<live, from, asked, want, drops>> /\ pc[t] = "grow"
  BY DEF Grow
<1>2. \/ UNCHANGED <<pc, fresh>>
      \/ /\ pc' = [pc EXCEPT ![t] = "got"] /\ cur[c] * RoundSize[c] < Bin
         /\ fresh' = [fresh EXCEPT ![t] = Block(c, cur[c])]
  BY DEF Grow, Goto
<1>3. \A u \in Thread : pc'[u] \in {"grow", "got"} => pc[u] \in {"grow", "got"}
  BY <1>1, <1>2 DEF IInv, Typed
<1>4. HeldFits' /\ CopyFits'
  BY <1>1, <1>3 DEF Sized, HeldFits, CopyFits, AllocSize, Held
<1>5. pc'[t] = "got" => want[t] <= AllocSize(fresh'[t])
  <2>1. want[t] \in Nat /\ ~TooLarge(want[t])
    BY <1>1 DEF IInv, Typed, Placed
  <2>2. c \in Class /\ want[t] <= RoundSize[c]
    BY <2>1, SizeClassType
  <2>3. cur[c] \in Nat
    BY <2>2 DEF IInv, Typed
  <2> HIDE DEF c
  <2>4. cur[c] * RoundSize[c] < Bin => AllocSize(Block(c, cur[c])) = RoundSize[c]
    BY <2>2, <2>3, InBin
  <2>5. pc[t] # "got" /\ (\A b : fresh' = [fresh EXCEPT ![t] = b] => fresh'[t] = b)
    BY <1>1 DEF IInv, Typed
  <2> QED
    BY <1>2, <2>2, <2>4, <2>5
<1>6. FreshFits'
  <2>1. \A u \in Thread : u # t => pc'[u] = pc[u] /\ fresh'[u] = fresh[u]
    BY <1>2 DEF IInv, Typed
  <2> QED
    BY <1>1, <1>5, <2>1 DEF Sized, FreshFits, AllocSize
<1> QED
  BY <1>4, <1>6 DEF Sized

\* What a thread copies from is no block that another step changes.
LEMMA HandOutSized ==
  ASSUME IInv, Sized, NEW t \in Thread, HandOut(t)
  PROVE  Sized'
<1> DEFINE a == fresh[t]
<1>1. pc[t] = "got" /\ a \in Address /\ a \in Getting /\ a \notin Held
  BY DEF HandOut, IInv, Placed, Typed, Getting, Partition
<1>2. asked' = [asked EXCEPT ![a] = want[t]] /\ want[t] <= AllocSize(a)
  BY <1>1 DEF HandOut, Sized, FreshFits
<1>3. Held' = Held \cup {a}
  BY <1>1, HeldMore DEF HandOut, IInv
<1>4. asked'[a] = want[t] /\ \A b \in Held : asked'[b] = asked[b]
  BY <1>1, <1>2, HeldSize DEF IInv, Typed
<1>5. HeldFits'
  BY <1>2, <1>3, <1>4 DEF Sized, HeldFits, AllocSize
<1>6. /\ pc'[t] \in {"drop", "idle"}
      /\ \A u \in Thread : u # t => /\ pc'[u] = pc[u] /\ from'[u] = from[u] /\ drops'[u] = drops[u]
                                    /\ fresh'[u] = fresh[u] /\ want'[u] = want[u]
  BY DEF HandOut, Goto, IInv, Typed
<1>7. \A u \in Thread : from[u] # None => from[u] \in Held
  BY DEF Held
<1>8. CopyFits' /\ FreshFits'
  BY <1>4, <1>6, <1>7 DEF Sized, CopyFits, FreshFits, AllocSize
<1> QED
  BY <1>5, <1>8 DEF Sized

\* A block is given up by its holder.
LEMMA FreeSized ==
  ASSUME IInv, Sized, NEW a \in Address, asked' = [asked EXCEPT ![a] = 0],
         Held' = Held \ {a}, UNCHANGED <<want, fresh>>,
         \A u \in Thread : pc'[u] \in {"grow", "got"} =>
           /\ pc'[u] = pc[u] /\ from'[u] = from[u] /\ drops'[u] = drops[u]
           /\ from[u] # a
  PROVE  Sized'
<1>1. \A b : b # a /\ b \in Address => asked'[b] = asked[b]
  BY DEF IInv, Typed
<1>2. HeldFits'
  BY <1>1, HeldSize DEF Sized, HeldFits, AllocSize
<1>3. CopyFits'
  <2>1. ASSUME NEW u \in Thread, pc'[u] \in {"grow", "got"}, from'[u] # None
        PROVE  IF drops'[u] THEN AllocSize(from'[u]) < want'[u] ELSE want'[u] = asked'[from'[u]]
    <3>1. pc[u] \in {"grow", "got"} /\ from'[u] = from[u] /\ drops'[u] = drops[u] /\ from[u] # a
      BY <2>1
    <3>2. asked'[from[u]] = asked[from[u]]
      BY <1>1, <2>1, <3>1 DEF IInv, Typed
    <3> QED
      BY <2>1, <3>1, <3>2 DEF Sized, CopyFits
  <2> QED
    BY <2>1 DEF CopyFits, AllocSize
<1>4. ASSUME NEW u \in Thread, pc'[u] = "got" PROVE pc[u] = "got"
  <2>1. pc'[u] \in {"grow", "got"}
    BY <1>4
  <2> QED
    BY <1>4, <2>1
<1>5. FreshFits'
  BY <1>4 DEF Sized, FreshFits, AllocSize
<1> QED
  BY <1>2, <1>3, <1>5 DEF Sized

LEMMA DropOldSized ==
  ASSUME IInv, Sized, NEW t \in Thread, DropOld(t)
  PROVE  Sized'
<1> DEFINE a == from[t]
<1>1. pc[t] = "drop" /\ a # None /\ a \in Address
  BY DEF DropOld, IInv, Placed, Typed
<1>2. /\ asked' = [asked EXCEPT ![a] = 0] /\ UNCHANGED <<want, fresh>>
      /\ pc'[t] = "idle"
      /\ \A u \in Thread : u # t => pc'[u] = pc[u] /\ from'[u] = from[u] /\ drops'[u] = drops[u]
  BY DEF DropOld, FreeTo, Goto, IInv, Typed
<1>3. Held' = Held \ {a}
  BY <1>1, HeldLess DEF DropOld, IInv
<1>4. \A u \in Thread : u # t => from[u] # a
  BY <1>1 DEF IInv, FromApart
<1> QED
  BY <1>1, <1>2, <1>3, <1>4, FreeSized

LEMMA DeleteSized ==
  ASSUME IInv, Sized, Delete
  PROVE  Sized'
<1>1. PICK a \in live : FreeTo(a) /\ live' = live \ {a}
  BY DEF Delete
<1>2. UNCHANGED <<pc, want, from, fresh, drops>> /\ asked' = [asked EXCEPT ![a] = 0]
  BY <1>1 DEF Delete, allocVars, FreeTo
<1>3. a \in Address
  BY DEF IInv, Typed
<1>4. Held' = Held \ {a}
  BY <1>1, <1>2, <1>3, HeldLess DEF IInv
<1>5. \A u \in Thread : from[u] # a
  BY DEF IInv, FromApart
<1> QED
  BY <1>2, <1>3, <1>4, <1>5, FreeSized

LEMMA ReAllocInPlaceSized ==
  ASSUME IInv, Sized, ReAllocInPlace
  PROVE  Sized'
<1>1. PICK a \in live, s \in Size : AllocSize(a) >= s /\ asked' = [asked EXCEPT ![a] = s]
  BY DEF ReAllocInPlace
<1>2. UNCHANGED <<live, pc, want, from, fresh, drops>>
  BY DEF ReAllocInPlace, allocVars
<1>3. a \in Address /\ a \in Held /\ s \in Nat
  BY SizeAssumption DEF IInv, Typed, Held
<1>4. asked'[a] = s /\ \A b \in Address : b # a => asked'[b] = asked[b]
  BY <1>1, <1>3 DEF IInv, Typed
<1>5. \E c \in Class : AllocSize(a) = RoundSize[c]
  BY <1>3, HeldSize
<1>6. s <= AllocSize(a)
  BY <1>1, <1>3, <1>5
<1>7. HeldFits'
  BY <1>2, <1>4, <1>6, HeldSize DEF Sized, HeldFits, AllocSize, Held
<1>8. \A u \in Thread : from[u] # a
  BY DEF IInv, FromApart
<1>9. CopyFits' /\ FreshFits'
  BY <1>2, <1>4, <1>8 DEF Sized, CopyFits, FreshFits, AllocSize, IInv, Typed
<1> QED
  BY <1>7, <1>9 DEF Sized

LEMMA SameSized ==
  ASSUME Sized, UNCHANGED <<live, asked, pc, want, from, fresh, drops>>
  PROVE  Sized'
BY DEF Sized, HeldFits, CopyFits, FreshFits, AllocSize, Held

LEMMA NextSized == IInv /\ Sized /\ [Next]_vars => Sized'
<1> SUFFICES ASSUME IInv, Sized, [Next]_vars PROVE Sized'
  OBVIOUS
<1>1. CASE UNCHANGED vars
  BY <1>1, SameSized DEF vars, allocVars
<1>2. CASE Next
  <2>1. ASSUME NEW t \in Thread, New(t), ~panicked PROVE Sized'
    BY <2>1, SizeAssumption, BeginSized DEF New
  <2>2. ASSUME NEW t \in Thread, CloneBytes(t), ~panicked PROVE Sized'
    <3>1. PICK a \in live : Begin(t, asked[a], a, FALSE)
      BY <2>2 DEF CloneBytes
    <3>2. asked[a] \in Nat
      BY DEF IInv, Typed
    <3> QED
      BY <2>2, <3>1, <3>2, BeginSized
  <2>3. ASSUME NEW t \in Thread, ReAlloc(t), ~panicked PROVE Sized'
    <3>1. PICK a \in live, s \in Size : AllocSize(a) < s /\ Begin(t, s, a, TRUE)
      BY <2>3 DEF ReAlloc
    <3>2. s \in Nat
      BY SizeAssumption
    <3> QED
      BY <2>3, <3>1, <3>2, BeginSized
  <2>4. ASSUME Low PROVE Sized'
    BY <2>4, SameSized DEF Low, LowMemory, TakeAside, PutBack, allocVars
  <2> QED
    BY <1>2, <2>1, <2>2, <2>3, <2>4, GrowSized, HandOutSized, DropOldSized, DeleteSized,
       ReAllocInPlaceSized DEF Next, Allocate
<1> QED
  BY <1>1, <1>2

LEMMA InitSized == Init => Sized
BY DEF Init, Sized, HeldFits, CopyFits, FreshFits, Held

LEMMA QuotientBelow ==
  ASSUME NEW n \in Nat, NEW q \in Nat \ {0}, NEW k \in Nat, n <= q * k + q - 1
  PROVE  n \div q <= k
BY SMTT(30)

\* round_copy rounds up to no more than a block has.
LEMMA CopyOfBlock ==
  ASSUME NEW c \in Class, NEW n \in Nat, n <= RoundSize[c]
  PROVE  CopyBytes(n) <= RoundSize[c]
<1>1. CASE n <= CopyLimit
  BY <1>1 DEF CopyBytes
<1>2. CASE ~(n <= CopyLimit)
  <2> DEFINE q == CopyQuantum
  <2>1. q \in Nat \ {0} /\ RoundSize[c] \in Nat /\ RoundSize[c] > CopyLimit
    BY <1>2, CopyAssumption
  <2>2. PICK k \in 0 .. RoundSize[c] : RoundSize[c] = q * k
    BY <2>1, CopyAssumption
  <2>3. CopyBytes(n) = ((n + q - 1) \div q) * q
    BY <1>2 DEF CopyBytes
  <2> HIDE DEF q
  <2>4. n + q - 1 <= q * k + q - 1 /\ k \in Nat
    BY <2>1, <2>2
  <2>5. (n + q - 1) \div q <= k
    <3>1. n + q - 1 \in Nat /\ q \in Nat \ {0} /\ k \in Nat
      BY <2>1, <2>4
    <3> QED
      BY <2>4, <3>1, QuotientBelow
  <2>6. (n + q - 1) \div q \in Nat
    BY <2>1
  <2>7. \A i, j, m \in Nat : i <= j => i * m <= m * j
    BY SMTT(30)
  <2> QED
    BY <2>1, <2>2, <2>3, <2>4, <2>5, <2>6, <2>7
<1>3. CopyLimit \in Nat
  BY CopyAssumption
<1> QED
  BY <1>1, <1>2

\* CopyInside: a holder never relies on more bytes than its block has, and round_copy
\* stays inside both blocks, for any classes whose sizes are whole numbers of quanta.
THEOREM CopiesFit == Spec => []CopyInside
<1>1. ASSUME IInv, Sized PROVE CopyInside
  <2>1. ASSUME NEW t \in Thread, pc[t] = "got", from[t] # None,
               NEW n, n = IF drops[t] THEN AllocSize(from[t]) ELSE asked[from[t]]
        PROVE  CopyBytes(n) <= AllocSize(fresh[t]) /\ CopyBytes(n) <= AllocSize(from[t])
    <3>1. from[t] \in Held /\ fresh[t] \in Getting
      BY <1>1, <2>1 DEF Held, Getting, IInv, Placed
    <3>2. PICK c \in Class : AllocSize(from[t]) = RoundSize[c]
      BY <1>1, <3>1, HeldSize
    <3>3. PICK d \in Class : AllocSize(fresh[t]) = RoundSize[d]
      <4>1. PICK e \in Class : fresh[t] \in Taken(e)
        BY <1>1, <3>1 DEF IInv, Partition, AllTaken
      <4> QED
        BY <1>1, <4>1, TakenSize DEF IInv
    <3>4. asked[from[t]] \in Nat /\ asked[from[t]] <= RoundSize[c]
      BY <1>1, <3>1, <3>2, HeldSize DEF Sized, HeldFits
    <3>5. n \in Nat /\ n <= RoundSize[c] /\ n <= RoundSize[d]
      <4>1. want[t] \in Nat /\ want[t] <= RoundSize[d]
        BY <1>1, <2>1, <3>3 DEF IInv, Typed, Sized, FreshFits
      <4>2. IF drops[t] THEN RoundSize[c] < want[t] ELSE want[t] = asked[from[t]]
        BY <1>1, <2>1, <3>2 DEF Sized, CopyFits
      <4>3. RoundSize[c] \in Nat /\ RoundSize[d] \in Nat
        OBVIOUS
      <4> QED
        BY <2>1, <3>2, <3>4, <4>1, <4>2, <4>3
    <3> QED
      BY <3>2, <3>3, <3>5, CopyOfBlock
  <2> QED
    BY <1>1, <2>1 DEF CopyInside, Sized, HeldFits, FreshFits
<1> QED
  BY <1>1, InitIInv, NextIInv, InitSized, NextSized, PTL DEF Spec

-----------------------------------------------------------------------------
(* the pool implements Heap: the blocks of callers share no byte            *)

\* Multiples of a number are that number apart.
LEMMA StepsApart ==
  ASSUME NEW i \in Nat, NEW j \in Nat, NEW r \in Nat, i # j
  PROVE  i * r + r <= j * r \/ j * r + r <= i * r
<1>1. ASSUME NEW m \in Nat, NEW n \in Nat, m < n PROVE m * r + r <= n * r
  <2>1. (m + 1) * r <= n * r /\ (m + 1) * r = m * r + r
    BY <1>1, SMTT(30)
  <2> QED
    BY <2>1
<1> QED
  BY <1>1

LEMMA BinsApart ==
  ASSUME NEW c \in Nat, NEW d \in Nat, c # d
  PROVE  Bin * c + Bin <= Bin * d \/ Bin * d + Bin <= Bin * c
<1>1. Bin * c = c * Bin /\ Bin * d = d * Bin
  OBVIOUS
<1> QED
  BY <1>1, StepsApart

LEMMA WholeBlocks ==
  ASSUME NEW i \in Nat, NEW k \in Nat, NEW r \in Nat \ {0}, i * r < r * k
  PROVE  i * r + r <= r * k
<1>1. i # k /\ r * k = k * r
  OBVIOUS
<1> QED
  BY <1>1, StepsApart

LEMMA IntervalsApart ==
  ASSUME NEW a \in Int, NEW b \in Int, NEW r \in Nat, NEW s \in Nat, a + r <= b \/ b + s <= a
  PROVE  (a .. a + r - 1) \cap (b .. b + s - 1) = {}
OBVIOUS

\* Whole blocks fit in a bin.
LEMMA BlockInBin ==
  ASSUME NEW c \in Class, NEW i \in Nat, i * RoundSize[c] < Bin
  PROVE  i * RoundSize[c] + RoundSize[c] <= Bin
<1>1. PICK k \in 0 .. Bin : Bin = RoundSize[c] * k
  BY RoundSizeAssumption
<1>2. RoundSize[c] \in Nat \ {0} /\ k \in Nat
  BY <1>1
<1> QED
  BY <1>1, <1>2, WholeBlocks

\* Two blocks that are not the same have no byte in common.
Bytes(a) == a .. a + AllocSize(a) - 1

LEMMA BytesApart ==
  ASSUME Typed, NEW c \in Class, NEW d \in Class, NEW a \in Taken(c), NEW b \in Taken(d), a # b
  PROVE  Bytes(a) \cap Bytes(b) = {}
<1>1. PICK i \in Nat : i * RoundSize[c] < Bin /\ a = Block(c, i)
  BY DEF Taken, Typed
<1>2. PICK j \in Nat : j * RoundSize[d] < Bin /\ b = Block(d, j)
  BY DEF Taken, Typed
<1> DEFINE m == i * RoundSize[c]
           n == j * RoundSize[d]
           r == RoundSize[c]
           s == RoundSize[d]
<1>3. r \in Nat \ {0} /\ s \in Nat \ {0} /\ m \in 0 .. Bin - 1 /\ n \in 0 .. Bin - 1
  BY <1>1, <1>2, InBin
<1>4. m + r <= Bin /\ n + s <= Bin
  BY <1>1, <1>2, BlockInBin
<1>5. Bytes(a) = a .. a + r - 1 /\ Bytes(b) = b .. b + s - 1
  BY TakenSize DEF Bytes
<1>6. a = Base + Bin * c + m /\ b = Base + Bin * d + n
  BY <1>1, <1>2 DEF Block
<1>7. CASE c = d
  <2>1. c \in Class /\ r = s /\ i # j
    BY <1>1, <1>2, <1>7
  <2>2. m + r <= n \/ n + r <= m
    BY <1>3, <2>1, <1>7, StepsApart
  <2> HIDE DEF m, n, r, s
  <2>3. Bin * c \in Int /\ Base \in Int
    BY DEF Class
  <2>4. a + r <= b \/ b + s <= a
    BY <1>3, <1>6, <1>7, <2>1, <2>2, <2>3
  <2>5. a \in Int /\ b \in Int
    BY <1>3, <1>6, <1>7, <2>3
  <2> QED
    BY <1>3, <1>5, <2>4, <2>5, IntervalsApart
<1>8. CASE c # d
  <2> HIDE DEF m, n, r, s
  <2>1. Bin * c + Bin <= Bin * d \/ Bin * d + Bin <= Bin * c
    BY <1>8, BinsApart DEF Class
  <2>2. Bin * c \in Int /\ Bin * d \in Int /\ Base \in Int
    BY DEF Class
  <2>3. a + r <= b \/ b + s <= a
    BY <1>3, <1>4, <1>6, <2>1, <2>2
  <2>4. a \in Int /\ b \in Int
    BY <1>3, <1>6, <2>2
  <2> QED
    BY <1>3, <1>5, <2>3, <2>4, IntervalsApart
<1> QED
  BY <1>7, <1>8

\* A step leaves callers the blocks they have, or gives them one that no thread had
\* handed out, or takes one from them.
LEMMA HeldMoves ==
  ASSUME IInv, [Next]_vars
  PROVE  \/ Held' = Held
         \/ \E a \in Getting : a \notin Held /\ Held' = Held \cup {a}
         \/ \E a \in Held : Held' = Held \ {a}
<1>1. ASSUME NEW t \in Thread, NEW s, NEW source \in live \cup {None}, NEW drop,
             Begin(t, s, source, drop), ~panicked
      PROVE  Held' = Held
  BY <1>1, HeldTaken DEF Begin, IInv, Placed
<1>2. ASSUME NEW t \in Thread, HandOut(t)
      PROVE  fresh[t] \in Getting /\ fresh[t] \notin Held /\ Held' = Held \cup {fresh[t]}
  <2>1. fresh[t] \in Address /\ fresh[t] \in Getting /\ fresh[t] \notin Held
    BY <1>2 DEF HandOut, IInv, Placed, Typed, Getting, Partition
  <2> QED
    BY <1>2, <2>1, HeldMore DEF HandOut, IInv
<1>3. ASSUME NEW t \in Thread, DropOld(t)
      PROVE  from[t] \in Held /\ Held' = Held \ {from[t]}
  <2>1. from[t] \in Address
    BY <1>3 DEF DropOld, IInv, Placed, Typed
  <2> QED
    BY <1>3, <2>1, HeldLess DEF DropOld, IInv
<1>4. ASSUME Delete PROVE \E a \in Held : Held' = Held \ {a}
  <2>1. PICK a \in live : live' = live \ {a} /\ from' = from
    BY <1>4 DEF Delete, allocVars
  <2>2. a \in Address
    BY DEF IInv, Typed
  <2> QED
    BY <2>1, <2>2, HeldLess DEF IInv
<1>5. ASSUME UNCHANGED <<live, from>> PROVE Held' = Held
  BY <1>5, SameHeld DEF IInv
<1>6. ASSUME NEW t \in Thread, Grow(t) PROVE UNCHANGED <<live, from>>
  BY <1>6 DEF Grow
<1>7. (Low \/ ReAllocInPlace \/ UNCHANGED vars) => UNCHANGED <<live, from>>
  BY DEF Low, LowMemory, TakeAside, PutBack, ReAllocInPlace, vars, allocVars
<1>8. ASSUME NEW t \in Thread, New(t) \/ CloneBytes(t) \/ ReAlloc(t), ~panicked PROVE Held' = Held
  BY <1>1, <1>8 DEF New, CloneBytes, ReAlloc
<1> QED
  BY <1>2, <1>3, <1>4, <1>5, <1>6, <1>7, <1>8 DEF Next, Allocate

\* ImplementsHeap: the blocks that callers hold lie in the pool and share no byte, at
\* any moment and whatever the threads do.
THEOREM Implementation == Spec => ImplementsHeap
<1>1. Init => Blocks!Init
  <2> SUFFICES ASSUME Init PROVE Held = {}
    BY DEF Blocks!Init
  <2> QED
    BY DEF Init, Held
<1>2. ASSUME IInv, IInv', [Next]_vars
      PROVE  [Blocks!Next]_([a \in Held |-> Bytes(a)])
  <2> DEFINE extent == [a \in Held |-> Bytes(a)]
  <2>1. extent' = [a \in Held' |-> Bytes(a)]
    BY DEF Bytes, AllocSize
  <2>2. CASE Held' = Held
    BY <2>1, <2>2
  <2>3. CASE \E a \in Getting : a \notin Held /\ Held' = Held \cup {a}
    <3>1. PICK a \in Getting : a \notin Held /\ Held' = Held \cup {a}
      BY <2>3
    <3>2. PICK c \in Class : a \in Taken(c)
      BY <1>2 DEF IInv, Partition, AllTaken
    <3>3. Bytes(a) = a .. a + RoundSize[c] - 1 /\ a \in Address
      BY <1>2, <3>2, TakenSize, TakenClass DEF IInv, Bytes
    <3>4. a \in Bytes(a)
      <4>1. RoundSize[c] \in Nat \ {0} /\ a \in Int
        BY <3>3 DEF Address
      <4> QED
        BY <3>3, <4>1
    <3>5. \A b \in Held : Bytes(b) \cap Bytes(a) = {}
      <4>1. ASSUME NEW b \in Held PROVE \E d \in Class : b \in Taken(d)
        BY <1>2 DEF IInv, Partition, AllTaken
      <4> QED
        BY <1>2, <3>1, <3>2, <4>1, BytesApart DEF IInv
    <3>6. extent' = [b \in Held \cup {a} |-> IF b = a THEN Bytes(a) ELSE extent[b]]
      BY <2>1, <3>1
    <3>7. Blocks!Get(a, Bytes(a))
      BY <3>1, <3>4, <3>5, <3>6 DEF Blocks!Get, Bytes
    <3> QED
      BY <3>3, <3>7 DEF Blocks!Next
  <2>4. CASE \E a \in Held : Held' = Held \ {a}
    <3>1. PICK a \in Held : Held' = Held \ {a}
      BY <2>4
    <3>2. a \in Address
      BY <1>2, HeldSize
    <3>3. extent' = [b \in Held \ {a} |-> extent[b]]
      BY <2>1, <3>1
    <3>4. Blocks!Put(a)
      BY <3>1, <3>3 DEF Blocks!Put, Bytes
    <3> QED
      BY <3>2, <3>4 DEF Blocks!Next
  <2> QED
    BY <1>2, <2>2, <2>3, <2>4, HeldMoves
<1> QED
  BY <1>1, <1>2, InitIInv, NextIInv, PTL DEF Spec, ImplementsHeap, Blocks!Spec, Bytes

=============================================================================
