------------------------------- MODULE Wedge -------------------------------
(***************************************************************************)
(* The thread-initialisation lock of CatSyn/src/queue.h: Wedge, an atomic  *)
(* unsigned whose top bit means "held exclusively" and whose other bits    *)
(* count shared attempts, and WedgeLock, which remembers the mode in which *)
(* it was taken and gives it back when it leaves scope.  The threads use   *)
(* it as the worker of substrate.cpp does: a thread that has not yet       *)
(* initialised the filter tries the exclusive mode, one that has tries the *)
(* shared mode, and neither ever blocks.                                   *)
(*                                                                         *)
(* One action is one atomic operation on the word, so the interleavings    *)
(* are those of the hardware.                                              *)
(***************************************************************************)
EXTENDS Integers, FiniteSets

CONSTANTS
  Thread,   \* the worker threads
  Highest   \* the top bit of the word: 2^31 in the code

ASSUME ThreadAssumption == IsFiniteSet(Thread)
ASSUME HighestAssumption == Highest \in Nat /\ Cardinality(Thread) < Highest

VARIABLES
  atm,      \* the atomic word (the filter's get_thread_init_atomic)
  pc,       \* where each thread stands in a lock operation
  inited    \* the threads whose `inited` set holds the substrate

wedgeVars == <<atm, pc, inited>>

\* The word has one bit above the counter and arithmetic on it wraps.
Modulus == 2 * Highest
HasHighest(word) == word >= Highest

WedgeInit ==
  /\ atm = 0
  /\ pc = [t \in Thread |-> "idle"]
  /\ inited = {}

Goto(t, to) == pc' = [pc EXCEPT ![t] = to]

-----------------------------------------------------------------------------
\* Wedge::try_lock_shared: fetch_add, and a look at the bit in the old value.
TryLockShared(t) ==
  /\ pc[t] = "idle"
  /\ t \in inited
  /\ atm' = (atm + 1) % Modulus
  /\ Goto(t, IF HasHighest(atm) THEN "undo" ELSE "shared")
  /\ UNCHANGED inited

\* Mutant: a failed attempt is not taken back.
UndoShared_Keep(t) ==
  /\ pc[t] = "undo"
  /\ Goto(t, "idle")
  /\ UNCHANGED <<atm, inited>>

\* Its failure path: the fetch_sub that takes the attempt back.
UndoShared(t) ==
  /\ pc[t] = "undo"
  /\ atm' = (atm - 1) % Modulus
  /\ Goto(t, "idle")
  /\ UNCHANGED inited

\* Wedge::try_lock_exclusive, first half: the load; a busy word fails at once.
LoadWord(t) ==
  /\ pc[t] = "idle"
  /\ t \notin inited
  /\ atm = 0
  /\ Goto(t, "cas")
  /\ UNCHANGED <<atm, inited>>

\* Mutant: the exchange looks at the top bit only, as try_lock_shared does.
ExchangeWord_BitOnly(t) ==
  /\ pc[t] = "cas"
  /\ \/ /\ ~HasHighest(atm)
        /\ atm' = atm + Highest
        /\ inited' = inited \cup {t}
        /\ Goto(t, "exclusive")
     \/ /\ Goto(t, "idle")
        /\ UNCHANGED <<atm, inited>>

\* Second half: compare_exchange_weak.  On success the worker also records
\* that it has initialised the substrate; the weak form may fail on a zero word.
ExchangeWord(t) ==
  /\ pc[t] = "cas"
  /\ \/ /\ atm = 0
        /\ atm' = Highest
        /\ inited' = inited \cup {t}
        /\ Goto(t, "exclusive")
     \/ /\ Goto(t, "idle")
        /\ UNCHANGED <<atm, inited>>

\* WedgeLock::~WedgeLock in state 1.
UnlockShared(t) ==
  /\ pc[t] = "shared"
  /\ atm' = (atm - 1) % Modulus
  /\ Goto(t, "idle")
  /\ UNCHANGED inited

\* WedgeLock::~WedgeLock in state 2: fetch_and(~highest).
UnlockExclusive(t) ==
  /\ pc[t] = "exclusive"
  /\ atm' = IF HasHighest(atm) THEN atm - Highest ELSE atm
  /\ Goto(t, "idle")
  /\ UNCHANGED inited

WedgeNext ==
  \E t \in Thread :
    \/ TryLockShared(t)
    \/ UndoShared(t)
    \/ LoadWord(t)
    \/ ExchangeWord(t)
    \/ UnlockShared(t)
    \/ UnlockExclusive(t)

WedgeSpec == WedgeInit /\ [][WedgeNext]_wedgeVars

-----------------------------------------------------------------------------
States == {"idle", "undo", "cas", "shared", "exclusive"}

\* The word stays within its width and every thread is at a known place.
TypeOK ==
  /\ atm \in 0 .. Modulus - 1
  /\ pc \in [Thread -> States]
  /\ inited \in SUBSET Thread

\* While a worker runs its first frame of a filter (the run in which the
\* filter initialises its per-thread state), no other worker is inside that
\* filter, in either mode.
InitialisesAlone ==
  \A t, u \in Thread :
    pc[t] = "exclusive" /\ u # t => pc[u] \notin {"shared", "exclusive"}

\* No attempt leaves a trace in the word: failed attempts that raced with an
\* unlock are taken back exactly, so an unused lock is free again and the next
\* first-time worker can get in.
FreeWhenUnused ==
  (\A t \in Thread : pc[t] \in {"idle", "cas"}) => atm = 0

-----------------------------------------------------------------------------
\* The threads whose increment is in the word, and those whose bit is.
Counted == {t \in Thread : pc[t] \in {"undo", "shared"}}
Writers == {t \in Thread : pc[t] = "exclusive"}

\* What the word holds: the strengthening that makes the invariants inductive.
WordAccounts ==
  atm = Cardinality(Counted) + (IF Writers = {} THEN 0 ELSE Highest)

WedgeIInv == TypeOK /\ WordAccounts /\ InitialisesAlone
=============================================================================
