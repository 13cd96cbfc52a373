-------------------------- MODULE ThreadPoolProofs --------------------------
(***************************************************************************)
(* Proofs about ThreadPool for every set of threads and every pool size.   *)
(***************************************************************************)
EXTENDS ThreadPool, FiniteSetTheorems, TLAPS

-----------------------------------------------------------------------------
(* The free list is a sequence without repetitions that is changed at its  *)
(* head.                                                                   *)

(* Taking the first entry removes it, and only it, from the entries: what  *)
(* do_try_borrow_one relies on.                                            *)
LEMMA PopFront ==
  ASSUME NEW S, NEW s \in Seq(S), s # <<>>, IsInjective(s)
  PROVE  /\ Head(s) \in Range(s) /\ Head(s) \in S
         /\ Tail(s) \in Seq(S) /\ Len(Tail(s)) = Len(s) - 1
         /\ IsInjective(Tail(s))
         /\ Range(Tail(s)) = Range(s) \ {Head(s)}
<1> DEFINE t == Tail(s)
<1>1. /\ DOMAIN s = 1..Len(s) /\ Len(s) \in Nat \ {0}
      /\ Head(s) = s[1] /\ s[1] \in S /\ t \in Seq(S) /\ Len(t) = Len(s) - 1
      /\ DOMAIN t = 1..(Len(s) - 1) /\ \A i \in DOMAIN t : t[i] = s[i + 1]
  OBVIOUS
<1> HIDE DEF t
<1>2. 1 \in DOMAIN s /\ \A i \in DOMAIN t : i + 1 \in DOMAIN s /\ i + 1 # 1
  BY <1>1
<1>3. \A i \in DOMAIN s : i = 1 \/ \E j \in DOMAIN t : i = j + 1
  <2>1. \A i \in DOMAIN s : i = 1 \/ (i - 1 \in DOMAIN t /\ i = (i - 1) + 1)
    BY <1>1
  <2>. QED
    BY <2>1
<1>4. IsInjective(t)
  <2>1. \A i, j \in DOMAIN t : i + 1 = j + 1 => i = j
    BY <1>1
  <2>. QED
    BY <1>1, <1>2, <2>1 DEF IsInjective
<1>5. Range(t) = Range(s) \ {s[1]}
  BY <1>1, <1>2, <1>3 DEF IsInjective, Range
<1>. QED
  BY <1>1, <1>2, <1>4, <1>5 DEF t, Range

(* Putting an entry that is not in the list first, as release_one does.    *)
LEMMA PushFront ==
  ASSUME NEW S, NEW s \in Seq(S), NEW e \in S, IsInjective(s), e \notin Range(s)
  PROVE  /\ <<e>> \o s \in Seq(S) /\ Len(<<e>> \o s) = Len(s) + 1
         /\ IsInjective(<<e>> \o s)
         /\ Range(<<e>> \o s) = Range(s) \cup {e}
<1> DEFINE t == <<e>> \o s
<1>1. /\ DOMAIN s = 1..Len(s) /\ Len(s) \in Nat
      /\ t \in Seq(S) /\ Len(t) = Len(s) + 1 /\ DOMAIN t = 1..(Len(s) + 1)
      /\ t[1] = e /\ \A i \in DOMAIN s : t[i + 1] = s[i]
  OBVIOUS
<1> HIDE DEF t
<1>2. 1 \in DOMAIN t /\ \A i \in DOMAIN s : i + 1 \in DOMAIN t
  BY <1>1
<1>3. \A i \in DOMAIN t : i = 1 \/ \E j \in DOMAIN s : i = j + 1
  <2>1. \A i \in DOMAIN t : i = 1 \/ (i - 1 \in DOMAIN s /\ i = (i - 1) + 1)
    BY <1>1
  <2>. QED
    BY <2>1
<1>4. IsInjective(t)
  BY <1>1, <1>3 DEF IsInjective, Range
<1>5. Range(t) = Range(s) \cup {e}
  BY <1>1, <1>2, <1>3 DEF Range
<1>. QED
  BY <1>1, <1>4, <1>5 DEF t

-----------------------------------------------------------------------------
(* The critical sections of buffer_mutex keep every object in one place.   *)
USE ObjectStoreAssumption DEF Objects, NoObject, Places, Goto

StoreInv == StoreTypeOK /\ OneHome /\ MarkedAgrees

(* StoreInv with its parts expanded, in the form the lemmas use. *)
LEMMA StoreFacts ==
  StoreInv <=>
    /\ obj \in [Clients -> 0..MaxSize] /\ built \in 0..MaxSize
    /\ free \in Seq(1..MaxSize) /\ marked \in SUBSET (1..MaxSize)
    /\ IsInjective(free) /\ HeldByOne
    /\ Range(free) \cap Borrowed = {} /\ Range(free) \cup Borrowed = 1..built
    /\ marked = Range(free)
<1>1. Objects \cup {NoObject} = 0..MaxSize
  OBVIOUS
<1>. QED
  BY <1>1 DEF StoreInv, StoreTypeOK, OneHome, ListedOnce, ListedNotBorrowed,
              NoneLost, MarkedAgrees

LEMMA FilledStore ==
  ASSUME NEW n \in 0..MaxSize, Filled(n)
  PROVE  StoreInv
<1>1. /\ free \in Seq(1..MaxSize) /\ DOMAIN free = 1..n /\ \A i \in 1..n : free[i] = i
  BY DEF Filled
<1>2. IsInjective(free) /\ Range(free) = 1..n
  BY <1>1 DEF IsInjective, Range
<1>3. /\ obj \in [Clients -> 0..MaxSize] /\ built = n /\ marked = 1..n
      /\ Borrowed = {} /\ HeldByOne
  BY DEF Filled, Borrowed, HeldByOne
<1>. QED
  BY <1>1, <1>2, <1>3, StoreFacts

LEMMA LendFreeKeepsStore ==
  ASSUME StoreInv, NEW c \in Clients, obj[c] = NoObject, LendFree(c)
  PROVE  /\ StoreInv'
         /\ Head(free) \in Objects \ Borrowed
         /\ Len(free') = Len(free) - 1
<1>1. /\ obj \in [Clients -> 0..MaxSize] /\ built \in 0..MaxSize
      /\ free \in Seq(1..MaxSize) /\ IsInjective(free) /\ HeldByOne
      /\ Range(free) \cap Borrowed = {} /\ Range(free) \cup Borrowed = 1..built
      /\ marked = Range(free)
  BY StoreFacts
<1>2. /\ obj' = [obj EXCEPT ![c] = Head(free)] /\ marked' = marked \ {Head(free)}
      /\ free # <<>> /\ free' = Tail(free) /\ built' = built
  BY DEF LendFree
<1>3. /\ Head(free) \in Range(free) /\ Head(free) \in 1..MaxSize
      /\ free' \in Seq(1..MaxSize) /\ IsInjective(free') /\ Len(free') = Len(free) - 1
      /\ Range(free') = Range(free) \ {Head(free)}
  BY <1>1, <1>2, PopFront
<1>4. Borrowed' = Borrowed \cup {Head(free)}
  BY <1>1, <1>2, <1>3 DEF Borrowed
<1>5. HeldByOne'
  <2>1. Head(free) \notin Borrowed /\ Head(free) # 0
    BY <1>1, <1>3
  <2>2. \A d \in Clients : obj[d] # Head(free)
    BY <2>1 DEF Borrowed
  <2>. QED
    BY <1>1, <1>2, <2>2 DEF HeldByOne
<1>6. obj' \in [Clients -> 0..MaxSize] /\ marked' \in SUBSET (1..MaxSize)
  BY <1>1, <1>2, <1>3
<1>7. /\ Range(free') \cap Borrowed' = {} /\ Range(free') \cup Borrowed' = 1..built'
      /\ marked' = Range(free')
  BY <1>1, <1>2, <1>3, <1>4
<1>8. StoreInv'
  BY <1>1, <1>2, <1>3, <1>5, <1>6, <1>7
     DEF StoreInv, StoreTypeOK, OneHome, ListedOnce, ListedNotBorrowed, NoneLost,
         MarkedAgrees
<1>. QED
  BY <1>1, <1>3, <1>8

LEMMA LendNewKeepsStore ==
  ASSUME StoreInv, NEW c \in Clients, obj[c] = NoObject, LendNew(c)
  PROVE  StoreInv' /\ built + 1 \in Objects \ Borrowed
<1>1. /\ obj \in [Clients -> 0..MaxSize] /\ built \in 0..(MaxSize - 1)
      /\ free \in Seq(1..MaxSize) /\ marked \in SUBSET (1..MaxSize)
      /\ IsInjective(free) /\ HeldByOne /\ marked = Range(free)
      /\ Range(free) \cap Borrowed = {} /\ Range(free) \cup Borrowed = 1..built
  BY StoreFacts DEF LendNew, MayBuild
<1>2. /\ obj' = [obj EXCEPT ![c] = built + 1] /\ built' = built + 1
      /\ UNCHANGED <<free, marked>>
  BY DEF LendNew
<1>3. Borrowed' = Borrowed \cup {built + 1}
  BY <1>1, <1>2 DEF Borrowed
<1>4. built + 1 \notin 1..built /\ 1..(built + 1) = 1..built \cup {built + 1}
  BY <1>1
<1>5. HeldByOne'
  <2>1. \A d \in Clients : obj[d] # built + 1
    BY <1>1, <1>4 DEF Borrowed
  <2>. QED
    BY <1>1, <1>2, <2>1 DEF HeldByOne
<1>6. obj' \in [Clients -> 0..MaxSize] /\ built' \in 0..MaxSize
  BY <1>1, <1>2
<1>7. Range(free') \cap Borrowed' = {} /\ Range(free') \cup Borrowed' = 1..built'
  BY <1>1, <1>2, <1>3, <1>4
<1>8. StoreInv'
  BY <1>1, <1>2, <1>5, <1>6, <1>7
     DEF StoreInv, StoreTypeOK, OneHome, ListedOnce, ListedNotBorrowed, NoneLost,
         MarkedAgrees
<1>. QED
  BY <1>1, <1>4, <1>8

LEMMA TakeBackKeepsStore ==
  ASSUME StoreInv, NEW c \in Clients, obj[c] # NoObject, TakeBack(c)
  PROVE  StoreInv' /\ Len(free') = Len(free) + 1
<1>1. /\ obj[c] \in 1..MaxSize /\ obj \in [Clients -> 0..MaxSize]
      /\ built \in 0..MaxSize /\ marked = Range(free)
      /\ free \in Seq(1..MaxSize) /\ IsInjective(free) /\ HeldByOne
      /\ Range(free) \cap Borrowed = {} /\ Range(free) \cup Borrowed = 1..built
  BY StoreFacts
<1>2. /\ obj' = [obj EXCEPT ![c] = 0] /\ built' = built
      /\ marked' = marked \cup {obj[c]} /\ free' = <<obj[c]>> \o free
  BY DEF TakeBack
<1>3. obj[c] \in Borrowed /\ obj[c] \notin Range(free)
  BY <1>1 DEF Borrowed
<1>4. /\ free' \in Seq(1..MaxSize) /\ Len(free') = Len(free) + 1
      /\ IsInjective(free') /\ Range(free') = Range(free) \cup {obj[c]}
  BY <1>1, <1>2, <1>3, PushFront
<1>5. Borrowed' = Borrowed \ {obj[c]}
  BY <1>1, <1>2 DEF Borrowed, HeldByOne
<1>6. HeldByOne' /\ obj' \in [Clients -> 0..MaxSize]
  BY <1>1, <1>2 DEF HeldByOne
<1>7. /\ Range(free') \cap Borrowed' = {} /\ Range(free') \cup Borrowed' = 1..built'
      /\ marked' = Range(free') /\ marked' \in SUBSET (1..MaxSize)
  BY <1>1, <1>2, <1>3, <1>4, <1>5
<1>8. StoreInv'
  BY <1>1, <1>2, <1>4, <1>6, <1>7
     DEF StoreInv, StoreTypeOK, OneHome, ListedOnce, ListedNotBorrowed, NoneLost,
         MarkedAgrees
<1>. QED
  BY <1>4, <1>8

(* A pool with nothing to lend has lent all it can ever have. *)
LEMMA NothingToLendMeansAllLent ==
  ASSUME StoreInv, NothingToLend
  PROVE  Objects \subseteq Borrowed /\ built = MaxSize
<1>1. free = <<>> /\ built = MaxSize /\ Range(free) \cup Borrowed = 1..built
  BY StoreFacts DEF NothingToLend
<1>. QED
  BY <1>1 DEF Range

LEMMA StoreUnchanged ==
  ASSUME StoreInv, UNCHANGED store
  PROVE  StoreInv'
BY DEF store, StoreInv, StoreTypeOK, OneHome, ListedOnce, HeldByOne, ListedNotBorrowed,
       NoneLost, MarkedAgrees, Borrowed

-----------------------------------------------------------------------------
(* The flag is only set while there is an object to take: this is what     *)
(* keeps the throw of borrow_one out of reach.                             *)
ReadyHasFree == ready => free # <<>>

BorrowersUse == \A c \in Clients : pc[c] = "using" <=> obj[c] # NoObject

(* A thread was told "nothing to borrow" by a pool of the full size. *)
StarvedOfFullPool == Starving # {} => built = MaxSize

PoolInv ==
  /\ TypeOK
  /\ StoreInv
  /\ BorrowersUse
  /\ ReadyHasFree
  /\ StarvedOfFullPool
  /\ NoParError

LEMMA InitPoolInv == Init => PoolInv
<1> SUFFICES ASSUME Init PROVE PoolInv
  OBVIOUS
<1>1. StoreInv
  BY FilledStore DEF Init
<1>2. obj = [c \in Clients |-> 0]
  BY DEF Init, Filled
<1>. QED
  BY <1>1, <1>2 DEF Init, PoolInv, StoreInv, TypeOK, BorrowersUse, ReadyHasFree,
                    StarvedOfFullPool, Starving, NoParError

LEMMA PoolFacts ==
  ASSUME PoolInv
  PROVE  /\ StoreInv /\ pc \in [Clients -> Places] /\ ready \in BOOLEAN
         /\ built \in 0..MaxSize /\ obj \in [Clients -> 0..MaxSize]
         /\ free \in Seq(1..MaxSize)
         /\ \A c \in Clients : pc[c] = "using" <=> obj[c] # NoObject
         /\ \A c \in Clients : pc[c] # "threw"
         /\ ready => free # <<>>
         /\ Starving # {} => built = MaxSize
BY StoreFacts DEF PoolInv, TypeOK, BorrowersUse, ReadyHasFree, StarvedOfFullPool,
                  NoParError

(* The same facts about the next state, which the step lemmas establish. *)
LEMMA PoolInvAfter ==
  ASSUME StoreInv', pc' \in [Clients -> Places], ready' \in BOOLEAN,
         \A c \in Clients : pc'[c] = "using" <=> obj'[c] # NoObject,
         \A c \in Clients : pc'[c] # "threw",
         ready' => free' # <<>>,
         Starving' # {} => built' = MaxSize
  PROVE  PoolInv'
BY DEF PoolInv, TypeOK, StoreInv, BorrowersUse, ReadyHasFree, StarvedOfFullPool,
       NoParError

-----------------------------------------------------------------------------
(* The steps that move no object. *)
LEMMA QuietKeepsPoolInv ==
  ASSUME PoolInv, NEW c \in Clients,
         \/ Begin(c) \/ BuildThrows(c) \/ GiveUp(c) \/ Sleep(c)
         \/ WakeSpuriously(c) \/ NotifyOne(c)
  PROVE  PoolInv'
<1> USE PoolFacts
<1>1. /\ UNCHANGED store /\ UNCHANGED <<obj, built, free, ready>>
  BY DEF Begin, BuildThrows, GiveUp, Sleep, WakeSpuriously, NotifyOne, store
<1>2. StoreInv'
  BY <1>1, StoreUnchanged
<1>3. \A d \in Clients :
        /\ pc'[d] \in Places /\ pc'[d] # "threw"
        /\ pc'[d] = "using" <=> pc[d] = "using"
        /\ pc'[d] \in {"full", "asleep", "awake"} => pc[d] \in {"full", "asleep", "awake"}
  BY DEF Begin, BuildThrows, GiveUp, Sleep, WakeSpuriously, NotifyOne, Trying, Waited
<1>4. pc' \in [Clients -> Places]
  BY DEF Begin, BuildThrows, GiveUp, Sleep, WakeSpuriously, NotifyOne
<1>5. Starving' \subseteq Starving
  BY <1>3 DEF Starving
<1>. QED
  BY <1>1, <1>2, <1>3, <1>4, <1>5, PoolInvAfter

(* Whoever is past the wait has found the flag set, and so an object: the  *)
(* pool is found full only by the first attempt of a borrow_one.           *)
LEMMA FindFullKeepsPoolInv ==
  ASSUME PoolInv, NEW c \in Clients, FindFull(c)
  PROVE  PoolInv' /\ pc[c] = "try"
<1> USE PoolFacts
<1>1. pc[c] = "try" /\ pc' = [pc EXCEPT ![c] = "full"]
  BY DEF FindFull, Trying, Waited, NothingToLend
<1>2. StoreInv' /\ UNCHANGED <<obj, built, free, ready>> /\ built = MaxSize
  BY StoreUnchanged DEF FindFull, NothingToLend, store
<1>. QED
  BY <1>1, <1>2, PoolInvAfter

LEMMA TakeFreeKeepsPoolInv ==
  ASSUME PoolInv, NEW c \in Clients, TakeFree(c)
  PROVE  PoolInv' /\ obj[c] = NoObject
<1> USE PoolFacts
<1>1. obj[c] = NoObject
  BY DEF TakeFree, Trying, Waited
<1>2. StoreInv' /\ Head(free) \in Objects
  BY <1>1, LendFreeKeepsStore DEF TakeFree
<1>3. /\ pc' = [pc EXCEPT ![c] = "using"] /\ obj' = [obj EXCEPT ![c] = Head(free)]
      /\ ready' = FALSE /\ built' = built
  BY DEF TakeFree, LendFree
<1>4. Starving' \subseteq Starving
  BY <1>3 DEF Starving
<1>5. \A d \in Clients : pc'[d] = "using" <=> obj'[d] # NoObject
  BY <1>2, <1>3
<1>6. pc' \in [Clients -> Places] /\ \A d \in Clients : pc'[d] # "threw"
  BY <1>3
<1>. QED
  BY <1>1, <1>2, <1>3, <1>4, <1>5, <1>6, PoolInvAfter

LEMMA BuildAndTakeKeepsPoolInv ==
  ASSUME PoolInv, NEW c \in Clients, BuildAndTake(c)
  PROVE  PoolInv' /\ obj[c] = NoObject
<1> USE PoolFacts
<1>1. obj[c] = NoObject
  BY DEF BuildAndTake, Trying, Waited
<1>2. StoreInv' /\ built + 1 \in Objects
  BY <1>1, LendNewKeepsStore DEF BuildAndTake
<1>3. /\ pc' = [pc EXCEPT ![c] = "using"] /\ obj' = [obj EXCEPT ![c] = built + 1]
      /\ ready' = FALSE /\ built < MaxSize
  BY DEF BuildAndTake, LendNew, MayBuild
<1>4. Starving' = {}
  BY <1>3 DEF Starving
<1>5. \A d \in Clients : pc'[d] = "using" <=> obj'[d] # NoObject
  BY <1>2, <1>3
<1>6. pc' \in [Clients -> Places] /\ \A d \in Clients : pc'[d] # "threw"
  BY <1>3
<1>. QED
  BY <1>1, <1>2, <1>3, <1>4, <1>5, <1>6, PoolInvAfter

LEMMA ReleaseKeepsPoolInv ==
  ASSUME PoolInv, NEW c \in Clients, Release(c)
  PROVE  PoolInv' /\ Len(free') = Len(free) + 1
<1> USE PoolFacts
<1>1. StoreInv' /\ Len(free') = Len(free) + 1
  BY TakeBackKeepsStore DEF Release
<1>2. free' # <<>>
  BY <1>1
<1>3. /\ pc' = [pc EXCEPT ![c] = "notify"] /\ obj' = [obj EXCEPT ![c] = NoObject]
      /\ ready' = TRUE /\ built' = built
  BY DEF Release, TakeBack
<1>4. Starving' \subseteq Starving
  BY <1>3 DEF Starving
<1>. QED
  BY <1>1, <1>2, <1>3, <1>4, PoolInvAfter

LEMMA NextKeepsPoolInv == PoolInv /\ [Next]_vars => PoolInv'
<1> SUFFICES ASSUME PoolInv, [Next]_vars PROVE PoolInv'
  OBVIOUS
<1>1. CASE UNCHANGED vars
  BY <1>1, StoreUnchanged, PoolFacts, PoolInvAfter DEF vars, store, Starving
<1>. QED
  BY <1>1, QuietKeepsPoolInv, FindFullKeepsPoolInv, TakeFreeKeepsPoolInv,
     BuildAndTakeKeepsPoolInv, ReleaseKeepsPoolInv DEF Next

(* The invariant holds of every reachable state of the pool. *)
THEOREM PoolInvariant == Spec => []PoolInv
BY InitPoolInv, NextKeepsPoolInv, PTL DEF Spec

(* The types of the pool's variables. *)
THEOREM PoolTypeCorrect == Spec => []TypeOK
<1>1. PoolInv => TypeOK
  BY DEF PoolInv
<1>. QED
  BY <1>1, PoolInvariant, PTL

(* borrow_one and release_one neither lend an object twice nor lose one. *)
THEOREM ObjectsHaveOneHome == Spec => []OneHome
<1>1. PoolInv => OneHome
  BY DEF PoolInv, StoreInv
<1>. QED
  BY <1>1, PoolInvariant, PTL

(* The throw of logic_error("unknown par error.") in borrow_one is dead. *)
THEOREM BorrowNeverThrows == Spec => []NoParError
<1>1. PoolInv => NoParError
  BY DEF PoolInv
<1>. QED
  BY <1>1, PoolInvariant, PTL
-----------------------------------------------------------------------------
(* The pool implements Lending. *)
LEMMA LentIsBorrowed == Promise!Lent = Borrowed
BY DEF Promise!Lent, Borrowed

LEMMA TakesAreLends ==
  ASSUME PoolInv, NEW c \in Clients, TakeFree(c) \/ BuildAndTake(c)
  PROVE  Promise!Lend(c)
<1>1. StoreInv /\ obj[c] = NoObject /\ pc \in [Clients -> Places]
  BY PoolFacts, TakeFreeKeepsPoolInv, BuildAndTakeKeepsPoolInv
<1>2. Starving' = Starving \ {c}
  BY <1>1 DEF Starving, TakeFree, BuildAndTake
<1>3. CASE TakeFree(c)
  <2>1. Head(free) \in Objects \ Borrowed /\ obj' = [obj EXCEPT ![c] = Head(free)]
    BY <1>1, <1>3, LendFreeKeepsStore DEF TakeFree, LendFree
  <2>. QED
    BY <1>1, <1>2, <2>1, LentIsBorrowed DEF Promise!Lend
<1>4. CASE BuildAndTake(c)
  <2>1. built + 1 \in Objects \ Borrowed /\ obj' = [obj EXCEPT ![c] = built + 1]
    BY <1>1, <1>4, LendNewKeepsStore DEF BuildAndTake, LendNew
  <2>. QED
    BY <1>1, <1>2, <2>1, LentIsBorrowed DEF Promise!Lend
<1>. QED
  BY <1>3, <1>4

LEMMA FindFullIsStarve ==
  ASSUME PoolInv, NEW c \in Clients, FindFull(c)
  PROVE  Promise!Starve(c)
<1>1. /\ obj[c] = NoObject /\ UNCHANGED obj /\ pc \in [Clients -> Places]
      /\ pc' = [pc EXCEPT ![c] = "full"] /\ StoreInv /\ NothingToLend
  BY PoolFacts, FindFullKeepsPoolInv DEF FindFull, store
<1>2. Starving' = Starving \cup {c}
  BY <1>1 DEF Starving
<1>. QED
  BY <1>1, <1>2, LentIsBorrowed, NothingToLendMeansAllLent DEF Promise!Starve

LEMMA ReleaseIsRestore ==
  ASSUME PoolInv, NEW c \in Clients, Release(c)
  PROVE  Promise!Restore(c)
<1>1. /\ obj[c] # NoObject /\ obj' = [obj EXCEPT ![c] = NoObject]
      /\ pc \in [Clients -> Places]
      /\ pc[c] = "using" /\ pc' = [pc EXCEPT ![c] = "notify"]
  BY PoolFacts DEF Release, TakeBack
<1>2. Starving' = Starving
  BY <1>1 DEF Starving
<1>. QED
  BY <1>1, <1>2 DEF Promise!Restore

(* The constructor of an object throws only at the first attempt, as a     *)
(* thread that starves never sees a pool that may grow.                    *)
LEMMA OthersStutter ==
  ASSUME PoolInv, NEW c \in Clients,
         \/ Begin(c) \/ BuildThrows(c) \/ GiveUp(c) \/ Sleep(c)
         \/ WakeSpuriously(c) \/ NotifyOne(c)
  PROVE  UNCHANGED <<obj, Starving>>
<1>1. pc \in [Clients -> Places] /\ (Starving # {} => built = MaxSize)
  BY PoolFacts
<1>2. UNCHANGED obj
  BY DEF Begin, BuildThrows, GiveUp, Sleep, WakeSpuriously, NotifyOne, store
<1>3. CASE BuildThrows(c)
  <2>1. pc[c] = "try" /\ pc' = [pc EXCEPT ![c] = "idle"]
    BY <1>1, <1>3 DEF BuildThrows, Trying, Waited, MayBuild, Starving
  <2>. QED
    BY <1>1, <1>2, <2>1 DEF Starving
<1>4. CASE Begin(c) \/ GiveUp(c) \/ Sleep(c) \/ WakeSpuriously(c) \/ NotifyOne(c)
  BY <1>1, <1>2, <1>4 DEF Starving, Begin, GiveUp, Sleep, WakeSpuriously, NotifyOne
<1>. QED
  BY <1>3, <1>4

(* Every step of the pool is one of Lending, or shows nothing there.       *)
LEMMA StepsAreLending ==
  PoolInv /\ [Next]_vars => [Promise!Next]_(Promise!lendingVars)
<1> SUFFICES ASSUME PoolInv, [Next]_vars
             PROVE  Promise!Next \/ UNCHANGED <<obj, Starving>>
  BY DEF Promise!lendingVars
<1>1. CASE UNCHANGED vars
  BY <1>1 DEF vars, store, Starving
<1>. QED
  BY <1>1, TakesAreLends, FindFullIsStarve, ReleaseIsRestore, OthersStutter
     DEF Next, Promise!Next

(* fixed_object_pool keeps the promise of Lending: no object is lent twice *)
(* and borrow_one waits only after it has found every object lent out.     *)
THEOREM PoolImplementsLending == Spec => ImplementsLending
<1>1. Init => Promise!Init
  BY DEF Init, Filled, Promise!Init, Starving
<1>. QED
  BY <1>1, StepsAreLending, PoolInvariant, PTL DEF Spec, ImplementsLending, Promise!Spec
-----------------------------------------------------------------------------
(***************************************************************************)
(* When a pool finds nothing to lend, each of its max_size objects has a   *)
(* borrower, and they are so many different clients that do not starve.    *)
(***************************************************************************)
LEMMA HoldersAreMany ==
  ASSUME Objects \subseteq Borrowed, NEW S \in SUBSET Clients,
         \A c \in S : obj[c] = NoObject
  PROVE  Cardinality(S) + MaxSize <= Cardinality(Clients)
<1> DEFINE T == Clients \ S
           holder == [o \in Objects |-> CHOOSE c \in T : obj[c] = o]
<1>1. IsFiniteSet(S) /\ IsFiniteSet(T) /\ Cardinality(T) = Cardinality(Clients) - Cardinality(S)
  <2>1. IsFiniteSet(S) /\ Clients \cap S = S
    BY FS_Subset
  <2>. QED
    BY <2>1, FS_Difference
<1>2. \A o \in Objects : holder[o] \in T /\ obj[holder[o]] = o
  <2>1. \A o \in Objects : \E c \in T : obj[c] = o
    BY DEF Borrowed
  <2>. QED
    BY <2>1
<1>3. holder \in [Objects -> T]
  BY <1>2
<1> HIDE DEF holder, T
<1>4. holder \in Injection(Objects, T)
  BY <1>2, <1>3 DEF Injection, IsInjective
<1>5. Cardinality(Objects) <= Cardinality(T)
  BY <1>1, <1>4, FS_Injection
<1>6. Cardinality(Objects) = MaxSize
  BY FS_Interval
<1>7. Cardinality(S) \in Nat /\ Cardinality(Clients) \in Nat
  BY <1>1, FS_CardinalityType
<1>. QED
  BY <1>1, <1>5, <1>6, <1>7

LEMMA NextKeepsOnlyExcessStarves ==
  ASSUME PoolInv, OnlyExcessStarves, [Next]_vars
  PROVE  OnlyExcessStarves'
<1>1. Starving \in SUBSET Clients /\ IsFiniteSet(Starving)
  BY FS_Subset DEF Starving
<1>2. CASE Starving' \subseteq Starving
  <2>1. IsFiniteSet(Starving') /\ Cardinality(Starving') <= Cardinality(Starving)
    BY <1>1, <1>2, FS_Subset
  <2>2. /\ Cardinality(Starving) \in Nat /\ Cardinality(Starving') \in Nat
        /\ Cardinality(Clients) \in Nat
    BY <1>1, <2>1, FS_CardinalityType
  <2>. QED
    BY <1>2, <2>1, <2>2 DEF OnlyExcessStarves
<1>3. ASSUME NEW c \in Clients, Promise!Starve(c) PROVE OnlyExcessStarves'
  <2>1. /\ Objects \subseteq Borrowed /\ obj[c] = NoObject
        /\ Starving' = Starving \cup {c}
    BY <1>3, LentIsBorrowed DEF Promise!Starve
  <2>2. \A d \in Starving : obj[d] = NoObject
    BY PoolFacts DEF Starving
  <2>3. Cardinality(Starving') + MaxSize <= Cardinality(Clients)
    BY <1>1, <2>1, <2>2, HoldersAreMany
  <2>. QED
    BY <2>3 DEF OnlyExcessStarves
<1>4. ASSUME NEW c \in Clients, Promise!Lend(c) \/ Promise!Restore(c)
      PROVE  Starving' \subseteq Starving
  BY <1>4 DEF Promise!Lend, Promise!Restore
<1>5. UNCHANGED Promise!lendingVars => Starving' \subseteq Starving
  BY DEF Promise!lendingVars
<1>. QED
  BY <1>2, <1>3, <1>4, <1>5, StepsAreLending DEF Promise!Next

(* However the threads interleave, borrow_one makes at most those wait  *)
(* that are more than max_size: none, in a pool as large as their number.  *)
THEOREM OnlyTheExcessStarves == Spec => []OnlyExcessStarves
<1>1. Init => OnlyExcessStarves
  BY DEF Init, Starving, OnlyExcessStarves
<1>2. PoolInv /\ OnlyExcessStarves /\ [Next]_vars => OnlyExcessStarves'
  BY NextKeepsOnlyExcessStarves
<1>. QED
  BY <1>1, <1>2, PoolInvariant, PTL DEF Spec
-----------------------------------------------------------------------------
(***************************************************************************)
(* A borrow resets the flag, though other objects may be free; but then it *)
(* has an object, and its release_one sets the flag and notifies again.    *)
(***************************************************************************)
UnsetIsLent == Starving # {} => ready \/ Borrowed # {}

RescueInv == PoolInv /\ UnsetIsLent /\ SleeperHasRescuer

(* The steps that move no object. *)
LEMMA QuietKeepsRescueInv ==
  ASSUME RescueInv, NEW c \in Clients,
         \/ Begin(c) \/ BuildThrows(c) \/ GiveUp(c) \/ Sleep(c)
         \/ WakeSpuriously(c) \/ NotifyOne(c)
  PROVE  UnsetIsLent' /\ SleeperHasRescuer'
<1>1. /\ PoolInv /\ UnsetIsLent /\ SleeperHasRescuer /\ pc \in [Clients -> Places]
      /\ Starving # {} => built = MaxSize
  BY PoolFacts DEF RescueInv
<1>2. UNCHANGED <<obj, built, free, ready>> /\ Borrowed' = Borrowed
  BY DEF Begin, BuildThrows, GiveUp, Sleep, WakeSpuriously, NotifyOne, store, Borrowed
<1>3. Starving' \subseteq Starving
  BY <1>1 DEF Begin, BuildThrows, GiveUp, Sleep, WakeSpuriously, NotifyOne, Trying,
              Waited, Starving
<1>4. UnsetIsLent'
  BY <1>1, <1>2, <1>3 DEF UnsetIsLent
<1>5. CASE Sleep(c)
  <2>1. ~ready /\ c \in Starving
    BY <1>5 DEF Sleep, Starving
  <2>. QED
    BY <1>1, <1>2, <1>4, <2>1 DEF UnsetIsLent, SleeperHasRescuer
<1>6. CASE NotifyOne(c)
  <2>1. Asleep' = {} \/ OnTheWay' # {}
    BY <1>1, <1>6 DEF NotifyOne, Asleep, OnTheWay
  <2>. QED
    BY <1>4, <2>1 DEF SleeperHasRescuer
<1>7. CASE BuildThrows(c) \/ Begin(c) \/ GiveUp(c) \/ WakeSpuriously(c)
  <2>1. pc[c] # "awake"
    <3>1. pc[c] = "awake" => Starving # {}
      BY DEF Starving
    <3>. QED
      BY <1>1, <1>7, <3>1 DEF BuildThrows, MayBuild, Begin, GiveUp, WakeSpuriously
  <2>2. Asleep' \subseteq Asleep /\ OnTheWay \subseteq OnTheWay'
    BY <1>1, <1>7, <2>1
       DEF BuildThrows, Trying, Waited, Begin, GiveUp, WakeSpuriously, Asleep, OnTheWay
  <2>. QED
    BY <1>1, <1>2, <1>4, <2>2 DEF SleeperHasRescuer
<1>. QED
  BY <1>5, <1>6, <1>7

LEMMA NextKeepsRescueInv == RescueInv /\ [Next]_vars => RescueInv'
<1> SUFFICES ASSUME RescueInv, [Next]_vars PROVE RescueInv'
  OBVIOUS
<1>1. /\ PoolInv /\ UnsetIsLent /\ SleeperHasRescuer /\ pc \in [Clients -> Places]
      /\ StoreInv
  BY PoolFacts DEF RescueInv
<1>2. PoolInv'
  BY <1>1, NextKeepsPoolInv
<1> SUFFICES UnsetIsLent' /\ SleeperHasRescuer'
  BY <1>2 DEF RescueInv
<1>3. ASSUME NEW c \in Clients, TakeFree(c) \/ BuildAndTake(c) PROVE Borrowed' # {}
  <2>1. pc'[c] = "using"
    BY <1>1, <1>3 DEF TakeFree, BuildAndTake
  <2>. QED
    BY <1>2, <2>1 DEF PoolInv, BorrowersUse, Borrowed
<1>4. ASSUME NEW c \in Clients, FindFull(c) PROVE Borrowed' # {}
  <2>1. Objects \subseteq Borrowed /\ 1 \in Objects
    BY <1>1, <1>4, NothingToLendMeansAllLent, ObjectStoreAssumption DEF FindFull, Objects
  <2>2. obj' = obj
    BY <1>4 DEF FindFull, store
  <2>. QED
    BY <2>1, <2>2 DEF Borrowed
<1>5. ASSUME NEW c \in Clients, Release(c) PROVE ready' /\ OnTheWay' # {}
  BY <1>1, <1>5 DEF Release, OnTheWay
<1>6. ASSUME NEW c \in Clients,
             \/ Begin(c) \/ BuildThrows(c) \/ GiveUp(c) \/ Sleep(c)
             \/ WakeSpuriously(c) \/ NotifyOne(c)
      PROVE  UnsetIsLent' /\ SleeperHasRescuer'
  BY <1>6, QuietKeepsRescueInv
<1>7. CASE UNCHANGED vars
  <2>1. Starving' = Starving /\ Asleep' = Asleep /\ OnTheWay' = OnTheWay
    BY <1>7 DEF vars, Starving, Asleep, OnTheWay
  <2>2. Borrowed' = Borrowed /\ ready' = ready
    BY <1>7 DEF vars, store, Borrowed
  <2>3. UnsetIsLent'
    BY <1>1, <2>1, <2>2 DEF UnsetIsLent
  <2>4. SleeperHasRescuer'
    BY <1>1, <2>1, <2>2 DEF SleeperHasRescuer
  <2>. QED
    BY <2>3, <2>4
<1>8. CASE Next
  <2>1. Borrowed' # {} => UnsetIsLent' /\ SleeperHasRescuer'
    BY DEF UnsetIsLent, SleeperHasRescuer
  <2>2. ready' /\ OnTheWay' # {} => UnsetIsLent' /\ SleeperHasRescuer'
    BY DEF UnsetIsLent, SleeperHasRescuer
  <2>3. PICK c \in Clients :
          \/ Begin(c) \/ TakeFree(c) \/ BuildAndTake(c) \/ BuildThrows(c)
          \/ FindFull(c) \/ GiveUp(c) \/ Sleep(c) \/ WakeSpuriously(c)
          \/ Release(c) \/ NotifyOne(c)
    BY <1>8 DEF Next
  <2>4. CASE TakeFree(c) \/ BuildAndTake(c)
    BY <1>3, <2>1, <2>4
  <2>5. CASE FindFull(c)
    BY <1>4, <2>1, <2>5
  <2>6. CASE Release(c)
    BY <1>5, <2>2, <2>6
  <2>7. CASE \/ Begin(c) \/ BuildThrows(c) \/ GiveUp(c) \/ Sleep(c)
             \/ WakeSpuriously(c) \/ NotifyOne(c)
    BY <1>6, <2>7
  <2>. QED
    BY <2>3, <2>4, <2>5, <2>6, <2>7
<1>. QED
  BY <1>7, <1>8

(* Whatever the size of the pool, no thread sleeps in one that is at rest: *)
(* a lent object, a notification or a thread awake is there to end it.     *)
THEOREM SleepersAreRescued == Spec => []SleeperHasRescuer
<1>1. Init => RescueInv
  BY InitPoolInv DEF Init, RescueInv, UnsetIsLent, SleeperHasRescuer, Starving, Asleep
<1>2. RescueInv => SleeperHasRescuer
  BY DEF RescueInv
<1>. QED
  BY <1>1, <1>2, NextKeepsRescueInv, PTL DEF Spec
=============================================================================
