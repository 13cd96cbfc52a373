--------------------------- MODULE CoroPoolProofs ---------------------------
(***************************************************************************)
(* Proofs about CoroPool for every set of coroutines, every pool size and  *)
(* every number of threads.                                                *)
(***************************************************************************)
EXTENDS CoroPool, FiniteSetTheorems, TLAPS

-----------------------------------------------------------------------------
(* The free list and the queue of waiting coroutines are sequences without *)
(* repetitions that are changed at their two ends.                         *)

(* Taking the first entry removes it, and only it, from the entries: what  *)
(* do_try_borrow_one and the event's cancel_one rely on.                   *)
LEMMA PopFront ==
  ASSUME NEW S, NEW s \in Seq(S), s # <<>>, IsInjective(s)
  PROVE  /\ Head(s) \in Range(s) /\ Head(s) \in S
         /\ Tail(s) \in Seq(S) /\ Len(Tail(s)) = Len(s) - 1
         /\ IsInjective(Tail(s))
         /\ Range(Tail(s)) = Range(s) \ {Head(s)}
<1> DEFINE t == Tail(s)
<1>1. /\ DOMAIN s = 1..Len(s) /\ Len(s) \in Nat \ {0}
      /\ Head(s) = s[1] /\ s[1] \in S /\ t \in Seq(S) /\ Len(t) = Len(s) - 1
      /\ DOMAIN t = 1..(Len(s) - 1) /\ \A i \in DOMAIN t : t[i] = s[i + 1]
  OBVIOUS
<1> HIDE DEF t
<1>2. 1 \in DOMAIN s /\ \A i \in DOMAIN t : i + 1 \in DOMAIN s /\ i + 1 # 1
  BY <1>1
<1>3. \A i \in DOMAIN s : i = 1 \/ \E j \in DOMAIN t : i = j + 1
  <2>1. \A i \in DOMAIN s : i = 1 \/ (i - 1 \in DOMAIN t /\ i = (i - 1) + 1)
    BY <1>1
  <2>. QED
    BY <2>1
<1>4. IsInjective(t)
  <2>1. \A i, j \in DOMAIN t : i + 1 = j + 1 => i = j
    BY <1>1
  <2>. QED
    BY <1>1, <1>2, <2>1 DEF IsInjective
<1>5. Range(t) = Range(s) \ {s[1]}
  BY <1>1, <1>2, <1>3 DEF IsInjective, Range
<1>. QED
  BY <1>1, <1>2, <1>4, <1>5 DEF t, Range

(* Putting an entry that is not in the list first, as release_one does.    *)
LEMMA PushFront ==
  ASSUME NEW S, NEW s \in Seq(S), NEW e \in S, IsInjective(s), e \notin Range(s)
  PROVE  /\ <<e>> \o s \in Seq(S) /\ Len(<<e>> \o s) = Len(s) + 1
         /\ IsInjective(<<e>> \o s)
         /\ Range(<<e>> \o s) = Range(s) \cup {e}
<1> DEFINE t == <<e>> \o s
<1>1. /\ DOMAIN s = 1..Len(s) /\ Len(s) \in Nat
      /\ t \in Seq(S) /\ Len(t) = Len(s) + 1 /\ DOMAIN t = 1..(Len(s) + 1)
      /\ t[1] = e /\ \A i \in DOMAIN s : t[i + 1] = s[i]
  OBVIOUS
<1> HIDE DEF t
<1>2. 1 \in DOMAIN t /\ \A i \in DOMAIN s : i + 1 \in DOMAIN t
  BY <1>1
<1>3. \A i \in DOMAIN t : i = 1 \/ \E j \in DOMAIN s : i = j + 1
  <2>1. \A i \in DOMAIN t : i = 1 \/ (i - 1 \in DOMAIN s /\ i = (i - 1) + 1)
    BY <1>1
  <2>. QED
    BY <2>1
<1>4. IsInjective(t)
  BY <1>1, <1>3 DEF IsInjective, Range
<1>5. Range(t) = Range(s) \cup {e}
  BY <1>1, <1>2, <1>3 DEF Range
<1>. QED
  BY <1>1, <1>4, <1>5 DEF t

(* Putting an entry that is not in the list last, as async_wait does. *)
LEMMA PushBack ==
  ASSUME NEW S, NEW s \in Seq(S), NEW e \in S, IsInjective(s), e \notin Range(s)
  PROVE  /\ Append(s, e) \in Seq(S) /\ Len(Append(s, e)) = Len(s) + 1
         /\ IsInjective(Append(s, e))
         /\ Range(Append(s, e)) = Range(s) \cup {e}
<1> DEFINE t == Append(s, e)
           n == Len(s)
<1>1. /\ DOMAIN s = 1..n /\ n \in Nat
      /\ t \in Seq(S) /\ Len(t) = n + 1 /\ DOMAIN t = 1..(n + 1)
      /\ t[n + 1] = e /\ \A i \in 1..n : t[i] = s[i]
  OBVIOUS
<1> HIDE DEF t, n
<1>2. \A i \in DOMAIN t : i = n + 1 \/ (i \in DOMAIN s /\ t[i] = s[i])
  BY <1>1
<1>3. IsInjective(t)
  BY <1>1, <1>2 DEF IsInjective, Range
<1>4. Range(t) = Range(s) \cup {e}
  <2>1. \A i \in DOMAIN s : i \in DOMAIN t /\ t[i] = s[i]
    BY <1>1
  <2>2. n + 1 \in DOMAIN t
    BY <1>1
  <2>. QED
    BY <1>1, <1>2, <2>1, <2>2 DEF Range
<1>. QED
  BY <1>1, <1>3, <1>4 DEF t, n

-----------------------------------------------------------------------------
(* The critical sections of buffer_mutex keep every object in one place.   *)
USE ObjectStoreAssumption, CoroPoolAssumption
    DEF Objects, NoObject, Places, RunningPlaces, Goto

StoreInv == StoreTypeOK /\ OneHome /\ MarkedAgrees

(* StoreInv with its parts expanded, in the form the lemmas use. *)
LEMMA StoreFacts ==
  StoreInv <=>
    /\ obj \in [Clients -> 0..MaxSize] /\ built \in 0..MaxSize
    /\ free \in Seq(1..MaxSize) /\ marked \in SUBSET (1..MaxSize)
    /\ IsInjective(free) /\ HeldByOne
    /\ Range(free) \cap Borrowed = {} /\ Range(free) \cup Borrowed = 1..built
    /\ marked = Range(free)
<1>1. Objects \cup {NoObject} = 0..MaxSize
  OBVIOUS
<1>. QED
  BY <1>1 DEF StoreInv, StoreTypeOK, OneHome, ListedOnce, ListedNotBorrowed,
              NoneLost, MarkedAgrees

LEMMA FilledStore ==
  ASSUME NEW n \in 0..MaxSize, Filled(n)
  PROVE  StoreInv
<1>1. /\ free \in Seq(1..MaxSize) /\ DOMAIN free = 1..n /\ \A i \in 1..n : free[i] = i
  BY DEF Filled
<1>2. IsInjective(free) /\ Range(free) = 1..n
  BY <1>1 DEF IsInjective, Range
<1>3. /\ obj \in [Clients -> 0..MaxSize] /\ built = n /\ marked = 1..n
      /\ Borrowed = {} /\ HeldByOne
  BY DEF Filled, Borrowed, HeldByOne
<1>. QED
  BY <1>1, <1>2, <1>3, StoreFacts

LEMMA LendFreeKeepsStore ==
  ASSUME StoreInv, NEW c \in Clients, obj[c] = NoObject, LendFree(c)
  PROVE  /\ StoreInv'
         /\ Head(free) \in Objects \ Borrowed
         /\ Len(free') = Len(free) - 1
<1>1. /\ obj \in [Clients -> 0..MaxSize] /\ built \in 0..MaxSize
      /\ free \in Seq(1..MaxSize) /\ IsInjective(free) /\ HeldByOne
      /\ Range(free) \cap Borrowed = {} /\ Range(free) \cup Borrowed = 1..built
      /\ marked = Range(free)
  BY StoreFacts
<1>2. /\ obj' = [obj EXCEPT ![c] = Head(free)] /\ marked' = marked \ {Head(free)}
      /\ free # <<>> /\ free' = Tail(free) /\ built' = built
  BY DEF LendFree
<1>3. /\ Head(free) \in Range(free) /\ Head(free) \in 1..MaxSize
      /\ free' \in Seq(1..MaxSize) /\ IsInjective(free') /\ Len(free') = Len(free) - 1
      /\ Range(free') = Range(free) \ {Head(free)}
  BY <1>1, <1>2, PopFront
<1>4. Borrowed' = Borrowed \cup {Head(free)}
  BY <1>1, <1>2, <1>3 DEF Borrowed
<1>5. HeldByOne'
  <2>1. Head(free) \notin Borrowed /\ Head(free) # 0
    BY <1>1, <1>3
  <2>2. \A d \in Clients : obj[d] # Head(free)
    BY <2>1 DEF Borrowed
  <2>. QED
    BY <1>1, <1>2, <2>2 DEF HeldByOne
<1>6. obj' \in [Clients -> 0..MaxSize] /\ marked' \in SUBSET (1..MaxSize)
  BY <1>1, <1>2, <1>3
<1>7. /\ Range(free') \cap Borrowed' = {} /\ Range(free') \cup Borrowed' = 1..built'
      /\ marked' = Range(free')
  BY <1>1, <1>2, <1>3, <1>4
<1>8. StoreInv'
  BY <1>1, <1>2, <1>3, <1>5, <1>6, <1>7
     DEF StoreInv, StoreTypeOK, OneHome, ListedOnce, ListedNotBorrowed, NoneLost,
         MarkedAgrees
<1>. QED
  BY <1>1, <1>3, <1>8

LEMMA LendNewKeepsStore ==
  ASSUME StoreInv, NEW c \in Clients, obj[c] = NoObject, LendNew(c)
  PROVE  StoreInv' /\ built + 1 \in Objects \ Borrowed
<1>1. /\ obj \in [Clients -> 0..MaxSize] /\ built \in 0..(MaxSize - 1)
      /\ free \in Seq(1..MaxSize) /\ marked \in SUBSET (1..MaxSize)
      /\ IsInjective(free) /\ HeldByOne /\ marked = Range(free)
      /\ Range(free) \cap Borrowed = {} /\ Range(free) \cup Borrowed = 1..built
  BY StoreFacts DEF LendNew, MayBuild
<1>2. /\ obj' = [obj EXCEPT ![c] = built + 1] /\ built' = built + 1
      /\ UNCHANGED <<free, marked>>
  BY DEF LendNew
<1>3. Borrowed' = Borrowed \cup {built + 1}
  BY <1>1, <1>2 DEF Borrowed
<1>4. built + 1 \notin 1..built /\ 1..(built + 1) = 1..built \cup {built + 1}
  BY <1>1
<1>5. HeldByOne'
  <2>1. \A d \in Clients : obj[d] # built + 1
    BY <1>1, <1>4 DEF Borrowed
  <2>. QED
    BY <1>1, <1>2, <2>1 DEF HeldByOne
<1>6. obj' \in [Clients -> 0..MaxSize] /\ built' \in 0..MaxSize
  BY <1>1, <1>2
<1>7. Range(free') \cap Borrowed' = {} /\ Range(free') \cup Borrowed' = 1..built'
  BY <1>1, <1>2, <1>3, <1>4
<1>8. StoreInv'
  BY <1>1, <1>2, <1>5, <1>6, <1>7
     DEF StoreInv, StoreTypeOK, OneHome, ListedOnce, ListedNotBorrowed, NoneLost,
         MarkedAgrees
<1>. QED
  BY <1>1, <1>4, <1>8

LEMMA TakeBackKeepsStore ==
  ASSUME StoreInv, NEW c \in Clients, obj[c] # NoObject, TakeBack(c)
  PROVE  StoreInv' /\ Len(free') = Len(free) + 1
<1>1. /\ obj[c] \in 1..MaxSize /\ obj \in [Clients -> 0..MaxSize]
      /\ built \in 0..MaxSize /\ marked = Range(free)
      /\ free \in Seq(1..MaxSize) /\ IsInjective(free) /\ HeldByOne
      /\ Range(free) \cap Borrowed = {} /\ Range(free) \cup Borrowed = 1..built
  BY StoreFacts
<1>2. /\ obj' = [obj EXCEPT ![c] = 0] /\ built' = built
      /\ marked' = marked \cup {obj[c]} /\ free' = <<obj[c]>> \o free
  BY DEF TakeBack
<1>3. obj[c] \in Borrowed /\ obj[c] \notin Range(free)
  BY <1>1 DEF Borrowed
<1>4. /\ free' \in Seq(1..MaxSize) /\ Len(free') = Len(free) + 1
      /\ IsInjective(free') /\ Range(free') = Range(free) \cup {obj[c]}
  BY <1>1, <1>2, <1>3, PushFront
<1>5. Borrowed' = Borrowed \ {obj[c]}
  BY <1>1, <1>2 DEF Borrowed, HeldByOne
<1>6. HeldByOne' /\ obj' \in [Clients -> 0..MaxSize]
  BY <1>1, <1>2 DEF HeldByOne
<1>7. /\ Range(free') \cap Borrowed' = {} /\ Range(free') \cup Borrowed' = 1..built'
      /\ marked' = Range(free') /\ marked' \in SUBSET (1..MaxSize)
  BY <1>1, <1>2, <1>3, <1>4, <1>5
<1>8. StoreInv'
  BY <1>1, <1>2, <1>4, <1>6, <1>7
     DEF StoreInv, StoreTypeOK, OneHome, ListedOnce, ListedNotBorrowed, NoneLost,
         MarkedAgrees
<1>. QED
  BY <1>4, <1>8

(* A pool with nothing to lend has lent all it can ever have. *)
LEMMA NothingToLendMeansAllLent ==
  ASSUME StoreInv, NothingToLend
  PROVE  Objects \subseteq Borrowed /\ built = MaxSize
<1>1. free = <<>> /\ built = MaxSize /\ Range(free) \cup Borrowed = 1..built
  BY StoreFacts DEF NothingToLend
<1>. QED
  BY <1>1 DEF Range

LEMMA StoreUnchanged ==
  ASSUME StoreInv, UNCHANGED store
  PROVE  StoreInv'
BY DEF store, StoreInv, StoreTypeOK, OneHome, ListedOnce, HeldByOne, ListedNotBorrowed,
       NoneLost, MarkedAgrees, Borrowed

-----------------------------------------------------------------------------
(* Who holds an object is who is at "using", and who is in the event's     *)
(* queue is who is at "waiting".                                           *)
BorrowersUse == \A c \in Clients : pc[c] = "using" <=> obj[c] # NoObject

QueueWaits ==
  /\ IsInjective(waitq)
  /\ \A c \in Clients : pc[c] = "waiting" <=> c \in Range(waitq)

(* A coroutine was told "nothing to borrow" by a pool of the full size. *)
StarvedOfFullPool == Starving # {} => built = MaxSize

PoolInv ==
  /\ TypeOK
  /\ StoreInv
  /\ BorrowersUse
  /\ QueueWaits
  /\ StarvedOfFullPool

LEMMA InitPoolInv == Init => PoolInv
<1> SUFFICES ASSUME Init PROVE PoolInv
  OBVIOUS
<1>1. StoreInv
  BY FilledStore DEF Init
<1>2. obj = [c \in Clients |-> 0]
  BY DEF Init, Filled
<1>3. IsInjective(waitq) /\ Range(waitq) = {} /\ waitq \in Seq(Clients)
  BY DEF Init, IsInjective, Range
<1>. QED
  BY <1>1, <1>2, <1>3
     DEF Init, PoolInv, StoreInv, TypeOK, BorrowersUse, QueueWaits,
         StarvedOfFullPool, Starving

(* The types of pc and of the queue, and what the queue says about pc. *)
LEMMA PoolFacts ==
  ASSUME PoolInv
  PROVE  /\ StoreInv /\ pc \in [Clients -> Places] /\ waitq \in Seq(Clients)
         /\ IsInjective(waitq) /\ built \in 0..MaxSize
         /\ \A c \in Clients : pc[c] = "using" <=> obj[c] # NoObject
         /\ \A c \in Clients : pc[c] = "waiting" <=> c \in Range(waitq)
         /\ Starving # {} => built = MaxSize
BY DEF PoolInv, TypeOK, StoreTypeOK, BorrowersUse, QueueWaits, StarvedOfFullPool

(* A notification goes to a coroutine that is suspended on the event. *)
LEMMA NotifiedWaits ==
  ASSUME PoolInv, waitq # <<>>
  PROVE  /\ Head(waitq) \in Clients /\ pc[Head(waitq)] = "waiting"
         /\ Tail(waitq) \in Seq(Clients)
BY PoolFacts, PopFront
-----------------------------------------------------------------------------
(* The part of PoolInv about the objects and their borrowers. *)
LEMMA NextKeepsStore ==
  ASSUME PoolInv, [Next]_vars
  PROVE  TypeOK' /\ StoreInv' /\ BorrowersUse'
<1> USE PoolFacts
<1> SUFFICES /\ StoreInv' /\ pc' \in [Clients -> Places] /\ waitq' \in Seq(Clients)
             /\ \A c \in Clients : pc'[c] = "using" <=> obj'[c] # NoObject
  BY DEF TypeOK, StoreInv, BorrowersUse
<1> DEFINE Goal == /\ StoreInv' /\ pc' \in [Clients -> Places] /\ waitq' \in Seq(Clients)
                   /\ \A c \in Clients : pc'[c] = "using" <=> obj'[c] # NoObject
<1>1. ASSUME NEW c \in Clients, Begin(c) \/ BuildThrows(c) \/ FindFull(c) \/ Resume(c)
      PROVE  Goal
  <2>1. UNCHANGED store /\ UNCHANGED obj
    BY <1>1 DEF Begin, BuildThrows, FindFull, Resume, store
  <2>. QED
    BY <1>1, <2>1, StoreUnchanged DEF Begin, BuildThrows, FindFull, Resume, Trying
<1>2. ASSUME NEW c \in Clients, TakeFree(c) PROVE Goal
  <2>1. obj[c] = NoObject
    BY <1>2 DEF TakeFree, Trying
  <2>2. StoreInv' /\ Head(free) \in Objects \ Borrowed
    BY <1>2, <2>1, LendFreeKeepsStore DEF TakeFree
  <2>3. obj' = [obj EXCEPT ![c] = Head(free)] /\ obj \in [Clients -> 0..MaxSize]
    BY <1>2, StoreFacts DEF TakeFree, LendFree
  <2>. QED
    BY <1>2, <2>2, <2>3 DEF TakeFree
<1>3. ASSUME NEW c \in Clients, BuildAndTake(c) PROVE Goal
  <2>1. obj[c] = NoObject
    BY <1>3 DEF BuildAndTake, Trying
  <2>2. StoreInv' /\ built + 1 \in Objects \ Borrowed
    BY <1>3, <2>1, LendNewKeepsStore DEF BuildAndTake
  <2>3. obj' = [obj EXCEPT ![c] = built + 1] /\ obj \in [Clients -> 0..MaxSize]
    BY <1>3, StoreFacts DEF BuildAndTake, LendNew
  <2>. QED
    BY <1>3, <2>2, <2>3 DEF BuildAndTake
<1>4. ASSUME NEW c \in Clients, Release(c) PROVE Goal
  <2>1. StoreInv'
    BY <1>4, TakeBackKeepsStore DEF Release
  <2>2. obj' = [obj EXCEPT ![c] = NoObject] /\ obj \in [Clients -> 0..MaxSize]
    BY <1>4, StoreFacts DEF Release, TakeBack
  <2>. QED
    BY <1>4, <2>1, <2>2 DEF Release
<1>5. ASSUME NEW c \in Clients, AsyncWait(c) PROVE Goal
  <2>1. UNCHANGED store /\ UNCHANGED obj /\ waitq' \in Seq(Clients)
    BY <1>5, PushBack DEF AsyncWait, store
  <2>. QED
    BY <1>5, <2>1, StoreUnchanged DEF AsyncWait
<1>6. ASSUME NEW c \in Clients, NotifyOne(c) PROVE Goal
  <2>1. UNCHANGED store /\ UNCHANGED obj /\ waitq' \in Seq(Clients)
    BY <1>6, NotifiedWaits DEF NotifyOne, store
  <2>. QED
    BY <1>6, <2>1, StoreUnchanged, NotifiedWaits DEF NotifyOne
<1>7. CASE UNCHANGED vars
  BY <1>7, StoreUnchanged DEF vars, store
<1>. QED
  BY <1>1, <1>2, <1>3, <1>4, <1>5, <1>6, <1>7 DEF Next

(***************************************************************************)
(* The part about the coroutines that starve: async_wait puts one in the   *)
(* queue, notify_one takes the oldest out, and no other step touches the   *)
(* queue or a coroutine in it.                                             *)
(***************************************************************************)
LEMMA NextKeepsWaiters ==
  ASSUME PoolInv, [Next]_vars
  PROVE  QueueWaits' /\ StarvedOfFullPool'
<1>1. /\ pc \in [Clients -> Places] /\ waitq \in Seq(Clients)
      /\ IsInjective(waitq) /\ built \in 0..MaxSize
      /\ \A c \in Clients : pc[c] = "waiting" <=> c \in Range(waitq)
      /\ Starving # {} => built = MaxSize
  BY PoolFacts
<1>2. ASSUME NEW c \in Clients,
             \/ Begin(c) \/ TakeFree(c) \/ BuildAndTake(c) \/ BuildThrows(c)
             \/ Resume(c) \/ Release(c)
      PROVE  QueueWaits' /\ StarvedOfFullPool'
  <2>1. /\ waitq' = waitq
        /\ \A d \in Clients : pc'[d] = "waiting" <=> pc[d] = "waiting"
    BY <1>1, <1>2 DEF Begin, TakeFree, BuildAndTake, BuildThrows, Resume, Release, Trying
  <2>2. /\ Starving' \subseteq Starving
        /\ built' = built \/ built # MaxSize
    BY <1>1, <1>2
       DEF Starving, Begin, TakeFree, LendFree, BuildAndTake, LendNew, MayBuild,
           BuildThrows, Resume, Release, TakeBack, Trying, store
  <2>. QED
    BY <1>1, <2>1, <2>2 DEF QueueWaits, StarvedOfFullPool
<1>3. ASSUME NEW c \in Clients, FindFull(c) PROVE QueueWaits' /\ StarvedOfFullPool'
  <2>1. /\ waitq' = waitq /\ built' = MaxSize
        /\ \A d \in Clients : pc'[d] = "waiting" <=> pc[d] = "waiting"
    BY <1>1, <1>3 DEF FindFull, NothingToLend, Trying, store
  <2>. QED
    BY <1>1, <2>1 DEF QueueWaits, StarvedOfFullPool
<1>4. ASSUME NEW c \in Clients, AsyncWait(c) PROVE QueueWaits' /\ StarvedOfFullPool'
  <2>1. /\ pc[c] = "full" /\ pc' = [pc EXCEPT ![c] = "waiting"]
        /\ waitq' = Append(waitq, c) /\ built' = built /\ c \notin Range(waitq)
    BY <1>1, <1>4 DEF AsyncWait, store
  <2>2. IsInjective(waitq') /\ Range(waitq') = Range(waitq) \cup {c}
    BY <1>1, <2>1, PushBack
  <2>3. c \in Starving
    BY <2>1 DEF Starving
  <2>. QED
    BY <1>1, <2>1, <2>2, <2>3 DEF QueueWaits, StarvedOfFullPool
<1>5. ASSUME NEW c \in Clients, NotifyOne(c) PROVE QueueWaits' /\ StarvedOfFullPool'
  <2>1. CASE waitq = <<>>
    <3>1. /\ waitq' = waitq /\ built' = built
          /\ pc[c] = "notify" /\ pc' = [pc EXCEPT ![c] = "idle"]
      BY <1>1, <1>5, <2>1 DEF NotifyOne, store
    <3>2. Starving' = Starving
      BY <1>1, <3>1 DEF Starving
    <3>. QED
      BY <1>1, <3>1, <3>2 DEF QueueWaits, StarvedOfFullPool
  <2>2. CASE waitq # <<>>
    <3>1. /\ waitq' = Tail(waitq) /\ built' = built /\ pc[c] = "notify"
          /\ pc' = [pc EXCEPT ![c] = "idle", ![Head(waitq)] = "woken"]
      BY <1>1, <1>5, <2>2 DEF NotifyOne, store
    <3>2. /\ Head(waitq) \in Clients /\ Head(waitq) \in Range(waitq)
          /\ IsInjective(waitq') /\ Range(waitq') = Range(waitq) \ {Head(waitq)}
      BY <1>1, <2>2, <3>1, PopFront
    <3>3. pc[Head(waitq)] = "waiting" /\ Head(waitq) # c
      BY <1>1, <3>1, <3>2
    <3>4. Starving' = Starving
      BY <1>1, <3>1, <3>2, <3>3 DEF Starving
    <3>. QED
      BY <1>1, <3>1, <3>2, <3>3, <3>4 DEF QueueWaits, StarvedOfFullPool
  <2>. QED
    BY <2>1, <2>2
<1>6. CASE UNCHANGED vars
  BY <1>1, <1>6 DEF vars, store, QueueWaits, StarvedOfFullPool, Starving
<1>. QED
  BY <1>2, <1>3, <1>4, <1>5, <1>6 DEF Next

LEMMA NextKeepsPoolInv == PoolInv /\ [Next]_vars => PoolInv'
BY NextKeepsStore, NextKeepsWaiters DEF PoolInv

(* The invariant holds of every reachable state of the pool. *)
THEOREM PoolInvariant == Spec => []PoolInv
BY InitPoolInv, NextKeepsPoolInv, PTL DEF Spec

(* Every variable of the pool keeps its type: in particular no more than   *)
(* max_size objects are built and no pointer other than theirs is listed.  *)
THEOREM PoolTypeCorrect == Spec => []TypeOK
<1>1. PoolInv => TypeOK
  BY DEF PoolInv
<1>. QED
  BY <1>1, PoolInvariant, PTL

(* borrow_one never lends one object to two coroutines and release_one     *)
(* never loses one, in every interleaving of any number of threads.        *)
THEOREM ObjectsHaveOneHome == Spec => []OneHome
<1>1. PoolInv => OneHome
  BY DEF PoolInv, StoreInv
<1>. QED
  BY <1>1, PoolInvariant, PTL

(* The is_free mark that the borrow and release critical sections keep next *)
(* to an object says whether the object is in free_list.                    *)
THEOREM MarksAgreeWithFreeList == Spec => []MarkedAgrees
<1>1. PoolInv => MarkedAgrees
  BY DEF PoolInv, StoreInv
<1>. QED
  BY <1>1, PoolInvariant, PTL
-----------------------------------------------------------------------------
(***************************************************************************)
(* The pool implements Lending.  FindFull is the step with something to    *)
(* show: it finds no free object and a pool of the full size, so that      *)
(* every object that can ever exist is with a borrower.                    *)
(***************************************************************************)
LEMMA LentIsBorrowed == Promise!Lent = Borrowed
BY DEF Promise!Lent, Borrowed

LEMMA TakesAreLends ==
  ASSUME PoolInv, NEW c \in Clients, TakeFree(c) \/ BuildAndTake(c)
  PROVE  Promise!Lend(c)
<1>1. StoreInv /\ obj[c] = NoObject /\ pc \in [Clients -> Places]
  BY PoolFacts DEF TakeFree, BuildAndTake, Trying
<1>2. Starving' = Starving \ {c}
  BY <1>1 DEF Starving, TakeFree, BuildAndTake
<1>3. CASE TakeFree(c)
  <2>1. Head(free) \in Objects \ Borrowed /\ obj' = [obj EXCEPT ![c] = Head(free)]
    BY <1>1, <1>3, LendFreeKeepsStore DEF TakeFree, LendFree
  <2>. QED
    BY <1>1, <1>2, <2>1, LentIsBorrowed DEF Promise!Lend
<1>4. CASE BuildAndTake(c)
  <2>1. built + 1 \in Objects \ Borrowed /\ obj' = [obj EXCEPT ![c] = built + 1]
    BY <1>1, <1>4, LendNewKeepsStore DEF BuildAndTake, LendNew
  <2>. QED
    BY <1>1, <1>2, <2>1, LentIsBorrowed DEF Promise!Lend
<1>. QED
  BY <1>3, <1>4

LEMMA FindFullIsStarve ==
  ASSUME PoolInv, NEW c \in Clients, FindFull(c)
  PROVE  Promise!Starve(c)
<1>1. /\ obj[c] = NoObject /\ UNCHANGED obj /\ pc \in [Clients -> Places]
      /\ pc' = [pc EXCEPT ![c] = "full"] /\ StoreInv /\ NothingToLend
  BY PoolFacts DEF FindFull, Trying, store
<1>2. Starving' = Starving \cup {c}
  BY <1>1 DEF Starving
<1>. QED
  BY <1>1, <1>2, LentIsBorrowed, NothingToLendMeansAllLent DEF Promise!Starve

LEMMA ReleaseIsRestore ==
  ASSUME PoolInv, NEW c \in Clients, Release(c)
  PROVE  Promise!Restore(c)
<1>1. /\ obj[c] # NoObject /\ obj' = [obj EXCEPT ![c] = NoObject]
      /\ pc \in [Clients -> Places]
      /\ pc[c] = "using" /\ pc' = [pc EXCEPT ![c] = "notify"]
  BY PoolFacts DEF Release, TakeBack
<1>2. Starving' = Starving
  BY <1>1 DEF Starving
<1>. QED
  BY <1>1, <1>2 DEF Promise!Restore

(* The constructor of an object throws only at the first attempt of a      *)
(* borrow_one: a coroutine that starves never sees a pool that may grow.   *)
LEMMA OthersStutter ==
  ASSUME PoolInv, NEW c \in Clients,
         Begin(c) \/ BuildThrows(c) \/ AsyncWait(c) \/ Resume(c) \/ NotifyOne(c)
  PROVE  UNCHANGED <<obj, Starving>>
<1>1. pc \in [Clients -> Places] /\ (Starving # {} => built = MaxSize)
  BY PoolFacts
<1>2. CASE Begin(c) \/ AsyncWait(c) \/ Resume(c)
  BY <1>1, <1>2 DEF Starving, Begin, AsyncWait, Resume, store
<1>3. CASE BuildThrows(c)
  <2>1. pc[c] = "try" /\ pc' = [pc EXCEPT ![c] = "idle"] /\ UNCHANGED obj
    BY <1>1, <1>3 DEF BuildThrows, Trying, MayBuild, Starving, store
  <2>. QED
    BY <1>1, <2>1 DEF Starving
<1>4. CASE NotifyOne(c)
  BY <1>1, <1>4, NotifiedWaits DEF NotifyOne, Starving, store
<1>. QED
  BY <1>2, <1>3, <1>4

(* Every step of the pool is one of Lending, or shows nothing there.       *)
LEMMA StepsAreLending ==
  PoolInv /\ [Next]_vars => [Promise!Next]_(Promise!lendingVars)
<1> SUFFICES ASSUME PoolInv, [Next]_vars
             PROVE  Promise!Next \/ UNCHANGED <<obj, Starving>>
  BY DEF Promise!lendingVars
<1>1. CASE UNCHANGED vars
  BY <1>1 DEF vars, store, Starving
<1>. QED
  BY <1>1, TakesAreLends, FindFullIsStarve, ReleaseIsRestore, OthersStutter
     DEF Next, Promise!Next

(* fixed_object_pool_coro keeps the promise of Lending: no object is lent  *)
(* twice and borrow_one suspends only when every object is lent out.       *)
THEOREM PoolImplementsLending == Spec => ImplementsLending
<1>1. Init => Promise!Init
  BY DEF Init, Filled, Promise!Init, Starving
<1>. QED
  BY <1>1, StepsAreLending, PoolInvariant, PTL DEF Spec, ImplementsLending, Promise!Spec
-----------------------------------------------------------------------------
(***************************************************************************)
(* When a pool finds nothing to lend, each of its max_size objects has a   *)
(* borrower, and they are so many different clients that do not starve.    *)
(***************************************************************************)
LEMMA HoldersAreMany ==
  ASSUME Objects \subseteq Borrowed, NEW S \in SUBSET Clients,
         \A c \in S : obj[c] = NoObject
  PROVE  Cardinality(S) + MaxSize <= Cardinality(Clients)
<1> DEFINE T == Clients \ S
           holder == [o \in Objects |-> CHOOSE c \in T : obj[c] = o]
<1>1. IsFiniteSet(S) /\ IsFiniteSet(T) /\ Cardinality(T) = Cardinality(Clients) - Cardinality(S)
  <2>1. IsFiniteSet(S) /\ Clients \cap S = S
    BY FS_Subset
  <2>. QED
    BY <2>1, FS_Difference
<1>2. \A o \in Objects : holder[o] \in T /\ obj[holder[o]] = o
  <2>1. \A o \in Objects : \E c \in T : obj[c] = o
    BY DEF Borrowed
  <2>. QED
    BY <2>1
<1>3. holder \in [Objects -> T]
  BY <1>2
<1> HIDE DEF holder, T
<1>4. holder \in Injection(Objects, T)
  BY <1>2, <1>3 DEF Injection, IsInjective
<1>5. Cardinality(Objects) <= Cardinality(T)
  BY <1>1, <1>4, FS_Injection
<1>6. Cardinality(Objects) = MaxSize
  BY FS_Interval
<1>7. Cardinality(S) \in Nat /\ Cardinality(Clients) \in Nat
  BY <1>1, FS_CardinalityType
<1>. QED
  BY <1>1, <1>5, <1>6, <1>7

LEMMA NextKeepsOnlyExcessStarves ==
  ASSUME PoolInv, OnlyExcessStarves, [Next]_vars
  PROVE  OnlyExcessStarves'
<1>1. Starving \in SUBSET Clients /\ IsFiniteSet(Starving)
  BY FS_Subset DEF Starving
<1>2. CASE Starving' \subseteq Starving
  <2>1. IsFiniteSet(Starving') /\ Cardinality(Starving') <= Cardinality(Starving)
    BY <1>1, <1>2, FS_Subset
  <2>2. /\ Cardinality(Starving) \in Nat /\ Cardinality(Starving') \in Nat
        /\ Cardinality(Clients) \in Nat
    BY <1>1, <2>1, FS_CardinalityType
  <2>. QED
    BY <1>2, <2>1, <2>2 DEF OnlyExcessStarves
<1>3. ASSUME NEW c \in Clients, Promise!Starve(c) PROVE OnlyExcessStarves'
  <2>1. /\ Objects \subseteq Borrowed /\ obj[c] = NoObject
        /\ Starving' = Starving \cup {c}
    BY <1>3, LentIsBorrowed DEF Promise!Starve
  <2>2. \A d \in Starving : obj[d] = NoObject
    BY PoolFacts DEF Starving
  <2>3. Cardinality(Starving') + MaxSize <= Cardinality(Clients)
    BY <1>1, <2>1, <2>2, HoldersAreMany
  <2>. QED
    BY <2>3 DEF OnlyExcessStarves
<1>4. ASSUME NEW c \in Clients, Promise!Lend(c) \/ Promise!Restore(c)
      PROVE  Starving' \subseteq Starving
  BY <1>4 DEF Promise!Lend, Promise!Restore
<1>5. UNCHANGED Promise!lendingVars => Starving' \subseteq Starving
  BY DEF Promise!lendingVars
<1>. QED
  BY <1>2, <1>3, <1>4, <1>5, StepsAreLending DEF Promise!Next

(* However the coroutines interleave, borrow_one makes at most those wait  *)
(* that are more than max_size: none, in a pool as large as their number.  *)
THEOREM OnlyTheExcessStarves == Spec => []OnlyExcessStarves
<1>1. Init => OnlyExcessStarves
  BY DEF Init, Starving, OnlyExcessStarves
<1>2. PoolInv /\ OnlyExcessStarves /\ [Next]_vars => OnlyExcessStarves'
  BY NextKeepsOnlyExcessStarves
<1>. QED
  BY <1>1, <1>2, PoolInvariant, PTL DEF Spec
-----------------------------------------------------------------------------
(***************************************************************************)
(* No wake-up is lost when one thread runs io_context: between the check   *)
(* that finds the pool full and async_wait nothing else runs, so what the  *)
(* check saw is still so when the wait begins.                             *)
(***************************************************************************)
FullIsCurrent == \A c \in Clients : pc[c] = "full" => free = <<>>

OneThreadInv == PoolInv /\ FullIsCurrent /\ NoLostWakeup

LEMMA ReleasesRunAlone ==
  ASSUME PoolInv, Threads = 1, NEW c \in Clients, Release(c)
  PROVE  \A d \in Clients : pc[d] # "full"
<1>1. Running = {}
  <2>1. IsFiniteSet(Running)
    BY FS_Subset DEF Running
  <2>2. Cardinality(Running) \in Nat /\ Cardinality(Running) < 1
    BY <2>1, FS_CardinalityType DEF Release, ThreadAvailable
  <2>. QED
    BY <2>1, <2>2, FS_EmptySet
<1>. QED
  BY <1>1 DEF Running

LEMMA NextKeepsFullIsCurrent ==
  ASSUME OneThreadInv, Threads = 1, [Next]_vars
  PROVE  FullIsCurrent'
<1>1. pc \in [Clients -> Places] /\ FullIsCurrent /\ PoolInv
  BY PoolFacts DEF OneThreadInv
<1>2. ASSUME NEW c \in Clients, Release(c) PROVE FullIsCurrent'
  BY <1>1, <1>2, ReleasesRunAlone DEF Release, FullIsCurrent
<1>3. ASSUME NEW c \in Clients,
             \/ Begin(c) \/ TakeFree(c) \/ BuildAndTake(c) \/ BuildThrows(c)
             \/ FindFull(c) \/ AsyncWait(c) \/ Resume(c)
      PROVE  FullIsCurrent'
  <2>1. free = <<>> => free' = <<>>
    BY <1>3 DEF Begin, TakeFree, LendFree, BuildAndTake, LendNew, BuildThrows, FindFull,
                AsyncWait, Resume, store
  <2>2. FindFull(c) => free' = <<>>
    BY DEF FindFull, NothingToLend, store
  <2>. QED
    BY <1>1, <1>3, <2>1, <2>2
       DEF FullIsCurrent, Begin, TakeFree, BuildAndTake, BuildThrows, FindFull,
           AsyncWait, Resume
<1>4. ASSUME NEW c \in Clients, NotifyOne(c) PROVE FullIsCurrent'
  BY <1>1, <1>4, NotifiedWaits DEF FullIsCurrent, NotifyOne, store
<1>5. CASE UNCHANGED vars
  BY <1>1, <1>5 DEF FullIsCurrent, vars, store
<1>. QED
  BY <1>2, <1>3, <1>4, <1>5 DEF Next

LEMMA NextKeepsNoLostWakeup ==
  ASSUME OneThreadInv, Threads = 1, [Next]_vars
  PROVE  NoLostWakeup'
<1>1. /\ pc \in [Clients -> Places] /\ FullIsCurrent /\ PoolInv /\ StoreInv
      /\ waitq # <<>> => Len(free) <= Cardinality(OnTheWay)
      /\ Len(free) \in Nat
      /\ \A c \in Clients : pc[c] = "using" <=> obj[c] # NoObject
  BY PoolFacts, StoreFacts DEF OneThreadInv, NoLostWakeup
<1>2. IsFiniteSet(OnTheWay) /\ Cardinality(OnTheWay) \in Nat
  BY FS_Subset, FS_CardinalityType DEF OnTheWay
<1>3. \A c \in OnTheWay :
        /\ IsFiniteSet(OnTheWay \ {c})
        /\ Cardinality(OnTheWay \ {c}) = Cardinality(OnTheWay) - 1
  BY <1>2, FS_RemoveElement
<1>4. \A c \in Clients \ OnTheWay :
        Cardinality(OnTheWay \cup {c}) = Cardinality(OnTheWay) + 1
  BY <1>2, FS_AddElement
<1>5. ASSUME NEW c \in Clients, Begin(c) \/ Resume(c) PROVE NoLostWakeup'
  <2>1. OnTheWay' = OnTheWay /\ UNCHANGED <<free, waitq>>
    BY <1>1, <1>5 DEF Begin, Resume, OnTheWay, store
  <2>. QED
    BY <1>1, <2>1 DEF NoLostWakeup
<1>6. ASSUME NEW c \in Clients, BuildAndTake(c) \/ BuildThrows(c) \/ FindFull(c)
      PROVE  NoLostWakeup'
  <2>1. free' = <<>> /\ IsFiniteSet(OnTheWay')
    BY <1>6, FS_Subset
       DEF BuildAndTake, LendNew, BuildThrows, FindFull, MayBuild, NothingToLend,
           OnTheWay, store
  <2>2. Cardinality(OnTheWay') \in Nat
    BY <2>1, FS_CardinalityType
  <2>. QED
    BY <2>1, <2>2 DEF NoLostWakeup
<1>7. ASSUME NEW c \in Clients, AsyncWait(c) PROVE NoLostWakeup'
  <2>1. free' = <<>> /\ OnTheWay' = OnTheWay
    BY <1>1, <1>7 DEF AsyncWait, FullIsCurrent, OnTheWay, store
  <2>. QED
    BY <1>2, <2>1 DEF NoLostWakeup
<1>8. ASSUME NEW c \in Clients, TakeFree(c) PROVE NoLostWakeup'
  <2>1. Len(free') = Len(free) - 1 /\ waitq' = waitq
    BY <1>1, <1>8, LendFreeKeepsStore DEF TakeFree, Trying
  <2>2. OnTheWay' = OnTheWay \ {c}
    BY <1>1, <1>8 DEF TakeFree, OnTheWay
  <2>3. CASE c \in OnTheWay
    <3>1. Cardinality(OnTheWay') = Cardinality(OnTheWay) - 1
      BY <1>3, <2>2, <2>3
    <3>. QED
      BY <1>1, <1>2, <2>1, <3>1 DEF NoLostWakeup
  <2>4. CASE c \notin OnTheWay
    <3>1. OnTheWay' = OnTheWay
      BY <2>2, <2>4
    <3>. QED
      BY <1>1, <1>2, <2>1, <3>1 DEF NoLostWakeup
  <2>. QED
    BY <2>3, <2>4
<1>9. ASSUME NEW c \in Clients, Release(c) PROVE NoLostWakeup'
  <2>1. Len(free') = Len(free) + 1 /\ waitq' = waitq
    BY <1>1, <1>9, TakeBackKeepsStore DEF Release
  <2>2. c \in Clients \ OnTheWay /\ OnTheWay' = OnTheWay \cup {c}
    BY <1>1, <1>9 DEF Release, OnTheWay
  <2>. QED
    BY <1>1, <1>2, <1>4, <2>1, <2>2 DEF NoLostWakeup
<1>10. ASSUME NEW c \in Clients, NotifyOne(c) PROVE NoLostWakeup'
  <2>1. CASE waitq = <<>>
    BY <1>10, <2>1 DEF NotifyOne, NoLostWakeup
  <2>2. CASE waitq # <<>>
    <3> DEFINE h == Head(waitq)
    <3>1. h \in Clients /\ pc[h] = "waiting" /\ pc[c] = "notify"
      BY <1>1, <1>10, <2>2, NotifiedWaits DEF NotifyOne
    <3>2. free' = free /\ pc' = [pc EXCEPT ![c] = "idle", ![h] = "woken"]
      BY <1>10, <2>2 DEF NotifyOne, store
    <3>3. c \in OnTheWay /\ OnTheWay' = (OnTheWay \ {c}) \cup {h}
          /\ h \notin OnTheWay \ {c}
      BY <1>1, <3>1, <3>2 DEF OnTheWay
    <3>4. Cardinality((OnTheWay \ {c}) \cup {h}) = Cardinality(OnTheWay \ {c}) + 1
      BY <1>3, <3>3, FS_AddElement
    <3>5. Cardinality(OnTheWay') = (Cardinality(OnTheWay) - 1) + 1
      BY <1>3, <3>3, <3>4
    <3>. QED
      BY <1>1, <1>2, <2>2, <3>2, <3>5 DEF NoLostWakeup
  <2>. QED
    BY <2>1, <2>2
<1>11. CASE UNCHANGED vars
  BY <1>1, <1>11 DEF vars, store, NoLostWakeup, OnTheWay
<1>. QED
  BY <1>5, <1>6, <1>7, <1>8, <1>9, <1>10, <1>11 DEF Next

(* With one thread in io_context.run(), every free object has a coroutine  *)
(* on its way to it as long as coroutines are suspended on the event.      *)
THEOREM OneThreadLosesNoWakeup ==
  ASSUME Threads = 1
  PROVE  Spec => []NoLostWakeup
<1>1. Init => OneThreadInv
  BY InitPoolInv DEF Init, OneThreadInv, FullIsCurrent, NoLostWakeup
<1>2. OneThreadInv /\ [Next]_vars => OneThreadInv'
  BY NextKeepsPoolInv, NextKeepsFullIsCurrent, NextKeepsNoLostWakeup DEF OneThreadInv
<1>3. OneThreadInv => NoLostWakeup
  BY DEF OneThreadInv
<1>. QED
  BY <1>1, <1>2, <1>3, PTL DEF Spec
=============================================================================
