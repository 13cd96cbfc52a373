---------------------------- MODULE ObjectStore ----------------------------
(***************************************************************************)
(* What the two object pools of lib/pool.hpp have in common: a buffer of   *)
(* at most max_size objects that never shrinks, the list of those that are *)
(* free, and the two critical sections under buffer_mutex that move an     *)
(* object between the list and a borrower (do_try_borrow_one, and the      *)
(* locked part of release_one).  How a borrower waits is up to the pools.  *)
(***************************************************************************)
EXTENDS Integers, Sequences, FiniteSets, Functions

CONSTANTS
  Clients,     \* the coroutines or threads that share the pool
  MaxSize      \* max_size: AGENT_CONN_POOL_SIZE or DUBBO_CLI_CONN_POOL_SIZE

ASSUME ObjectStoreAssumption ==
  /\ IsFiniteSet(Clients)
  /\ MaxSize \in Nat \ {0}

VARIABLES
  obj,      \* the object each client has borrowed, or NoObject
  built,    \* buffer.size(): objects 1..built exist, in order of construction
  free,     \* free_list
  marked    \* the objects whose extra_info says "free"

store == <<obj, built, free, marked>>

NoObject == 0
Objects == 1..MaxSize

Borrowed == {obj[c] : c \in Clients} \ {NoObject}
-----------------------------------------------------------------------------
(* A pool with its first n objects built and listed: none of them, or all  *)
(* of them after fill_full().                                              *)
Filled(n) ==
  /\ obj = [c \in Clients |-> NoObject]
  /\ built = n
  /\ free = [i \in 1..n |-> i]
  /\ marked = 1..n

(* Faulty variant: the head of the list is read but not popped. *)
FaultyLendFree(c) ==
  /\ free # <<>>
  /\ obj' = [obj EXCEPT ![c] = Head(free)]
  /\ marked' = marked \ {Head(free)}
  /\ UNCHANGED <<built, free>>

(* do_try_borrow_one, a free object: the head of the list is taken. *)
LendFree(c) ==
  /\ free # <<>>
  /\ obj' = [obj EXCEPT ![c] = Head(free)]
  /\ free' = Tail(free)
  /\ marked' = marked \ {Head(free)}
  /\ UNCHANGED built

(* do_try_borrow_one, none free and room for one more: an object is built, *)
(* pushed to the empty free list and taken from it, under the same lock.   *)
FaultyMayBuild == free = <<>> /\ built <= MaxSize  \* faulty variant: off by one
MayBuild == free = <<>> /\ built < MaxSize

LendNew(c) ==
  /\ MayBuild
  /\ built' = built + 1
  /\ obj' = [obj EXCEPT ![c] = built + 1]
  /\ UNCHANGED <<free, marked>>

(* do_try_borrow_one returns nullptr. *)
FaultyNothingToLend == free = <<>>  \* faulty variant: the size is not looked at
NothingToLend == free = <<>> /\ built >= MaxSize

(* Faulty variant: the list gets the pointer after it was cleared. *)
FaultyTakeBackCleared(c) ==
  /\ free' = <<NoObject>> \o free
  /\ marked' = marked \cup {NoObject}
  /\ obj' = [obj EXCEPT ![c] = NoObject]
  /\ UNCHANGED built

(* release_one, the critical section: the object is put first. *)
TakeBack(c) ==
  /\ free' = <<obj[c]>> \o free
  /\ marked' = marked \cup {obj[c]}
  /\ obj' = [obj EXCEPT ![c] = NoObject]
  /\ UNCHANGED built
-----------------------------------------------------------------------------
(* The types of the buffer and the lists. *)
StoreTypeOK ==
  /\ obj \in [Clients -> Objects \cup {NoObject}]
  /\ built \in 0..MaxSize
  /\ free \in Seq(Objects)
  /\ marked \in SUBSET Objects

(***************************************************************************)
(* Every object that was built is in exactly one place: once in free_list, *)
(* or with one borrower.  So no two sessions write to one connection, and  *)
(* no connection is lost whatever the order of borrow_one and release_one. *)
(***************************************************************************)
ListedOnce == IsInjective(free)
HeldByOne == \A c, d \in Clients :
  obj[c] = obj[d] /\ obj[c] # NoObject => c = d
ListedNotBorrowed == Range(free) \cap Borrowed = {}
NoneLost == Range(free) \cup Borrowed = 1..built

OneHome == ListedOnce /\ HeldByOne /\ ListedNotBorrowed /\ NoneLost

(* The is_free flag kept next to each object agrees with free_list whenever *)
(* buffer_mutex is free, though nothing in the pool ever reads it.          *)
MarkedAgrees == marked = Range(free)
=============================================================================
