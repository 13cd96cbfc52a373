----------------------------- MODULE ThreadPool -----------------------------
(***************************************************************************)
(* rlib::fixed_object_pool (lib/pool.hpp): the object pool for threads,    *)
(* with a condition variable and the flag new_obj_ready.  A step is a      *)
(* critical section of buffer_mutex, or notify_one, which is called        *)
(* outside of it.  borrow_cv.wait gives the mutex back while it sleeps and *)
(* may return without having been notified.                                *)
(***************************************************************************)
EXTENDS ObjectStore

VARIABLES
  pc,       \* where each thread is in borrow_one / release_one
  ready     \* new_obj_ready

vars == <<store, pc, ready>>

(* At "full" try_borrow_one has returned nullptr and the mutex is not held *)
(* any more; "asleep" is in borrow_cv.wait, and "awake" is on its way out  *)
(* of it, up to the evaluation of the predicate; at "threw" borrow_one has *)
(* thrown logic_error("unknown par error.").                               *)
Places == {"idle", "try", "full", "asleep", "awake", "using", "notify", "threw"}

Goto(c, place) == pc' = [pc EXCEPT ![c] = place]
-----------------------------------------------------------------------------
Init ==
  /\ Filled(0)
  /\ pc = [c \in Clients |-> "idle"]
  /\ ready = FALSE

Begin(c) ==
  /\ pc[c] = "idle"
  /\ Goto(c, "try")
  /\ UNCHANGED <<store, ready>>

(* Critical sections that run do_try_borrow_one: the one of try_borrow_one, *)
(* and the one that follows the wait, entered only with new_obj_ready set.  *)
Waited(c) == pc[c] \in {"full", "awake"} /\ ready
Trying(c) == pc[c] = "try" \/ Waited(c)

(* Faulty variant: do_try_borrow_one does not reset new_obj_ready. *)
FaultyTakeFree(c) ==
  /\ Trying(c)
  /\ LendFree(c)
  /\ Goto(c, "using")
  /\ UNCHANGED ready

(* new_obj_ready is reset even when other objects stay in free_list. *)
TakeFree(c) ==
  /\ Trying(c)
  /\ LendFree(c)
  /\ ready' = FALSE
  /\ Goto(c, "using")

BuildAndTake(c) ==
  /\ Trying(c)
  /\ LendNew(c)
  /\ ready' = FALSE
  /\ Goto(c, "using")

(* The constructor of the object throws: borrow_one is left by exception. *)
BuildThrows(c) ==
  /\ Trying(c)
  /\ MayBuild
  /\ Goto(c, "idle")
  /\ UNCHANGED <<store, ready>>

(* do_try_borrow_one returns nullptr.  The first time borrow_one goes on   *)
(* to wait; after the wait it throws logic_error("unknown par error.").    *)
FindFull(c) ==
  /\ Trying(c)
  /\ NothingToLend
  /\ Goto(c, IF pc[c] = "try" THEN "full" ELSE "threw")
  /\ UNCHANGED <<store, ready>>

(* A caller of try_borrow_one gets the nullptr and does not wait. *)
GiveUp(c) ==
  /\ pc[c] = "try"
  /\ NothingToLend
  /\ Goto(c, "idle")
  /\ UNCHANGED <<store, ready>>

(* Faulty variant: wait without its predicate, asleep whatever happened    *)
(* since try_borrow_one gave the mutex back.                               *)
FaultySleep(c) ==
  /\ pc[c] \in {"full", "awake"}
  /\ Goto(c, "asleep")
  /\ UNCHANGED <<store, ready>>

(* borrow_cv.wait with the predicate false: the thread sleeps (again). *)
Sleep(c) ==
  /\ pc[c] \in {"full", "awake"}
  /\ ~ready
  /\ Goto(c, "asleep")
  /\ UNCHANGED <<store, ready>>

(* The condition variable wakes a thread that nobody notified. *)
WakeSpuriously(c) ==
  /\ pc[c] = "asleep"
  /\ Goto(c, "awake")
  /\ UNCHANGED <<store, ready>>

(* release_one, the critical section. *)
Release(c) ==
  /\ pc[c] = "using"
  /\ TakeBack(c)
  /\ ready' = TRUE
  /\ Goto(c, "notify")

(* borrow_cv.notify_one(): one of the sleeping threads, if there is any. *)
NotifyOne(c) ==
  /\ pc[c] = "notify"
  /\ \/ /\ \A d \in Clients : pc[d] # "asleep"
        /\ Goto(c, "idle")
     \/ \E d \in Clients :
          /\ pc[d] = "asleep"
          /\ pc' = [pc EXCEPT ![c] = "idle", ![d] = "awake"]
  /\ UNCHANGED <<store, ready>>

Next == \E c \in Clients :
  \/ Begin(c)
  \/ TakeFree(c)
  \/ BuildAndTake(c)
  \/ BuildThrows(c)
  \/ FindFull(c)
  \/ GiveUp(c)
  \/ Sleep(c)
  \/ WakeSpuriously(c)
  \/ Release(c)
  \/ NotifyOne(c)

Spec == Init /\ [][Next]_vars

(* A thread inside borrow_one or release_one goes on when it can.  Nothing *)
(* obliges a thread to call them, to give an object back, or the condition *)
(* variable to wake anybody without a notification.                        *)
Fairness == \A c \in Clients :
  /\ WF_vars(TakeFree(c) \/ BuildAndTake(c) \/ BuildThrows(c) \/ FindFull(c)
             \/ GiveUp(c) \/ Sleep(c))
  /\ WF_vars(NotifyOne(c))

FairSpec == Spec /\ Fairness
-----------------------------------------------------------------------------
(* The types of the variables of the pool. *)
TypeOK ==
  /\ StoreTypeOK
  /\ pc \in [Clients -> Places]
  /\ ready \in BOOLEAN

(* borrow_one never throws logic_error("unknown par error."): whoever      *)
(* finds new_obj_ready set under the mutex finds an object, whichever      *)
(* thread took what it was woken for.                                      *)
NoParError == \A c \in Clients : pc[c] # "threw"

(* A thread may sleep on beside a free object, but never in a pool at      *)
(* rest: some object is lent, so that its release_one will notify, or some *)
(* thread is about to notify, or is awake and will look again.             *)
Asleep == {c \in Clients : pc[c] = "asleep"}
OnTheWay == {c \in Clients : pc[c] \in {"notify", "awake"}}

SleeperHasRescuer == Asleep # {} => Borrowed # {} \/ OnTheWay # {}

(* pool.hpp: "It will block current thread and wait if borrow_one()        *)
(* starves, until some other threads release their obj."  It never comes   *)
(* to an object lying free for ever while a thread stays blocked.          *)
NoIdleObjectWhileStarving == ~<>[](free # <<>> /\ Asleep # {})

(* The pool implements Lending: a thread starves from the locked check     *)
(* that found the pool full until it has an object.                        *)
Starving == {c \in Clients : pc[c] \in {"full", "asleep", "awake", "threw"}}

(* However they interleave, only the threads in excess of max_size starve  *)
(* at a time: a pool with an object for each of them makes none wait,      *)
(* though it builds its objects only when they are asked for.              *)
OnlyExcessStarves ==
  Starving # {} => Cardinality(Starving) + MaxSize <= Cardinality(Clients)

Promise == INSTANCE Lending WITH held <- obj, starving <- Starving

ImplementsLending == Promise!Spec
=============================================================================
