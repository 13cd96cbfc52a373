------------------------------ MODULE CoroPool ------------------------------
(***************************************************************************)
(* rlib::fixed_object_pool_coro (lib/pool.hpp) with the event it waits on  *)
(* (lib/boost_asio_event.hpp): the pool of TCP connections that the        *)
(* consumer agent keeps to each provider agent and the provider agent      *)
(* keeps to its dubbo server.                                              *)
(*                                                                         *)
(* A coroutine runs on a thread of io_context.run() until it suspends; at  *)
(* most Threads coroutines run at a time.  The suspension points are the   *)
(* wait on the event and the I/O a coroutine does while it holds a         *)
(* connection.  buffer_mutex makes every access to the store one step; the *)
(* event is used outside of the mutex, in a step of its own.               *)
(***************************************************************************)
EXTENDS ObjectStore

CONSTANTS
  Threads,     \* threads in io_context.run(): --threads, 1 in a provider agent
  Prefilled    \* fill_full() ran at construction (provider_info), or not (dubbo)

ASSUME CoroPoolAssumption ==
  /\ Threads \in Nat \ {0}
  /\ Prefilled \in BOOLEAN

VARIABLES
  pc,       \* where each coroutine is in borrow_one / release_one
  waitq     \* pending async_waits on borrow_avail_event, the oldest first

vars == <<store, pc, waitq>>

(* The positions of a coroutine.  At "idle" it has no business with the    *)
(* pool and at "using" it does I/O on the connection it holds; "waiting"   *)
(* is suspended on the event and "woken" is resumed from it but still in   *)
(* the queue of ready handlers.  At the other places it is running.        *)
RunningPlaces == {"try", "retry", "full", "notify"}
Places == RunningPlaces \cup {"idle", "using", "waiting", "woken"}

Running == {c \in Clients : pc[c] \in RunningPlaces}
ThreadAvailable == Cardinality(Running) < Threads

Goto(c, place) == pc' = [pc EXCEPT ![c] = place]
-----------------------------------------------------------------------------
Init ==
  /\ Filled(IF Prefilled THEN MaxSize ELSE 0)
  /\ pc = [c \in Clients |-> "idle"]
  /\ waitq = <<>>

(* A request arrives for the session, which calls borrow_one. *)
Begin(c) ==
  /\ pc[c] = "idle"
  /\ ThreadAvailable
  /\ Goto(c, "try")
  /\ UNCHANGED <<store, waitq>>

(* try_borrow_one is called first by borrow_one, then after every wake-up. *)
Trying(c) == pc[c] \in {"try", "retry"}

TakeFree(c) ==
  /\ Trying(c)
  /\ LendFree(c)
  /\ Goto(c, "using")
  /\ UNCHANGED waitq

BuildAndTake(c) ==
  /\ Trying(c)
  /\ LendNew(c)
  /\ Goto(c, "using")
  /\ UNCHANGED waitq

(* The constructor of the object throws (quick_connect is refused): the    *)
(* exception leaves borrow_one before the buffer or the list has changed.  *)
BuildThrows(c) ==
  /\ Trying(c)
  /\ MayBuild
  /\ Goto(c, "idle")
  /\ UNCHANGED <<store, waitq>>

(* try_borrow_one returns nullptr: the coroutine is going to wait. *)
FindFull(c) ==
  /\ Trying(c)
  /\ NothingToLend
  /\ Goto(c, "full")
  /\ UNCHANGED <<store, waitq>>

TryBorrow(c) == TakeFree(c) \/ BuildAndTake(c) \/ BuildThrows(c) \/ FindFull(c)

(* borrow_avail_event.async_wait(yield): no lock is held here. *)
AsyncWait(c) ==
  /\ pc[c] = "full"
  /\ waitq' = Append(waitq, c)
  /\ Goto(c, "waiting")
  /\ UNCHANGED store

(* A thread runs the handler of a woken coroutine, which tries again. *)
Resume(c) ==
  /\ pc[c] = "woken"
  /\ ThreadAvailable
  /\ Goto(c, "retry")
  /\ UNCHANGED <<store, waitq>>

(* Faulty variant: nobody is notified. *)
FaultyReleaseSilent(c) ==
  /\ pc[c] = "using"
  /\ ThreadAvailable
  /\ TakeBack(c)
  /\ Goto(c, "idle")
  /\ UNCHANGED waitq

(* The exchange on the connection is over, well or not, and the scope      *)
(* guard calls release_one, whose critical section comes first.            *)
Release(c) ==
  /\ pc[c] = "using"
  /\ ThreadAvailable
  /\ TakeBack(c)
  /\ Goto(c, "notify")
  /\ UNCHANGED waitq

(* Faulty variant: the newest pending wait is cancelled, not the oldest. *)
FaultyNotifyNewest(c) ==
  /\ pc[c] = "notify"
  /\ IF waitq = <<>>
     THEN Goto(c, "idle") /\ UNCHANGED waitq
     ELSE /\ pc' = [pc EXCEPT ![c] = "idle", ![waitq[Len(waitq)]] = "woken"]
          /\ waitq' = SubSeq(waitq, 1, Len(waitq) - 1)
  /\ UNCHANGED store

(* notify_one after the lock: the oldest pending wait, if there is one, is *)
(* cancelled and its handler becomes ready.                                *)
NotifyOne(c) ==
  /\ pc[c] = "notify"
  /\ IF waitq = <<>>
     THEN Goto(c, "idle") /\ UNCHANGED waitq
     ELSE /\ pc' = [pc EXCEPT ![c] = "idle", ![Head(waitq)] = "woken"]
          /\ waitq' = Tail(waitq)
  /\ UNCHANGED store

Next == \E c \in Clients :
  \/ Begin(c)
  \/ TakeFree(c)
  \/ BuildAndTake(c)
  \/ BuildThrows(c)
  \/ FindFull(c)
  \/ AsyncWait(c)
  \/ Resume(c)
  \/ Release(c)
  \/ NotifyOne(c)

Spec == Init /\ [][Next]_vars

(***************************************************************************)
(* What io_context::run guarantees: a running coroutine goes on, and a     *)
(* ready handler is taken from the FIFO of ready handlers in its turn, if  *)
(* the threads are busy again and again in between (hence SF).  Nothing    *)
(* obliges a request to arrive, nor an exchange to end.                    *)
(***************************************************************************)
Fairness == \A c \in Clients :
  /\ WF_vars(TryBorrow(c))
  /\ WF_vars(AsyncWait(c))
  /\ WF_vars(NotifyOne(c))
  /\ SF_vars(Resume(c))

FairSpec == Spec /\ Fairness

(* The assumption, about the peer and not about this code, that every      *)
(* exchange on a borrowed connection comes to an end: there is no timeout. *)
ExchangesEnd == \A c \in Clients : SF_vars(Release(c))

LiveSpec == FairSpec /\ ExchangesEnd
-----------------------------------------------------------------------------
(* The types of the variables of the pool. *)
TypeOK ==
  /\ StoreTypeOK
  /\ pc \in [Clients -> Places]
  /\ waitq \in Seq(Clients)

(***************************************************************************)
(* With one thread no wake-up is lost: when coroutines are suspended on    *)
(* the event, every free object has a coroutine on its way to take it: one *)
(* that was woken, or one that is about to notify.  A coroutine that takes *)
(* the object before the woken one does is what the "Fake asio::event      *)
(* awake" log of borrow_one is about.                                      *)
(***************************************************************************)
OnTheWay == {c \in Clients : pc[c] \in {"woken", "retry", "notify"}}

NoLostWakeup == waitq # <<>> => Len(free) <= Cardinality(OnTheWay)

(* pool.hpp: "It will suspend current coroutine and wait if borrow_one()   *)
(* starves, until some other coroutines release their obj."  It never      *)
(* comes to an object lying free for ever while a coroutine stays          *)
(* suspended for lack of one.                                              *)
NoIdleObjectWhileStarving == ~<>[](free # <<>> /\ waitq # <<>>)

(* Every coroutine suspended on the event is woken in its turn, provided   *)
(* the exchanges of the others end.                                        *)
WaiterWoken == \A c \in Clients : pc[c] = "waiting" ~> pc[c] = "woken"

(* When requests stop arriving and the exchanges of the others end, every  *)
(* suspended coroutine gets its connection, however often others took the  *)
(* objects it was woken for.                                               *)
NoMoreRequests == <>[][\A c \in Clients : ~Begin(c)]_vars

WaiterServed == NoMoreRequests =>
  \A c \in Clients : pc[c] = "waiting" ~> pc[c] = "using"

(* The pool implements Lending: a client starves from the locked check     *)
(* that found the pool full until it has an object.                        *)
Starving == {c \in Clients : pc[c] \in {"full", "waiting", "woken", "retry"}}

(* However they interleave, only the coroutines in excess of max_size      *)
(* starve at a time: a pool with an object for each of them makes none     *)
(* wait, though it builds its objects only when they are asked for.        *)
OnlyExcessStarves ==
  Starving # {} => Cardinality(Starving) + MaxSize <= Cardinality(Clients)

Promise == INSTANCE Lending WITH held <- obj, starving <- Starving

ImplementsLending == Promise!Spec
=============================================================================
