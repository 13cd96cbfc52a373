------------------------------ MODULE Lending ------------------------------
(***************************************************************************)
(* What an object pool promises its clients, without saying how: at most   *)
(* the objects of Objects are lent, each to one client at a time, and a    *)
(* client is made to wait only because every object is lent out.  Both     *)
(* pools of lib/pool.hpp are shown to implement this module.               *)
(***************************************************************************)
CONSTANTS
  Clients,   \* the coroutines or threads that borrow
  Objects,   \* the objects the pool may ever hold
  NoObject   \* what a client holds when it holds nothing, not in Objects

VARIABLES
  held,      \* held[c]: the object client c has borrowed
  starving   \* the clients that were told there is nothing to borrow

lendingVars == <<held, starving>>

Lent == {held[c] : c \in Clients} \ {NoObject}

TypeOK ==
  /\ held \in [Clients -> Objects \cup {NoObject}]
  /\ starving \in SUBSET Clients

Init ==
  /\ held = [c \in Clients |-> NoObject]
  /\ starving = {}

(* A client that holds nothing gets an object nobody holds. *)
Lend(c) ==
  /\ held[c] = NoObject
  /\ \E o \in Objects \ Lent : held' = [held EXCEPT ![c] = o]
  /\ starving' = starving \ {c}

(* A client is sent to wait only in a state in which every object is lent. *)
Starve(c) ==
  /\ held[c] = NoObject
  /\ Objects \subseteq Lent
  /\ starving' = starving \cup {c}
  /\ UNCHANGED held

(* A client gives back the object it holds. *)
Restore(c) ==
  /\ held[c] # NoObject
  /\ held' = [held EXCEPT ![c] = NoObject]
  /\ UNCHANGED starving

Next == \E c \in Clients : Lend(c) \/ Starve(c) \/ Restore(c)

Spec == Init /\ [][Next]_lendingVars
=============================================================================
