--------------------------- MODULE TraceableList ---------------------------
(***************************************************************************)
(* traceable_list (lib/traceable_list.hpp), the container in which both    *)
(* pools keep their objects: nodes on the heap linked in both directions,  *)
(* with iterators that can be made from a pointer to the data of a node.   *)
(* A node is the cell it is allocated in; its data, its extra_info and its *)
(* magic number live and die with the cell and are left out.  An operation *)
(* that follows a pointer to no node is undefined: it leaves the mark wild.*)
(***************************************************************************)
EXTENDS Naturals, Sequences, FiniteSets

CONSTANTS
  Cells,        \* memory for the nodes
  Cursors,      \* the iterators that the client keeps
  Null,         \* the null pointer
  Lost          \* what a cursor holds that has no iterator

ASSUME ListAssumption ==
  /\ IsFiniteSet(Cells)
  /\ Null \notin Cells
  /\ Lost \notin Cells \cup {Null}
  /\ Lost \notin [ptr : Cells \cup {Null}, tail : Cells \cup {Null}]

VARIABLES
  heap,         \* the cells that are allocated
  prev, next,   \* the links of the nodes
  head, tail,   \* the ends of the list
  size,         \* m_size
  cursor,       \* the iterators: ptr, and tail for _impl_tail
  misled,       \* history: cursors that stepped back from an outdated end
  loop,         \* pop_some or the destructor under way
  wild          \* the operation that was undefined, or "no"

links == <<heap, prev, next, head, tail, size>>
vars == <<links, cursor, misled, loop, wild>>

Pointers == Cells \cup {Null}
Iterators == [ptr : Pointers, tail : Pointers]
Iterator(ptr, last) == [ptr |-> ptr, tail |-> last]

(* The loop variable of pop_some (iter, to) and of the destructor (iter).  *)
NoLoop == [op |-> "none", iter |-> Null, to |-> Null]
Loops == [op : {"none", "pop_some", "destroy", "destroyed"},
          iter : Pointers, to : Pointers]

Init ==
  /\ heap = {}
  /\ prev = [c \in Cells |-> Null]
  /\ next = [c \in Cells |-> Null]
  /\ head = Null
  /\ tail = Null
  /\ size = 0
  /\ cursor = [i \in Cursors |-> Lost]
  /\ misled = {}
  /\ loop = NoLoop
  /\ wild = "no"
-----------------------------------------------------------------------------
(* The client calls when the list is there and no other call is under way, *)
(* with iterators to nodes that are in the list, or to its end.            *)
Idle == wild = "no" /\ loop = NoLoop
Usable(i) == cursor[i] # Lost /\ i \notin misled
AtNode(i) == Usable(i) /\ cursor[i].ptr # Null

(* Pointers that are followed have to point to nodes. *)
Follows(op, pointers) == wild' = IF pointers \subseteq heap THEN wild ELSE op

(* A link of some nodes is changed; there is no link from Null. *)
Relink(link, from, to) == [c \in Cells |-> IF c = from THEN to ELSE link[c]]

(* push_one: to an empty list ...                                          *)
PushFirst(c, where) ==
  /\ head' = c
  /\ tail' = c
  /\ prev' = [prev EXCEPT ![c] = Null]
  /\ next' = [next EXCEPT ![c] = where]
  /\ UNCHANGED wild

(* ... at end() ...                                                        *)
PushAtEnd(c) ==
  /\ Follows("push_one", {tail})
  /\ next' = [Relink(next, tail, c) EXCEPT ![c] = Null]
  /\ prev' = [prev EXCEPT ![c] = tail]
  /\ tail' = c
  /\ UNCHANGED head

(* Faulty variant: the node in front keeps its next. *)
FaultyLeftLink(c, where) == next

(* left->next = new_node, if there is a node in front.                     *)
LeftLink(c, where) == Relink(next, prev[where], c)

(* ... or in front of a node.                                              *)
PushBefore(c, where) ==
  /\ Follows("push_one", {where, prev[where]} \ {Null})
  /\ next' = [LeftLink(c, where) EXCEPT ![c] = where]
  /\ prev' = [prev EXCEPT ![c] = prev[where], ![where] = c]
  /\ head' = IF head = where THEN c ELSE head
  /\ UNCHANGED tail

(* Faulty variant: m_size is not counted on the early return. *)
FaultyCount == size' = IF head = Null THEN size ELSE size + 1

Count == size' = size + 1

Push(c, where) ==
  /\ Idle
  /\ c \notin heap
  /\ heap' = heap \cup {c}
  /\ Count
  /\ \/ head = Null /\ PushFirst(c, where)
     \/ head # Null /\ where = Null /\ PushAtEnd(c)
     \/ head # Null /\ where # Null /\ PushBefore(c, where)
  /\ UNCHANGED <<cursor, misled, loop>>

PushOne(i, c) == Usable(i) /\ Push(c, cursor[i].ptr)
PushFront(c) == Push(c, head)
PushBack(c) == Push(c, Null)
-----------------------------------------------------------------------------
(* The client drops its iterators to a node that is gone. *)
Drop(c) == cursor' = [i \in Cursors |->
  IF cursor[i] # Lost /\ cursor[i].ptr = c THEN Lost ELSE cursor[i]]

(* Faulty variant: tail stays at the node. *)
FaultyMoveTail(c) == UNCHANGED tail

MoveTail(c) == tail' = IF tail = c THEN prev[c] ELSE tail

(* pop_one of a node.  The links of freed memory are Null, for nobody may  *)
(* look at them.  pop_one of end() throws and changes nothing.             *)
Pop(c) ==
  /\ Follows("pop_one", {c, prev[c], next[c]} \ {Null})
  /\ next' = [Relink(next, prev[c], next[c]) EXCEPT ![c] = Null]
  /\ prev' = [Relink(prev, next[c], prev[c]) EXCEPT ![c] = Null]
  /\ head' = IF head = c THEN next[c] ELSE head
  /\ MoveTail(c)
  /\ size' = size - 1
  /\ heap' = heap \ {c}
  /\ Drop(c)
  /\ UNCHANGED misled

PopOne(i) == Idle /\ AtNode(i) /\ Pop(cursor[i].ptr) /\ UNCHANGED loop

(* On an empty list begin() is end(): it throws. *)
PopFront == Idle /\ head # Null /\ Pop(head) /\ UNCHANGED loop

(* pop_one(--end()). *)
PopBack == Idle /\ tail # Null /\ Pop(tail) /\ UNCHANGED loop

(* On an empty list --end() follows the null pointer before pop_one gets   *)
(* to throw.                                                               *)
PopBackOfEmpty ==
  /\ Idle /\ tail = Null
  /\ wild' = "pop_back"
  /\ UNCHANGED <<links, cursor, misled, loop>>
-----------------------------------------------------------------------------
(* The list as begin(), ++ and end() show it. *)
Walk[k \in 1..(Cardinality(Cells) + 1)] ==
  IF k = 1 THEN head
  ELSE IF Walk[k - 1] = Null THEN Null ELSE next[Walk[k - 1]]

Items == IF loop.op \in {"destroy", "destroyed"} THEN <<>>
         ELSE [k \in 1..size |-> Walk[k]]

(* pop_some: iter++, then pop_one of where it was, until iter == to, which *)
(* is not in front of from.                                                *)
PopSome(i, j) ==
  /\ Idle /\ AtNode(i) /\ Usable(j)
  /\ \E m, n \in 1..(size + 1) :
       m <= n /\ Walk[m] = cursor[i].ptr /\ Walk[n] = cursor[j].ptr
  /\ loop' = [op |-> "pop_some", iter |-> cursor[i].ptr, to |-> cursor[j].ptr]
  /\ UNCHANGED <<links, cursor, misled, wild>>

PopSomeStep ==
  /\ wild = "no" /\ loop.op = "pop_some" /\ loop.iter # loop.to
  /\ IF loop.iter \in heap
     THEN Pop(loop.iter) /\ loop' = [loop EXCEPT !.iter = next[loop.iter]]
     ELSE wild' = "pop_some" /\ UNCHANGED <<links, cursor, misled, loop>>

PopSomeEnd ==
  /\ wild = "no" /\ loop.op = "pop_some" /\ loop.iter = loop.to
  /\ loop' = NoLoop
  /\ UNCHANGED <<links, cursor, misled, wild>>

(* ~traceable_list: from begin() to end(), without touching the links.     *)
Destroy ==
  /\ Idle
  /\ loop' = [op |-> "destroy", iter |-> head, to |-> Null]
  /\ cursor' = [i \in Cursors |-> Lost]
  /\ UNCHANGED <<links, misled, wild>>

DestroyStep ==
  /\ wild = "no" /\ loop.op = "destroy" /\ loop.iter # Null
  /\ Follows("destroy", {loop.iter})
  /\ heap' = heap \ {loop.iter}
  /\ loop' = [loop EXCEPT !.iter = next[loop.iter]]
  /\ UNCHANGED <<prev, next, head, tail, size, cursor, misled>>

Destroyed ==
  /\ wild = "no" /\ loop.op = "destroy" /\ loop.iter = Null
  /\ loop' = [loop EXCEPT !.op = "destroyed"]
  /\ UNCHANGED <<links, cursor, misled, wild>>
-----------------------------------------------------------------------------
(* A cursor gets a new iterator: begin(), end(), or one from a pointer to  *)
(* the data of a node, which does not know the tail.                       *)
Assign(i, it) ==
  /\ Idle
  /\ cursor' = [cursor EXCEPT ![i] = it]
  /\ misled' = misled \ {i}
  /\ UNCHANGED <<links, loop, wild>>

Begin(i) == Assign(i, Iterator(head, tail))
End(i) == Assign(i, Iterator(Null, tail))
AtData(i, c) == c \in heap /\ Assign(i, Iterator(c, Null))

(* ++ of an iterator that is not at the end. *)
Forward(i) ==
  /\ Idle /\ AtNode(i)
  /\ Follows("++", {cursor[i].ptr})
  /\ cursor' = [cursor EXCEPT ![i].ptr = next[@]]
  /\ UNCHANGED <<links, misled, loop>>

(* -- of an iterator that is not at the beginning.  At the end it goes to  *)
(* the tail that it remembers, which the list may have left, and follows   *)
(* the null pointer if it remembers none.                                  *)
NotFirst(i) == Idle /\ Usable(i) /\ cursor[i].ptr # head

(* Faulty variant: -- goes forward. *)
FaultyBackFromNode(i) ==
  /\ NotFirst(i) /\ cursor[i].ptr # Null
  /\ Follows("--", {cursor[i].ptr})
  /\ cursor' = [cursor EXCEPT ![i].ptr = next[@]]
  /\ UNCHANGED <<links, misled, loop>>

BackFromNode(i) ==
  /\ NotFirst(i) /\ cursor[i].ptr # Null
  /\ Follows("--", {cursor[i].ptr})
  /\ cursor' = [cursor EXCEPT ![i].ptr = prev[@]]
  /\ UNCHANGED <<links, misled, loop>>

BackFromEnd(i) ==
  /\ NotFirst(i) /\ cursor[i].ptr = Null /\ cursor[i].tail # Null
  /\ cursor' = [cursor EXCEPT ![i].ptr = cursor[i].tail]
  /\ misled' = IF cursor[i].tail = tail THEN misled ELSE misled \cup {i}
  /\ UNCHANGED <<links, loop, wild>>

BackFromNowhere(i) ==
  /\ NotFirst(i) /\ cursor[i].ptr = Null /\ cursor[i].tail = Null
  /\ wild' = "--end"
  /\ UNCHANGED <<links, cursor, misled, loop>>

Back(i) == BackFromNode(i) \/ BackFromEnd(i) \/ BackFromNowhere(i)
-----------------------------------------------------------------------------
Next ==
  \/ \E c \in Cells : PushFront(c) \/ PushBack(c)
  \/ \E i \in Cursors, c \in Cells : PushOne(i, c) \/ AtData(i, c)
  \/ PopFront \/ PopBack \/ PopBackOfEmpty
  \/ \E i, j \in Cursors : PopSome(i, j)
  \/ PopSomeStep \/ PopSomeEnd
  \/ Destroy \/ DestroyStep \/ Destroyed
  \/ \E i \in Cursors : \/ PopOne(i) \/ Begin(i) \/ End(i)
                        \/ Forward(i) \/ Back(i)

Spec == Init /\ [][Next]_vars
-----------------------------------------------------------------------------
(* The types of the variables. *)
TypeOK ==
  /\ heap \in SUBSET Cells
  /\ prev \in [Cells -> Pointers]
  /\ next \in [Cells -> Pointers]
  /\ head \in Pointers
  /\ tail \in Pointers
  /\ size \in 0..Cardinality(Cells)
  /\ cursor \in [Cursors -> Iterators \cup {Lost}]
  /\ misled \in SUBSET Cursors
  /\ loop \in Loops
  /\ wild \in {"no", "push_one", "pop_one", "pop_back", "pop_some", "++",
               "--", "--end", "destroy"}

Alive == loop.op \in {"none", "pop_some"}

(* The links of push_one and pop_one agree: prev undoes next, only the     *)
(* head has no prev, only the tail has no next, and m_size counts nodes.   *)
LinksAgree == Alive =>
  /\ head \in heap \cup {Null} /\ tail \in heap \cup {Null}
  /\ head = Null <=> heap = {}
  /\ tail = Null <=> heap = {}
  /\ \A c \in heap :
       /\ next[c] = Null <=> c = tail
       /\ prev[c] = Null <=> c = head
       /\ next[c] # Null => next[c] \in heap /\ prev[next[c]] = c
       /\ prev[c] # Null => prev[c] \in heap /\ next[prev[c]] = c
  /\ size = Cardinality(heap)

(* No node is out of reach of begin() and ++, and the destructor frees     *)
(* every node, once.                                                       *)
NothingLeaks ==
  /\ Alive => heap = {Items[k] : k \in DOMAIN Items}
  /\ loop.op = "destroyed" => heap = {}

(* Whatever the list goes through, its operations never follow a pointer   *)
(* to a node that is gone, with two exceptions: pop_back of an empty list, *)
(* and -- of an end that was not made by begin() or end(), or was made     *)
(* when the list was empty.                                                *)
OnlyEndsAreWild ==
  /\ wild \in {"no", "pop_back", "--end"}
  /\ wild = "pop_back" => heap = {}

(* Iterators are stable, which is why the pools can hand out pointers to   *)
(* the data: pushes and pops elsewhere leave a cursor at its node.  The    *)
(* list is an IterableList, whose cursor is lost, besides with its node,   *)
(* when it steps back from an end whose tail is not the list's any more.   *)
At == [i \in Cursors |->
  IF cursor[i] = Lost \/ i \in misled THEN Lost ELSE cursor[i].ptr]

List == INSTANCE IterableList WITH items <- Items, at <- At

ImplementsList == List!Spec

(* Moreover each operation does what the one of its name promises.         *)
OutdatedEnd(i) == cursor[i].ptr = Null /\ cursor[i].tail # tail

OperationsAgree == [][
  /\ \A c \in Cells :
       /\ PushFront(c) => List!PushFront(c)
       /\ PushBack(c) => List!PushBack(c)
       /\ \A i \in Cursors : PushOne(i, c) => List!PushOne(i, c)
  /\ PopFront => List!PopFront
  /\ PopBack => List!PopBack
  /\ PopSomeStep => List!Take(loop.iter)
  /\ \A i \in Cursors :
       /\ PopOne(i) => List!PopOne(i)
       /\ Begin(i) => List!Begin(i)
       /\ End(i) => List!End(i)
       /\ Forward(i) => List!Forward(i)
       /\ Back(i) /\ ~OutdatedEnd(i) => List!Back(i)]_vars
=============================================================================
