---------------------------- MODULE IterableList ----------------------------
(***************************************************************************)
(* The promise of a list with iterators: operations at a cursor act on its *)
(* element, and a cursor stays at its element while others come and go.    *)
(* It is lost when its element is removed, or when it is used in a way for *)
(* which there is no promise.                                              *)
(***************************************************************************)
EXTENDS Naturals, Sequences, SequencesExt

CONSTANTS
  Cells,        \* the elements there may be
  Cursors,      \* the iterators of the client
  Null,         \* where a cursor at the end is
  Lost          \* where a cursor without a promise is

VARIABLES items, at

listVars == <<items, at>>

Init == items = <<>> /\ at = [i \in Cursors |-> Lost]

Elements == ToSet(items)
First == IF items = <<>> THEN Null ELSE Head(items)
Position(c) == IF c = Null THEN Len(items) + 1
               ELSE CHOOSE k \in DOMAIN items : items[k] = c
Place(k) == IF k = Len(items) + 1 THEN Null ELSE items[k]
-----------------------------------------------------------------------------
Insert(place, c) ==
  /\ c \notin Elements
  /\ items' = InsertAt(items, Position(place), c)
  /\ UNCHANGED at

PushOne(i, c) == at[i] # Lost /\ Insert(at[i], c)
PushFront(c) == Insert(First, c)
PushBack(c) == Insert(Null, c)

Take(c) ==
  /\ c \in Elements
  /\ items' = RemoveAt(items, Position(c))
  /\ at' = [i \in Cursors |-> IF at[i] = c THEN Lost ELSE at[i]]

PopOne(i) == Take(at[i])
PopFront == Take(First)
PopBack == items # <<>> /\ Take(Last(items))

Move(i, place) == at' = [at EXCEPT ![i] = place] /\ UNCHANGED items

Begin(i) == Move(i, First)
End(i) == Move(i, Null)
AtData(i, c) == c \in Elements /\ Move(i, c)
Forward(i) == at[i] \in Elements /\ Move(i, Place(Position(at[i]) + 1))
Back(i) == at[i] \notin {Lost, First} /\ Move(i, Place(Position(at[i]) - 1))
Lose(i) == Move(i, Lost)

Clear == items' = <<>> /\ at' = [i \in Cursors |-> Lost]

Next ==
  \/ \E c \in Cells : PushFront(c) \/ PushBack(c) \/ Take(c)
  \/ \E i \in Cursors, c \in Cells : PushOne(i, c) \/ AtData(i, c)
  \/ \E i \in Cursors : \/ Begin(i) \/ End(i) \/ Forward(i) \/ Back(i)
                        \/ Lose(i)
  \/ Clear

Spec == Init /\ [][Next]_listVars
=============================================================================
