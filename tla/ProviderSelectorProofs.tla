----------------------- MODULE ProviderSelectorProofs -----------------------
(***************************************************************************)
(* Proofs about ProviderSelector for every list of providers and every     *)
(* bound on its length: no request is dropped, whatever the threads, and   *)
(* one thread alone never selects the end of the queue and selects each    *)
(* provider as often as its size says.                                     *)
(***************************************************************************)
EXTENDS ProviderSelector, FiniteSetTheorems, TLAPS

USE SelectorAssumption

-----------------------------------------------------------------------------
(* Before the constructor is done nobody calls query_once.                 *)
Constructing ==
  /\ phase = "loading" => providers = <<>> /\ queue = <<>>
  /\ phase # "serving" => recent = <<>> /\ \A w \in Workers : pc[w] = "idle"

(* It is done only when the queue has a slot.                              *)
QueueNotEmpty ==
  /\ enlisted > 0 => Len(queue) > 0
  /\ phase = "serving" => enlisted > 0

(* The pool latencies are as low as at first, so that every call selects   *)
(* in the first round of its loop.                                         *)
FirstRound ==
  /\ \A p \in 1..Len(providers) : latency[p] = InitialLatency
  /\ \A w \in Workers : cter[w] = 0 /\ pc[w] # "dropped"

SelectorInvariant == TypeOK /\ Constructing /\ QueueNotEmpty /\ FirstRound

(* Where a worker that is alone has left the iterator.                     *)
CurrValid == \A w \in Workers :
  /\ pc[w] = "wrap" => curr = End
  /\ pc[w] \in {"examine", "take", "advance"} => curr # End
  /\ pc[w] = "advance" => tmp[w] = curr
  /\ pc[w] # "wild"

-----------------------------------------------------------------------------
(* A function on 1..n is a sequence of length n. *)
LEMMA FunctionIsSequence ==
  ASSUME NEW S, NEW n \in Nat, NEW f \in [1..n -> S]
  PROVE  f \in Seq(S) /\ Len(f) = n
OBVIOUS

LEMMA InitInvariant == Init => SelectorInvariant /\ CurrValid
<1> SUFFICES ASSUME Init PROVE SelectorInvariant /\ CurrValid
  OBVIOUS
<1> USE DEF Init
<1>1. TypeOK
  BY DEF TypeOK, End
<1>2. Constructing /\ QueueNotEmpty /\ FirstRound /\ CurrValid
  BY DEF Constructing, QueueNotEmpty, FirstRound, CurrValid
<1>. QED
  BY <1>1, <1>2 DEF SelectorInvariant

LEMMA ThrowInvariant ==
  ASSUME SelectorInvariant, phase \in {"loading", "queueing"}, Throw
  PROVE  SelectorInvariant'
<1> USE DEF SelectorInvariant, Throw, calls
<1>1. TypeOK'
  BY DEF TypeOK, End
<1>2. Constructing' /\ QueueNotEmpty' /\ FirstRound'
  BY DEF Constructing, QueueNotEmpty, FirstRound
<1>. QED
  BY <1>1, <1>2

LEMMA LoadInvariant ==
  ASSUME SelectorInvariant, Load
  PROVE  SelectorInvariant'
<1>1. PICK entries \in BoundedSeq(Hosts \cup {BadEntry}, MaxEntries),
           reachable \in SUBSET Hosts :
             IF \E i \in DOMAIN entries : entries[i] \notin reachable
             THEN Throw
             ELSE Connected(entries)
  BY DEF Load
<1>2. CASE \E i \in DOMAIN entries : entries[i] \notin reachable
  BY <1>1, <1>2, ThrowInvariant DEF Load
<1>3. CASE \A i \in DOMAIN entries : entries[i] \in reachable
  <2>1. Connected(entries) /\ phase = "loading"
    BY <1>1, <1>3 DEF Load
  <2>2. PICK m \in Nat : entries \in [1..m -> Hosts]
    BY <1>3 DEF BoundedSeq, SeqOf
  <2>3. entries \in Seq(Hosts) /\ DOMAIN entries = 1..Len(entries) /\ Len(entries) \in Nat
    BY <2>2
  <2>4. /\ providers' = entries /\ phase' = "queueing" /\ queue' = <<>> /\ recent' = <<>>
        /\ latency' = [i \in 1..Len(entries) |-> InitialLatency]
        /\ UNCHANGED <<enlisted, curr, pc, cter, sampled, tmp>>
    BY <2>1, <2>3 DEF Connected, SelectorInvariant, Constructing
  <2>5. queue = <<>> /\ providers = <<>> /\ enlisted = 0 /\ \A w \in Workers : pc[w] = "idle"
    BY <2>1 DEF SelectorInvariant, Constructing, TypeOK
  <2>6. TypeOK'
    BY <2>3, <2>4, <2>5 DEF SelectorInvariant, TypeOK, End, InitialLatency
  <2>7. Constructing' /\ QueueNotEmpty' /\ FirstRound'
    BY <2>3, <2>4, <2>5
    DEF SelectorInvariant, Constructing, QueueNotEmpty, FirstRound, TypeOK
  <2>. QED
    BY <2>6, <2>7 DEF SelectorInvariant
<1>. QED
  BY <1>2, <1>3

LEMMA EnlistInvariant ==
  ASSUME SelectorInvariant, Enlist
  PROVE  SelectorInvariant'
<1> DEFINE slots == [i \in 1..Share[Current] |-> enlisted + 1]
<1> USE DEF SelectorInvariant
<1>1. /\ queue \in Seq(1..Len(providers)) /\ Len(queue) \in Nat
      /\ Len(providers) \in Nat /\ enlisted + 1 \in 1..Len(providers)
  BY DEF Enlist, TypeOK
<1>2. Share[Current] \in 1..3
  BY DEF Enlist, Share
<1>3. slots \in Seq(1..Len(providers)) /\ Len(slots) \in 1..3
  <2>1. PICK n \in 1..3 : n = Share[Current]
    BY <1>2
  <2>2. slots \in [1..n -> 1..Len(providers)]
    BY <1>1, <2>1
  <2>3. slots \in Seq(1..Len(providers)) /\ Len(slots) = n
    <3> HIDE DEF slots
    <3>. QED
      BY <2>2, FunctionIsSequence
  <2>. QED
    BY <2>1, <2>3
<1>4. queue' = queue \o slots
  BY DEF Enlist
<1> HIDE DEF slots
<1>5. queue' \in Seq(1..Len(providers)) /\ Len(queue') = Len(queue) + Len(slots)
  BY <1>1, <1>3, <1>4
<1>6. /\ UNCHANGED <<providers, calls>>
      /\ enlisted' = enlisted + 1 /\ phase = "queueing"
      /\ phase' = IF enlisted' = Len(providers) THEN "serving" ELSE "queueing"
  BY DEF Enlist
<1>7. TypeOK'
  BY <1>1, <1>3, <1>5, <1>6 DEF TypeOK, End, calls
<1>8. Constructing'
  BY <1>6 DEF Constructing, calls
<1>9. QueueNotEmpty'
  <2>1. Len(queue') > 0
    BY <1>1, <1>3, <1>5
  <2>2. enlisted' > 0
    BY <1>6 DEF TypeOK
  <2>. QED
    BY <2>1, <2>2 DEF QueueNotEmpty
<1>10. FirstRound'
  BY <1>6 DEF FirstRound, calls
<1>. QED
  BY <1>7, <1>8, <1>9, <1>10

-----------------------------------------------------------------------------
(* What query_once does leaves the startup variables alone. *)
LEMMA QueryInvariant ==
  ASSUME SelectorInvariant, NEW w \in Workers, QueryOnce(w)
  PROVE  SelectorInvariant'
<1> USE DEF SelectorInvariant
<1>1. UNCHANGED startup
  BY DEF QueryOnce, Call, Test, Wrap, Examine, CopyCurr, Advance
<1>2. phase = "serving" /\ Len(queue) \in Nat /\ Len(queue) > 0 /\ End \in Nat
  <2>1. phase = "serving"
    BY DEF QueryOnce, Call, Test, Wrap, Examine, CopyCurr, Advance, Constructing
  <2>. QED
    BY <2>1 DEF QueueNotEmpty, TypeOK, End
<1>3. \A i \in 1..Len(queue) : queue[i] \in 1..Len(providers) /\ latency[queue[i]] = 1
  BY DEF TypeOK, FirstRound, InitialLatency
<1>4. \A i \in 1..End : Succ(i) \in 1..End
  BY <1>2 DEF Succ, End
<1>5. CASE Call(w)
  <2>1. TypeOK'
    BY <1>1, <1>2, <1>5 DEF TypeOK, Call, Goto, startup, End
  <2>. QED
    BY <1>1, <1>2, <1>5, <2>1
    DEF TypeOK, Call, Goto, startup, Constructing, QueueNotEmpty, FirstRound
<1>6. CASE Test(w)
  <2>1. /\ pc' = [pc EXCEPT ![w] = IF curr = End THEN "wrap" ELSE "examine"]
        /\ UNCHANGED <<latency, curr, cter, sampled, tmp, recent>>
    BY <1>2, <1>6 DEF Test, Goto, FirstRound
  <2>2. TypeOK'
    BY <1>1, <2>1 DEF TypeOK, startup, End
  <2>. QED
    BY <1>1, <1>2, <2>1, <2>2
    DEF TypeOK, startup, Constructing, QueueNotEmpty, FirstRound
<1>7. CASE Wrap(w)
  <2>1. TypeOK'
    BY <1>1, <1>2, <1>7 DEF TypeOK, Wrap, Goto, startup, End
  <2>. QED
    BY <1>1, <1>2, <1>7, <2>1
    DEF TypeOK, Wrap, Goto, startup, Constructing, QueueNotEmpty, FirstRound
<1>8. CASE Examine(w)
  <2>1. /\ \E place \in {"wild", "take"} : pc' = [pc EXCEPT ![w] = place]
        /\ sampled' = sampled \/ sampled' = [sampled EXCEPT ![w] = 1]
        /\ UNCHANGED <<latency, curr, cter, tmp, recent>>
    <3>1. CASE curr = End
      BY <1>8, <3>1 DEF Examine, Goto
    <3>2. CASE curr # End
      <4>1. latency[queue[curr]] = 1
        BY <1>2, <1>3, <3>2 DEF TypeOK, End
      <4>2. sampled' = [sampled EXCEPT ![w] = 1] /\ sampled'[w] = 1
        BY <1>8, <3>2, <4>1 DEF Examine, TypeOK
      <4>. QED
        BY <1>8, <3>2, <4>2 DEF Examine, Goto, Limit
    <3>. QED
      BY <3>1, <3>2
  <2>2. TypeOK'
    <3>1. sampled' \in [Workers -> Nat]
      BY <2>1 DEF TypeOK
    <3>2. pc' \in [Workers -> {"idle", "test", "wrap", "examine", "take", "advance",
                              "dropped", "wild"}]
      BY <2>1 DEF TypeOK
    <3>. QED
      BY <1>1, <2>1, <3>1, <3>2 DEF TypeOK, startup, End
  <2>. QED
    BY <1>1, <1>2, <2>1, <2>2
    DEF TypeOK, startup, Constructing, QueueNotEmpty, FirstRound
<1>9. CASE CopyCurr(w)
  <2>1. TypeOK'
    BY <1>1, <1>2, <1>9 DEF TypeOK, CopyCurr, Goto, startup, End
  <2>. QED
    BY <1>1, <1>2, <1>9, <2>1
    DEF TypeOK, CopyCurr, Goto, startup, Constructing, QueueNotEmpty, FirstRound
<1>10. CASE Advance(w)
  <2>1. recent' \in Seq(1..Len(providers))
    <3>1. CASE tmp[w] = End
      BY <1>10, <3>1 DEF Advance, TypeOK
    <3>2. CASE tmp[w] # End
      <4> DEFINE longer == Append(recent, queue[tmp[w]])
      <4>1. tmp[w] \in 1..Len(queue)
        BY <1>2, <3>2 DEF TypeOK, End
      <4>2. queue[tmp[w]] \in 1..Len(providers)
        BY <1>3, <4>1
      <4>3. recent \in Seq(1..Len(providers))
        BY DEF TypeOK
      <4>4. /\ longer \in Seq(1..Len(providers)) /\ longer # <<>>
        BY <4>2, <4>3
      <4>5. Tail(longer) \in Seq(1..Len(providers))
        BY <4>4
      <4>6. recent' = IF Len(longer) > Len(queue) THEN Tail(longer) ELSE longer
        BY <1>10, <3>2 DEF Advance
      <4>. QED
        BY <4>4, <4>5, <4>6
    <3>. QED
      BY <3>1, <3>2
  <2>2. /\ \E place \in {"wild", "idle"} : pc' = [pc EXCEPT ![w] = place]
        /\ curr' = Succ(tmp[w])
        /\ UNCHANGED <<latency, cter, sampled, tmp>>
    BY <1>10 DEF Advance, Goto
  <2>3. curr' \in 1..End
    BY <1>4, <2>2 DEF TypeOK
  <2>4. TypeOK'
    BY <1>1, <2>1, <2>2, <2>3 DEF TypeOK, startup, End
  <2>. QED
    BY <1>1, <1>2, <2>2, <2>4
    DEF TypeOK, startup, Constructing, QueueNotEmpty, FirstRound
<1>. QED
  BY <1>5, <1>6, <1>7, <1>8, <1>9, <1>10 DEF QueryOnce

LEMMA SelectorStep == SelectorInvariant /\ [Next]_vars => SelectorInvariant'
<1> SUFFICES ASSUME SelectorInvariant, [Next]_vars PROVE SelectorInvariant'
  OBVIOUS
<1>1. CASE Load
  BY <1>1, LoadInvariant
<1>2. CASE NoProvider
  <2>1. phase = "queueing"
    BY <1>2 DEF NoProvider
  <2>. QED
    BY <1>2, <2>1, ThrowInvariant DEF NoProvider
<1>3. CASE UnknownProvider
  <2>1. phase = "queueing"
    BY <1>3 DEF UnknownProvider
  <2>. QED
    BY <1>3, <2>1, ThrowInvariant DEF UnknownProvider
<1>4. CASE Enlist
  BY <1>4, EnlistInvariant
<1>5. CASE \E w \in Workers : QueryOnce(w)
  BY <1>5, QueryInvariant
<1>6. CASE UNCHANGED vars
  BY <1>6 DEF vars, startup, calls, SelectorInvariant, TypeOK, Constructing,
              QueueNotEmpty, FirstRound, End
<1>. QED
  BY <1>1, <1>2, <1>3, <1>4, <1>5, <1>6 DEF Next, Startup

(* The iterator and the pool latencies stay in their ranges, whatever the  *)
(* threads do to them (provider_selector.hpp, query_once).                 *)
THEOREM SelectorTypeCorrect == Spec => []TypeOK
<1>1. Init => SelectorInvariant
  BY InitInvariant
<1>2. SelectorInvariant => TypeOK
  BY DEF SelectorInvariant
<1>. QED
  BY <1>1, <1>2, SelectorStep, PTL DEF Spec

(* query_once never returns nullptr: with the latencies that the           *)
(* constructor gives and nobody raises, no request is dropped.             *)
THEOREM NoRequestIsDropped == Spec => []NeverDropped
<1>1. Init => SelectorInvariant
  BY InitInvariant
<1>2. SelectorInvariant => NeverDropped
  BY DEF SelectorInvariant, FirstRound, NeverDropped
<1>. QED
  BY <1>1, <1>2, SelectorStep, PTL DEF Spec

-----------------------------------------------------------------------------
(* From here on there is one thread in io_context.run().                   *)
LEMMA OneThreadKeepsCurr ==
  ASSUME NEW w \in Workers, Workers = {w}, SelectorInvariant, CurrValid, [Next]_vars
  PROVE  CurrValid'
<1>1. Len(queue) \in Nat /\ curr \in 1..End
  BY DEF SelectorInvariant, TypeOK
<1>2. CASE Startup
  <2>1. \A v \in Workers : pc'[v] = "idle"
    BY <1>2 DEF Startup, Load, NoProvider, UnknownProvider, Enlist, Throw, Connected,
                calls, SelectorInvariant, Constructing
  <2>. QED
    BY <2>1 DEF CurrValid
<1>3. CASE QueryOnce(w)
  <2>1. /\ queue' = queue /\ Len(queue) > 0
        /\ pc \in [Workers -> {pc[v] : v \in Workers}]
    <3>1. phase = "serving"
      BY <1>3 DEF QueryOnce, Call, Test, Wrap, Examine, CopyCurr, Advance,
                  SelectorInvariant, Constructing
    <3>2. queue' = queue
      BY <1>3 DEF QueryOnce, Call, Test, Wrap, Examine, CopyCurr, Advance, startup
    <3>3. Len(queue) > 0
      BY <3>1 DEF SelectorInvariant, QueueNotEmpty
    <3>4. pc \in [Workers -> {pc[v] : v \in Workers}]
      BY DEF SelectorInvariant, TypeOK
    <3>. QED
      BY <3>2, <3>3, <3>4
  <2>2. CASE Call(w)
    BY <2>1, <2>2 DEF Call, Goto, CurrValid
  <2>3. CASE Test(w)
    <3>1. /\ pc' = [pc EXCEPT ![w] = IF curr = End THEN "wrap" ELSE "examine"]
          /\ curr' = curr /\ tmp' = tmp
      BY <2>1, <2>3 DEF Test, Goto, SelectorInvariant, FirstRound
    <3>. QED
      BY <2>1, <3>1 DEF CurrValid, End
  <2>4. CASE Wrap(w)
    BY <1>1, <2>1, <2>4 DEF Wrap, Goto, CurrValid, End
  <2>5. CASE Examine(w)
    BY <2>1, <2>5 DEF Examine, Goto, CurrValid, End
  <2>6. CASE CopyCurr(w)
    <3>1. curr # End /\ tmp \in [Workers -> 1..End]
      BY <2>6 DEF CopyCurr, CurrValid, SelectorInvariant, TypeOK
    <3>2. /\ tmp' = [tmp EXCEPT ![w] = curr] /\ pc' = [pc EXCEPT ![w] = "advance"]
          /\ curr' = curr
      BY <2>6 DEF CopyCurr, Goto
    <3>3. tmp'[w] = curr' /\ pc'[w] = "advance" /\ curr' # End'
      BY <2>1, <3>1, <3>2 DEF End
    <3>. QED
      BY <3>3 DEF CurrValid
  <2>7. CASE Advance(w)
    BY <2>1, <2>7 DEF Advance, Goto, CurrValid, End
  <2>. QED
    BY <1>3, <2>2, <2>3, <2>4, <2>5, <2>6, <2>7 DEF QueryOnce
<1>4. CASE UNCHANGED vars
  BY <1>4 DEF vars, startup, calls, CurrValid, End
<1>. QED
  BY <1>2, <1>3, <1>4 DEF Next

(* With one thread in io_context.run(), query_once never dereferences      *)
(* end(): the test for end() and the use of curr are not interleaved.      *)
THEOREM OneThreadSelectsProvider ==
  ASSUME NEW w \in Workers, Workers = {w}
  PROVE  Spec => []SelectsProvider
<1> DEFINE IInv == SelectorInvariant /\ CurrValid
<1>1. Init => IInv
  BY InitInvariant
<1>2. IInv /\ [Next]_vars => IInv'
  BY SelectorStep, OneThreadKeepsCurr
<1>3. IInv => SelectsProvider
  BY DEF CurrValid, SelectsProvider
<1>. QED
  BY <1>1, <1>2, <1>3, PTL DEF Spec

-----------------------------------------------------------------------------
(* The queue is the weights of the providers, written out.                 *)
Slots(p) == {j \in 1..Len(queue) : queue[j] = p}

QueueIsWeighted ==
  /\ \A p \in 1..enlisted : /\ providers[p] \in DOMAIN Share
                            /\ Cardinality(Slots(p)) = Share[providers[p]]
  /\ \A j \in 1..Len(queue) : queue[j] <= enlisted
  /\ phase = "serving" => enlisted = Len(providers)

(* What was selected are the slots before curr, in a circle.               *)
Slot(k) == IF k >= 1 THEN k ELSE k + Len(queue)

InRotation ==
  /\ Len(recent) <= Len(queue)
  /\ \A i \in 1..Len(recent) : recent[i] = queue[Slot(curr - 1 - Len(recent) + i)]

(* Each provider gets a run of slots behind those of the others. *)
LEMMA EnlistKeepsWeights ==
  ASSUME SelectorInvariant, QueueIsWeighted, Enlist
  PROVE  QueueIsWeighted'
<1>1. /\ queue \in Seq(Nat) /\ Len(providers) \in Nat /\ enlisted \in Nat
      /\ enlisted < Len(providers) /\ Share[Current] \in 1..3
  <2>1. TypeOK
    BY DEF SelectorInvariant
  <2>2. queue \in Seq(Nat) /\ Len(providers) \in Nat /\ enlisted \in 0..Len(providers)
    BY <2>1 DEF TypeOK
  <2>3. enlisted < Len(providers) /\ Current \in DOMAIN Share
    BY <2>1, <2>2 DEF Enlist
  <2>. QED
    BY <2>2, <2>3 DEF Share
<1>2. PICK n \in Nat, s \in 1..3, new \in Nat :
        n = Len(queue) /\ s = Share[Current] /\ new = enlisted + 1
  BY <1>1
<1>3. /\ queue' = queue \o [i \in 1..s |-> new] /\ enlisted' = new
      /\ providers' = providers
      /\ phase' = "serving" => new = Len(providers)
      /\ providers[new] \in DOMAIN Share /\ Share[providers[new]] = s
  BY <1>2 DEF Enlist, Current
<1>4. /\ Len(queue') = n + s
      /\ \A j \in 1..n : queue'[j] = queue[j]
      /\ \A j \in (n + 1)..(n + s) : queue'[j] = new
  <2> DEFINE slots == [i \in 1..s |-> new]
  <2>1. slots \in [1..s -> Nat] /\ s \in Nat /\ \A i \in 1..s : slots[i] = new
    OBVIOUS
  <2>2. queue' = queue \o slots
    BY <1>3
  <2> HIDE DEF slots
  <2>3. slots \in Seq(Nat) /\ Len(slots) = s
    BY <2>1, FunctionIsSequence
  <2>4. /\ Len(queue') = n + s
        /\ \A j \in 1..(n + s) : queue'[j] = IF j <= n THEN queue[j] ELSE slots[j - n]
    <3>1. queue \in Seq(Nat) /\ Len(queue) = n
      BY <1>1, <1>2
    <3>. QED
      BY <2>2, <2>3, <3>1
  <2>5. \A j \in (n + 1)..(n + s) : j - n \in 1..s /\ ~(j <= n) /\ j \in 1..(n + s)
    OBVIOUS
  <2>. QED
    BY <2>1, <2>4, <2>5
<1>5. \A j \in 1..n : queue[j] <= enlisted /\ queue[j] \in Nat
  BY <1>1, <1>2 DEF QueueIsWeighted
<1>6. Slots(new)' = (n + 1)..(n + s)
  <2>1. Slots(new)' = {j \in 1..(n + s) : queue'[j] = new}
    BY <1>4 DEF Slots
  <2>2. \A j \in 1..(n + s) : j \in 1..n \/ j \in (n + 1)..(n + s)
    OBVIOUS
  <2>3. \A j \in 1..n : queue'[j] # new
    BY <1>1, <1>2, <1>4, <1>5
  <2>4. \A j \in (n + 1)..(n + s) : j \in 1..(n + s)
    OBVIOUS
  <2>. QED
    BY <1>4, <2>1, <2>2, <2>3, <2>4
<1>7. Cardinality(Slots(new)') = s
  <2>1. Cardinality((n + 1)..(n + s)) = (n + s) - (n + 1) + 1
    BY FS_Interval
  <2>. QED
    BY <1>6, <2>1
<1>8. \A p \in 1..enlisted : Slots(p)' = Slots(p)
  BY <1>1, <1>2, <1>4 DEF Slots
<1>9. \A p \in 1..new : /\ providers[p] \in DOMAIN Share
                        /\ Cardinality(Slots(p)') = Share[providers[p]]
  <2> TAKE p \in 1..new
  <2>1. CASE p = new
    BY <1>3, <1>7, <2>1
  <2>2. CASE p \in 1..enlisted
    BY <1>8, <2>2 DEF QueueIsWeighted
  <2>. QED
    BY <1>1, <1>2, <2>1, <2>2
<1>10. \A j \in 1..Len(queue') : queue'[j] <= new
  <2>1. \A j \in 1..(n + s) : j \in 1..n \/ j \in (n + 1)..(n + s)
    OBVIOUS
  <2>. QED
    BY <1>1, <1>2, <1>4, <1>5, <2>1
<1>. QED
  BY <1>3, <1>9, <1>10 DEF QueueIsWeighted

LEMMA NextKeepsWeights ==
  ASSUME SelectorInvariant, QueueIsWeighted, [Next]_vars
  PROVE  QueueIsWeighted'
<1>1. CASE Load
  <2>1. enlisted = 0 /\ queue = <<>> /\ UNCHANGED <<queue, enlisted>> /\ phase' # "serving"
    BY <1>1 DEF Load, Throw, Connected, SelectorInvariant, Constructing, TypeOK
  <2>. QED
    BY <2>1 DEF QueueIsWeighted
<1>2. CASE NoProvider \/ UnknownProvider
  BY <1>2 DEF NoProvider, UnknownProvider, Throw, QueueIsWeighted, Slots
<1>3. CASE Enlist
  BY <1>3, EnlistKeepsWeights
<1>4. CASE UNCHANGED startup
  BY <1>4 DEF startup, QueueIsWeighted, Slots
<1>5. ASSUME NEW w \in Workers, QueryOnce(w)
      PROVE  UNCHANGED startup
  BY <1>5 DEF QueryOnce, Call, Test, Wrap, Examine, CopyCurr, Advance
<1>. QED
  BY <1>1, <1>2, <1>3, <1>4, <1>5 DEF Next, Startup, vars

(* A selection appends the provider at curr to the selections; everything  *)
(* else moves curr at most from end() to the first slot.                   *)
LEMMA SelectingFacts ==
  ASSUME NEW w \in Workers, SelectorInvariant, CurrValid, QueryOnce(w)
  PROVE  \/ /\ recent' = recent
            /\ curr' = curr \/ (curr = End /\ curr' = 1)
         \/ /\ curr \in 1..Len(queue) /\ curr' = curr + 1
            /\ recent' = LET longer == Append(recent, queue[curr])
                         IN  IF Len(longer) > Len(queue) THEN Tail(longer) ELSE longer
<1>1. CASE Call(w) \/ Test(w) \/ Examine(w) \/ CopyCurr(w)
  <2>1. Test(w) => cter[w] < Len(queue)
    BY DEF Test, SelectorInvariant, FirstRound, TypeOK, Constructing, QueueNotEmpty
  <2>. QED
    BY <1>1, <2>1 DEF Call, Test, Examine, CopyCurr
<1>2. CASE Wrap(w)
  BY <1>2 DEF Wrap, CurrValid
<1>3. CASE Advance(w)
  <2>1. tmp[w] = curr /\ curr \in 1..Len(queue)
    <3>1. tmp[w] = curr /\ curr # End
      BY <1>3 DEF Advance, CurrValid
    <3>2. curr \in 1..End /\ Len(queue) \in Nat
      BY DEF SelectorInvariant, TypeOK
    <3>. QED
      BY <3>1, <3>2 DEF End
  <2>. QED
    BY <1>3, <2>1 DEF Advance, Succ, End
<1>. QED
  BY <1>1, <1>2, <1>3 DEF QueryOnce

LEMMA NextKeepsRotation ==
  ASSUME NEW w \in Workers, Workers = {w}, SelectorInvariant, CurrValid, InRotation,
         SelectorInvariant', [Next]_vars
  PROVE  InRotation'
<1>1. CASE phase # "serving" /\ Startup
  <2>1. recent' = <<>>
    BY <1>1 DEF Startup, Load, NoProvider, UnknownProvider, Enlist, Throw, Connected,
                calls, SelectorInvariant, Constructing
  <2>2. Len(queue') \in Nat
    BY DEF SelectorInvariant, TypeOK
  <2>. QED
    BY <2>1, <2>2 DEF InRotation
<1>2. CASE QueryOnce(w)
  <2>1. PICK n \in Nat, m \in Nat, c \in Nat :
          /\ n = Len(queue) /\ m = Len(recent) /\ c = curr
          /\ c \in 1..(n + 1) /\ m <= n /\ n > 0
    <3>1. phase = "serving"
      <4> SUFFICES ASSUME phase # "serving" PROVE FALSE
        OBVIOUS
      <4>1. pc[w] = "idle"
        BY DEF SelectorInvariant, Constructing
      <4>2. ~Call(w)
        BY DEF Call
      <4>3. ~Test(w) /\ ~Wrap(w)
        BY <4>1 DEF Test, Wrap
      <4>4. ~Examine(w) /\ ~CopyCurr(w) /\ ~Advance(w)
        BY <4>1 DEF Examine, CopyCurr, Advance
      <4>. QED
        BY <1>2, <4>2, <4>3, <4>4 DEF QueryOnce
    <3>2. Len(queue) \in Nat /\ Len(recent) \in Nat /\ curr \in 1..(Len(queue) + 1)
          /\ Len(queue) > 0
      <4>1. TypeOK /\ QueueNotEmpty
        BY DEF SelectorInvariant
      <4>2. Len(queue) \in Nat /\ Len(recent) \in Nat /\ curr \in 1..(Len(queue) + 1)
        BY <4>1 DEF TypeOK, End
      <4>3. Len(queue) > 0
        BY <3>1, <4>1 DEF QueueNotEmpty
      <4>. QED
        BY <4>2, <4>3
    <3>3. Len(recent) <= Len(queue) /\ curr \in Nat
      BY <3>2 DEF InRotation
    <3>. QED
      BY <3>2, <3>3
  <2>2. \A i \in 1..m : recent[i] = queue[LET k == c - 1 - m + i
                                          IN  IF k >= 1 THEN k ELSE k + n]
    <3>1. \A i \in 1..Len(recent) :
            recent[i] = queue[LET k == curr - 1 - Len(recent) + i
                              IN  IF k >= 1 THEN k ELSE k + Len(queue)]
      BY DEF InRotation, Slot
    <3>. QED
      BY <2>1, <3>1
  <2>3. queue' = queue /\ recent \in Seq(Nat) /\ queue \in Seq(Nat)
    <3>1. recent \in Seq(Nat) /\ queue \in Seq(Nat)
      <4>1. TypeOK
        BY DEF SelectorInvariant
      <4>. QED
        BY <4>1 DEF TypeOK
    <3>2. CASE Call(w) \/ Test(w) \/ Wrap(w)
      BY <3>1, <3>2 DEF Call, Test, Wrap, startup
    <3>3. CASE Examine(w) \/ CopyCurr(w) \/ Advance(w)
      BY <3>1, <3>3 DEF Examine, CopyCurr, Advance, startup
    <3>. QED
      BY <1>2, <3>2, <3>3 DEF QueryOnce
  <2>4. ASSUME NEW mm \in Nat, mm = Len(recent'), mm <= n,
               \A i \in 1..mm : recent'[i] = queue[LET k == curr' - 1 - mm + i
                                                  IN  IF k >= 1 THEN k ELSE k + n]
        PROVE  InRotation'
    BY <2>1, <2>3, <2>4 DEF InRotation, Slot
  <2>5. CASE recent' = recent /\ curr' = curr
    BY <2>1, <2>2, <2>4, <2>5
  <2>6. CASE recent' = recent /\ curr = End /\ curr' = 1
    <3>1. c = n + 1
      BY <2>1, <2>6 DEF End
    <3>2. \A i \in 1..m : /\ c - 1 - m + i >= 1 /\ ~(1 - 1 - m + i >= 1)
                          /\ (1 - 1 - m + i) + n = c - 1 - m + i
      BY <2>1, <3>1
    <3>3. \A i \in 1..m : recent[i] = queue[c - 1 - m + i]
      BY <2>2, <3>2
    <3>. QED
      BY <2>1, <2>4, <2>6, <3>2, <3>3
  <2>7. CASE /\ curr \in 1..Len(queue) /\ curr' = curr + 1
             /\ recent' = LET longer == Append(recent, queue[curr])
                          IN  IF Len(longer) > Len(queue) THEN Tail(longer) ELSE longer
    <3> DEFINE longer == Append(recent, queue[c])
    <3>1. /\ c \in 1..n /\ curr' = c + 1 /\ longer \in Seq(Nat)
          /\ Len(longer) = m + 1 /\ longer[m + 1] = queue[c]
          /\ \A i \in 1..m : longer[i] = recent[i]
          /\ recent' = IF m + 1 > n THEN Tail(longer) ELSE longer
      BY <2>1, <2>3, <2>7
    <3> HIDE DEF longer
    <3>2. CASE m < n
      <4>1. recent' = longer /\ m + 1 <= n
        BY <2>1, <3>1, <3>2
      <4>2. \A i \in 1..(m + 1) :
              longer[i] = queue[LET k == (c + 1) - 1 - (m + 1) + i
                                IN  IF k >= 1 THEN k ELSE k + n]
        <5> TAKE i \in 1..(m + 1)
        <5>1. CASE i \in 1..m
          <6>1. (c + 1) - 1 - (m + 1) + i = c - 1 - m + i
            OBVIOUS
          <6>. QED
            BY <2>2, <3>1, <5>1, <6>1
        <5>2. CASE i = m + 1
          <6>1. (c + 1) - 1 - (m + 1) + i = c /\ c >= 1
            BY <3>1, <5>2
          <6>. QED
            BY <3>1, <5>2, <6>1
        <5>. QED
          BY <5>1, <5>2
      <4>3. m + 1 \in Nat /\ m + 1 = Len(recent') /\ m + 1 <= n /\ curr' = c + 1
        BY <2>1, <3>1, <4>1
      <4>. QED
        BY <2>4, <4>1, <4>2, <4>3
    <3>3. CASE m = n
      <4>1. /\ recent' = Tail(longer) /\ Len(recent') = n
            /\ \A i \in 1..n : recent'[i] = longer[i + 1]
        BY <2>1, <3>1, <3>3
      <4>2. \A i \in 1..n :
              recent'[i] = queue[LET k == (c + 1) - 1 - n + i
                                 IN  IF k >= 1 THEN k ELSE k + n]
        <5> TAKE i \in 1..n
        <5>1. CASE i < n
          <6>1. i + 1 \in 1..m /\ (c + 1) - 1 - n + i = c - 1 - m + (i + 1)
            BY <3>3, <5>1
          <6>. QED
            BY <2>2, <3>1, <4>1, <6>1
        <5>2. CASE i = n
          <6>1. (c + 1) - 1 - n + i = c /\ c >= 1
            BY <3>1, <5>2
          <6>. QED
            BY <3>1, <3>3, <4>1, <5>2, <6>1
        <5>. QED
          BY <5>1, <5>2
      <4>3. curr' = c + 1 /\ n = Len(recent') /\ n <= n
        BY <3>1, <4>1
      <4>. QED
        BY <2>4, <4>2, <4>3
    <3>. QED
      BY <2>1, <3>2, <3>3
  <2>. QED
    BY <1>2, <2>5, <2>6, <2>7, SelectingFacts
<1>3. CASE UNCHANGED vars
  BY <1>3 DEF vars, startup, calls, InRotation, Slot
<1>4. Startup => phase # "serving"
  BY DEF Startup, Load, NoProvider, UnknownProvider, Enlist
<1>. QED
  BY <1>1, <1>2, <1>3, <1>4 DEF Next

(* A turn of the circle has every slot once. *)
LEMMA TurnHasEverySlot ==
  ASSUME SelectorInvariant, InRotation, Len(recent) = Len(queue), NEW p
  PROVE  Cardinality({i \in DOMAIN recent : recent[i] = p}) = Cardinality(Slots(p))
<1>1. PICK n \in Nat, c \in Nat :
        /\ n = Len(queue) /\ n = Len(recent) /\ c = curr /\ c \in 1..(n + 1)
        /\ DOMAIN recent = 1..n
  BY DEF SelectorInvariant, TypeOK, End
<1> DEFINE S == {i \in 1..n : recent[i] = p}
           T == {j \in 1..n : queue[j] = p}
           turn == [i \in S |-> LET k == c - 1 - n + i
                                IN  IF k >= 1 THEN k ELSE k + n]
<1>2. \A i \in 1..n : recent[i] = queue[LET k == c - 1 - n + i
                                        IN  IF k >= 1 THEN k ELSE k + n]
  BY <1>1 DEF InRotation, Slot
<1>3. turn \in [S -> T]
  <2>1. ASSUME NEW i \in S
        PROVE  turn[i] \in T
    <3>1. i \in 1..n /\ recent[i] = p
      OBVIOUS
    <3>2. turn[i] \in 1..n
      BY <1>1, <3>1
    <3>3. queue[turn[i]] = p
      BY <1>2, <3>1
    <3> HIDE DEF turn
    <3>. QED
      BY <3>2, <3>3
  <2>. QED
    BY <2>1
<1>4. \A i, j \in S : turn[i] = turn[j] => i = j
  BY <1>1
<1>5. \A j \in T : \E i \in S : turn[i] = j
  <2> TAKE j \in T
  <2> DEFINE i == IF j >= c THEN j - c + 1 ELSE j - c + 1 + n
  <2>1. i \in 1..n /\ j \in 1..n /\ queue[j] = p
    BY <1>1
  <2>2. (LET k == c - 1 - n + i IN IF k >= 1 THEN k ELSE k + n) = j
    BY <1>1, <2>1
  <2>3. i \in S
    BY <1>2, <2>1, <2>2
  <2>. QED
    BY <2>2, <2>3
<1>6. turn \in Bijection(S, T)
  <2> HIDE DEF turn, S, T
  <2>. QED
    BY <1>3, <1>4, <1>5 DEF Bijection, Injection, Surjection, IsInjective
<1>7. IsFiniteSet(S)
  <2>1. IsFiniteSet(1..n) /\ S \in SUBSET (1..n)
    BY FS_Interval
  <2>. QED
    BY <2>1, FS_Subset
<1>8. Cardinality(S) = Cardinality(T)
  BY <1>6, <1>7, FS_Bijection DEF ExistsBijection
<1>. QED
  BY <1>1, <1>8 DEF Slots

(* With one thread, among as many selections in a row as the queue has     *)
(* slots each provider occurs as often as its size says, for every list    *)
(* of providers and from wherever the row starts.                          *)
THEOREM OneThreadIsFair ==
  ASSUME NEW w \in Workers, Workers = {w}
  PROVE  Spec => []WindowFair
<1> DEFINE IInv == SelectorInvariant /\ CurrValid /\ QueueIsWeighted /\ InRotation
<1>1. Init => IInv
  BY InitInvariant DEF Init, QueueIsWeighted, InRotation
<1>2. IInv /\ [Next]_vars => IInv'
  BY SelectorStep, OneThreadKeepsCurr, NextKeepsWeights, NextKeepsRotation
<1>3. IInv => WindowFair
  <2> SUFFICES ASSUME IInv, phase = "serving", Len(recent) = Len(queue),
                      NEW p \in 1..Len(providers)
               PROVE  Cardinality({i \in DOMAIN recent : recent[i] = p}) =
                        CASE providers[p] = "provider-small" -> 1
                          [] providers[p] = "provider-medium" -> 2
                          [] providers[p] = "provider-large" -> 3
    BY DEF WindowFair
  <2>1. Cardinality({i \in DOMAIN recent : recent[i] = p}) = Cardinality(Slots(p))
    BY TurnHasEverySlot
  <2>2. providers[p] \in DOMAIN Share /\ Cardinality(Slots(p)) = Share[providers[p]]
    BY DEF QueueIsWeighted
  <2>. QED
    BY <2>1, <2>2 DEF Share
<1>. QED
  BY <1>1, <1>2, <1>3, PTL DEF Spec
=============================================================================
