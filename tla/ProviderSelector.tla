-------------------------- MODULE ProviderSelector --------------------------
(***************************************************************************)
(* consumer::provider_selector (provider_selector.hpp): the constructor,   *)
(* which turns the list read from etcd into the queue of a weighted round  *)
(* robin, and query_once, which the threads of io_context.run() call for   *)
(* every request.  The iterator curr is a static local of query_once that  *)
(* the threads share without a lock, so each use of it is a step.  Past    *)
(* the last node of the std::list is end(), whose successor is the first.  *)
(***************************************************************************)
EXTENDS Integers, Sequences, SequencesExt

CONSTANTS
  Workers,      \* threads in io_context.run(): --threads
  Hosts,        \* host names that occur in the list
  BadEntry,     \* an entry that is not host:port
  MaxEntries    \* bound on the length of the list

ASSUME SelectorAssumption ==
  /\ BadEntry \notin Hosts
  /\ MaxEntries \in Nat

VARIABLES
  phase,        \* "loading", "queueing", then "serving", or "exited" by a throw
  providers,    \* providers, by host name
  latency,      \* connpool_latency of each provider
  queue,        \* robin_queue, of indices into providers
  enlisted,     \* how many of the providers are in the queue
  curr,         \* the position of curr, Len(queue) + 1 for end()
  pc,           \* where each worker is in query_once
  cter,         \* cter of each worker
  sampled,      \* curr_pool_latency of each worker
  tmp,          \* the copy of curr from which curr++ advances
  recent        \* history: the last Len(queue) selections

startup == <<phase, providers, queue, enlisted>>
calls == <<latency, curr, pc, cter, sampled, tmp, recent>>
vars == <<startup, calls>>

Limit == 10000       \* the pool latency from which a provider is passed over
Relief == 51427      \* what a dropped request takes off the pool latency

(* Faulty variant: connpool_latency starts like latency does. *)
FaultyInitialLatency == 50000
InitialLatency == 1  \* of connpool_latency, which nothing else raises

(* Faulty variant: provider-large is pushed only twice. *)
FaultyShare == [h \in {"provider-small", "provider-medium", "provider-large"} |->
                  IF h = "provider-small" THEN 1 ELSE 2]

(* How often a provider is pushed to the queue, for the hosts it knows.    *)
Share == [h \in {"provider-small", "provider-medium", "provider-large"} |->
            CASE h = "provider-small" -> 1
              [] h = "provider-medium" -> 2
              [] h = "provider-large" -> 3]

End == Len(queue) + 1
Succ(i) == IF i = End THEN 1 ELSE i + 1

Init ==
  /\ phase = "loading"
  /\ providers = <<>>
  /\ latency = <<>>
  /\ queue = <<>>
  /\ enlisted = 0
  /\ curr = 1
  /\ pc = [w \in Workers |-> "idle"]
  /\ cter = [w \in Workers |-> 0]
  /\ sampled = [w \in Workers |-> 1]
  /\ tmp = [w \in Workers |-> 1]
  /\ recent = <<>>
-----------------------------------------------------------------------------
Throw == phase' = "exited" /\ UNCHANGED <<providers, queue, enlisted, calls>>

(* Faulty variant: connpool_latency is not initialized. *)
FaultyConnected(entries) ==
  /\ providers' = entries
  /\ phase' = "queueing"
  /\ UNCHANGED <<queue, enlisted, calls>>

Connected(entries) ==
  /\ providers' = entries
  /\ latency' = [i \in DOMAIN entries |-> InitialLatency]
  /\ phase' = "queueing"
  /\ UNCHANGED <<queue, enlisted, curr, pc, cter, sampled, tmp, recent>>

(* The loop over etcd.get_list("server"); entries are those that it does   *)
(* not skip because they are empty.  It throws when one is not host:port   *)
(* or refuses the connection.                                              *)
Load ==
  /\ phase = "loading"
  /\ \E entries \in BoundedSeq(Hosts \cup {BadEntry}, MaxEntries),
        reachable \in SUBSET Hosts :
       IF \E i \in DOMAIN entries : entries[i] \notin reachable
       THEN Throw
       ELSE Connected(entries)

(* "No provider available. Unable to provide service..." *)
NoProvider == phase = "queueing" /\ providers = <<>> /\ Throw

Current == providers[enlisted + 1]

(* "naive robin found unknown provider." *)
UnknownProvider ==
  /\ phase = "queueing" /\ enlisted < Len(providers)
  /\ Current \notin DOMAIN Share
  /\ Throw

(* The next provider is pushed to robin_queue, as often as its size says. *)
Enlist ==
  /\ phase = "queueing" /\ enlisted < Len(providers)
  /\ Current \in DOMAIN Share
  /\ queue' = queue \o [i \in 1..Share[Current] |-> enlisted + 1]
  /\ enlisted' = enlisted + 1
  /\ phase' = IF enlisted' = Len(providers) THEN "serving" ELSE "queueing"
  /\ UNCHANGED <<providers, calls>>
-----------------------------------------------------------------------------
Goto(w, place) == pc' = [pc EXCEPT ![w] = place]

Call(w) ==
  /\ phase = "serving"
  /\ pc[w] \in {"idle", "dropped"}
  /\ cter' = [cter EXCEPT ![w] = 0]
  /\ sampled' = [sampled EXCEPT ![w] = 1]
  /\ Goto(w, "test")
  /\ UNCHANGED <<startup, latency, curr, tmp, recent>>

(* "All server latency over 100us... Dropping request...": the provider at *)
(* curr is relieved, and curr moves on.                                    *)
Drop(w) ==
  /\ IF curr = End
     THEN Goto(w, "wild") /\ UNCHANGED latency
     ELSE /\ latency' = [latency EXCEPT ![queue[curr]] =
                           IF sampled[w] > Relief THEN sampled[w] - Relief ELSE 1]
          /\ Goto(w, "dropped")
  /\ curr' = Succ(curr)

(* The loop condition and the test for end(). *)
Test(w) ==
  /\ pc[w] = "test"
  /\ IF cter[w] < Len(queue)
     THEN /\ Goto(w, IF curr = End THEN "wrap" ELSE "examine")
          /\ UNCHANGED <<latency, curr>>
     ELSE Drop(w)
  /\ UNCHANGED <<startup, cter, sampled, tmp, recent>>

(* Faulty variant: the iterator is not wrapped. *)
FaultyWrap(w) ==
  /\ pc[w] = "wrap"
  /\ Goto(w, "examine")
  /\ UNCHANGED <<startup, latency, curr, cter, sampled, tmp, recent>>

Wrap(w) ==
  /\ pc[w] = "wrap"
  /\ curr' = 1
  /\ Goto(w, "examine")
  /\ UNCHANGED <<startup, latency, cter, sampled, tmp, recent>>

(* The pool latency of the provider at curr.  At end() there is no         *)
(* provider_info to read from, and what happens is undefined.              *)
Examine(w) ==
  /\ pc[w] = "examine"
  /\ IF curr = End
     THEN Goto(w, "wild") /\ UNCHANGED <<cter, sampled>>
     ELSE /\ sampled' = [sampled EXCEPT ![w] = latency[queue[curr]]]
          /\ IF sampled'[w] < Limit
             THEN Goto(w, "take") /\ UNCHANGED cter
             ELSE Goto(w, "test") /\ cter' = [cter EXCEPT ![w] = @ + 1]
  /\ UNCHANGED <<startup, latency, curr, tmp, recent>>

(* curr++ first copies curr ... *)
CopyCurr(w) ==
  /\ pc[w] = "take"
  /\ tmp' = [tmp EXCEPT ![w] = curr]
  /\ Goto(w, "advance")
  /\ UNCHANGED <<startup, latency, curr, cter, sampled, recent>>

(* ... then advances it, and the provider at the copy is returned. *)
Advance(w) ==
  /\ pc[w] = "advance"
  /\ curr' = Succ(tmp[w])
  /\ IF tmp[w] = End
     THEN Goto(w, "wild") /\ UNCHANGED recent
     ELSE /\ Goto(w, "idle")
          /\ recent' = LET longer == Append(recent, queue[tmp[w]])
                       IN  IF Len(longer) > Len(queue) THEN Tail(longer) ELSE longer
  /\ UNCHANGED <<startup, latency, cter, sampled, tmp>>

Startup == Load \/ NoProvider \/ UnknownProvider \/ Enlist

QueryOnce(w) == \/ Call(w) \/ Test(w) \/ Wrap(w) \/ Examine(w)
                \/ CopyCurr(w) \/ Advance(w)

Next == Startup \/ \E w \in Workers : QueryOnce(w)

Spec == Init /\ [][Next]_vars
-----------------------------------------------------------------------------
(* The types of the variables. *)
TypeOK ==
  /\ phase \in {"loading", "queueing", "serving", "exited"}
  /\ providers \in Seq(Hosts)
  /\ latency \in [1..Len(providers) -> Nat]
  /\ queue \in Seq(1..Len(providers))
  /\ enlisted \in 0..Len(providers)
  /\ curr \in 1..End
  /\ pc \in [Workers -> {"idle", "test", "wrap", "examine", "take", "advance",
                         "dropped", "wild"}]
  /\ cter \in [Workers -> 0..Len(queue)]
  /\ sampled \in [Workers -> Nat]
  /\ tmp \in [Workers -> 1..End]
  /\ recent \in Seq(1..Len(providers))

(* provider_selector.hpp: "Select one provider to query".  query_once      *)
(* never reads a provider from the end of the list.                        *)
SelectsProvider == \A w \in Workers : pc[w] # "wild"

(* No request is dropped for the latency of the providers: once a server   *)
(* is selected by size, nothing in query_once turns a request away.        *)
NeverDropped == \A w \in Workers : pc[w] # "dropped"

(* "do auto-balance here": among as many selections in a row as the queue  *)
(* has slots, each provider occurs as often as its size says, wherever the *)
(* row starts and however often its host is in the list.                   *)
WindowFair == phase = "serving" /\ Len(recent) = Len(queue) =>
  \A p \in 1..Len(providers) :
    Cardinality({i \in DOMAIN recent : recent[i] = p}) =
      CASE providers[p] = "provider-small" -> 1
        [] providers[p] = "provider-medium" -> 2
        [] providers[p] = "provider-large" -> 3
=============================================================================
