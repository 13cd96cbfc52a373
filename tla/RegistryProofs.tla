--------------------------- MODULE RegistryProofs ---------------------------
(***************************************************************************)
(* Proofs about Registry for every set of agents and every bound on their  *)
(* starts.                                                                 *)
(***************************************************************************)
EXTENDS Registry, FiniteSetTheorems, TLAPS

USE RegistryAssumption DEF Places, Stages, Names

-----------------------------------------------------------------------------
(***************************************************************************)
(* However an agent ends, it is as if it had been killed.                  *)
(***************************************************************************)
LEMMA AgentMoves ==
  ASSUME NEW p, Agent(p)
  PROVE  Start(p) \/ Get(p) \/ Set(p) \/ Listen(p) \/ Crash(p)
BY DEF Agent, AppendFails, ListenFails, Crash

LEMMA ConsumerMoves ==
  ASSUME Consumer
  PROVE  \/ StartConsumer \/ GetList \/ ConnectNext \/ Serve
         \/ GetFails \/ Exit \/ CrashConsumer
BY DEF Consumer, CannotListen, CrashConsumer

(* How often an entry occurs in a list. *)
LEMMA CountEmpty == \A p : Count(p, <<>>) = 0
<1>1. \A p : {i \in 1..Len(<<>>) : <<>>[i] = p} = {}
  OBVIOUS
<1>. QED
  BY <1>1, FS_EmptySet DEF Count

LEMMA CountAppend ==
  ASSUME NEW s \in Seq(Providers), NEW p \in Providers, NEW e \in Providers
  PROVE  /\ Count(p, s) \in Nat
         /\ Count(p, Append(s, e)) = IF e = p THEN Count(p, s) + 1 ELSE Count(p, s)
<1> DEFINE Before == {i \in 1..Len(s) : s[i] = p}
           After  == {i \in 1..Len(Append(s, e)) : Append(s, e)[i] = p}
<1>1. /\ Len(s) \in Nat /\ Len(Append(s, e)) = Len(s) + 1
      /\ Append(s, e)[Len(s) + 1] = e /\ \A i \in 1..Len(s) : Append(s, e)[i] = s[i]
  OBVIOUS
<1>2. IsFiniteSet(Before) /\ Cardinality(Before) \in Nat
  <2>1. IsFiniteSet(1..Len(s))
    BY <1>1, FS_Interval
  <2>2. IsFiniteSet(Before)
    BY <2>1, FS_Subset
  <2>. QED
    BY <2>2, FS_CardinalityType
<1>3. CASE e = p
  <2>1. After = Before \cup {Len(s) + 1} /\ Len(s) + 1 \notin Before
    BY <1>1, <1>3
  <2>2. Cardinality(Before \cup {Len(s) + 1}) = Cardinality(Before) + 1
    BY <1>2, <2>1, FS_AddElement
  <2>. QED
    BY <1>2, <1>3, <2>1, <2>2 DEF Count
<1>4. CASE e # p
  <2>1. After = Before
    BY <1>1, <1>4
  <2>. QED
    BY <1>2, <1>4, <2>1 DEF Count
<1>. QED
  BY <1>3, <1>4

-----------------------------------------------------------------------------
(***************************************************************************)
(* An agent that has not come to its set is not listed for its current     *)
(* start, neither in the list nor in what another agent is about to write  *)
(* back.                                                                   *)
(***************************************************************************)
Budget(p) == IF pc[p] \in {"get", "set"} THEN starts[p] - 1 ELSE starts[p]

ListWithinBudget == \A p \in Providers : Count(p, list) <= Budget(p)

SeenWithinBudget == \A p, q \in Providers :
  pc[q] = "set" => Count(p, seen[q]) <= Budget(p)

RunningStarted == \A p \in Providers : pc[p] # "down" => starts[p] >= 1

EntriesInv == TypeOK /\ ListWithinBudget /\ SeenWithinBudget /\ RunningStarted

LEMMA InitEntriesInv == Init => EntriesInv
BY CountEmpty DEF Init, EntriesInv, TypeOK, ListWithinBudget, SeenWithinBudget,
                  Budget, RunningStarted

LEMMA NextKeepsTypeOK == TypeOK /\ [Next]_vars => TypeOK'
<1> SUFFICES ASSUME TypeOK, [Next]_vars PROVE TypeOK'
  OBVIOUS
<1> USE DEF TypeOK
<1>1. ASSUME NEW p \in Providers, Start(p) PROVE TypeOK'
  BY <1>1 DEF Start, startup
<1>2. ASSUME NEW p \in Providers, Get(p) PROVE TypeOK'
  BY <1>2 DEF Get, startup
<1>3. ASSUME NEW p \in Providers, Set(p) PROVE TypeOK'
  <2>1. Append(seen[p], p) \in Seq(Providers)
    OBVIOUS
  <2>. QED
    BY <1>3, <2>1 DEF Set, startup
<1>4. ASSUME NEW p \in Providers, Listen(p) \/ Crash(p) PROVE TypeOK'
  BY <1>4 DEF Listen, Crash, Ends, startup
<1>5. CASE Consumer
  <2> USE DEF Throw, EndConsumer
  <2>1. CASE StartConsumer \/ GetList
    BY <2>1 DEF StartConsumer, GetList, agents
  <2>2. CASE GetFails \/ Exit \/ Serve \/ CrashConsumer
    <3>1. <<>> \in Seq(Providers)
      OBVIOUS
    <3>2. UNCHANGED <<agents, reachable>> /\ consumer' \in Stages
      BY <2>2 DEF GetFails, Exit, Serve, CrashConsumer
    <3>3. todo' \in Seq(Providers) /\ loaded' \in Seq(Providers)
      BY <2>2, <3>1 DEF GetFails, Exit, Serve, CrashConsumer
    <3>. QED
      BY <3>2, <3>3 DEF agents
  <2>3. CASE ConnectNext
    <3>1. Head(todo) \in Providers /\ Tail(todo) \in Seq(Providers)
      BY <2>3 DEF ConnectNext
    <3>2. Append(loaded, Head(todo)) \in Seq(Providers)
      BY <3>1
    <3>. QED
      BY <2>3, <3>1, <3>2 DEF ConnectNext, agents
  <2>. QED
    BY <1>5, <2>1, <2>2, <2>3, ConsumerMoves
<1>6. CASE Etcd \/ UNCHANGED vars
  BY <1>6 DEF Etcd, vars, agents, startup
<1>. QED
  BY <1>1, <1>2, <1>3, <1>4, <1>5, <1>6, AgentMoves DEF Next

(* The consumer agent only reads what the provider agents write. *)
LEMMA ConsumerLeavesAgents == Consumer \/ Etcd => UNCHANGED agents
BY DEF Consumer, StartConsumer, GetList, GetFails, ConnectNext, Exit, Throw, Serve,
       CannotListen, CrashConsumer, EndConsumer, Etcd

LEMMA NextKeepsEntriesInv == EntriesInv /\ [Next]_vars => EntriesInv'
<1> SUFFICES ASSUME EntriesInv, [Next]_vars PROVE EntriesInv'
  OBVIOUS
<1>1. TypeOK /\ TypeOK'
  BY NextKeepsTypeOK DEF EntriesInv
<1>2. /\ list \in Seq(Providers) /\ pc \in [Providers -> Places]
      /\ seen \in [Providers -> Seq(Providers)] /\ starts \in [Providers -> Nat]
  BY <1>1 DEF TypeOK
<1>3. /\ \A p \in Providers : Count(p, list) \in Nat /\ Count(p, list) <= Budget(p)
      /\ \A p, q \in Providers : /\ Count(p, seen[q]) \in Nat
                                 /\ pc[q] = "set" => Count(p, seen[q]) <= Budget(p)
      /\ \A p \in Providers : Budget(p) \in Int /\ (pc[p] # "down" => starts[p] >= 1)
  BY <1>2, CountAppend
     DEF EntriesInv, ListWithinBudget, SeenWithinBudget, Budget, RunningStarted
<1>4. ASSUME NEW r \in Providers, Start(r) \/ Listen(r) \/ Crash(r) PROVE EntriesInv'
  <2>1. /\ UNCHANGED <<list, seen>>
        /\ \A q \in Providers : pc'[q] = "set" => pc[q] = "set"
    BY <1>2, <1>4 DEF Start, Listen, Crash, Ends
  <2>2. \A p \in Providers : Budget(p) <= Budget(p)' /\ Budget(p)' \in Int
    <3>1. CASE Start(r)
      BY <1>2, <3>1 DEF Start, Budget
    <3>2. CASE Listen(r) \/ Crash(r)
      BY <1>2, <3>2 DEF Listen, Crash, Ends, Budget
    <3>. QED
      BY <1>4, <3>1, <3>2
  <2>3. \A p \in Providers : pc'[p] # "down" => starts'[p] >= 1
    <3>1. CASE Start(r)
      BY <1>2, <1>3, <3>1 DEF Start
    <3>2. CASE Listen(r) \/ Crash(r)
      BY <1>2, <1>3, <3>2 DEF Listen, Crash, Ends
    <3>. QED
      BY <1>4, <3>1, <3>2
  <2>4. ListWithinBudget' /\ RunningStarted'
    BY <1>3, <2>1, <2>2, <2>3 DEF ListWithinBudget, RunningStarted
  <2>5. SeenWithinBudget'
    BY <1>3, <2>1, <2>2 DEF SeenWithinBudget
  <2>. QED
    BY <1>1, <2>4, <2>5 DEF EntriesInv
<1>5. ASSUME NEW r \in Providers, Get(r) PROVE EntriesInv'
  <2>1. /\ UNCHANGED <<list, starts>> /\ seen' = [seen EXCEPT ![r] = list]
        /\ pc[r] = "get" /\ pc' = [pc EXCEPT ![r] = "set"]
    BY <1>5 DEF Get
  <2>2. \A p \in Providers : Budget(p)' = Budget(p)
    BY <1>2, <2>1 DEF Budget
  <2>. QED
    BY <1>1, <1>2, <1>3, <2>1, <2>2
       DEF EntriesInv, ListWithinBudget, SeenWithinBudget, RunningStarted
<1>6. ASSUME NEW r \in Providers, Set(r) PROVE EntriesInv'
  <2>1. /\ UNCHANGED <<seen, starts>> /\ list' = Append(seen[r], r)
        /\ pc[r] = "set" /\ pc' = [pc EXCEPT ![r] = "registered"]
    BY <1>6 DEF Set
  <2>2. /\ \A p \in Providers \ {r} : Budget(p)' = Budget(p)
        /\ Budget(r)' = Budget(r) + 1
    BY <1>2, <2>1 DEF Budget
  <2>3. ASSUME NEW p \in Providers PROVE Count(p, list') <= Budget(p)'
    <3>1. /\ Count(p, seen[r]) \in Nat /\ Count(p, seen[r]) <= Budget(p)
          /\ Budget(p) \in Int
      BY <1>3, <2>1
    <3>2. Count(p, list') = IF r = p THEN Count(p, seen[r]) + 1 ELSE Count(p, seen[r])
      BY <1>2, <2>1, CountAppend
    <3>3. Budget(p)' = IF r = p THEN Budget(p) + 1 ELSE Budget(p)
      BY <2>2
    <3>. QED
      BY <3>1, <3>2, <3>3
  <2>4. \A p \in Providers : Budget(p) <= Budget(p)'
    BY <1>3, <2>2
  <2>5. ASSUME NEW p \in Providers, NEW q \in Providers, pc'[q] = "set"
        PROVE  Count(p, seen'[q]) <= Budget(p)'
    <3>1. pc[q] = "set" /\ seen'[q] = seen[q]
      BY <1>2, <2>1, <2>5
    <3>2. Budget(p)' \in Int
      BY <1>3, <2>2
    <3>. QED
      BY <1>3, <2>4, <3>1, <3>2
  <2>6. RunningStarted'
    BY <1>2, <1>3, <2>1 DEF RunningStarted
  <2>. QED
    BY <1>1, <2>3, <2>5, <2>6 DEF EntriesInv, ListWithinBudget, SeenWithinBudget
<1>7. CASE UNCHANGED agents
  BY <1>1, <1>3, <1>7
     DEF agents, EntriesInv, ListWithinBudget, SeenWithinBudget, Budget, RunningStarted
<1>. QED
  BY <1>4, <1>5, <1>6, <1>7, ConsumerLeavesAgents, AgentMoves DEF Next, vars

(* The variables keep their types. *)
THEOREM RegistryTypeCorrect == Spec => []TypeOK
<1>1. Init => TypeOK
  BY DEF Init, TypeOK
<1>. QED
  BY <1>1, NextKeepsTypeOK, PTL DEF Spec

(* In every interleaving of the gets and sets, an agent has at most one    *)
(* entry for each time it was started.                                     *)
THEOREM NoMadeUpEntries == Spec => []EntriesPerStart
<1>1. EntriesInv => EntriesPerStart
  <2> SUFFICES ASSUME EntriesInv, NEW p \in Providers
               PROVE  Count(p, list) <= starts[p]
    BY DEF EntriesPerStart
  <2>1. /\ list \in Seq(Providers) /\ starts[p] \in Nat /\ Count(p, list) <= Budget(p)
    BY DEF EntriesInv, TypeOK, ListWithinBudget
  <2>2. Count(p, list) \in Nat
    BY <2>1, CountAppend
  <2>. QED
    BY <2>1, <2>2 DEF Budget
<1>. QED
  BY <1>1, InitEntriesInv, NextKeepsEntriesInv, PTL DEF Spec

-----------------------------------------------------------------------------
(***************************************************************************)
(* Appends that do not overlap: what an agent is about to write back is    *)
(* what the list still is.                                                 *)
(***************************************************************************)
SeenIsCurrent == \A p \in Providers : pc[p] = "set" => seen[p] = list

SerialInv == TypeOK /\ OneAtATime /\ SeenIsCurrent /\ RegisteredIsListed

LEMMA NextKeepsSerialInv == SerialInv /\ [Next /\ OneAtATime']_vars => SerialInv'
<1> SUFFICES ASSUME SerialInv, [Next /\ OneAtATime']_vars PROVE SerialInv'
  OBVIOUS
<1>1. /\ TypeOK' /\ list \in Seq(Providers) /\ pc \in [Providers -> Places]
      /\ seen \in [Providers -> Seq(Providers)]
      /\ \A p, q \in Providers : pc[p] = "set" /\ pc[q] = "set" => p = q
      /\ \A p \in Providers : pc[p] = "set" => seen[p] = list
      /\ Registered \subseteq Range(list)
  BY NextKeepsTypeOK DEF SerialInv, TypeOK, OneAtATime, SeenIsCurrent, RegisteredIsListed
<1>2. CASE UNCHANGED agents
  BY <1>1, <1>2 DEF agents, SerialInv, OneAtATime, SeenIsCurrent, RegisteredIsListed, Registered
<1>3. ASSUME NEW r \in Providers, Start(r) \/ Listen(r) \/ Crash(r), OneAtATime'
      PROVE  SerialInv'
  <2>1. UNCHANGED <<list, seen>> /\ Registered' \subseteq Registered
    BY <1>1, <1>3 DEF Start, Listen, Crash, Ends, Registered
  <2>2. \A p \in Providers : pc'[p] = "set" => pc[p] = "set"
    BY <1>1, <1>3 DEF Start, Listen, Crash, Ends
  <2>. QED
    BY <1>1, <1>3, <2>1, <2>2 DEF SerialInv, SeenIsCurrent, RegisteredIsListed
<1>4. ASSUME NEW r \in Providers, Get(r), OneAtATime'
      PROVE  SerialInv'
  <2>1. /\ list' = list /\ Registered' \subseteq Registered
        /\ \A p \in Providers : pc'[p] = "set" => seen'[p] = list
    BY <1>1, <1>4 DEF Get, Registered
  <2>. QED
    BY <1>1, <1>4, <2>1 DEF SerialInv, SeenIsCurrent, RegisteredIsListed
<1>5. ASSUME NEW r \in Providers, Set(r), OneAtATime'
      PROVE  SerialInv'
  <2>1. /\ list' = Append(list, r)
        /\ \A p \in Providers : pc'[p] # "set"
        /\ Registered' \subseteq Registered \cup {r}
    BY <1>1, <1>5 DEF Set, Registered
  <2>2. Range(list) \cup {r} \subseteq Range(list')
    <3>1. /\ DOMAIN list = 1..Len(list) /\ DOMAIN list' = 1..(Len(list) + 1)
          /\ Len(list) \in Nat /\ list'[Len(list) + 1] = r
          /\ \A i \in 1..Len(list) : list'[i] = list[i]
      BY <1>1, <2>1
    <3>2. Len(list) + 1 \in DOMAIN list' /\ \A i \in DOMAIN list : i \in DOMAIN list'
      BY <3>1
    <3>. QED
      BY <3>1, <3>2 DEF Range
  <2>. QED
    BY <1>1, <1>5, <2>1, <2>2 DEF SerialInv, SeenIsCurrent, RegisteredIsListed
<1>. QED
  BY <1>2, <1>3, <1>4, <1>5, ConsumerLeavesAgents, AgentMoves DEF Next, vars

(* When the appends do not overlap, none is lost. *)
THEOREM SerialAppendsAreKept == Spec => SerialKeepsRegistered
<1>1. Init => SerialInv
  BY DEF Init, SerialInv, TypeOK, OneAtATime, SeenIsCurrent, RegisteredIsListed, Registered
<1>2. SerialInv => RegisteredIsListed
  BY DEF SerialInv
<1>3. [Next]_vars /\ OneAtATime' => [Next /\ OneAtATime']_vars
  OBVIOUS
<1>. QED
  BY <1>1, <1>2, <1>3, NextKeepsSerialInv, PTL DEF Spec, SerialKeepsRegistered

-----------------------------------------------------------------------------
(***************************************************************************)
(* The start of the consumer agent.  It can only be refused by an agent    *)
(* that was started once, and an empty list means that none has            *)
(* registered.                                                             *)
(***************************************************************************)
Entries(s) == {s[i] : i \in 1..Len(s)}

OnlyStartedListed ==
  /\ Entries(list) \subseteq Started
  /\ \A p \in Providers : Entries(seen[p]) \subseteq Started
  /\ \A p \in Providers : pc[p] # "down" => p \in Started

StartOnCourse ==
  /\ Entries(todo) \subseteq Started /\ Entries(loaded) \subseteq Started
  /\ consumer = "connecting" => todo # <<>> \/ loaded # <<>>
  /\ consumer # "exited"

ListInv == TypeOK /\ SomebodyListed /\ OnlyStartedListed

LEMMA EntriesAppend ==
  ASSUME NEW s \in Seq(Providers), NEW e \in Providers
  PROVE  Entries(Append(s, e)) = Entries(s) \cup {e}
<1>1. /\ Len(s) \in Nat /\ Len(Append(s, e)) = Len(s) + 1
      /\ Append(s, e)[Len(s) + 1] = e /\ \A i \in 1..Len(s) : Append(s, e)[i] = s[i]
  OBVIOUS
<1>. QED
  BY <1>1 DEF Entries

LEMMA EntriesTail ==
  ASSUME NEW s \in Seq(Providers), s # <<>>
  PROVE  /\ Head(s) \in Providers /\ Tail(s) \in Seq(Providers)
         /\ Entries(s) = {Head(s)} \cup Entries(Tail(s))
<1>1. /\ Len(s) \in Nat /\ Len(s) >= 1 /\ Head(s) = s[1] /\ Head(s) \in Providers
      /\ Tail(s) \in Seq(Providers) /\ Len(Tail(s)) = Len(s) - 1
      /\ \A i \in 1..Len(Tail(s)) : Tail(s)[i] = s[i + 1]
  OBVIOUS
<1>2. \A i \in 1..Len(s) : i = 1 \/ (i - 1 \in 1..Len(Tail(s)) /\ s[i] = Tail(s)[i - 1])
  BY <1>1
<1>3. ASSUME NEW e \in Entries(s) PROVE e \in {Head(s)} \cup Entries(Tail(s))
  <2>1. PICK i \in 1..Len(s) : e = s[i]
    BY DEF Entries
  <2>. QED
    BY <1>1, <1>2, <2>1 DEF Entries
<1>4. ASSUME NEW e \in Entries(Tail(s)) PROVE e \in Entries(s)
  <2>1. PICK i \in 1..Len(Tail(s)) : e = Tail(s)[i]
    BY DEF Entries
  <2>2. i + 1 \in 1..Len(s) /\ e = s[i + 1]
    BY <1>1, <2>1
  <2>. QED
    BY <2>2 DEF Entries
<1>5. Head(s) \in Entries(s)
  <2>1. 1 \in 1..Len(s)
    BY <1>1
  <2>. QED
    BY <1>1, <2>1 DEF Entries
<1>. QED
  BY <1>1, <1>3, <1>4, <1>5

LEMMA EntriesAreRange == \A s \in Seq(Providers) : Entries(s) = Range(s)
<1> SUFFICES ASSUME NEW s \in Seq(Providers) PROVE Entries(s) = Range(s)
  OBVIOUS
<1>1. DOMAIN s = 1..Len(s)
  OBVIOUS
<1>. QED
  BY <1>1 DEF Entries, Range

LEMMA EntriesEmpty == Entries(<<>>) = {}
BY DEF Entries

LEMMA InitListInv == Init => ListInv
<1> SUFFICES ASSUME Init PROVE ListInv
  OBVIOUS
<1>1. TypeOK
  BY DEF Init, TypeOK
<1>2. SomebodyListed
  BY DEF Init, SomebodyListed, Registered
<1>3. OnlyStartedListed
  BY EntriesEmpty DEF Init, OnlyStartedListed
<1>. QED
  BY <1>1, <1>2, <1>3 DEF ListInv

LEMMA StartedGrows == TypeOK /\ [Next]_vars => Started \subseteq Started'
<1> SUFFICES ASSUME TypeOK, [Next]_vars PROVE Started \subseteq Started'
  OBVIOUS
<1>1. starts \in [Providers -> Nat]
  BY DEF TypeOK
<1>2. ASSUME NEW r \in Providers, Start(r) PROVE Started \subseteq Started'
  BY <1>1, <1>2 DEF Start, Started
<1>3. ASSUME NEW r \in Providers, Get(r) \/ Set(r) \/ Listen(r) \/ Crash(r)
      PROVE  Started \subseteq Started'
  BY <1>3 DEF Get, Set, Listen, Crash, Ends, Started
<1>4. CASE UNCHANGED agents
  BY <1>4 DEF agents, Started
<1>. QED
  BY <1>2, <1>3, <1>4, ConsumerLeavesAgents, AgentMoves DEF Next, vars

LEMMA NextKeepsListInv == ListInv /\ [Next]_vars => ListInv'
<1> SUFFICES ASSUME ListInv, [Next]_vars PROVE ListInv'
  OBVIOUS
<1>1. /\ TypeOK' /\ Started \subseteq Started' /\ list \in Seq(Providers)
      /\ pc \in [Providers -> Places] /\ seen \in [Providers -> Seq(Providers)]
      /\ starts \in [Providers -> Nat]
      /\ Registered # {} => list # <<>>
  <2>1. TypeOK /\ (Registered # {} => list # <<>>)
    BY DEF ListInv, SomebodyListed
  <2>2. TypeOK' /\ Started \subseteq Started'
    BY <2>1, NextKeepsTypeOK, StartedGrows
  <2>3. /\ list \in Seq(Providers) /\ pc \in [Providers -> Places]
        /\ seen \in [Providers -> Seq(Providers)] /\ starts \in [Providers -> Nat]
    BY <2>1 DEF TypeOK
  <2>. QED
    BY <2>1, <2>2, <2>3
<1>2. /\ Entries(list) \subseteq Started
      /\ \A p \in Providers : Entries(seen[p]) \subseteq Started
      /\ \A p \in Providers : pc[p] # "down" => p \in Started
  BY DEF ListInv, OnlyStartedListed
<1>3. CASE UNCHANGED agents
  BY <1>1, <1>2, <1>3
     DEF agents, ListInv, SomebodyListed, OnlyStartedListed, Registered, Started
<1>4. ASSUME NEW r \in Providers, Start(r) PROVE ListInv'
  <2>1. UNCHANGED <<list, seen>> /\ Registered' \subseteq Registered
    BY <1>1, <1>4 DEF Start, Registered
  <2>2. \A p \in Providers : pc'[p] # "down" => p \in Started'
    BY <1>1, <1>2, <1>4 DEF Start, Started
  <2>. QED
    BY <1>1, <1>2, <2>1, <2>2 DEF ListInv, SomebodyListed, OnlyStartedListed
<1>5. ASSUME NEW r \in Providers, Get(r) \/ Listen(r) \/ Crash(r) PROVE ListInv'
  <2>1. /\ list' = list /\ Registered' \subseteq Registered
        /\ \A p \in Providers : pc'[p] # "down" => pc[p] # "down"
    BY <1>1, <1>5 DEF Get, Listen, Crash, Ends, Registered
  <2>2. \A p \in Providers : seen'[p] = seen[p] \/ seen'[p] = list
    BY <1>1, <1>5 DEF Get, Listen, Crash, Ends
  <2>. QED
    BY <1>1, <1>2, <2>1, <2>2 DEF ListInv, SomebodyListed, OnlyStartedListed
<1>6. ASSUME NEW r \in Providers, Set(r) PROVE ListInv'
  <2>1. /\ list' = Append(seen[r], r) /\ seen' = seen
        /\ \A p \in Providers : pc'[p] # "down" => pc[p] # "down"
    BY <1>1, <1>6 DEF Set
  <2>2. list' # <<>> /\ r \in Started
    BY <1>1, <1>2, <1>6, <2>1 DEF Set
  <2>3. Entries(list') = Entries(seen[r]) \cup {r}
    BY <1>1, <2>1, EntriesAppend
  <2>. QED
    BY <1>1, <1>2, <2>1, <2>2, <2>3 DEF ListInv, SomebodyListed, OnlyStartedListed
<1>. QED
  BY <1>3, <1>4, <1>5, <1>6, ConsumerLeavesAgents, AgentMoves DEF Next, vars

(* When some agent has returned from append, the list is not empty,        *)
(* whichever registrations racing appends have lost.                       *)
THEOREM SomebodyIsListed == Spec => []SomebodyListed
<1>1. ListInv => SomebodyListed
  BY DEF ListInv
<1>. QED
  BY <1>1, InitListInv, NextKeepsListInv, PTL DEF Spec

LEMMA CalmKeepsCourse ==
  ListInv /\ StartOnCourse /\ [Next /\ Calm /\ Sound]_vars => StartOnCourse'
<1> SUFFICES ASSUME ListInv, StartOnCourse, [Next /\ Calm /\ Sound]_vars
             PROVE  StartOnCourse'
  OBVIOUS
<1>1. /\ todo \in Seq(Providers) /\ list \in Seq(Providers)
      /\ loaded \in Seq(Providers) /\ Started \subseteq Started'
      /\ Entries(list) \subseteq Started /\ Entries(todo) \subseteq Started
      /\ Entries(loaded) \subseteq Started
      /\ consumer = "connecting" => todo # <<>> \/ loaded # <<>>
      /\ consumer # "exited"
  <2>1. [Next]_vars
    OBVIOUS
  <2>. QED
    BY <2>1, StartedGrows DEF ListInv, TypeOK, OnlyStartedListed, StartOnCourse
<1>2. CASE UNCHANGED startup
  BY <1>1, <1>2 DEF startup, StartOnCourse
<1>3. ASSUME NEW p \in Providers, Agent(p) PROVE UNCHANGED startup
  BY <1>3, AgentMoves DEF Start, Get, Set, Listen, Crash, Ends
<1>4. CASE StartConsumer \/ Serve
  BY <1>1, <1>4 DEF StartConsumer, Serve, StartOnCourse
<1>5. CASE CrashConsumer
  BY <1>1, <1>5, EntriesEmpty DEF CrashConsumer, EndConsumer, StartOnCourse
<1>6. CASE GetList /\ Calm
  <2>1. PICK p \in Started : pc[p] = "listening"
    BY <1>6 DEF GetList, Calm, Starting
  <2>2. p \in Registered
    BY <2>1 DEF Registered, Started
  <2>3. list # <<>>
    BY <2>2 DEF ListInv, SomebodyListed
  <2>4. todo' = list /\ consumer' = "connecting" /\ UNCHANGED agents
    BY <1>6 DEF GetList
  <2>5. loaded' = loaded
    BY <1>6 DEF GetList
  <2>. QED
    BY <1>1, <2>3, <2>4, <2>5 DEF StartOnCourse, Entries
<1>7. CASE ConnectNext
  <2>1. /\ Head(todo) \in Providers /\ Head(todo) \in Entries(todo)
        /\ Entries(Tail(todo)) \subseteq Entries(todo)
    BY <1>1, <1>7, EntriesTail DEF ConnectNext
  <2>2. Entries(Append(loaded, Head(todo))) = Entries(loaded) \cup {Head(todo)}
    BY <1>1, <2>1, EntriesAppend
  <2>3. /\ todo' = Tail(todo) /\ loaded' = Append(loaded, Head(todo))
        /\ consumer' = consumer
    BY <1>7 DEF ConnectNext
  <2>4. Entries(todo)' = Entries(todo') /\ Entries(loaded)' = Entries(loaded')
    BY DEF Entries
  <2>5. loaded' # <<>>
    BY <2>2, <2>3, EntriesEmpty
  <2>. QED
    BY <1>1, <2>1, <2>2, <2>3, <2>4, <2>5 DEF StartOnCourse
<1>8. CASE Exit /\ Calm /\ Sound
  <2>1. consumer = "connecting" /\ Started \subseteq Sized
        /\ \A p \in Started : pc[p] = "listening"
    BY <1>8 DEF Exit, Calm, Sound, Starting
  <2>2. ~NoProvider
    BY <1>1, <2>1 DEF NoProvider
  <2>3. ~UnknownProvider
    BY <1>1, <2>1, EntriesAreRange DEF UnknownProvider
  <2>4. todo # <<>> => Head(todo) \in Started
    BY <1>1, EntriesTail
  <2>5. ~BadAddress /\ ~Refused
    BY <2>1, <2>4 DEF BadAddress, Refused, Sized, Malformed
  <2>. QED
    BY <1>8, <2>2, <2>3, <2>5 DEF Exit
<1>9. CASE GetFails /\ Sound
  BY <1>9 DEF GetFails, Sound, Starting
<1>10. CASE Etcd
  BY <1>2, <1>10 DEF Etcd
<1>. QED
  BY <1>2, <1>3, <1>4, <1>5, <1>6, <1>7, <1>8, <1>9, <1>10, ConsumerMoves DEF Next, vars

(* A consumer agent that starts while etcd answers and every agent that    *)
(* was ever started listens, and has a name the selector knows, does not   *)
(* throw in its constructor, whatever has happened before.                 *)
THEOREM CalmConsumerStarts == Spec => CalmStartSucceeds
<1>1. Init => StartOnCourse
  BY EntriesEmpty DEF Init, StartOnCourse
<1>2. StartOnCourse => consumer # "exited"
  BY DEF StartOnCourse
<1>3. [Next]_vars /\ Calm /\ Sound => [Next /\ Calm /\ Sound]_vars
  OBVIOUS
<1>. QED
  BY <1>1, <1>2, <1>3, InitListInv, NextKeepsListInv, CalmKeepsCourse, PTL
     DEF Spec, CalmStartSucceeds

-----------------------------------------------------------------------------
(***************************************************************************)
(* A calm start after appends that did not overlap: every agent that was   *)
(* started is loaded or still to be connected to.                          *)
(***************************************************************************)
NobodyMissed ==
  consumer = "connecting" => Started \subseteq Entries(todo) \cup Entries(loaded)

LEMMA CalmMissesNobody ==
  SerialInv /\ NobodyMissed /\ Calm /\ Calm' /\ [Next]_vars => NobodyMissed'
<1> SUFFICES ASSUME SerialInv, NobodyMissed, Calm, Calm', [Next]_vars
             PROVE  NobodyMissed'
  OBVIOUS
<1>1. /\ todo \in Seq(Providers) /\ list \in Seq(Providers)
      /\ loaded \in Seq(Providers) /\ pc \in [Providers -> Places]
      /\ starts \in [Providers -> Nat]
  BY DEF SerialInv, TypeOK
<1>2. CASE Etcd \/ UNCHANGED vars
  BY <1>2 DEF Etcd, vars, agents, startup, NobodyMissed, Started, Entries
<1>3. ASSUME NEW r \in Providers, Start(r) PROVE NobodyMissed'
  <2>1. r \in Started' /\ pc'[r] = "get" /\ consumer' = consumer
    BY <1>1, <1>3 DEF Start, Started, startup
  <2>. QED
    BY <2>1 DEF Calm, Starting, NobodyMissed
<1>4. ASSUME NEW r \in Providers, Get(r) \/ Set(r) \/ Listen(r) \/ Crash(r)
      PROVE  NobodyMissed'
  <2>1. UNCHANGED <<starts, consumer, todo, loaded>>
    BY <1>4 DEF Get, Set, Listen, Crash, Ends, startup
  <2>. QED
    BY <2>1 DEF NobodyMissed, Started, Entries
<1>5. CASE StartConsumer \/ GetFails \/ Exit \/ Serve \/ CrashConsumer
  <2>1. consumer' # "connecting"
    BY <1>5 DEF StartConsumer, GetFails, Exit, Throw, Serve, CrashConsumer, EndConsumer
  <2>. QED
    BY <2>1 DEF NobodyMissed
<1>6. CASE GetList
  <2>1. Started \subseteq Registered
    BY <1>6 DEF GetList, Calm, Starting, Started, Registered
  <2>2. Registered \subseteq Entries(list)
    BY <1>1, EntriesAreRange DEF SerialInv, RegisteredIsListed
  <2>3. todo' = list /\ starts' = starts
    BY <1>6 DEF GetList, agents
  <2>. QED
    BY <2>1, <2>2, <2>3 DEF NobodyMissed, Started, Entries
<1>7. CASE ConnectNext
  <2>1. /\ consumer = "connecting" /\ todo # <<>> /\ starts' = starts
        /\ todo' = Tail(todo) /\ loaded' = Append(loaded, Head(todo))
    BY <1>7 DEF ConnectNext, agents
  <2>2. Head(todo) \in Providers /\ Entries(todo) = {Head(todo)} \cup Entries(todo')
    BY <1>1, <2>1, EntriesTail
  <2>3. Entries(loaded') = Entries(loaded) \cup {Head(todo)}
    BY <1>1, <2>1, <2>2, EntriesAppend
  <2>4. Started' = Started
    BY <2>1 DEF Started
  <2>5. /\ Entries(todo)' = Entries(todo') /\ Entries(loaded)' = Entries(loaded')
    BY DEF Entries
  <2>. QED
    BY <2>1, <2>2, <2>3, <2>4, <2>5 DEF NobodyMissed
<1>. QED
  BY <1>2, <1>3, <1>4, <1>5, <1>6, <1>7, AgentMoves, ConsumerMoves DEF Next

(* Without overlapping appends either, the consumer agent has connected to *)
(* every registered agent when it starts to serve.                         *)
THEOREM CalmConsumerLoadsAll == Spec => CalmStartLoadsAll
<1>1. Init => SerialInv /\ NobodyMissed
  BY DEF Init, SerialInv, TypeOK, OneAtATime, SeenIsCurrent, RegisteredIsListed,
         Registered, NobodyMissed
<1>2. ListInv /\ SerialInv /\ NobodyMissed =>
        (consumer = "connecting" /\ todo = <<>> => Registered \subseteq Range(loaded))
  <2> SUFFICES ASSUME ListInv, SerialInv, NobodyMissed, consumer = "connecting", todo = <<>>
               PROVE  Registered \subseteq Range(loaded)
    OBVIOUS
  <2>1. Started \subseteq Range(loaded)
    BY EntriesEmpty, EntriesAreRange DEF NobodyMissed, SerialInv, TypeOK
  <2>2. Registered \subseteq Started
    BY DEF ListInv, OnlyStartedListed, Registered
  <2>. QED
    BY <2>1, <2>2
<1>3. [Next]_vars /\ OneAtATime' => [Next /\ OneAtATime']_vars
  OBVIOUS
<1>. QED
  BY <1>1, <1>2, <1>3, InitListInv, NextKeepsListInv, NextKeepsSerialInv,
     CalmMissesNobody, PTL
     DEF Spec, CalmStartLoadsAll
=============================================================================
