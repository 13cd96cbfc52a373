------------------------------ MODULE Registry ------------------------------
(***************************************************************************)
(* The registration of provider agents in etcd, and the start of the       *)
(* consumer agent that reads it (etcd_service.cc, provider_agent.cc,       *)
(* provider_selector.hpp, main.cc).  The key "server" holds the addresses  *)
(* joined by '|'; it is modelled as the sequence that get_list splits it   *)
(* into.  append is a get and a set, two requests to etcd, and nothing     *)
(* makes them one: each agent is a process of its own.  An agent's name is *)
(* what main was called with, anything that begins with "provider"; one    *)
(* with a '|' in it, which get_list would split, is left out.              *)
(***************************************************************************)
EXTENDS Integers, Sequences, FiniteSets, Functions

CONSTANTS
  Providers,   \* the provider agents, each with an address of its own
  MaxStarts    \* bound on how often each agent is started

ASSUME RegistryAssumption == IsFiniteSet(Providers) /\ MaxStarts \in Nat

VARIABLES
  name,        \* what kind of name main was called with for each agent
  list,        \* the value of the key "server"
  pc,          \* where each agent is in its constructor and listen()
  seen,        \* what the agent's last sync_get returned
  starts,      \* how often the agent was started
  consumer,    \* where the consumer agent is in its constructor and listen()
  todo,        \* the entries of the list it has still to connect to
  loaded,      \* its providers, each with all of its pooled connections
  reachable    \* whether etcd answers

agents == <<name, list, pc, seen, starts>>
startup == <<consumer, todo, loaded>>
vars == <<agents, startup, reachable>>

(* provider-small, -medium or -large; or another; or one with a ':' in it, *)
(* which makes the address that is registered no host:port.                *)
Names == {"sized", "unknown", "malformed"}

Sized == {p \in Providers : name[p] = "sized"}
Malformed == {p \in Providers : name[p] = "malformed"}

Places == {"down", "get", "set", "registered", "listening"}
(* At "exited" the constructor of the consumer agent has thrown. *)
Stages == {"down", "reading", "connecting", "serving", "exited"}

Registered == {p \in Providers : pc[p] \in {"registered", "listening"}}

Count(p, s) == Cardinality({i \in 1..Len(s) : s[i] = p})
-----------------------------------------------------------------------------
Init ==
  /\ name \in [Providers -> Names]
  /\ list = <<>>
  /\ pc = [p \in Providers |-> "down"]
  /\ seen = [p \in Providers |-> <<>>]
  /\ starts = [p \in Providers |-> 0]
  /\ consumer = "down"
  /\ todo = <<>>
  /\ loaded = <<>>
  /\ reachable = TRUE

(* etcd stops answering, or answers again. *)
Etcd == reachable' = ~reachable /\ UNCHANGED <<agents, startup>>

(* main constructs the agent, for the first time or after a crash. *)
Start(p) ==
  /\ pc[p] = "down"
  /\ starts[p] < MaxStarts
  /\ starts' = [starts EXCEPT ![p] = @ + 1]
  /\ pc' = [pc EXCEPT ![p] = "get"]
  /\ UNCHANGED <<name, list, seen, startup, reachable>>

(* append: sync_get.  A missing key is read as the empty list. *)
Get(p) ==
  /\ pc[p] = "get" /\ reachable
  /\ seen' = [seen EXCEPT ![p] = list]
  /\ pc' = [pc EXCEPT ![p] = "set"]
  /\ UNCHANGED <<name, list, starts, startup, reachable>>

(* Faulty variants: a separator is put before the first address; the       *)
(* agent's own address is left out; the append is repeated when the list   *)
(* has changed since it was read; the address replaces the list.           *)
FaultySetSeparator(p) ==
  /\ pc[p] = "set" /\ reachable
  /\ list' = Append(IF seen[p] = <<>> THEN <<"">> ELSE seen[p], p)
  /\ pc' = [pc EXCEPT ![p] = "registered"]
  /\ UNCHANGED <<name, seen, starts, startup, reachable>>

FaultySetNothing(p) ==
  /\ pc[p] = "set" /\ reachable
  /\ list' = seen[p]
  /\ pc' = [pc EXCEPT ![p] = "registered"]
  /\ UNCHANGED <<name, seen, starts, startup, reachable>>

FaultySetAgain(p) ==
  /\ pc[p] = "set" /\ reachable
  /\ list' = Append(seen[p], p)
  /\ pc' = [pc EXCEPT ![p] = IF list = seen[p] THEN "registered" ELSE "get"]
  /\ UNCHANGED <<name, seen, starts, startup, reachable>>

FaultySetStale(p) ==
  /\ pc[p] = "set" /\ reachable
  /\ list' = <<p>>
  /\ pc' = [pc EXCEPT ![p] = "registered"]
  /\ UNCHANGED <<name, seen, starts, startup, reachable>>

(* append: sync_set of what was read, with the agent's address behind it. *)
Set(p) ==
  /\ pc[p] = "set" /\ reachable
  /\ list' = Append(seen[p], p)
  /\ pc' = [pc EXCEPT ![p] = "registered"]
  /\ UNCHANGED <<name, seen, starts, startup, reachable>>

(* agent.listen: only now can a consumer agent connect to the address. *)
Listen(p) ==
  /\ pc[p] = "registered"
  /\ pc' = [pc EXCEPT ![p] = "listening"]
  /\ UNCHANGED <<name, list, seen, starts, startup, reachable>>

(* The process ends, and nothing takes its entry away: by an exception that *)
(* main does not catch, when etcd fails the get or the set, or when the     *)
(* port is taken; or killed at any point, or by one of its sessions.  A set *)
(* that etcd did, but whose response is lost, is Set and then Crash.        *)
Ends(p) ==
  /\ pc' = [pc EXCEPT ![p] = "down"]
  /\ UNCHANGED <<name, list, seen, starts, startup, reachable>>

AppendFails(p) == pc[p] \in {"get", "set"} /\ ~reachable /\ Ends(p)

ListenFails(p) == pc[p] = "registered" /\ Ends(p)

Crash(p) == pc[p] # "down" /\ Ends(p)

Agent(p) == \/ Start(p) \/ Get(p) \/ Set(p) \/ AppendFails(p)
            \/ Listen(p) \/ ListenFails(p) \/ Crash(p)
-----------------------------------------------------------------------------
(* main constructs the consumer agent, whose selector connects to etcd. *)
StartConsumer ==
  /\ consumer \in {"down", "exited"}
  /\ consumer' = "reading"
  /\ UNCHANGED <<agents, todo, loaded, reachable>>

(* get_list: the only time that the list is read. *)
GetList ==
  /\ consumer = "reading" /\ reachable
  /\ todo' = list
  /\ consumer' = "connecting"
  /\ UNCHANGED <<agents, loaded, reachable>>

(* The constructor throws, which ends main. *)
Throw ==
  /\ consumer' = "exited"
  /\ todo' = <<>> /\ loaded' = <<>>
  /\ UNCHANGED <<agents, reachable>>

(* "etcd_cli sync_get failed. ..." *)
GetFails == consumer = "reading" /\ ~reachable /\ Throw

(* "Bad server_addr from etcd: ..." *)
BadAddress == todo # <<>> /\ Head(todo) \in Malformed

(* The constructor of provider_info fills its pool: every connection is    *)
(* made at once.  One that is refused is an exception.                     *)
Refused == todo # <<>> /\ ~BadAddress /\ pc[Head(todo)] # "listening"

(* Faulty variant: the loop over the list ends after the first entry.      *)
FaultyConnectNext ==
  /\ consumer = "connecting" /\ todo # <<>> /\ ~BadAddress /\ ~Refused
  /\ loaded' = Append(loaded, Head(todo))
  /\ todo' = <<>>
  /\ UNCHANGED <<agents, consumer, reachable>>

ConnectNext ==
  /\ consumer = "connecting" /\ todo # <<>> /\ ~BadAddress /\ ~Refused
  /\ loaded' = Append(loaded, Head(todo))
  /\ todo' = Tail(todo)
  /\ UNCHANGED <<agents, consumer, reachable>>

(* "No provider available. Unable to provide service..." *)
NoProvider == todo = <<>> /\ loaded = <<>>

(* "naive robin found unknown provider." *)
UnknownProvider == todo = <<>> /\ Range(loaded) \ Sized # {}

Exit ==
  /\ consumer = "connecting"
  /\ BadAddress \/ Refused \/ NoProvider \/ UnknownProvider
  /\ Throw

(* The queue is built, and main calls agent.listen, with the providers     *)
(* that were loaded, once and for all.                                     *)
Serve ==
  /\ consumer = "connecting" /\ todo = <<>> /\ loaded # <<>>
  /\ Range(loaded) \subseteq Sized
  /\ consumer' = "serving"
  /\ UNCHANGED <<agents, todo, loaded, reachable>>

(* The process is killed, or do_listen does not get its port.              *)
EndConsumer ==
  /\ consumer' = "down"
  /\ todo' = <<>> /\ loaded' = <<>>
  /\ UNCHANGED <<agents, reachable>>

CannotListen == consumer = "serving" /\ EndConsumer

CrashConsumer == consumer \notin {"down", "exited"} /\ EndConsumer

Consumer == \/ StartConsumer \/ GetList \/ GetFails \/ ConnectNext \/ Exit
            \/ Serve \/ CannotListen \/ CrashConsumer

Next == (\E p \in Providers : Agent(p)) \/ Consumer \/ Etcd

Spec == Init /\ [][Next]_vars
-----------------------------------------------------------------------------
(* The types of the variables. *)
TypeOK ==
  /\ name \in [Providers -> Names]
  /\ list \in Seq(Providers)
  /\ pc \in [Providers -> Places]
  /\ seen \in [Providers -> Seq(Providers)]
  /\ starts \in [Providers -> 0..MaxStarts]
  /\ consumer \in Stages
  /\ todo \in Seq(Providers)
  /\ loaded \in Seq(Providers)
  /\ reachable \in BOOLEAN

(* However the gets and sets of append interleave, an agent is never       *)
(* listed more often than it was started: the list a consumer agent reads, *)
(* from which it gives each entry a share of the load, has no made-up      *)
(* entries.                                                                *)
EntriesPerStart == \A p \in Providers : Count(p, list) <= starts[p]

(* Racing appends of etcd_service.cc can lose registrations, but not all:  *)
(* when some agent has registered the list is not empty.                   *)
SomebodyListed == Registered # {} => list # <<>>

(* etcd_service.cc: "Append value to list on etcd server."  An agent that  *)
(* has returned from append is in the list.                                *)
RegisteredIsListed == Registered \subseteq Range(list)

(* A deployment in which no agent reads the list between the get and the   *)
(* set of another one.  Nothing in the code arranges it.                   *)
OneAtATime == \A p, q \in Providers : pc[p] = "set" /\ pc[q] = "set" => p = q

(* It is only by overlapping appends that a registration is lost: not by   *)
(* crashes, restarts or duplicates.                                        *)
SerialKeepsRegistered == []OneAtATime => []RegisteredIsListed

(* A deployment in which, while the consumer agent starts, every provider  *)
(* agent that was ever started is up and listens.                          *)
Starting == consumer \in {"reading", "connecting"}
Started == {p \in Providers : starts[p] > 0}
Calm == Starting => Started # {} /\ \A p \in Started : pc[p] = "listening"

(* ... with etcd answering, and only agents of the three known names.      *)
Sound == Starting => reachable /\ Started \subseteq Sized

(* An agent is in the list before it listens, and for ever: a consumer     *)
(* agent that starts while one is down, or between its append and its      *)
(* listen, is refused and its constructor throws; and one agent of another *)
(* name makes it throw from then on.  Otherwise it does not throw, though  *)
(* appends may have raced and agents crashed and restarted before.         *)
CalmStartSucceeds == []Calm /\ []Sound => [](consumer # "exited")

(* The consumer agent never looks at the list again.  If the appends did   *)
(* not overlap either, it has loaded every agent when it starts to serve.  *)
CalmStartLoadsAll == []Calm /\ []OneAtATime =>
  [](consumer = "connecting" /\ todo = <<>> => Registered \subseteq Range(loaded))
=============================================================================
