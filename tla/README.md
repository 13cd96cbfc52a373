# A TLA+ model of ali-middleware

ali-middleware is two programs in one binary. The **consumer agent** takes HTTP
requests, selects a provider agent for each and forwards it over a pooled TCP
connection. A **provider agent** takes such requests, forwards each to a dubbo
server over a pooled TCP connection, and returns the answer. Provider agents
announce themselves in etcd; the consumer agent reads the list once, when it
starts. This directory models the logic of both agents: the pools and the list
they share, the registration and the start of the consumer agent, the selection,
and the two halves of a request's path.

Paths are relative to the repository (`src/`, `lib/`, `test/`).

## Inventory

| component | state it keeps | operations | hard because | what makes it correct |
|---|---|---|---|---|
| coroutine pool, `lib/pool.hpp` 109-209 with `lib/boost_asio_event.hpp` | buffer of objects, free list, event with pending waits | `fill_full`, `try_borrow_one`, `borrow_one`, `release_one` | coroutines on several threads; check, wait and notify are not one step; building may throw | an object has one borrower and none is lost; nobody waits beside a free object; every waiter is served |
| thread pool, `lib/pool.hpp` 17-107 | the same, a condition variable and `new_obj_ready` | `try_borrow_one`, `borrow_one`, `release_one` | one flag for many objects; spurious wake-ups | the same; `borrow_one` never throws "unknown par error." |
| pooled connection, `lib/conn_pool.hpp` | a TCP socket | connect, close | breaks while it is lent or free, and goes back to the pool all the same | nothing of one exchange reaches the next one |
| provider selection, `src/provider_selector.hpp` | providers with latencies, round-robin queue, static iterator | constructor, `query_once` | the iterator is shared by the threads | a provider is selected, as often as its size says |
| exchange with a provider agent, `provider_info::async_request` | the borrowed connection | convert, write, read, release | every error returns early; one read is taken for the answer | the answer is the one to this request; the connection is released |
| HTTP session, `src/consumer_agent.cc` | an HTTP connection | accept, read, `handle_request`, write | sessions share pools | one response per request; errors close the connection |
| registration, `src/etcd_service.cc`, `src/provider_agent.cc` 29-45, the selector's constructor | the key `server` in etcd | `append`, `get_list`, connecting to every entry | processes race; crashes leave entries; an agent registers before it listens, and under any name; etcd may fail | every agent that registered is listed; the consumer agent starts and knows them all |
| provider session, `src/provider_agent.cc` 47-121 | a consumer's connection | read a frame, call dubbo, write | exceptions, end of stream, resets | a frame is answered or its session ends; the process lives on |
| dubbo client, `lib/dubbo_client.hpp` | pool of dubbo connections, request counter | `async_request` | the id of an answer is not compared; errors half-way through an answer | the answer is the one to this request |
| traceable list, `lib/traceable_list.hpp` | a doubly linked list, its ends and count | push, pop, `pop_some`, destructor, iterate | pointers into the list turn into iterators; an iterator keeps a copy of the tail | it is the sequence it looks like |
| parameter conversion, `src/provider_selector.hpp` 35-66 | none | form body to four arguments | missing and repeated keys | the four arguments are the body's |
| command line, logging, deprecated helpers, tests, scripts | none | | | |

How they interact: an HTTP session calls `query_once`, which hands out a
`provider_info`; the session borrows from its pool, exchanges a request and
releases. On the other side each of those connections is a session of the
provider agent, which borrows from the dubbo pool, exchanges and releases. All
sessions of a process are coroutines of one `io_context`, run by `--threads`
threads in the consumer agent and by one in a provider agent. The only shared
state between processes is the etcd key.

## Modules

| module | models |
|---|---|
| `Lending` | the promise of a pool: an object is lent to one client, and a client is made to wait only in a state in which all are lent |
| `ObjectStore` | what both pools share: buffer, free list, the two critical sections |
| `CoroPool` | `fixed_object_pool_coro` with its event; extends `ObjectStore`, implements `Lending` |
| `ThreadPool` | `fixed_object_pool` with its condition variable; extends `ObjectStore`, implements `Lending` |
| `Registry` | `etcd_service::append` run by agents that start, crash and restart, and the start of the consumer agent, which reads the list and connects to each entry |
| `ProviderSelector` | constructor and `query_once` of `provider_selector` |
| `Exchange` | what both agents do with a pooled connection, from the free list and back, and what the peer does with it |
| `HttpService` | the promise of the consumer agent to an HTTP client |
| `ConsumerAgent` | HTTP session and `provider_info::async_request`; extends `Exchange`, implements `HttpService` |
| `FrameService` | the promise of a provider agent to the consumer agent's connection |
| `ProviderAgent` | `session_consumer` and `dubbo_client::async_request`; extends `Exchange`, implements `FrameService` |
| `IterableList` | the promise of a list whose iterators stay at their elements |
| `TraceableList` | `traceable_list` with its links and iterators; implements `IterableList` |
| `MC*` | instances for TLC |
| `*Proofs` | lemmas and theorems |

The layers fit as follows. `Exchange` borrows from a free list that is used as a
stack, broken connections included, which is how `ObjectStore` lends what
`TakeBack` put first. `CoroPool` is proved to implement `Lending`, so what the
agents' modules show holds with the pool's own queues below them. The buffer of
both pools is a traceable list of which they keep only pointers to the data;
`ObjectStore` takes it for what `IterableList` promises, that other nodes come
and go while a pointer stays good. The peer of `ConsumerAgent` is a provider
agent: `Exchange` assumes that it answers the requests of a connection once and
in order or closes it, which is `FrameService`, and `ProviderAgent` is checked to
implement it. `HttpService` is what is left of that for the HTTP client.

### State and actions against the code

* **Pools.** `obj`, `built`, `free`, `marked` are the borrowed pointers,
  `buffer.size()`, `free_list` and `extra_info`. Each section under
  `buffer_mutex` is one action: `LendFree`/`LendNew`/`NothingToLend` are the ways
  through `do_try_borrow_one`, `TakeBack` is `release_one`'s. `async_wait` and
  `notify_one` happen outside of the mutex and are actions of their own, which
  is where the coroutine pool's hazard lies. `waitq` is the timer's FIFO of
  pending waits; `cancel_one` makes the oldest ready. A coroutine's position
  tells running, suspended and ready apart, and at most `Threads` run. The
  event's `deadline_timer` is modelled as if each call were atomic; Boost does
  not promise that for a timer shared by threads, so what two threads really get
  may be worse than what the model shows.
* **Thread pool.** `borrow_cv.wait` with its predicate is `Sleep` and `Waited`;
  between falling asleep and the predicate the mutex is free, and a thread may
  wake without a notification.
* **Registry.** The value joined by `|` is the sequence that `get_list` splits it
  into. `Get` and `Set` are the two HTTP requests of `append`, for which etcd must
  be `reachable`; `AppendFails` and `ListenFails` are the exceptions that end an
  agent, and `Crash` is a kill. Nothing removes an entry. `name` is what kind of
  name `main` was given: one of the three that the selector knows, another that
  begins with "provider", or one with a `:` in it, which makes the address that is
  registered malformed. The consumer agent is one more process there: `GetList` is
  its read of the key, `ConnectNext` fills the pool of one entry, and `Serve`
  builds the queue. At `"exited"` its constructor has thrown: etcd failed the read
  (`GetFails`), or one of the four ways of `Exit`, an entry is malformed
  (`BadAddress`), its agent is not up or does not listen (`Refused`), there is no
  entry (`NoProvider`), or a host is none of the three (`UnknownProvider`).
* **Selector.** `curr` is a position in the queue, with `End` for `end()`, whose
  successor is the first node as in a circular `std::list`. Each use of `curr`
  in `query_once` is a step. Reading through `end()` is undefined; the worker is
  then at `"wild"`. `Load` takes the entries the loop does not skip as empty.
  The branch of `Test` that drops a request is there, though the latencies that
  it needs are never reached (`NeverDropped` is the statement of that).
* **Exchange.** `idle` is the pool's free list: `Borrow` takes the first,
  `GiveBack` puts first. `asked[k]` and `answers[k]` are what is under way on
  connection `k`. A write to a closed connection fails or is lost. The peer answers the
  oldest request, whole or, with `InPieces`, in two pieces, and may close a
  connection at any time, with or without the loss of what was not read. The
  scope guard's release is part of the action that ends the exchange.
* **Consumer agent.** One provider's pool and the sessions that use it. A
  request is its session and number; bodies, headers and latencies are left out.
  `BadBody` comes after the borrow, as in the code. 400 and 500 responses close
  the session. `query_once` always yields a provider (`NeverDropped`).
* **Provider agent.** The dubbo pool is built as it is used, and connecting may
  be refused. `ReadGarbled` is the out-of-range access to `req_args`: a frame in
  pieces, one that fills the 2048 bytes and leaves no terminating zero, or the end
  of the stream, which line 91 lets through. Its outcomes are
  the end of the process, an exception, or a call with whatever was read.
  `Shutdown` is the code behind the `catch`, where a reset connection makes
  `ON_BOOST_FATAL` throw out of `main`. A status other than OK, a bad magic and
  a bad payload are `ReceiveBad`: the answer was read to its end. An answer over
  1 GiB is one in pieces, of which only the first is read. `excused` marks an
  answer from a dubbo connection on which one was not read to its end.
* **Traceable list.** A node is the cell of `Cells` that `new` returned and
  `heap` the cells in use; data, `extra_info` and the magic number live and die
  with the cell. A cursor is an iterator, with `ptr` and `_impl_tail`, in the
  client's hand. `Follows` names the pointers an operation goes through; if one
  is not to a node, `wild` says which operation did it. `pop_some` and the
  destructor are loops of one step per node, since they advance before they
  free. `misled` are the cursors that stepped back from an end whose copy of the
  tail is outdated: a use after free, or a wrong node, of which nothing more is
  said. No thread runs beside another here: both pools change the list under
  `buffer_mutex`.

## What TLC checks

| run | instance | shows |
|---|---|---|
| `coro_pool_shared` | 5 coroutines, 3 objects, 2 threads | types; `OneHome`: an object is listed once or has one borrower, none is lost; `OnlyExcessStarves`: of n coroutines at most n less the size of the pool starve; the pool implements `Lending` |
| `coro_pool_one_thread` | 4 coroutines, 2 objects, 1 thread | `NoLostWakeup`, `NoIdleObjectWhileStarving`, `WaiterWoken`, `WaiterServed` |
| `coro_pool_two_threads` | 3 coroutines, 1 object, 2 threads | **violated**: a wake-up is lost |
| `thread_pool_shared` | 4 threads, 2 objects | `OneHome`, `NoParError`, `SleeperHasRescuer`: no thread sleeps in a pool at rest; implements `Lending` |
| `thread_pool_stranded` | 4 threads, 2 objects | **violated**: a thread sleeps beside a free object |
| `registry_racing` | 2 agents, one of any name, 3 starts each, an etcd that fails, and the consumer agent | types, `EntriesPerStart`, `SomebodyListed`, `SerialKeepsRegistered`, `CalmStartSucceeds`, `CalmStartLoadsAll` |
| `registry_lost` | 3 agents | **violated**: a registration is overwritten |
| `selector_one_worker` | every list of up to 4 entries, 1 thread | types, `SelectsProvider`, `NeverDropped`, `WindowFair` |
| `selector_two_workers` | 1 entry, 2 threads | **violated**: `end()` is dereferenced |
| `consumer_agent` | 1 thread, 3 sessions, 2 connections, 3 requests, at most 2 of a session | types, `FreeIsQuiet`, `HeldDuringExchange`, `NobodyWaitsInVain`: what a session waits for can come; implements `HttpService`, `RequestAnswered` |
| `provider_agent` | 2 sessions, 2 dubbo connections, 3 frames, at most 2 of a session | types, `FreeIsQuiet`, `DubboCannotKill`, implements `FrameService`, `SerialStaysOnOne`, `FrameAnswered` |
| `traceable_list` | 4 nodes, 2 iterators | types, `LinksAgree`, `NothingLeaks`, `OnlyEndsAreWild`, implements `IterableList`, `OperationsAgree` |

Every property of a passing run is tied to a faulty variant of a definition
(`Faulty...`, next to the definition) that breaks it. Where two modules rest on
the same definitions a property is checked of one of them and proved of both:
the types and `OnlyExcessStarves` of the pools are left to `CoroPool`,
`MarkedAgrees` (flags that nothing reads) to the proofs,
`NobodyWaitsInVain` to the consumer agent, `SerialStaysOnOne` to the provider
agent.

### Bounds

* Pools: there are more clients than objects, so that some wait while others
  hold, and at least two objects where the choice of one matters. The code's
  size of 256 only makes waiting rarer. Two threads are enough for the lost
  wake-up: one is between check and wait while the other releases.
* `MaxStarts` = 3 has both agents restart twice, so that an entry of a crashed
  start, one of a racing start and a calm one meet in the consumer agent's list.
  One of the two agents has a name that the selector knows, the other any of the
  three kinds: one agent is enough to make a consumer agent throw.
  `registry_lost` has three agents, as many as the selector knows sizes for.
* `MaxEntries` = 4 allows queues of up to twelve slots, duplicates, and the
  mixture of all sizes; the hosts are the three that the code knows and one that
  it does not.
* `MaxRequests` bounds the requests of a session and `MaxTotal` those of all:
  three requests on two connections allow an answer in pieces, its remainder in
  the next exchange and one more, while another session uses the other
  connection; with two of one session an answer can be taken for a later one.
* Four nodes have a first, a last and inner neighbours on both sides; two
  iterators are what `pop_some` takes and what one operation can spoil for
  another.

### Fairness

* A running coroutine or thread goes on: weak fairness. `io_context::run` does
  not leave a ready handler out, but other handlers may be run in between:
  strong fairness of `Resume`.
* `ExchangesEnd` (in `LiveSpec`) and the fairness of the peers' replies in
  `ConsumerAgent` and `ProviderAgent` are assumptions about the other end: it
  answers or closes. The code has no timeout, so without them a session waits
  for ever. Nobody is assumed to close a connection.
* Strong fairness of the borrow in the two agents stands for the pool: waits are
  woken in FIFO order, and a woken coroutine that loses its object to a
  newcomer is served when requests stop (`WaiterServed`), which `MaxRequests`
  makes sure of. Under endless load the code lets newcomers overtake. It holds
  for one thread only, as `WaiterServed` does: a provider agent has one, and a
  consumer agent has one unless `--threads` says otherwise. With more, a session
  may wait for ever beside a free connection (`coro_pool_two_threads`), so
  `ConsumerAgent` states that fairness, and `RequestAnswered`, for
  `Threads` = 1. Its next-state relation does not depend on `Threads`, so what is
  checked and proved of its safety holds for any number.
* No arrival of requests, no start and no crash is fair.

### Disagreements between code and comments

1. `lib/pool.hpp:145`. With two threads, `release_one` can run between the
   failed `try_borrow_one` and `async_wait`; it notifies nobody, and the
   coroutine waits beside a free connection. The comment at 110 calls the pool
   thread safe.
2. `lib/pool.hpp:87`. Every borrow resets `new_obj_ready`, also while other
   objects are free; a thread notified for one of them sleeps on. Only while
   somebody is there to end it, though (`SleeperHasRescuer`).
3. `src/etcd_service.cc:15-18`. Two agents that start together lose one entry.
   `SerialKeepsRegistered` shows that overlapping appends are the only way.
4. `src/provider_selector.hpp:210-218`. With `--threads` 2 the shared iterator is
   moved to `end()` between the test and the use.

Two more behaviours of the list contradict no comment; `OnlyEndsAreWild` bounds
them: `pop_back` of an empty list follows a null pointer instead of throwing as
`pop_front` does (`lib/traceable_list.hpp:193`), and `--` of an end is to the
tail of when the end was made (78). Neither is reached by the pools.

## What is proved

All theorems are of the specifications as written, for every value of the
constants that satisfies the modules' assumptions. TLC evaluates those
assumptions in the runs above.

| module | theorems | argument |
|---|---|---|
| `CoroPoolProofs` | `PoolTypeCorrect`, `ObjectsHaveOneHome`, `MarksAgreeWithFreeList`, `PoolImplementsLending`, `OnlyTheExcessStarves`, `OneThreadLosesNoWakeup` | `OneHome` needs that a coroutine holds an object exactly while it uses it; `NoLostWakeup` needs, besides, that with one thread nobody releases while another is between check and wait, and that a pool with a free object has nobody there; `OnlyTheExcessStarves` counts: whoever starts to starve does so while `MaxSize` others hold an object each, and a holder does not starve |
| `ThreadPoolProofs` | `PoolTypeCorrect`, `ObjectsHaveOneHome`, `BorrowNeverThrows`, `PoolImplementsLending`, `OnlyTheExcessStarves`, `SleepersAreRescued` | `BorrowNeverThrows` needs `new_obj_ready` to imply a non-empty free list; `SleepersAreRescued` needs that, while anybody starves, either the flag is set or an object is lent (`UnsetIsLent`): a borrow resets the flag, but then holds an object whose release sets it again and notifies |
| `RegistryProofs` | `RegistryTypeCorrect`, `NoMadeUpEntries`, `SerialAppendsAreKept`, `SomebodyIsListed`, `CalmConsumerStarts`, `CalmConsumerLoadsAll` | the count of an agent's entries is bounded by its starts also in every list that was read and not yet written back; without overlap, what was read is still the list; the list is never emptied; while the registry is calm, what the consumer agent has still to connect to is up, and what it read is the list; `CalmConsumerStarts` assumes besides that etcd answers and that every agent ever started has a known name (`Sound`), without which the constructor throws |
| `ProviderSelectorProofs` | `SelectorTypeCorrect`, `NoRequestIsDropped`, `OneThreadSelectsProvider`, `OneThreadIsFair` | every call selects in the first round of its loop, because the queue has a slot and the latencies are as at first; for one thread, `curr` is not `end()` at the positions behind the test (`CurrValid`), the last selections are the slots that `curr` has come from, going round (`InRotation`), and the queue has as many slots of a provider as its size says (`QueueIsWeighted`) |
| `TraceableListProofs` | `TypeCorrect`, `LinksAlwaysAgree`, `NothingEverLeaks`, `OnlyEndsAreEverWild`, `ListIsIterable`, `OperationsKeepPromises` | there is a sequence of the allocated nodes that `next` follows and `prev` takes back, with the ends at its ends (`LiveChain`); pushing and popping put a node into that sequence or take one out (`PushKeepsChain`, `PopKeepsChain`), and the destructor takes it apart from the front. Besides, `pop_some` has its iterator not behind its end (`PopsInOrder`), and the iterators a client may use are on nodes (`CursorsOnNodes`) |
| `ConsumerAgentProofs` | `SessionTypeCorrect`, `ReleasedConnectionsAreQuiet`, `EveryWayOutReleases`, `SessionsDoNotWaitInVain`, `SerialRequestsStayOnOne`, `AgentImplementsService` | what is under way on a connection with no answer in pieces is the request of the session that holds it, or the answer to that request, and nothing before that session has written (`ExchangeInv`, `FreshToSend`); so what a session reads is its own, and what it gives back is quiet. `SessionsDoNotWaitInVain` needs that every connection is free or held (`Pooled`, `NoneLost`), and that nothing another session does takes away what is under way (`OthersKeep`) |
| `ProviderAgentProofs` | `AgentTypeCorrect`, `ReleasedConnectionsAreQuiet`, `DubboDoesNotKill`, `FramesDoNotWaitInVain`, `SerialFramesStayOnOne`, `AgentImplementsFrameService` | the same, and an answer that is about to be written is the one to the current frame (`OwnDecided`); `SerialFramesStayOnOne` needs that a connection has one holder |

`CoroPoolProofs` and `ThreadPoolProofs` begin with the same lemmas on the
critical sections of `ObjectStore`, and on taking from and putting to a
sequence, so that each can be read alone. `OneThreadIsFair` compares the
selections of a turn with the slots by a bijection, for any number of providers.
In `TraceableListProofs` the sequence that a client sees (`Items`) is what
`begin()` and `++` visit, a recursive function; that it is the sequence of the
invariant is by induction, which the prover can do with the least position at
which the two would differ (`LeastNatural`, from the library's well-founded
order of the numbers). There is one lemma for each operation that says both that
the invariant is kept and what `IterableList` sees.

`ExchangeProofs` holds the lemmas on each
operation of `Exchange`: they say what it does to the borrower and that it leaves
the other borrowers what they have, so that an agent's proof only has to say
where its sessions are. That `Conns` is finite is assumed for the consumer
agent, whose pool is filled at first. `ImplementsFrameService` is what
`Exchange` assumes of the peer of the consumer agent; as `FrameService` is proved
of the provider agent and `HttpService` of the consumer agent, both halves of the
path are covered by proofs.

Only model-checked: the liveness properties (`NoIdleObjectWhileStarving`,
`WaiterWoken`, `WaiterServed`, `RequestAnswered`, `FrameAnswered`), which are
beyond the prover: it has neither `ENABLED` nor rules for fairness. Every other
property of a passing run is a theorem. Of `RequestAnswered` and `FrameAnswered`
the safety half is one, `NobodyWaitsInVain`: a session never waits for what
cannot come. That it does come rests on the fairness above.

## What is not modelled

The text of HTTP, dubbo and etcd messages; logging and latency measurement; the
command line; `sync_request`, `handle_request` of the provider agent,
`http_forwarder`, the serializers and `etcd_kv_service`, which nothing calls;
the debugging build without etcd; the tests. Of the parameter conversion only
its outcome is modelled: it succeeds or throws, which is `BadBody`. It is a pure
function of one body with no state of its own.

## Plan

1. Done: the pools, the registry and the consumer agent's start, the selector,
   the two halves of the path with `FrameService` between them, the list.
2. Done: theorems about every safety property that a passing run checks, the
   refinements of `Lending`, `HttpService`, `FrameService` and `IterableList`
   among them.
3. Done: the safety half of the agents' liveness, `NobodyWaitsInVain`.
4. What would carry the proofs further: that the free list of a pool, kept as a
   sequence in `ObjectStore`, may be replaced by any implementation of a list;
   and of the coroutine pool, that with one thread a waiter is always one step
   of somebody away from being woken.
