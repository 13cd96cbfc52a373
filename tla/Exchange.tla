------------------------------ MODULE Exchange ------------------------------
(***************************************************************************)
(* What the two agents have in common (provider_info::async_request and    *)
(* dubbo_client::async_request): a client borrows a connection from a      *)
(* pool, writes a request, reads an answer and gives the connection back,  *)
(* whatever has become of it.  The peer answers the requests of a          *)
(* connection in order, in one piece or in two, or closes it.  The pool is *)
(* the free list of ObjectStore.                                           *)
(***************************************************************************)
EXTENDS Integers, Sequences, FiniteSets, Functions

CONSTANTS
  Clients,      \* the sessions that borrow
  Conns,        \* the connections of the pool
  NoConn,       \* what a client that borrows nothing holds
  MaxRequests,  \* bound on the requests of each client
  MaxTotal,     \* bound on the requests of all clients together
  InPieces      \* whether an answer may be delivered in two pieces

ASSUME ExchangeAssumption ==
  /\ NoConn \notin Conns
  /\ MaxRequests \in Nat
  /\ MaxTotal \in Nat
  /\ InPieces \in BOOLEAN

VARIABLES
  conn,         \* the connection each client has borrowed
  idle,         \* the connections that are free, the next to be lent first
  count,        \* how many requests each client has had
  open,         \* the connections the peer has not closed
  asked,        \* per connection, requests the peer has not answered
  answers,      \* per connection, pieces of answers that were not read
  torn          \* history: connections on which an answer came in pieces

exchange == <<conn, idle, count, open, asked, answers, torn>>

Requests == Clients \X (0..MaxRequests)
Pieces == [to : Requests, part : {"whole", "first", "rest"}]

Current(c) == <<c, count[c]>>
Lent == {conn[c] : c \in Clients} \ {NoConn}

(* A pool with these connections free: none, or all after fill_full().     *)
InitExchange(made) ==
  /\ conn = [c \in Clients |-> NoConn]
  /\ idle = made
  /\ count = [c \in Clients |-> 0]
  /\ open = Conns
  /\ asked = [k \in Conns |-> <<>>]
  /\ answers = [k \in Conns |-> <<>>]
  /\ torn = {}
-----------------------------------------------------------------------------
NextRequest(c) ==
  /\ count[c] < MaxRequests
  /\ FoldFunction(+, 0, count) < MaxTotal
  /\ count' = [count EXCEPT ![c] = @ + 1]
  /\ UNCHANGED <<conn, idle, open, asked, answers, torn>>

(* borrow_one: the free connection that was given back last, broken or not. *)
Borrow(c) ==
  /\ idle # <<>>
  /\ conn' = [conn EXCEPT ![c] = Head(idle)]
  /\ idle' = Tail(idle)
  /\ UNCHANGED <<count, open, asked, answers, torn>>

(* borrow_one: one that is new, when none is free. *)
BorrowNew(c, k) ==
  /\ idle = <<>>
  /\ k \notin Lent
  /\ conn' = [conn EXCEPT ![c] = k]
  /\ UNCHANGED <<idle, count, open, asked, answers, torn>>

(* Faulty variants: the connection is not given back; it is put last.      *)
FaultyGiveBack(c) == UNCHANGED <<conn, idle>>

FaultyGiveBackLast(c) ==
  /\ conn' = [conn EXCEPT ![c] = NoConn]
  /\ idle' = Append(idle, conn[c])

(* ... or it is dropped, as if it had not been borrowed from the pool.      *)
FaultyGiveBackNothing(c) ==
  /\ conn' = [conn EXCEPT ![c] = NoConn]
  /\ UNCHANGED idle

(* release_one, by the scope guard on every way out. *)
GiveBack(c) ==
  /\ conn' = [conn EXCEPT ![c] = NoConn]
  /\ idle' = <<conn[c]>> \o idle

(* async_write: to a connection that the peer has closed it fails, or      *)
(* succeeds and the request is lost.                                       *)
Write(c) ==
  /\ asked' = IF conn[c] \in open
              THEN [asked EXCEPT ![conn[c]] = Append(@, Current(c))]
              ELSE asked
  /\ UNCHANGED <<conn, idle, count, open, answers, torn>>

WriteFails(c) ==
  /\ conn[c] \notin open
  /\ GiveBack(c)
  /\ UNCHANGED <<count, open, asked, answers, torn>>

(* The read: one piece is taken from the connection.                       *)
Readable(c) == answers[conn[c]] # <<>>
Piece(c) == Head(answers[conn[c]])

Read(c) ==
  /\ Readable(c)
  /\ answers' = [answers EXCEPT ![conn[c]] = Tail(@)]
  /\ GiveBack(c)
  /\ UNCHANGED <<count, open, asked, torn>>

(* Faulty variant: the read is given up before the answer has come.        *)
FaultyReadFails(c) ==
  /\ GiveBack(c)
  /\ UNCHANGED <<count, open, asked, answers, torn>>

ReadFails(c) ==
  /\ ~Readable(c)
  /\ conn[c] \notin open
  /\ GiveBack(c)
  /\ UNCHANGED <<count, open, asked, answers, torn>>
-----------------------------------------------------------------------------
(* The peer answers the oldest request of a connection. *)
Reply(k, pieces) ==
  /\ asked[k] # <<>>
  /\ asked' = [asked EXCEPT ![k] = Tail(@)]
  /\ answers' = [answers EXCEPT ![k] = @ \o pieces]
  /\ UNCHANGED <<conn, idle, count, open>>

ReplyWhole(k) ==
  /\ Reply(k, <<[to |-> Head(asked[k]), part |-> "whole"]>>)
  /\ UNCHANGED torn

(* An answer that fills the buffer of one read, or is cut by the network.   *)
ReplyInPieces(k) ==
  /\ InPieces
  /\ Reply(k, <<[to |-> Head(asked[k]), part |-> "first"],
                [to |-> Head(asked[k]), part |-> "rest"]>>)
  /\ torn' = torn \cup {k}

(* The peer closes or resets the connection: what was not answered never   *)
(* will be, and what was not read may be lost.                             *)
Close(k) ==
  /\ k \in open
  /\ open' = open \ {k}
  /\ asked' = [asked EXCEPT ![k] = <<>>]
  /\ \E kept \in {answers[k], <<>>} : answers' = [answers EXCEPT ![k] = kept]
  /\ UNCHANGED <<conn, idle, count, torn>>

Peer(k) == ReplyWhole(k) \/ ReplyInPieces(k) \/ Close(k)
-----------------------------------------------------------------------------
(* The types of the variables. *)
ExchangeTypeOK ==
  /\ conn \in [Clients -> Conns \cup {NoConn}]
  /\ idle \in Seq(Conns)
  /\ count \in [Clients -> 0..MaxRequests]
  /\ open \in SUBSET Conns
  /\ asked \in [Conns -> Seq(Requests)]
  /\ answers \in [Conns -> Seq(Pieces)]
  /\ torn \in SUBSET Conns

(* A connection that is given back has nothing under way, unless an answer *)
(* on it came in pieces: nobody clears it before it is lent again.         *)
Quiet(k) == asked[k] = <<>> /\ answers[k] = <<>>
FreeIsQuiet == \A k \in Conns \ (Lent \cup torn) : Quiet(k)

(* Nothing times an exchange out, so that a client that reads needs what   *)
(* ends its read: a piece that has come, a request the peer still has to   *)
(* answer, or a connection that the peer has closed.                       *)
Coming(c) == Readable(c) \/ asked[conn[c]] # <<>> \/ conn[c] \notin open

(* While one request comes at a time, all of them take one connection, the *)
(* one that release_one has put first: when the peer closes it every later *)
(* request fails on it, though the pool has others that are not broken.    *)
OneAtATime == Cardinality(Lent) <= 1
NextLent(k) == k \in Lent \/ (Lent = {} /\ idle # <<>> /\ Head(idle) = k)
SerialStaysOnOne == [][\A k \in Conns :
  OneAtATime /\ OneAtATime' /\ NextLent(k) => NextLent(k)']_exchange
=============================================================================
