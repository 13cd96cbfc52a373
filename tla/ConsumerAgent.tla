---------------------------- MODULE ConsumerAgent ----------------------------
(***************************************************************************)
(* The path of a request through a consumer agent: the HTTP session of     *)
(* consumer_agent.cc and the exchange of provider_info::async_request on a *)
(* pooled connection to a provider agent.  Clients are the HTTP sessions,  *)
(* Conns the pool of one provider, and the peer is its provider agent.     *)
(***************************************************************************)
EXTENDS Exchange

(* --threads of main.cc: the threads that run the coroutines, 1 if not given. *)
CONSTANT Threads

ASSUME ThreadsAssumption == Threads \in Nat \ {0}

(* The constructor of provider_info fills the pool. *)
ASSUME FilledPoolAssumption == IsFiniteSet(Conns)

VARIABLES
  pc,           \* where each session is in do_session, or "none" before it
  response      \* the response each session is about to write

vars == <<exchange, pc, response>>

Places == {"none", "reading", "borrowing", "sending", "receiving", "replying"}

(* What the session writes: the status and whose answer is in the body.    *)
(* excused is history: the request of the session, if the answer was read  *)
(* from a connection on which one has come in pieces.                      *)
Nobody == <<>>
Error(status) == [status |-> status, to |-> Nobody, excused |-> Nobody]
Responses == [status : {200, 400, 500}, to : Requests \cup {Nobody},
              excused : Requests \cup {Nobody}]

Init ==
  /\ InitExchange(CHOOSE s \in [1..Cardinality(Conns) -> Conns] : IsInjective(s))
  /\ pc = [c \in Clients |-> "none"]
  /\ response = [c \in Clients |-> Error(400)]

Goto(c, place) == pc' = [pc EXCEPT ![c] = place]

Respond(c, r) ==
  /\ Goto(c, "replying")
  /\ response' = [response EXCEPT ![c] = r]
-----------------------------------------------------------------------------
(* do_listen spawns a session for a connection it accepts. *)
Accept(c) ==
  /\ pc[c] = "none"
  /\ Goto(c, "reading")
  /\ UNCHANGED <<exchange, response>>

(* The next read fails or finds the end of the stream. *)
Leave(c) ==
  /\ pc[c] = "reading"
  /\ Goto(c, "none")
  /\ UNCHANGED <<exchange, response>>

(* handle_request refuses what is not a POST. *)
Refuse(c) ==
  /\ pc[c] = "reading"
  /\ NextRequest(c)
  /\ Respond(c, Error(400))

Accepted(c) ==
  /\ pc[c] = "reading"
  /\ NextRequest(c)
  /\ Goto(c, "borrowing")
  /\ UNCHANGED response

BorrowOne(c) ==
  /\ pc[c] = "borrowing"
  /\ Borrow(c)
  /\ Goto(c, "sending")
  /\ UNCHANGED response

(* Faulty variant: the exception is not caught and ends the coroutine.     *)
FaultyBadBody(c) ==
  /\ pc[c] = "sending"
  /\ GiveBack(c)
  /\ Goto(c, "terminated")
  /\ UNCHANGED <<count, open, asked, answers, torn, response>>

(* http_payload_to_dubbo_parameters throws: a parameter is missing.        *)
BadBody(c) ==
  /\ pc[c] = "sending"
  /\ GiveBack(c)
  /\ Respond(c, Error(500))
  /\ UNCHANGED <<count, open, asked, answers, torn>>

Send(c) ==
  /\ pc[c] = "sending"
  /\ Write(c)
  /\ Goto(c, "receiving")
  /\ UNCHANGED response

SendFails(c) ==
  /\ pc[c] = "sending"
  /\ WriteFails(c)
  /\ Respond(c, Error(500))

(* async_read_some takes what has come, up to 2048 bytes, as the answer.   *)
Receive(c) ==
  /\ pc[c] = "receiving"
  /\ Read(c)
  /\ Respond(c, [status |-> 200, to |-> Piece(c).to,
                 excused |-> IF conn[c] \in torn THEN Current(c) ELSE Nobody])

ReceiveFails(c) ==
  /\ pc[c] = "receiving"
  /\ ReadFails(c)
  /\ Respond(c, Error(500))

(* Faulty variant: a session goes on after an error.                       *)
FaultyWriteResponse(c) ==
  /\ pc[c] = "replying"
  /\ \E place \in {"reading", "none"} : Goto(c, place)
  /\ UNCHANGED <<exchange, response>>

(* The response is written.  Only an answer can leave the session open, if *)
(* the request asks for it: 400 and 500 are not kept alive.                *)
WriteResponse(c) ==
  /\ pc[c] = "replying"
  /\ \E place \in {"reading", "none"} :
       /\ place = "reading" => response[c].status = 200
       /\ Goto(c, place)
  /\ UNCHANGED <<exchange, response>>

Session(c) == \/ Refuse(c) \/ Accepted(c) \/ BorrowOne(c) \/ BadBody(c)
              \/ Send(c) \/ SendFails(c) \/ Receive(c) \/ ReceiveFails(c)
              \/ WriteResponse(c)

Next == \/ \E c \in Clients : Accept(c) \/ Leave(c) \/ Session(c)
        \/ \E k \in Conns : Peer(k) /\ UNCHANGED <<pc, response>>

Spec == Init /\ [][Next]_vars

(***************************************************************************)
(* The coroutine of a session goes on when it can.  One that waits for a   *)
(* connection gets one if connections are free again and again (hence SF), *)
(* but only where one thread runs the coroutines: with more, the pool may  *)
(* lose the wake-up between the failed try and the wait (CoroPool).        *)
(* The provider agent answers what is asked of it or closes the            *)
(* connection; nothing in the consumer agent would time it out.            *)
(***************************************************************************)
Fairness ==
  /\ \A c \in Clients :
       /\ WF_vars(BadBody(c) \/ Send(c) \/ SendFails(c))
       /\ WF_vars(Receive(c) \/ ReceiveFails(c))
       /\ WF_vars(WriteResponse(c))
       /\ Threads = 1 => SF_vars(BorrowOne(c))
  /\ \A k \in Conns :
       WF_vars((ReplyWhole(k) \/ ReplyInPieces(k)) /\ UNCHANGED <<pc, response>>)

FairSpec == Spec /\ Fairness
-----------------------------------------------------------------------------
(* The types of the variables. *)
TypeOK ==
  /\ ExchangeTypeOK
  /\ pc \in [Clients -> Places]
  /\ response \in [Clients -> Responses]

(* A session holds a connection exactly from borrow_one to the end of its  *)
(* exchange, so that every way out of async_request has released it.       *)
HeldDuringExchange == \A c \in Clients :
  conn[c] # NoConn <=> pc[c] \in {"sending", "receiving"}

(* No session waits for what cannot come.  One that reads has an answer    *)
(* under way, or a connection that is closed; one that finds no connection *)
(* free finds all of them with other sessions, and none lost.              *)
NobodyWaitsInVain == \A c \in Clients :
  /\ pc[c] = "receiving" => Coming(c)
  /\ pc[c] = "borrowing" /\ idle = <<>> => Conns \subseteq Lent

(* With one thread every request that do_session reads gets a response,    *)
(* though nothing times out, connections break and sessions compete for    *)
(* connections.                                                            *)
RequestAnswered == Threads = 1 =>
  \A c \in Clients : pc[c] = "borrowing" ~> pc[c] = "replying"

(* What the client sees is HttpService: each request has one response, and *)
(* though sessions share the connections of async_request, the body that   *)
(* one takes for the answer is the answer to its own request.  Excused is  *)
(* only an answer read from a connection on which one came in pieces.      *)
Phase == [c \in Clients |->
  CASE pc[c] = "none" -> "none"
    [] pc[c] = "reading" -> "idle"
    [] pc[c] = "replying" -> "answered"
    [] OTHER -> "pending"]

Reported == [c \in Clients |->
  [status |-> response[c].status,
   to |-> IF response[c].excused = Nobody THEN response[c].to
          ELSE response[c].excused]]

Service == INSTANCE HttpService WITH phase <- Phase, response <- Reported

ImplementsService == Service!Spec
=============================================================================
