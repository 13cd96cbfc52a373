---------------------------- MODULE ProviderAgent ----------------------------
(***************************************************************************)
(* The path of a request through a provider agent: the sessions that       *)
(* session_consumer holds with a consumer agent (provider_agent.cc) and    *)
(* the exchange of dubbo_client::async_request on a pooled connection to   *)
(* the dubbo server.  Clients are the sessions, Conns the dubbo            *)
(* connections, and the peer is the dubbo server.                          *)
(***************************************************************************)
EXTENDS Exchange

VARIABLES
  pc,           \* where each session is in session_consumer
  link,         \* the consumer's connection: "up", "closed" by it, or "reset"
  written,      \* the answer each session wrote last: whose, and how it came
  running,      \* the process has not ended
  garbled       \* history: sessions that did not get a frame in one piece

vars == <<exchange, pc, link, written, running, garbled>>

Places == {"none", "reading", "borrowing", "sending", "receiving", "answering",
           "failing", "ended"}

(* excused is history: the frame it answers, if it was read from a dubbo   *)
(* connection on which an answer was not read to the end.                  *)
Nothing == <<>>
Written == [to : Requests \cup {Nothing}, excused : Requests \cup {Nothing}]

Init ==
  /\ InitExchange(<<>>)
  /\ pc = [c \in Clients |-> "none"]
  /\ link = [c \in Clients |-> "up"]
  /\ written = [c \in Clients |-> [to |-> Nothing, excused |-> Nothing]]
  /\ running = TRUE
  /\ garbled = {}

At(c, place) == running /\ pc[c] = place
Goto(c, place) == pc' = [pc EXCEPT ![c] = place]
-----------------------------------------------------------------------------
(* listen_consumer spawns a session for a connection it accepts. *)
Accept(c) ==
  /\ At(c, "none")
  /\ Goto(c, "reading")
  /\ UNCHANGED <<exchange, link, written, running, garbled>>

(* A frame of four lines is read whole. *)
ReadFrame(c) ==
  /\ At(c, "reading")
  /\ link[c] = "up"
  /\ NextRequest(c)
  /\ Goto(c, "borrowing")
  /\ UNCHANGED <<link, written, running, garbled>>

(* A piece of a frame is read, or so much that no terminating zero is      *)
(* left, or nothing at the end of the stream, which is no error here:      *)
(* req_args has no four elements and is indexed all the same.  The process *)
(* ends, or what is read makes an exception, or it is taken for arguments. *)
ReadGarbled(c) ==
  /\ At(c, "reading")
  /\ link[c] # "reset"
  /\ NextRequest(c)
  /\ garbled' = garbled \cup {c}
  /\ \/ running' = FALSE /\ UNCHANGED pc
     \/ running' = TRUE /\ \E place \in {"failing", "borrowing"} : Goto(c, place)
  /\ UNCHANGED <<link, written>>

ReadError(c) ==
  /\ At(c, "reading")
  /\ link[c] = "reset"
  /\ Goto(c, "failing")
  /\ UNCHANGED <<exchange, link, written, running, garbled>>

(* borrow_one: a free connection if there is one. *)
BorrowFree(c) ==
  /\ At(c, "borrowing")
  /\ Borrow(c)
  /\ Goto(c, "sending")
  /\ UNCHANGED <<link, written, running, garbled>>

(* ... else one more is connected, or the connection is refused. *)
Connected == Lent \cup Range(idle)
MayConnect == idle = <<>> /\ Connected # Conns

Connect(c) ==
  /\ At(c, "borrowing")
  /\ MayConnect
  /\ \E k \in Conns : BorrowNew(c, k)
  /\ Goto(c, "sending")
  /\ UNCHANGED <<link, written, running, garbled>>

(* Faulty variant: the exception is not caught in session_consumer. *)
FaultyConnectRefused(c) ==
  /\ At(c, "borrowing")
  /\ MayConnect
  /\ running' = FALSE
  /\ UNCHANGED <<exchange, pc, link, written, garbled>>

ConnectRefused(c) ==
  /\ At(c, "borrowing")
  /\ MayConnect
  /\ Goto(c, "failing")
  /\ UNCHANGED <<exchange, link, written, running, garbled>>

(* The header and the payload of the dubbo request. *)
Send(c) ==
  /\ At(c, "sending")
  /\ Write(c)
  /\ Goto(c, "receiving")
  /\ UNCHANGED <<link, written, running, garbled>>

SendFails(c) ==
  /\ At(c, "sending")
  /\ WriteFails(c)
  /\ Goto(c, "failing")
  /\ UNCHANGED <<link, written, running, garbled>>

(* Faulty variant: all lines of the payload are taken, not the second one. *)
FaultyReceive(c) ==
  /\ At(c, "receiving")
  /\ Read(c)
  /\ Piece(c).part # "first"
  /\ written' = [written EXCEPT ![c] = [to |-> <<Piece(c).part, Piece(c).to>>,
                                              excused |-> Nothing]]
  /\ Goto(c, "answering")
  /\ UNCHANGED <<link, running, garbled>>

(* A dubbo answer with status OK.  A body over 1 GiB is never read.        *)
Receive(c) ==
  /\ At(c, "receiving")
  /\ Read(c)
  /\ Piece(c).part # "first"
  /\ written' = [written EXCEPT
       ![c] = [to |-> Piece(c).to,
               excused |-> IF conn[c] \in torn THEN Current(c) ELSE Nothing]]
  /\ Goto(c, "answering")
  /\ UNCHANGED <<link, running, garbled>>

(* Faulty variant: the answer is left unread when its status is not OK.    *)
FaultyReceiveBad(c) ==
  /\ At(c, "receiving")
  /\ Readable(c)
  /\ GiveBack(c)
  /\ Goto(c, "failing")
  /\ UNCHANGED <<count, open, asked, answers, torn,
                 link, written, running, garbled>>

(* Another status, a wrong magic, a payload that is not three lines, or a  *)
(* length that is too big: an exception.                                   *)
ReceiveBad(c) ==
  /\ At(c, "receiving")
  /\ Read(c)
  /\ Goto(c, "failing")
  /\ UNCHANGED <<link, written, running, garbled>>

ReceiveFails(c) ==
  /\ At(c, "receiving")
  /\ ReadFails(c)
  /\ Goto(c, "failing")
  /\ UNCHANGED <<link, written, running, garbled>>

(* The answer is written; that the write fails is not looked at. *)
Answer(c) ==
  /\ At(c, "answering")
  /\ Goto(c, "reading")
  /\ UNCHANGED <<exchange, link, written, running, garbled>>

(* After an exception the session shuts its socket down.  On a connection  *)
(* that was reset this fails: ON_BOOST_FATAL throws outside of the try     *)
(* block, and out of io_context.run() and main.                            *)
Shutdown(c) ==
  /\ At(c, "failing")
  /\ Goto(c, "ended")
  /\ running' = (link[c] # "reset")
  /\ UNCHANGED <<exchange, link, written, garbled>>

(* The consumer agent exits, or the network resets the connection. *)
ConsumerGone(c) ==
  /\ running /\ link[c] = "up"
  /\ \E how \in {"closed", "reset"} : link' = [link EXCEPT ![c] = how]
  /\ UNCHANGED <<exchange, pc, written, running, garbled>>

Session(c) ==
  \/ BorrowFree(c) \/ Connect(c) \/ ConnectRefused(c)
  \/ Send(c) \/ SendFails(c)
  \/ Receive(c) \/ ReceiveBad(c) \/ ReceiveFails(c)
  \/ Answer(c) \/ Shutdown(c)

DubboServer(k) ==
  /\ running /\ Peer(k)
  /\ UNCHANGED <<pc, link, written, running, garbled>>

Next ==
  \/ \E c \in Clients : Accept(c) \/ ReadFrame(c) \/ ReadGarbled(c) \/ ReadError(c)
                          \/ Session(c) \/ ConsumerGone(c)
  \/ \E k \in Connected : DubboServer(k)

Spec == Init /\ [][Next]_vars

(***************************************************************************)
(* The one thread of io_context.run() runs every session that can go on;   *)
(* those that wait are served in FIFO order and frames are bounded (so SF).*)
(* The dubbo server answers a request or closes the connection: there is   *)
(* no timeout on the exchange with it.                                     *)
(***************************************************************************)
Fairness ==
  /\ \A c \in Clients :
       /\ SF_vars(BorrowFree(c) \/ Connect(c) \/ ConnectRefused(c))
       /\ WF_vars(Send(c) \/ SendFails(c))
       /\ WF_vars(Receive(c) \/ ReceiveBad(c) \/ ReceiveFails(c))
       /\ WF_vars(Answer(c) \/ Shutdown(c))
  /\ \A k \in Conns :
       WF_vars((ReplyWhole(k) \/ ReplyInPieces(k)) /\ DubboServer(k))

FairSpec == Spec /\ Fairness
-----------------------------------------------------------------------------
(* The types of the variables. *)
TypeOK ==
  /\ ExchangeTypeOK
  /\ pc \in [Clients -> Places]
  /\ link \in [Clients -> {"up", "closed", "reset"}]
  /\ written \in [Clients -> Written]
  /\ running \in BOOLEAN
  /\ garbled \in SUBSET Clients

(* async_request never looks at the request id of an answer.  Still what   *)
(* the consumer agent sees of session_consumer is FrameService: each frame *)
(* has its own answer, once and in order, or the connection is closed, for *)
(* the errors of async_request leave no answer behind on the connection    *)
(* that they give back.  Excused is an answer read from a dubbo connection *)
(* that has one which was not read to the end.                             *)
Seen(place) ==
  CASE place \in {"failing", "ended"} -> "closed"
    [] place \in {"none", "reading"} -> "idle"
    [] place = "answering" -> "answered"
    [] OTHER -> "busy"

Phase == [c \in Clients |-> IF running THEN Seen(pc[c]) ELSE "closed"]

(* The answers of a session, as far as they are not excused. *)
Decided == [c \in Clients |->
  IF written[c].excused = Nothing THEN written[c].to ELSE written[c].excused]

Frames == INSTANCE FrameService WITH phase <- Phase, answer <- Decided

ImplementsFrameService == Frames!Spec

(* Nothing that the dubbo server does ends the provider agent: it takes a  *)
(* consumer's connection that is gone, or a frame in pieces.               *)
DubboCannotKill == ~running =>
  \E c \in Clients : link[c] # "up" \/ c \in garbled

(* A session that reads from the dubbo server, with no timeout, has an     *)
(* answer under way or a connection that is closed.                        *)
NobodyWaitsInVain == \A c \in Clients : pc[c] = "receiving" => Coming(c)

(* Every frame is answered, or its session ends, or the process does:      *)
(* session_consumer never waits for ever.                                  *)
FrameAnswered == \A c \in Clients :
  At(c, "borrowing") ~> pc[c] \in {"answering", "ended"} \/ ~running
=============================================================================
