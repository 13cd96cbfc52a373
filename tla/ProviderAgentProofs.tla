------------------------ MODULE ProviderAgentProofs ------------------------
(***************************************************************************)
(* Proofs about ProviderAgent for every set of sessions and of dubbo       *)
(* connections, and for answers in one piece or in two.                    *)
(***************************************************************************)
EXTENDS ProviderAgent, ExchangeProofs

USE DEF Places

(* A session has a connection exactly while it is in async_request, quiet  *)
(* until it has written.                                                   *)
Held == \A c \in Clients :
  conn[c] # NoConn <=> pc[c] \in {"sending", "receiving"}

FreshToSend == \A c \in Clients : pc[c] = "sending" => Fresh(c)

(* An answer that is about to be written is the one to the current frame.  *)
OwnDecided == \A c \in Clients : pc[c] = "answering" => Decided[c] = Current(c)

AgentTypeOK ==
  /\ pc \in [Clients -> Places]
  /\ link \in [Clients -> {"up", "closed", "reset"}]
  /\ written \in [Clients -> Written]
  /\ running \in BOOLEAN
  /\ garbled \in SUBSET Clients

AgentInv == /\ ExchangeInv /\ AgentTypeOK /\ Held /\ FreshToSend
            /\ OwnDecided /\ NobodyWaitsInVain /\ DubboCannotKill

LEMMA InitAgentInv == Init => AgentInv
<1> SUFFICES ASSUME Init PROVE AgentInv
  OBVIOUS
<1>1. <<>> \in Seq(Conns) /\ IsInjective(<<>>)
  BY DEF IsInjective
<1>2. ExchangeInv
  BY <1>1, InitKeepsExchange DEF Init
<1>3. conn = [c \in Clients |-> NoConn]
  BY DEF Init, InitExchange
<1>4. AgentTypeOK
  BY DEF Init, AgentTypeOK, Written
<1>. QED
  BY <1>2, <1>3, <1>4 DEF Init, AgentInv, Held, FreshToSend, OwnDecided,
                          NobodyWaitsInVain, DubboCannotKill

-----------------------------------------------------------------------------
(***************************************************************************)
(* A step of session c that leaves the other sessions and their exchanges  *)
(* alone keeps the invariant if it is kept for c.                          *)
(***************************************************************************)
LEMMA SessionKeepsAgentInv ==
  ASSUME AgentInv, NEW c \in Clients, ExchangeInv', OthersKeep(c),
         \A d \in Clients \ {c} : count'[d] = count[d],
         NEW place \in Places, pc' = [pc EXCEPT ![c] = place],
         link' = link, written' \in [Clients -> Written],
         \A d \in Clients \ {c} : written'[d] = written[d],
         running' \in BOOLEAN, garbled \subseteq garbled', garbled' \subseteq Clients,
         conn'[c] # NoConn <=> place \in {"sending", "receiving"},
         place = "sending" => Fresh(c)',
         place = "receiving" => Coming(c)',
         place = "answering" => Decided'[c] = Current(c)',
         running' \/ DubboCannotKill'
  PROVE  AgentInv'
<1>1. /\ pc'[c] = place
      /\ \A d \in Clients \ {c} : pc'[d] = pc[d]
  BY DEF AgentInv, AgentTypeOK
<1>2. AgentTypeOK'
  BY DEF AgentInv, AgentTypeOK
<1>3. Held'
  BY <1>1 DEF AgentInv, Held, OthersKeep
<1>4. FreshToSend' /\ NobodyWaitsInVain'
  BY <1>1 DEF AgentInv, Held, FreshToSend, NobodyWaitsInVain, OthersKeep
<1>5. OwnDecided'
  BY <1>1 DEF AgentInv, OwnDecided, Decided, Current
<1>6. DubboCannotKill'
  BY DEF DubboCannotKill
<1>. QED
  BY <1>2, <1>3, <1>4, <1>5, <1>6 DEF AgentInv

(* The steps that do not touch the connections to the dubbo server. *)
LEMMA ApartKeepsAgentInv ==
  ASSUME AgentInv, NEW c \in Clients, UNCHANGED <<exchange, link, written, garbled>>,
         NEW place \in Places \ {"sending", "receiving", "answering"},
         pc' = [pc EXCEPT ![c] = place],
         conn[c] = NoConn, running' \in BOOLEAN, running' \/ link[c] = "reset"
  PROVE  AgentInv'
<1>1. ExchangeInv' /\ OthersKeep(c)
  BY DEF AgentInv, ExchangeInv, ExchangeTypeOK, Homes, Lent, AskedIsOpen, OwnUnderWay,
         Own, Current, Quiet, OthersKeep, Pooled, Fresh, Coming, Readable, exchange
<1>2. conn'[c] = NoConn /\ count' = count
  BY DEF exchange
<1>3. running' \/ DubboCannotKill'
  BY DEF DubboCannotKill
<1>. QED
  BY <1>1, <1>2, <1>3, SessionKeepsAgentInv DEF AgentInv, AgentTypeOK

(* A frame is read: the session has no connection, and asks for one next.  *)
LEMMA ReadingKeepsAgentInv ==
  ASSUME AgentInv, NEW c \in Clients, pc[c] = "reading", NextRequest(c),
         NEW place \in {"reading", "borrowing", "failing"},
         pc' = [pc EXCEPT ![c] = place],
         UNCHANGED <<link, written>>, running' \in BOOLEAN,
         garbled' \in {garbled, garbled \cup {c}}, running' \/ c \in garbled'
  PROVE  AgentInv'
<1>1. conn[c] = NoConn
  BY DEF AgentInv, Held
<1>2. ExchangeInv' /\ OthersKeep(c) /\ conn'[c] = NoConn
  BY <1>1, NextRequestKeepsExchange DEF AgentInv
<1>3. \A d \in Clients \ {c} : count'[d] = count[d]
  BY NextRequestFacts DEF AgentInv, ExchangeInv, ExchangeTypeOK
<1>4. garbled \subseteq garbled' /\ garbled' \subseteq Clients
  BY DEF AgentInv, AgentTypeOK
<1>5. running' \/ DubboCannotKill'
  BY DEF DubboCannotKill
<1>. QED
  BY <1>2, <1>3, <1>4, <1>5, SessionKeepsAgentInv DEF AgentInv, AgentTypeOK

(* Step by step: the sessions, then what happens to them. *)
LEMMA BorrowingKeepsAgentInv ==
  ASSUME AgentInv, NEW c \in Clients, BorrowFree(c) \/ Connect(c) \/ ConnectRefused(c)
  PROVE  AgentInv'
<1>1. pc[c] = "borrowing" /\ running /\ conn[c] = NoConn
  BY DEF BorrowFree, Connect, ConnectRefused, At, AgentInv, Held
<1>2. CASE BorrowFree(c) \/ Connect(c)
  <2>1. ExchangeInv' /\ OthersKeep(c) /\ conn'[c] \in Conns /\ Fresh(c)'
    BY <1>1, <1>2, BorrowKeepsExchange, BorrowNewKeepsExchange
       DEF BorrowFree, Connect, AgentInv
  <2>2. /\ UNCHANGED <<count, link, written, running, garbled>>
        /\ pc' = [pc EXCEPT ![c] = "sending"] /\ conn'[c] # NoConn
    BY <1>2, <2>1, ExchangeAssumption
       DEF BorrowFree, Connect, Borrow, BorrowNew, Goto, ExchangeAssumption
  <2>. QED
    BY <1>1, <2>1, <2>2, SessionKeepsAgentInv DEF AgentInv, AgentTypeOK
<1>3. CASE ConnectRefused(c)
  BY <1>1, <1>3, ApartKeepsAgentInv DEF ConnectRefused, Goto
<1>. QED
  BY <1>2, <1>3

LEMMA SendingKeepsAgentInv ==
  ASSUME AgentInv, NEW c \in Clients, Send(c) \/ SendFails(c)
  PROVE  AgentInv'
<1>1. pc[c] = "sending" /\ running /\ conn[c] # NoConn /\ Fresh(c)
  BY DEF Send, SendFails, At, AgentInv, Held, FreshToSend
<1>2. UNCHANGED <<count, link, written, running, garbled>>
  BY DEF Send, SendFails, Write, WriteFails
<1>3. CASE Send(c)
  <2>1. ExchangeInv' /\ OthersKeep(c) /\ conn' = conn /\ Coming(c)'
    BY <1>1, <1>3, WriteKeepsExchange DEF Send, AgentInv
  <2>2. pc' = [pc EXCEPT ![c] = "receiving"]
    BY <1>3 DEF Send, Goto
  <2>. QED
    BY <1>1, <1>2, <2>1, <2>2, SessionKeepsAgentInv DEF AgentInv, AgentTypeOK
<1>4. CASE SendFails(c)
  <2>1. ExchangeInv' /\ OthersKeep(c) /\ conn'[c] = NoConn
    BY <1>1, <1>4, WriteFailsKeepsExchange DEF SendFails, AgentInv
  <2>2. pc' = [pc EXCEPT ![c] = "failing"]
    BY <1>4 DEF SendFails, Goto
  <2>. QED
    BY <1>1, <1>2, <2>1, <2>2, SessionKeepsAgentInv DEF AgentInv, AgentTypeOK
<1>. QED
  BY <1>3, <1>4

(* The one lemma that takes what the dubbo connection was in: an answer is *)
(* to the frame of the session, or excused by a torn connection.           *)
LEMMA ReceiveDecides ==
  ASSUME AgentInv, NEW c \in Clients, Receive(c)
  PROVE  /\ ExchangeInv' /\ OthersKeep(c) /\ conn'[c] = NoConn
         /\ UNCHANGED <<count, link, running, garbled>>
         /\ pc[c] = "receiving" /\ pc' = [pc EXCEPT ![c] = "answering"]
         /\ written' \in [Clients -> Written]
         /\ Decided' = [Decided EXCEPT ![c] = Current(c)]
<1>1. pc[c] = "receiving" /\ conn[c] # NoConn /\ Read(c)
  BY DEF Receive, At, AgentInv, Held
<1>2. /\ ExchangeInv' /\ OthersKeep(c) /\ conn'[c] = NoConn
      /\ Piece(c) \in Pieces
      /\ conn[c] \in torn \/ Piece(c).to = Current(c)
  BY <1>1, ReadKeepsExchange DEF AgentInv
<1>3. Piece(c).to \in Requests /\ Current(c) \in Requests /\ Current(c) # Nothing
  BY <1>2 DEF Pieces, Requests, Current, Nothing, AgentInv, ExchangeInv, ExchangeTypeOK
<1> DEFINE answer == [to |-> Piece(c).to,
                      excused |-> IF conn[c] \in torn THEN Current(c) ELSE Nothing]
<1>4. answer \in Written
  BY <1>3 DEF Written
<1>5. (IF answer.excused = Nothing THEN answer.to ELSE answer.excused) = Current(c)
  BY <1>2, <1>3
<1>6. written' = [written EXCEPT ![c] = answer]
  BY DEF Receive
<1> HIDE DEF answer
<1>7. written' \in [Clients -> Written]
  BY <1>4, <1>6 DEF AgentInv, AgentTypeOK
<1>8. Decided' = [Decided EXCEPT ![c] = Current(c)]
  BY <1>5, <1>6 DEF Decided, AgentInv, AgentTypeOK
<1>. QED
  BY <1>1, <1>2, <1>7, <1>8 DEF Receive, Read, Goto

LEMMA ReceivingKeepsAgentInv ==
  ASSUME AgentInv, NEW c \in Clients, Receive(c) \/ ReceiveBad(c) \/ ReceiveFails(c)
  PROVE  AgentInv'
<1>1. pc[c] = "receiving" /\ conn[c] # NoConn
  BY DEF Receive, ReceiveBad, ReceiveFails, At, AgentInv, Held
<1>2. CASE Receive(c)
  <2>1. Decided'[c] = Current(c)'
    BY <1>2, ReceiveDecides DEF Decided, Current
  <2>2. \A d \in Clients \ {c} : written'[d] = written[d]
    BY <1>2 DEF Receive, AgentInv, AgentTypeOK
  <2>. QED
    BY <1>2, <2>1, <2>2, ReceiveDecides, SessionKeepsAgentInv
       DEF AgentInv, AgentTypeOK, Receive, At
<1>3. CASE ReceiveBad(c) \/ ReceiveFails(c)
  <2>1. ExchangeInv' /\ OthersKeep(c) /\ conn'[c] = NoConn
    BY <1>1, <1>3, ReadKeepsExchange, ReadFailsKeepsExchange
       DEF ReceiveBad, ReceiveFails, AgentInv
  <2>2. /\ UNCHANGED <<count, link, written, running, garbled>>
        /\ pc' = [pc EXCEPT ![c] = "failing"] /\ running
    BY <1>3 DEF ReceiveBad, ReceiveFails, Read, ReadFails, Goto, At
  <2>. QED
    BY <2>1, <2>2, SessionKeepsAgentInv DEF AgentInv, AgentTypeOK
<1>. QED
  BY <1>2, <1>3

LEMMA NextKeepsAgentInv == AgentInv /\ [Next]_vars => AgentInv'
<1> SUFFICES ASSUME AgentInv, [Next]_vars PROVE AgentInv'
  OBVIOUS
<1>1. ASSUME NEW c \in Clients, Accept(c) \/ Answer(c) PROVE AgentInv'
  <2>1. conn[c] = NoConn /\ running /\ UNCHANGED <<exchange, link, written, running, garbled>>
        /\ pc' = [pc EXCEPT ![c] = "reading"]
    BY <1>1 DEF Accept, Answer, At, Goto, AgentInv, Held
  <2>. QED
    BY <2>1, ApartKeepsAgentInv DEF AgentInv, AgentTypeOK
<1>2. ASSUME NEW c \in Clients, ReadFrame(c) PROVE AgentInv'
  <2>1. /\ pc[c] = "reading" /\ NextRequest(c) /\ pc' = [pc EXCEPT ![c] = "borrowing"]
        /\ UNCHANGED <<link, written, running, garbled>> /\ running
    BY <1>2, Zenon DEF ReadFrame, At, Goto
  <2>. QED
    BY <2>1, ReadingKeepsAgentInv DEF AgentInv, AgentTypeOK
<1>3. ASSUME NEW c \in Clients, ReadGarbled(c) PROVE AgentInv'
  <2>1. /\ pc[c] = "reading" /\ NextRequest(c) /\ garbled' = garbled \cup {c}
        /\ UNCHANGED <<link, written>> /\ running' \in BOOLEAN
        /\ \/ pc' = pc
           \/ \E place \in {"failing", "borrowing"} : pc' = [pc EXCEPT ![c] = place]
    BY <1>3, Zenon DEF ReadGarbled, At, Goto
  <2>2. \E place \in {"reading", "failing", "borrowing"} : pc' = [pc EXCEPT ![c] = place]
    <3>1. pc = [pc EXCEPT ![c] = "reading"]
      BY <2>1 DEF AgentInv, AgentTypeOK
    <3>. QED
      BY <2>1, <3>1
  <2>. QED
    BY <2>1, <2>2, ReadingKeepsAgentInv
<1>4. ASSUME NEW c \in Clients, ReadError(c) PROVE AgentInv'
  <2>1. conn[c] = NoConn
    BY <1>4 DEF ReadError, At, AgentInv, Held
  <2>. QED
    BY <1>4, <2>1, ApartKeepsAgentInv DEF ReadError, At, Goto, AgentInv, AgentTypeOK
<1>5. ASSUME NEW c \in Clients, Session(c) PROVE AgentInv'
  <2>1. CASE Shutdown(c)
    <3>1. conn[c] = NoConn
      BY <2>1 DEF Shutdown, At, AgentInv, Held
    <3>. QED
      BY <2>1, <3>1, ApartKeepsAgentInv DEF Shutdown, At, Goto, AgentInv, AgentTypeOK
  <2>. QED
    BY <1>1, <1>5, <2>1, BorrowingKeepsAgentInv, SendingKeepsAgentInv,
       ReceivingKeepsAgentInv DEF Session
<1>6. ASSUME NEW c \in Clients, ConsumerGone(c) PROVE AgentInv'
  <2>1. /\ UNCHANGED <<conn, idle, count, open, asked, answers, torn,
                       pc, written, running, garbled>>
        /\ \E how \in {"closed", "reset"} : link' = [link EXCEPT ![c] = how]
    BY <1>6 DEF ConsumerGone, exchange
  <2>2. ExchangeInv'
    BY <2>1 DEF AgentInv, ExchangeInv, ExchangeTypeOK, Homes, Lent, AskedIsOpen,
                OwnUnderWay, Own, Current, Quiet
  <2>3. AgentTypeOK'
    BY <2>1 DEF AgentInv, AgentTypeOK
  <2>4. DubboCannotKill'
    BY <1>6 DEF ConsumerGone, DubboCannotKill
  <2>. QED
    BY <2>1, <2>2, <2>3, <2>4
       DEF AgentInv, Held, FreshToSend, Fresh, Quiet, OwnDecided, Decided, Current,
           NobodyWaitsInVain, Coming, Readable
<1>7. ASSUME NEW k \in Connected, DubboServer(k) PROVE AgentInv'
  <2>1. k \in Conns
    BY DEF Connected, Lent, Range, AgentInv, ExchangeInv, ExchangeTypeOK
  <2>2. /\ ExchangeInv' /\ UNCHANGED <<conn, count, pc, link, written, running, garbled>>
        /\ \A d \in Clients : conn[d] # NoConn =>
             (Fresh(d) => Fresh(d)') /\ (Coming(d) => Coming(d)')
    BY <1>7, <2>1, PeerKeepsExchange DEF DubboServer, AgentInv
  <2>3. AgentTypeOK' /\ Held' /\ FreshToSend' /\ NobodyWaitsInVain'
    BY <2>2 DEF AgentInv, AgentTypeOK, Held, FreshToSend, NobodyWaitsInVain
  <2>4. OwnDecided' /\ DubboCannotKill'
    BY <2>2 DEF AgentInv, OwnDecided, Decided, Current, DubboCannotKill
  <2>. QED
    BY <2>2, <2>3, <2>4 DEF AgentInv
<1>8. CASE UNCHANGED vars
  BY <1>8 DEF vars, exchange, AgentInv, ExchangeInv, ExchangeTypeOK, Homes, Lent,
              AskedIsOpen, OwnUnderWay, Own, Current, Quiet, AgentTypeOK, Held,
              FreshToSend, Fresh, OwnDecided, Decided, NobodyWaitsInVain, Coming,
              Readable, DubboCannotKill
<1>. QED
  BY <1>1, <1>2, <1>3, <1>4, <1>5, <1>6, <1>7, <1>8 DEF Next

(* The invariant holds of session_consumer and async_request together.     *)
THEOREM AgentInvariant == Spec => []AgentInv
BY InitAgentInv, NextKeepsAgentInv, PTL DEF Spec

-----------------------------------------------------------------------------
(* The types of the session's and the exchange's variables are kept by     *)
(* every step of session_consumer and async_request.                       *)
THEOREM AgentTypeCorrect == Spec => []TypeOK
<1>1. AgentInv => TypeOK
  BY DEF AgentInv, AgentTypeOK, ExchangeInv, TypeOK
<1>. QED
  BY <1>1, AgentInvariant, PTL

(* What release_one gets back is quiet, for any number of sessions that    *)
(* share the dubbo connections, unless an answer came in pieces.           *)
THEOREM ReleasedConnectionsAreQuiet == Spec => []FreeIsQuiet
<1>1. AgentInv => FreeIsQuiet
  BY InvImpliesFreeIsQuiet DEF AgentInv
<1>. QED
  BY <1>1, AgentInvariant, PTL

(* Whatever the dubbo server does, async_request, which has no timeout,    *)
(* never reads from an open connection that has nothing under way.         *)
THEOREM FramesDoNotWaitInVain == Spec => []NobodyWaitsInVain
<1>1. AgentInv => NobodyWaitsInVain
  BY DEF AgentInv
<1>. QED
  BY <1>1, AgentInvariant, PTL

(* The process of a provider agent ends only by what a consumer agent does *)
(* to it, whatever errors async_request throws.                            *)
THEOREM DubboDoesNotKill == Spec => []DubboCannotKill
<1>1. AgentInv => DubboCannotKill
  BY DEF AgentInv
<1>. QED
  BY <1>1, AgentInvariant, PTL

-----------------------------------------------------------------------------
(* release_one puts a connection where borrow_one takes the next: a session *)
(* that has the pool to itself stays on one dubbo connection.              *)
THEOREM SerialFramesStayOnOne == Spec => SerialStaysOnOne
<1>1. AgentInv /\ [Next]_vars => [StaysOnOne]_exchange
  <2> SUFFICES ASSUME AgentInv, Next, ~UNCHANGED exchange PROVE StaysOnOne
    BY DEF vars
  <2>1. CASE UNCHANGED <<conn, idle>>
    BY <2>1 DEF StaysOnOne, OneAtATime, NextLent, Lent
  <2>2. ASSUME NEW c \in Clients, BorrowFree(c) \/ Connect(c) PROVE StaysOnOne
    <3>1. conn[c] = NoConn
      BY <2>2 DEF BorrowFree, Connect, At, AgentInv, Held
    <3>. QED
      BY <2>2, <3>1, LendingStaysOnOne DEF BorrowFree, Connect, AgentInv
  <2>3. ASSUME NEW c \in Clients,
               SendFails(c) \/ Receive(c) \/ ReceiveBad(c) \/ ReceiveFails(c)
        PROVE  StaysOnOne
    <3>1. conn[c] # NoConn
      BY <2>3 DEF SendFails, Receive, ReceiveBad, ReceiveFails, At, AgentInv, Held
    <3>. QED
      BY <2>3, <3>1, GiveBackStaysOnOne
         DEF SendFails, Receive, ReceiveBad, ReceiveFails, WriteFails, Read, ReadFails,
             AgentInv
  <2>4. ASSUME NEW c \in Clients, ReadFrame(c) \/ ReadGarbled(c)
        PROVE  UNCHANGED <<conn, idle>>
    BY <2>4, NextRequestFacts DEF ReadFrame, ReadGarbled
  <2>5. ASSUME NEW c \in Clients,
               \/ Accept(c) \/ ReadError(c) \/ ConnectRefused(c) \/ Send(c)
               \/ Answer(c) \/ Shutdown(c) \/ ConsumerGone(c)
        PROVE  UNCHANGED <<conn, idle>>
    BY <2>5 DEF Accept, ReadError, ConnectRefused, Send, Write, Answer, Shutdown,
                ConsumerGone, exchange
  <2>6. ASSUME NEW k \in Connected, DubboServer(k) PROVE UNCHANGED <<conn, idle>>
    BY <2>6 DEF DubboServer, Peer, ReplyWhole, ReplyInPieces, Reply, Close
  <2>. QED
    BY <2>1, <2>2, <2>3, <2>4, <2>5, <2>6 DEF Next, Session
<1>. QED
  BY <1>1, AgentInvariant, PTL DEF Spec, SerialStaysOnOne, StaysOnOne

-----------------------------------------------------------------------------
(***************************************************************************)
(* The refinement of FrameService: first what the consumer agent sees of a *)
(* session that goes from place to place, then step by step.               *)
(***************************************************************************)
LEMMA PhaseAfter ==
  ASSUME AgentInv, NEW c \in Clients, NEW place \in Places, running, running',
         pc' = [pc EXCEPT ![c] = place]
  PROVE  Phase[c] = Seen(pc[c]) /\ Phase' = [Phase EXCEPT ![c] = Seen(place)]
<1>1. Phase = [d \in Clients |-> Seen(pc[d])]
  BY DEF Phase
<1>2. Phase' = [d \in Clients |-> Seen(pc'[d])]
  BY DEF Phase
<1>3. \A d \in Clients : pc'[d] = IF d = c THEN place ELSE pc[d]
  BY DEF AgentInv, AgentTypeOK
<1>. QED
  BY <1>1, <1>2, <1>3

LEMMA DecidedStays == written' = written => Decided' = Decided
BY DEF Decided

(* A session that is seen to close, with its frame or without. *)
LEMMA ClosesOne ==
  ASSUME AgentInv, AgentInv', NEW c \in Clients,
         Phase' = [Phase EXCEPT ![c] = "closed"], Decided' = Decided,
         \/ count' = count
         \/ Phase[c] = "idle" /\ count' = [count EXCEPT ![c] = @ + 1]
  PROVE  Frames!Next
<1>1. count \in [Clients -> 0..MaxRequests] /\ count' \in [Clients -> 0..MaxRequests]
  BY DEF AgentInv, ExchangeInv, ExchangeTypeOK
<1>2. Phase' = [d \in Clients |-> IF d \in {c} THEN "closed" ELSE Phase[d]]
  BY DEF Phase
<1>3. Frames!Close({c})
  BY <1>1, <1>2 DEF Frames!Close
<1>4. {c} \in (SUBSET Clients) \ {{}}
  OBVIOUS
<1>. QED
  BY <1>3, <1>4 DEF Frames!Next

LEMMA ClosesAll ==
  ASSUME AgentInv, AgentInv', NEW c \in Clients, ~running', Decided' = Decided,
         \/ count' = count
         \/ Phase[c] = "idle" /\ count' = [count EXCEPT ![c] = @ + 1]
  PROVE  Frames!Next
<1>1. count \in [Clients -> 0..MaxRequests] /\ count' \in [Clients -> 0..MaxRequests]
  BY DEF AgentInv, ExchangeInv, ExchangeTypeOK
<1>2. Phase' = [d \in Clients |-> IF d \in Clients THEN "closed" ELSE Phase[d]]
  <2>1. Phase' = [d \in Clients |-> "closed"]
    BY DEF Phase
  <2>. QED
    BY <2>1
<1>3. Frames!Close(Clients)
  BY <1>1, <1>2 DEF Frames!Close
<1>4. Clients \in (SUBSET Clients) \ {{}}
  OBVIOUS
<1>. QED
  BY <1>3, <1>4 DEF Frames!Next

(* A frame that is read is asked for, or its connection is closed. *)
LEMMA ReadingRefines ==
  ASSUME AgentInv, AgentInv', NEW c \in Clients, ReadFrame(c) \/ ReadGarbled(c)
  PROVE  Frames!Next
<1>1. /\ running /\ pc[c] = "reading" /\ NextRequest(c) /\ written' = written
      /\ \/ ~running'
         \/ running' /\ \E place \in {"failing", "borrowing"} :
                          pc' = [pc EXCEPT ![c] = place]
  BY Zenon DEF ReadFrame, ReadGarbled, At, Goto
<1>2. count[c] < MaxRequests /\ count' = [count EXCEPT ![c] = @ + 1]
  BY <1>1, NextRequestFacts
<1>3. Phase[c] = "idle" /\ Decided' = Decided
  BY <1>1, DecidedStays DEF Phase, Seen
<1>4. CASE ~running'
  BY <1>2, <1>3, <1>4, ClosesAll
<1>5. CASE running' /\ pc' = [pc EXCEPT ![c] = "failing"]
  BY <1>1, <1>2, <1>3, <1>5, PhaseAfter, ClosesOne DEF Seen
<1>6. CASE running' /\ pc' = [pc EXCEPT ![c] = "borrowing"]
  <2>1. Phase' = [Phase EXCEPT ![c] = "busy"]
    BY <1>1, <1>6, PhaseAfter DEF Seen
  <2>2. Frames!Ask(c)
    BY <1>2, <1>3, <2>1 DEF Frames!Ask, Frames!Move
  <2>. QED
    BY <2>2 DEF Frames!Next
<1>. QED
  BY <1>1, <1>4, <1>5, <1>6

(* The answer that async_request returns is the one to the frame. *)
LEMMA ReceiveRefines ==
  ASSUME AgentInv, AgentInv', NEW c \in Clients, Receive(c)
  PROVE  Frames!Next
<1>1. /\ running /\ running' /\ UNCHANGED count
      /\ pc[c] = "receiving" /\ pc' = [pc EXCEPT ![c] = "answering"]
      /\ Decided' = [Decided EXCEPT ![c] = Current(c)]
  BY ReceiveDecides DEF Receive, At
<1>2. Phase[c] = "busy" /\ Phase' = [Phase EXCEPT ![c] = "answered"]
  BY <1>1, PhaseAfter DEF Seen
<1>3. Frames!Decide(c)
  BY <1>1, <1>2 DEF Frames!Decide, Frames!Move, Current
<1>. QED
  BY <1>3 DEF Frames!Next

LEMMA FailingRefines ==
  ASSUME AgentInv, AgentInv', NEW c \in Clients,
         ReadError(c) \/ ConnectRefused(c) \/ SendFails(c) \/ ReceiveBad(c) \/ ReceiveFails(c)
  PROVE  Frames!Next
<1>1. /\ running /\ running' /\ UNCHANGED <<count, written>>
      /\ pc' = [pc EXCEPT ![c] = "failing"]
  BY DEF ReadError, ConnectRefused, SendFails, ReceiveBad, ReceiveFails, WriteFails,
         Read, ReadFails, At, Goto, exchange
<1>. QED
  BY <1>1, PhaseAfter, DecidedStays, ClosesOne DEF Seen

LEMMA AnswerRefines ==
  ASSUME AgentInv, NEW c \in Clients, Answer(c)
  PROVE  Frames!Next
<1>1. /\ running /\ running' /\ UNCHANGED <<count, written>>
      /\ pc[c] = "answering" /\ pc' = [pc EXCEPT ![c] = "reading"]
  BY DEF Answer, At, Goto, exchange
<1>2. Phase[c] = "answered" /\ Phase' = [Phase EXCEPT ![c] = "idle"]
  BY <1>1, PhaseAfter DEF Seen
<1>3. Frames!Deliver(c)
  BY <1>1, <1>2, DecidedStays DEF Frames!Deliver, Frames!Move
<1>. QED
  BY <1>3 DEF Frames!Next

(* Nothing is seen of the rest, unless the shutdown ends the process.      *)
LEMMA OthersStutter ==
  ASSUME AgentInv, NEW c \in Clients,
         \/ Accept(c) \/ BorrowFree(c) \/ Connect(c) \/ Send(c)
         \/ (Shutdown(c) /\ running') \/ ConsumerGone(c)
  PROVE  UNCHANGED Frames!frames
<1>1. UNCHANGED <<count, written>> /\ running /\ running'
  BY DEF Accept, BorrowFree, Connect, Send, Shutdown, ConsumerGone, At,
         Borrow, BorrowNew, Write, exchange
<1>2. CASE pc' = pc
  BY <1>1, <1>2, DecidedStays DEF Phase, Frames!frames
<1>3. CASE pc' # pc
  <2>1. \E place \in Places : pc' = [pc EXCEPT ![c] = place] /\ Seen(place) = Seen(pc[c])
    BY <1>3 DEF Accept, BorrowFree, Connect, Send, Shutdown, ConsumerGone,
                At, Goto, Seen
  <2>2. Phase' = [Phase EXCEPT ![c] = Phase[c]]
    BY <1>1, <2>1, PhaseAfter
  <2>. QED
    BY <1>1, <2>2, DecidedStays DEF Phase, Frames!frames
<1>. QED
  BY <1>2, <1>3

(* For every set of sessions and dubbo connections, and whatever becomes of *)
(* them, each frame has the answer to itself or its connection is closed.  *)
THEOREM AgentImplementsFrameService == Spec => ImplementsFrameService
<1>1. Init => Frames!Init
  BY DEF Init, InitExchange, Frames!Init, Phase, Seen, Decided, Nothing
<1>2. AgentInv /\ AgentInv' /\ [Next]_vars => [Frames!Next]_(Frames!frames)
  <2> SUFFICES ASSUME AgentInv, AgentInv', [Next]_vars
               PROVE  Frames!Next \/ UNCHANGED Frames!frames
    OBVIOUS
  <2>1. ASSUME NEW c \in Clients, Session(c) \/ Accept(c) \/ ConsumerGone(c)
        PROVE  Frames!Next \/ UNCHANGED Frames!frames
    <3>1. CASE Shutdown(c) /\ ~running'
      <4>1. UNCHANGED <<count, written>>
        BY <3>1 DEF Shutdown, exchange
      <4>. QED
        BY <3>1, <4>1, DecidedStays, ClosesAll
    <3>2. CASE Shutdown(c) /\ running'
      BY <3>2, OthersStutter
    <3>. QED
      BY <2>1, <3>1, <3>2, OthersStutter, ReceiveRefines, FailingRefines, AnswerRefines
         DEF Session
  <2>2. ASSUME NEW c \in Clients, ReadFrame(c) \/ ReadGarbled(c) \/ ReadError(c)
        PROVE  Frames!Next
    BY <2>2, ReadingRefines, FailingRefines
  <2>3. ASSUME NEW k \in Connected, DubboServer(k) PROVE UNCHANGED Frames!frames
    <3>1. UNCHANGED <<count, pc, written, running>>
      BY <2>3 DEF DubboServer, Peer, ReplyWhole, ReplyInPieces, Reply, Close
    <3>. QED
      BY <3>1 DEF Phase, Decided, Frames!frames
  <2>4. CASE UNCHANGED vars
    BY <2>4 DEF vars, exchange, Phase, Decided, Frames!frames
  <2>. QED
    BY <2>1, <2>2, <2>3, <2>4 DEF Next
<1>. QED
  BY <1>1, <1>2, AgentInvariant, PTL DEF Spec, ImplementsFrameService, Frames!Spec
=============================================================================
