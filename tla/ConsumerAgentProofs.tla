------------------------ MODULE ConsumerAgentProofs ------------------------
(***************************************************************************)
(* Proofs about ConsumerAgent for every set of HTTP sessions and of pooled *)
(* connections, and for answers in one piece or in two.                    *)
(***************************************************************************)
EXTENDS ConsumerAgent, ExchangeProofs

USE DEF Places

(* A session has a quiet connection until it has written.                  *)
FreshToSend == \A c \in Clients : pc[c] = "sending" => Fresh(c)

(* A session that reads is going to be told something; no connection of    *)
(* the pool is lost.                                                       *)
ReadsWhatComes == \A c \in Clients : pc[c] = "receiving" => Coming(c)
NoneLost == Conns \subseteq Pooled

SessionTypeOK ==
  /\ pc \in [Clients -> Places]
  /\ response \in [Clients -> Responses]

SessionInv == /\ ExchangeInv /\ SessionTypeOK /\ HeldDuringExchange
              /\ FreshToSend /\ ReadsWhatComes /\ NoneLost

LEMMA ErrorsAreResponses == \A status \in {200, 400, 500} : Error(status) \in Responses
BY DEF Error, Responses

LEMMA InitSessionInv == Init => SessionInv
<1> SUFFICES ASSUME Init PROVE SessionInv
  OBVIOUS
<1> DEFINE n == Cardinality(Conns)
           made == CHOOSE s \in [1..n -> Conns] : IsInjective(s)
<1>1. ExistsBijection(1..n, Conns) /\ n \in Nat
  BY FilledPoolAssumption, FS_CountingElements, FS_CardinalityType
     DEF FilledPoolAssumption
<1>2. \E s \in [1..n -> Conns] : IsInjective(s)
  BY <1>1 DEF ExistsBijection, Bijection, Injection, IsInjective
<1>3. made \in [1..n -> Conns] /\ IsInjective(made)
  BY <1>2
<1>4. made \in Seq(Conns)
  BY <1>1, <1>3
<1>5. InitExchange(made)
  BY DEF Init
<1> HIDE DEF made
<1>6. ExchangeInv
  BY <1>3, <1>4, <1>5, InitKeepsExchange
<1>7. conn = [c \in Clients |-> NoConn]
  BY <1>5 DEF InitExchange
<1>8. SessionTypeOK
  BY ErrorsAreResponses DEF Init, SessionTypeOK
<1>9. NoneLost
  <2>1. IsFiniteSet(1..n) /\ Cardinality(1..n) = n
    BY <1>1, FS_Interval
  <2>2. made \in Injection(1..n, Conns)
    BY <1>3 DEF Injection, IsInjective
  <2>3. made \in Surjection(1..n, Conns)
    BY <2>1, <2>2, FilledPoolAssumption, FS_Injection DEF FilledPoolAssumption
  <2>4. Conns \subseteq Range(made)
    BY <2>3 DEF Surjection, Range
  <2>. QED
    BY <1>5, <2>4 DEF NoneLost, Pooled, InitExchange
<1>. QED
  BY <1>6, <1>7, <1>8, <1>9
     DEF Init, SessionInv, HeldDuringExchange, FreshToSend, ReadsWhatComes

-----------------------------------------------------------------------------
(* A step of session c keeps the invariant if it is kept for c. *)
LEMMA SessionKeepsSessionInv ==
  ASSUME SessionInv, NEW c \in Clients, ExchangeInv', OthersKeep(c),
         NEW place \in Places, pc' = [pc EXCEPT ![c] = place],
         response' \in [Clients -> Responses],
         conn'[c] # NoConn <=> place \in {"sending", "receiving"},
         place = "sending" => Fresh(c)',
         place = "receiving" => Coming(c)'
  PROVE  SessionInv'
<1>1. /\ pc'[c] = place
      /\ \A d \in Clients \ {c} : pc'[d] = pc[d]
  BY DEF SessionInv, SessionTypeOK
<1>2. SessionTypeOK'
  BY DEF SessionInv, SessionTypeOK
<1>3. HeldDuringExchange' /\ FreshToSend'
  BY <1>1 DEF SessionInv, HeldDuringExchange, FreshToSend, OthersKeep
<1>4. ReadsWhatComes' /\ NoneLost'
  BY <1>1 DEF SessionInv, HeldDuringExchange, ReadsWhatComes, NoneLost, OthersKeep
<1>. QED
  BY <1>2, <1>3, <1>4 DEF SessionInv

(* An error ends the exchange. *)
LEMMA ErrorKeepsSessionInv ==
  ASSUME SessionInv, NEW c \in Clients, NEW status \in {400, 500},
         ExchangeInv', OthersKeep(c), conn'[c] = NoConn,
         pc' = [pc EXCEPT ![c] = "replying"],
         response' = [response EXCEPT ![c] = Error(status)]
  PROVE  SessionInv'
<1>1. response' \in [Clients -> Responses]
  BY ErrorsAreResponses DEF SessionInv, SessionTypeOK
<1>. QED
  BY <1>1, SessionKeepsSessionInv

(* The steps that leave the exchanges alone. *)
LEMMA ApartKeepsSessionInv ==
  ASSUME SessionInv, NEW c \in Clients, UNCHANGED <<exchange, response>>,
         NEW place \in {"none", "reading"}, conn[c] = NoConn,
         pc' = [pc EXCEPT ![c] = place]
  PROVE  SessionInv'
<1>1. ExchangeInv' /\ OthersKeep(c)
  BY DEF SessionInv, ExchangeInv, ExchangeTypeOK, Homes, Lent, AskedIsOpen, OwnUnderWay,
         Own, Current, Quiet, OthersKeep, Pooled, Fresh, Coming, Readable, exchange
<1>2. conn'[c] = NoConn
  BY DEF exchange
<1>. QED
  BY <1>1, <1>2, SessionKeepsSessionInv DEF SessionInv, SessionTypeOK

LEMMA ReadingKeepsSessionInv ==
  ASSUME SessionInv, NEW c \in Clients, Refuse(c) \/ Accepted(c)
  PROVE  SessionInv'
<1>1. pc[c] = "reading" /\ NextRequest(c)
  <2>1. CASE Refuse(c)
    BY <2>1, Zenon DEF Refuse
  <2>2. CASE Accepted(c)
    BY <2>2, Zenon DEF Accepted
  <2>. QED
    BY <2>1, <2>2
<1>2. conn[c] = NoConn
  BY <1>1 DEF SessionInv, HeldDuringExchange
<1>3. ExchangeInv' /\ OthersKeep(c) /\ conn'[c] = NoConn
  BY <1>1, <1>2, NextRequestKeepsExchange DEF SessionInv
<1>4. CASE Refuse(c)
  <2>1. pc' = [pc EXCEPT ![c] = "replying"] /\ response' = [response EXCEPT ![c] = Error(400)]
    BY <1>4, Zenon DEF Refuse, Respond, Goto
  <2>2. 400 \in {400, 500}
    OBVIOUS
  <2>. QED
    BY <1>3, <2>1, <2>2, ErrorKeepsSessionInv
<1>5. CASE Accepted(c)
  <2>1. pc' = [pc EXCEPT ![c] = "borrowing"] /\ response' = response
    BY <1>5, Zenon DEF Accepted, Goto
  <2>. QED
    BY <1>3, <2>1, SessionKeepsSessionInv DEF SessionInv, SessionTypeOK
<1>. QED
  BY <1>4, <1>5

LEMMA BorrowingKeepsSessionInv ==
  ASSUME SessionInv, NEW c \in Clients, BorrowOne(c)
  PROVE  SessionInv'
<1>1. conn[c] = NoConn
  BY DEF BorrowOne, SessionInv, HeldDuringExchange
<1>2. ExchangeInv' /\ OthersKeep(c) /\ conn'[c] \in Conns /\ Fresh(c)'
  BY <1>1, BorrowKeepsExchange DEF BorrowOne, SessionInv
<1>3. pc' = [pc EXCEPT ![c] = "sending"] /\ response' = response /\ conn'[c] # NoConn
  BY <1>2, ExchangeAssumption DEF BorrowOne, Goto, ExchangeAssumption
<1>. QED
  BY <1>2, <1>3, SessionKeepsSessionInv DEF SessionInv, SessionTypeOK

(* A bad body and a failed write give back a connection that was not used. *)
LEMMA SendingKeepsSessionInv ==
  ASSUME SessionInv, NEW c \in Clients, BadBody(c) \/ Send(c) \/ SendFails(c)
  PROVE  SessionInv'
<1>1. conn[c] # NoConn /\ Fresh(c)
  BY DEF BadBody, Send, SendFails, SessionInv, HeldDuringExchange, FreshToSend
<1>2. CASE Send(c)
  <2>1. ExchangeInv' /\ OthersKeep(c) /\ conn' = conn /\ Coming(c)'
    BY <1>1, <1>2, WriteKeepsExchange DEF Send, SessionInv
  <2>2. pc' = [pc EXCEPT ![c] = "receiving"] /\ response' = response
    BY <1>2 DEF Send, Goto
  <2>. QED
    BY <1>1, <2>1, <2>2, SessionKeepsSessionInv DEF SessionInv, SessionTypeOK
<1>3. CASE BadBody(c) \/ SendFails(c)
  <2>1. ExchangeInv' /\ OthersKeep(c) /\ conn'[c] = NoConn
    <3>1. CASE BadBody(c)
      BY <1>1, <3>1, UnusedKeepsExchange DEF BadBody, SessionInv
    <3>2. CASE SendFails(c)
      BY <1>1, <3>2, WriteFailsKeepsExchange DEF SendFails, SessionInv
    <3>. QED
      BY <1>3, <3>1, <3>2
  <2>2. pc' = [pc EXCEPT ![c] = "replying"] /\ response' = [response EXCEPT ![c] = Error(500)]
    BY <1>3 DEF BadBody, SendFails, Respond, Goto
  <2>. QED
    BY <2>1, <2>2, ErrorKeepsSessionInv
<1>. QED
  BY <1>2, <1>3

(* A new response of one session changes what is reported of that one.     *)
Report(r) == [status |-> r.status, to |-> IF r.excused = Nobody THEN r.to ELSE r.excused]

LEMMA ResponseIsReported ==
  ASSUME SessionInv, NEW c \in Clients, NEW e \in Responses,
         response' = [response EXCEPT ![c] = e]
  PROVE  Reported' = [Reported EXCEPT ![c] = Report(e)]
<1>1. response \in [Clients -> Responses]
  BY DEF SessionInv, SessionTypeOK
<1>2. Reported = [d \in Clients |-> Report(response[d])]
  BY DEF Reported, Report
<1>3. Reported' = [d \in Clients |-> Report(response'[d])]
  BY DEF Reported, Report
<1>. QED
  BY <1>1, <1>2, <1>3

(* An error is reported as one, for nobody's request.                      *)
Failure(status) == [status |-> status, to |-> <<>>]

Reports(c, r) == Reported' = [Reported EXCEPT ![c] = r]

LEMMA ErrorIsReported ==
  ASSUME SessionInv, NEW c \in Clients, NEW status \in {400, 500},
         Respond(c, Error(status))
  PROVE  Reports(c, Failure(status))
<1>1. Error(status) \in Responses
  BY ErrorsAreResponses
<1>2. Report(Error(status)) = Failure(status)
  BY DEF Report, Error, Nobody, Failure
<1>3. Reported' = [Reported EXCEPT ![c] = Report(Error(status))]
  BY <1>1, ResponseIsReported DEF Respond
<1>. QED
  BY <1>2, <1>3 DEF Reports

(* What is read is reported for the session's own request.                 *)
LEMMA ReceiveReports ==
  ASSUME SessionInv, NEW c \in Clients, Receive(c)
  PROVE  /\ ExchangeInv' /\ OthersKeep(c) /\ conn'[c] = NoConn
         /\ pc' = [pc EXCEPT ![c] = "replying"]
         /\ response' \in [Clients -> Responses]
         /\ Reported' = [Reported EXCEPT ![c] = [status |-> 200, to |-> Current(c)]]
<1>1. conn[c] # NoConn /\ Read(c)
  BY DEF Receive, SessionInv, HeldDuringExchange
<1>2. /\ ExchangeInv' /\ OthersKeep(c) /\ conn'[c] = NoConn
      /\ Piece(c) \in Pieces
      /\ conn[c] \in torn \/ Piece(c).to = Current(c)
  BY <1>1, ReadKeepsExchange DEF SessionInv
<1>3. Piece(c).to \in Requests /\ Current(c) \in Requests /\ Current(c) # Nobody
  BY <1>2 DEF Pieces, Requests, Current, Nobody, SessionInv, ExchangeInv, ExchangeTypeOK
<1> DEFINE answer == [status |-> 200, to |-> Piece(c).to,
                      excused |-> IF conn[c] \in torn THEN Current(c) ELSE Nobody]
<1>4. answer \in Responses /\ answer.status = 200
  BY <1>3 DEF Responses
<1>5. (IF answer.excused = Nobody THEN answer.to ELSE answer.excused) = Current(c)
  BY <1>2, <1>3
<1>6. pc' = [pc EXCEPT ![c] = "replying"] /\ response' = [response EXCEPT ![c] = answer]
  BY DEF Receive, Respond, Goto
<1> HIDE DEF answer
<1>7. response' \in [Clients -> Responses]
  BY <1>4, <1>6 DEF SessionInv, SessionTypeOK
<1>8. Reported' = [Reported EXCEPT ![c] = [status |-> 200, to |-> Current(c)]]
  <2>1. Reported' = [Reported EXCEPT ![c] = Report(answer)]
    BY <1>4, <1>6, ResponseIsReported
  <2>2. Report(answer) = [status |-> 200, to |-> Current(c)]
    BY <1>4, <1>5 DEF Report
  <2>. QED
    BY <2>1, <2>2
<1>. QED
  BY <1>2, <1>6, <1>7, <1>8

LEMMA ReceivingKeepsSessionInv ==
  ASSUME SessionInv, NEW c \in Clients, Receive(c) \/ ReceiveFails(c)
  PROVE  SessionInv'
<1>1. CASE Receive(c)
  BY <1>1, ReceiveReports, SessionKeepsSessionInv
<1>2. CASE ReceiveFails(c)
  <2>1. conn[c] # NoConn
    BY <1>2 DEF ReceiveFails, SessionInv, HeldDuringExchange
  <2>2. ExchangeInv' /\ OthersKeep(c) /\ conn'[c] = NoConn
    BY <1>2, <2>1, ReadFailsKeepsExchange DEF ReceiveFails, SessionInv
  <2>3. pc' = [pc EXCEPT ![c] = "replying"] /\ response' = [response EXCEPT ![c] = Error(500)]
    BY <1>2 DEF ReceiveFails, Respond, Goto
  <2>. QED
    BY <2>2, <2>3, ErrorKeepsSessionInv
<1>. QED
  BY <1>1, <1>2

LEMMA NextKeepsSessionInv == SessionInv /\ [Next]_vars => SessionInv'
<1> SUFFICES ASSUME SessionInv, [Next]_vars PROVE SessionInv'
  OBVIOUS
<1>1. ASSUME NEW c \in Clients, Accept(c) \/ Leave(c) \/ WriteResponse(c)
      PROVE  SessionInv'
  <2>1. conn[c] = NoConn
    BY <1>1 DEF Accept, Leave, WriteResponse, SessionInv, HeldDuringExchange
  <2>. QED
    BY <1>1, <2>1, ApartKeepsSessionInv DEF Accept, Leave, WriteResponse, Goto
<1>2. ASSUME NEW c \in Clients, Session(c) PROVE SessionInv'
  BY <1>1, <1>2, ReadingKeepsSessionInv, BorrowingKeepsSessionInv,
     SendingKeepsSessionInv, ReceivingKeepsSessionInv DEF Session
<1>3. ASSUME NEW k \in Conns, Peer(k), UNCHANGED <<pc, response>> PROVE SessionInv'
  <2>1. /\ ExchangeInv' /\ UNCHANGED <<conn, idle>>
        /\ \A d \in Clients : conn[d] # NoConn =>
             (Fresh(d) => Fresh(d)') /\ (Coming(d) => Coming(d)')
    BY <1>3, PeerKeepsExchange DEF SessionInv
  <2>2. SessionTypeOK' /\ HeldDuringExchange' /\ FreshToSend'
    BY <1>3, <2>1 DEF SessionInv, SessionTypeOK, HeldDuringExchange, FreshToSend
  <2>3. ReadsWhatComes' /\ NoneLost'
    BY <1>3, <2>1
       DEF SessionInv, HeldDuringExchange, ReadsWhatComes, NoneLost, Pooled, Lent
  <2>. QED
    BY <2>1, <2>2, <2>3 DEF SessionInv
<1>4. CASE UNCHANGED vars
  BY <1>4 DEF vars, exchange, SessionInv, ExchangeInv, ExchangeTypeOK, Homes, Lent,
              AskedIsOpen, OwnUnderWay, Own, Current, Quiet, SessionTypeOK,
              HeldDuringExchange, FreshToSend, Fresh, ReadsWhatComes, Coming,
              Readable, NoneLost, Pooled
<1>. QED
  BY <1>1, <1>2, <1>3, <1>4 DEF Next

(* The invariant holds of do_session and async_request together. *)
THEOREM SessionInvariant == Spec => []SessionInv
BY InitSessionInv, NextKeepsSessionInv, PTL DEF Spec

-----------------------------------------------------------------------------
(* The types of the session's and the exchange's variables are kept by     *)
(* every step of do_session and async_request.                             *)
THEOREM SessionTypeCorrect == Spec => []TypeOK
<1>1. SessionInv => TypeOK
  BY DEF SessionInv, SessionTypeOK, ExchangeInv, TypeOK
<1>. QED
  BY <1>1, SessionInvariant, PTL

(* What release_one gets back is quiet, for any number of sessions that    *)
(* share the provider's connections, unless an answer came in pieces.      *)
THEOREM ReleasedConnectionsAreQuiet == Spec => []FreeIsQuiet
<1>1. SessionInv => FreeIsQuiet
  BY InvImpliesFreeIsQuiet DEF SessionInv
<1>. QED
  BY <1>1, SessionInvariant, PTL

(* Every way out of async_request has released the connection.             *)
THEOREM EveryWayOutReleases == Spec => []HeldDuringExchange
<1>1. SessionInv => HeldDuringExchange
  BY DEF SessionInv
<1>. QED
  BY <1>1, SessionInvariant, PTL

(* No session of any number waits in vain: what async_request reads is     *)
(* under way or its connection is closed, and borrow_one starves only      *)
(* while every connection of the pool is in the exchange of another.       *)
THEOREM SessionsDoNotWaitInVain == Spec => []NobodyWaitsInVain
<1>1. SessionInv => NobodyWaitsInVain
  <2> SUFFICES ASSUME SessionInv, NEW c \in Clients
               PROVE  /\ pc[c] = "receiving" => Coming(c)
                      /\ pc[c] = "borrowing" /\ idle = <<>> => Conns \subseteq Lent
    BY DEF NobodyWaitsInVain
  <2>1. idle = <<>> => Conns \subseteq Lent
    BY DEF SessionInv, NoneLost, Pooled, Range
  <2>. QED
    BY <2>1 DEF SessionInv, ReadsWhatComes
<1>. QED
  BY <1>1, SessionInvariant, PTL

(* release_one puts a connection where borrow_one takes the next: requests *)
(* that come one at a time stay on one connection to the provider agent.   *)
THEOREM SerialRequestsStayOnOne == Spec => SerialStaysOnOne
<1>1. SessionInv /\ [Next]_vars => [StaysOnOne]_exchange
  <2> SUFFICES ASSUME SessionInv, Next, ~UNCHANGED exchange PROVE StaysOnOne
    BY DEF vars
  <2>1. CASE UNCHANGED <<conn, idle>>
    BY <2>1 DEF StaysOnOne, OneAtATime, NextLent, Lent
  <2>2. ASSUME NEW c \in Clients, BorrowOne(c) PROVE StaysOnOne
    <3>1. conn[c] = NoConn
      BY <2>2 DEF BorrowOne, SessionInv, HeldDuringExchange
    <3>. QED
      BY <2>2, <3>1, LendingStaysOnOne DEF BorrowOne, SessionInv
  <2>3. ASSUME NEW c \in Clients,
               BadBody(c) \/ SendFails(c) \/ Receive(c) \/ ReceiveFails(c)
        PROVE  StaysOnOne
    <3>1. conn[c] # NoConn
      BY <2>3 DEF BadBody, SendFails, Receive, ReceiveFails, SessionInv,
                  HeldDuringExchange
    <3>. QED
      BY <2>3, <3>1, GiveBackStaysOnOne
         DEF BadBody, SendFails, Receive, ReceiveFails, WriteFails, Read, ReadFails,
             SessionInv
  <2>4. ASSUME NEW c \in Clients, Refuse(c) \/ Accepted(c)
        PROVE  UNCHANGED <<conn, idle>>
    <3>1. NextRequest(c)
      BY <2>4, Zenon DEF Refuse, Accepted
    <3>. QED
      BY <3>1, NextRequestFacts
  <2>5. ASSUME NEW c \in Clients,
               Accept(c) \/ Leave(c) \/ Send(c) \/ WriteResponse(c)
        PROVE  UNCHANGED <<conn, idle>>
    BY <2>5 DEF Accept, Leave, Send, Write, WriteResponse, exchange
  <2>6. ASSUME NEW k \in Conns, Peer(k) PROVE UNCHANGED <<conn, idle>>
    BY <2>6 DEF Peer, ReplyWhole, ReplyInPieces, Reply, Close
  <2>. QED
    BY <2>1, <2>2, <2>3, <2>4, <2>5, <2>6 DEF Next, Session
<1>. QED
  BY <1>1, SessionInvariant, PTL DEF Spec, SerialStaysOnOne, StaysOnOne

-----------------------------------------------------------------------------
(***************************************************************************)
(* The refinement of HttpService: first what the client sees of a session  *)
(* that goes from place to place, then step by step.                       *)
(***************************************************************************)
LEMMA PhaseAfter ==
  ASSUME SessionInv, NEW c \in Clients, NEW place \in Places,
         pc' = [pc EXCEPT ![c] = place]
  PROVE  Phase' = [Phase EXCEPT ![c] =
           CASE place = "none" -> "none"
             [] place = "reading" -> "idle"
             [] place = "replying" -> "answered"
             [] OTHER -> "pending"]
<1>1. \A d \in Clients : pc'[d] = IF d = c THEN place ELSE pc[d]
  BY DEF SessionInv, SessionTypeOK
<1>. QED
  BY <1>1 DEF Phase

LEMMA ReportedStays == response' = response => Reported' = Reported
BY DEF Reported

(* A response is decided on for the pending request. *)
LEMMA PendingIsAnswered ==
  ASSUME SessionInv, NEW c \in Clients,
         pc[c] \in {"sending", "receiving"}, pc' = [pc EXCEPT ![c] = "replying"]
  PROVE  Phase[c] = "pending" /\ Phase' = [Phase EXCEPT ![c] = "answered"]
<1>1. Phase' = [Phase EXCEPT ![c] = "answered"]
  BY PhaseAfter
<1>. QED
  BY <1>1 DEF Phase

LEMMA ReadingRefines ==
  ASSUME SessionInv, NEW c \in Clients, Refuse(c) \/ Accepted(c)
  PROVE  Service!Next
<1>1. pc[c] = "reading" /\ NextRequest(c)
  <2>1. CASE Refuse(c)
    BY <2>1, Zenon DEF Refuse
  <2>2. CASE Accepted(c)
    BY <2>2, Zenon DEF Accepted
  <2>. QED
    BY <2>1, <2>2
<1>2. /\ count[c] < MaxRequests /\ count' = [count EXCEPT ![c] = @ + 1]
      /\ Phase[c] = "idle"
  BY <1>1, NextRequestFacts DEF Phase
<1>3. CASE Refuse(c)
  <2>0. pc' = [pc EXCEPT ![c] = "replying"]
    BY <1>3, Zenon DEF Refuse, Respond, Goto
  <2>1. PICK status \in {400, 500} :
          status = 400 /\ Respond(c, Error(status))
    BY <1>3, Zenon DEF Refuse
  <2>2. Phase' = [Phase EXCEPT ![c] = "answered"]
    BY <2>0, PhaseAfter
  <2>3. Reports(c, Failure(status))
    BY <2>1, ErrorIsReported
  <2>4. Failure(status).status = 400
    BY <2>1 DEF Failure
  <2>5. Service!Decide(c, Failure(status))
    BY <1>2, <2>2, <2>3, <2>4 DEF Service!Decide, Reports
  <2>. QED
    BY <2>5 DEF Service!Next, Service!Fail, Failure
<1>4. CASE Accepted(c)
  <2>1. pc' = [pc EXCEPT ![c] = "borrowing"] /\ response' = response
    BY <1>4, Zenon DEF Accepted, Goto
  <2>2. Phase' = [Phase EXCEPT ![c] = "pending"]
    BY <2>1, PhaseAfter
  <2>3. Service!Ask(c)
    BY <1>2, <2>1, <2>2, ReportedStays DEF Service!Ask, Service!Move
  <2>. QED
    BY <2>3 DEF Service!Next
<1>. QED
  BY <1>3, <1>4

(* The answer to the session's own request, or an error. *)
LEMMA ReplyingRefines ==
  ASSUME SessionInv, NEW c \in Clients,
         BadBody(c) \/ SendFails(c) \/ Receive(c) \/ ReceiveFails(c)
  PROVE  Service!Next
<1>1. /\ pc[c] \in {"sending", "receiving"} /\ UNCHANGED count
      /\ pc' = [pc EXCEPT ![c] = "replying"]
  BY DEF BadBody, SendFails, Receive, ReceiveFails, WriteFails, Read, ReadFails,
         Respond, Goto
<1>2. Phase[c] = "pending" /\ Phase' = [Phase EXCEPT ![c] = "answered"]
  BY <1>1, PendingIsAnswered
<1>3. CASE Receive(c)
  <2> DEFINE r == [status |-> 200, to |-> Current(c)]
  <2>1. Reported' = [Reported EXCEPT ![c] = r]
    BY <1>3, ReceiveReports
  <2> HIDE DEF r
  <2>2. Service!Decide(c, r)
    BY <1>2, <1>1, <2>1 DEF Service!Decide
  <2>. QED
    BY <2>2 DEF Service!Next, Service!Answer, Current, r
<1>4. CASE BadBody(c) \/ SendFails(c) \/ ReceiveFails(c)
  <2>1. PICK status \in {400, 500} : Respond(c, Error(status))
    <3>1. CASE BadBody(c)
      BY <3>1, Zenon DEF BadBody
    <3>2. CASE SendFails(c)
      BY <3>2, Zenon DEF SendFails
    <3>3. CASE ReceiveFails(c)
      BY <3>3, Zenon DEF ReceiveFails
    <3>. QED
      BY <1>4, <3>1, <3>2, <3>3
  <2>2. Reports(c, Failure(status))
    BY <2>1, ErrorIsReported
  <2>3. Service!Decide(c, Failure(status))
    BY <1>2, <1>1, <2>2 DEF Service!Decide, Reports
  <2>. QED
    BY <2>3 DEF Service!Next, Service!Fail, Failure
<1>. QED
  BY <1>3, <1>4

(* The connection opens and closes, and lives on only after an answer. *)
LEMMA ConnectionRefines ==
  ASSUME SessionInv, NEW c \in Clients, Accept(c) \/ Leave(c) \/ WriteResponse(c)
  PROVE  Service!Next
<1>1. UNCHANGED count /\ Reported' = Reported
  BY ReportedStays DEF Accept, Leave, WriteResponse, exchange
<1>2. CASE Accept(c)
  <2>1. Phase[c] = "none" /\ Phase' = [Phase EXCEPT ![c] = "idle"]
    BY <1>2, PhaseAfter DEF Accept, Goto, Phase
  <2>2. Service!Connect(c)
    BY <1>1, <2>1 DEF Service!Connect, Service!Move
  <2>. QED
    BY <2>2 DEF Service!Next
<1>3. CASE Leave(c)
  <2>1. Phase[c] = "idle" /\ Phase' = [Phase EXCEPT ![c] = "none"]
    BY <1>3, PhaseAfter DEF Leave, Goto, Phase
  <2>2. Service!Disconnect(c)
    BY <1>1, <2>1 DEF Service!Disconnect, Service!Move
  <2>. QED
    BY <2>2 DEF Service!Next
<1>4. CASE WriteResponse(c)
  <2>1. PICK place \in {"reading", "none"} :
          /\ place = "reading" => response[c].status = 200
          /\ pc' = [pc EXCEPT ![c] = place]
    BY <1>4 DEF WriteResponse, Goto
  <2>2. Phase[c] = "answered" /\ Reported[c].status = response[c].status
    BY <1>4 DEF WriteResponse, Phase, Reported
  <2>3. Phase' = [Phase EXCEPT ![c] = IF place = "none" THEN "none" ELSE "idle"]
    BY <2>1, PhaseAfter
  <2>4. Service!Deliver(c)
    BY <1>1, <2>1, <2>2, <2>3 DEF Service!Deliver, Service!Move
  <2>. QED
    BY <2>4 DEF Service!Next
<1>. QED
  BY <1>2, <1>3, <1>4

(* The client sees nothing of the borrow, the write and the peer. *)
LEMMA OthersStutter ==
  ASSUME SessionInv, NEW c \in Clients, BorrowOne(c) \/ Send(c)
  PROVE  UNCHANGED Service!serviceVars
<1>1. /\ UNCHANGED <<count, response>> /\ Phase[c] = "pending"
      /\ \E place \in {"sending", "receiving"} : pc' = [pc EXCEPT ![c] = place]
  BY DEF BorrowOne, Send, Borrow, Write, Goto, Phase
<1>2. Phase' = [Phase EXCEPT ![c] = Phase[c]]
  BY <1>1, PhaseAfter
<1>. QED
  BY <1>1, <1>2, ReportedStays DEF Phase, Service!serviceVars

(* For every set of sessions and connections, and whatever becomes of the  *)
(* connections, each request has one response, the answer to itself or an  *)
(* error, after which the HTTP connection is closed.                       *)
THEOREM AgentImplementsService == Spec => ImplementsService
<1>1. Init => Service!Init
  BY DEF Init, InitExchange, Service!Init, Phase, Reported, Error, Nobody
<1>2. SessionInv /\ [Next]_vars => [Service!Next]_(Service!serviceVars)
  <2> SUFFICES ASSUME SessionInv, [Next]_vars
               PROVE  Service!Next \/ UNCHANGED Service!serviceVars
    OBVIOUS
  <2>1. ASSUME NEW c \in Clients, Accept(c) \/ Leave(c) \/ Session(c)
        PROVE  Service!Next \/ UNCHANGED Service!serviceVars
    BY <2>1, ReadingRefines, ReplyingRefines, ConnectionRefines, OthersStutter DEF Session
  <2>2. ASSUME NEW k \in Conns, Peer(k), UNCHANGED <<pc, response>>
        PROVE  UNCHANGED Service!serviceVars
    <3>1. UNCHANGED count
      BY <2>2 DEF Peer, ReplyWhole, ReplyInPieces, Reply, Close
    <3>. QED
      BY <2>2, <3>1 DEF Phase, Reported, Service!serviceVars
  <2>3. CASE UNCHANGED vars
    BY <2>3 DEF vars, exchange, Phase, Reported, Service!serviceVars
  <2>. QED
    BY <2>1, <2>2, <2>3 DEF Next
<1>. QED
  BY <1>1, <1>2, SessionInvariant, PTL DEF Spec, ImplementsService, Service!Spec
=============================================================================
