--------------------------- MODULE ExchangeProofs ---------------------------
(***************************************************************************)
(* What each operation of Exchange does to the connections of a pool, for  *)
(* every set of clients and connections.  The agents' proofs use it.       *)
(***************************************************************************)
EXTENDS Exchange, FiniteSetTheorems, TLAPS

USE ExchangeAssumption

(* A connection is free once or lent to one client. *)
Homes ==
  /\ IsInjective(idle)
  /\ IsFiniteSet(Lent)
  /\ \A c \in Clients : conn[c] \notin Range(idle)
  /\ \A c, d \in Clients : conn[c] # NoConn /\ conn[c] = conn[d] => c = d

(* Nothing is asked of a peer that has closed the connection. *)
AskedIsOpen == \A k \in Conns : asked[k] # <<>> => k \in open

(* What is under way on a connection, unless an answer came in pieces, is  *)
(* the request of the client that has it, or the answer to that request.   *)
Own(c, k) ==
  \/ asked[k] = <<Current(c)>> /\ answers[k] = <<>>
  \/ asked[k] = <<>> /\ answers[k] = <<[to |-> Current(c), part |-> "whole"]>>

OwnUnderWay == \A k \in Conns \ torn :
  Quiet(k) \/ \E c \in Clients : conn[c] = k /\ Own(c, k)

ExchangeInv == ExchangeTypeOK /\ Homes /\ AskedIsOpen /\ OwnUnderWay

(* A client that has not yet written finds its connection quiet. *)
Fresh(c) == conn[c] \in torn \/ Quiet(conn[c])

(* The connections that the pool knows of.                                 *)
Pooled == Lent \cup Range(idle)

(* An operation of client c loses no connection, and leaves the other      *)
(* clients what they have and what they wait for.                          *)
OthersKeep(c) ==
  /\ Pooled \subseteq Pooled'
  /\ \A d \in Clients \ {c} :
       /\ conn'[d] = conn[d]
       /\ conn[d] # NoConn => (Fresh(d) => Fresh(d)') /\ (Coming(d) => Coming(d)')

-----------------------------------------------------------------------------
(* The free list is changed at its head only.                              *)
LEMMA TakeFirst ==
  ASSUME NEW s \in Seq(Conns), s # <<>>, IsInjective(s)
  PROVE  /\ Head(s) \in Conns /\ Head(s) \in Range(s)
         /\ Tail(s) \in Seq(Conns) /\ IsInjective(Tail(s))
         /\ Range(Tail(s)) = Range(s) \ {Head(s)}
<1>1. /\ Len(s) \in Nat \ {0} /\ DOMAIN s = 1..Len(s) /\ Head(s) = s[1]
      /\ Tail(s) \in Seq(Conns) /\ DOMAIN Tail(s) = 1..(Len(s) - 1)
      /\ \A i \in 1..(Len(s) - 1) : Tail(s)[i] = s[i + 1]
      /\ Head(s) \in Conns
  OBVIOUS
<1>2. 1 \in DOMAIN s
      /\ \A i \in 1..(Len(s) - 1) : i + 1 \in DOMAIN s /\ i + 1 # 1
  BY <1>1
<1>3. \A i, j \in 1..(Len(s) - 1) : i + 1 = j + 1 => i = j
  BY <1>1
<1>4. IsInjective(Tail(s))
  BY <1>1, <1>2, <1>3 DEF IsInjective
<1>5. \A i \in DOMAIN s : i = 1 \/ (i - 1 \in DOMAIN Tail(s) /\ Tail(s)[i - 1] = s[i])
  <2>1. \A i \in 1..Len(s) : i = 1 \/ (i - 1 \in 1..(Len(s) - 1) /\ (i - 1) + 1 = i)
    BY <1>1
  <2>. QED
    BY <1>1, <2>1
<1>6. Range(Tail(s)) = Range(s) \ {Head(s)}
  <2>1. Range(Tail(s)) \subseteq Range(s) \ {Head(s)}
    BY <1>1, <1>2 DEF IsInjective, Range
  <2>2. Range(s) \ {Head(s)} \subseteq Range(Tail(s))
    BY <1>1, <1>5 DEF Range
  <2>. QED
    BY <2>1, <2>2
<1>. QED
  BY <1>1, <1>2, <1>4, <1>6 DEF Range

LEMMA PutFirst ==
  ASSUME NEW s \in Seq(Conns), NEW e \in Conns, IsInjective(s), e \notin Range(s)
  PROVE  /\ <<e>> \o s \in Seq(Conns) /\ IsInjective(<<e>> \o s)
         /\ Range(<<e>> \o s) = Range(s) \cup {e}
<1> DEFINE t == <<e>> \o s
<1>1. /\ DOMAIN s = 1..Len(s) /\ Len(s) \in Nat
      /\ t \in Seq(Conns) /\ DOMAIN t = 1..(Len(s) + 1)
      /\ t[1] = e /\ \A i \in 1..Len(s) : t[i + 1] = s[i]
  OBVIOUS
<1> HIDE DEF t
<1>2. \A i \in DOMAIN s : i + 1 \in DOMAIN t /\ t[i + 1] = s[i]
  BY <1>1
<1>3. \A i \in DOMAIN t : i = 1 \/ \E j \in DOMAIN s : i = j + 1 /\ t[i] = s[j]
  <2> SUFFICES ASSUME NEW i \in DOMAIN t, i # 1
               PROVE  \E j \in DOMAIN s : i = j + 1 /\ t[i] = s[j]
    OBVIOUS
  <2>1. i - 1 \in DOMAIN s /\ i = (i - 1) + 1
    BY <1>1
  <2>. QED
    BY <1>2, <2>1
<1>4. 1 \in DOMAIN t /\ t[1] = e /\ \A j \in DOMAIN s : s[j] # e
  BY <1>1 DEF Range
<1>5. IsInjective(t)
  BY <1>3, <1>4 DEF IsInjective
<1>6. Range(t) = Range(s) \cup {e}
  BY <1>2, <1>3, <1>4 DEF Range
<1>. QED
  BY <1>1, <1>5, <1>6 DEF t

-----------------------------------------------------------------------------
LEMMA InvImpliesFreeIsQuiet == ExchangeInv => FreeIsQuiet
BY DEF ExchangeInv, ExchangeTypeOK, OwnUnderWay, FreeIsQuiet, Lent

LEMMA InitKeepsExchange ==
  ASSUME NEW made \in Seq(Conns), IsInjective(made), InitExchange(made)
  PROVE  ExchangeInv
<1>1. ExchangeTypeOK
  BY DEF InitExchange, ExchangeTypeOK
<1>2. Range(made) \subseteq Conns
  BY DEF Range
<1>3. Lent = {} /\ IsFiniteSet(Lent)
  BY FS_EmptySet DEF InitExchange, Lent
<1>4. Homes
  BY <1>2, <1>3 DEF InitExchange, Homes
<1>. QED
  BY <1>1, <1>4 DEF InitExchange, ExchangeInv, AskedIsOpen, OwnUnderWay, Quiet

LEMMA NextRequestFacts ==
  ASSUME NEW c \in Clients, NextRequest(c)
  PROVE  /\ count[c] < MaxRequests
         /\ count' = [count EXCEPT ![c] = @ + 1]
         /\ UNCHANGED <<conn, idle, open, asked, answers, torn>>
BY Zenon DEF NextRequest

(* Counting a request does not touch what others have under way. *)
LEMMA NextRequestKeepsExchange ==
  ASSUME ExchangeInv, NEW c \in Clients, NextRequest(c), conn[c] = NoConn
  PROVE  ExchangeInv' /\ OthersKeep(c) /\ conn'[c] = NoConn
<1>1. /\ count[c] < MaxRequests
      /\ count' = [count EXCEPT ![c] = @ + 1]
      /\ UNCHANGED <<conn, idle, open, asked, answers, torn>>
  BY NextRequestFacts
<1>2. ExchangeTypeOK'
  <2>1. count' \in [Clients -> 0..MaxRequests]
    BY <1>1 DEF ExchangeInv, ExchangeTypeOK
  <2>. QED
    BY <1>1, <2>1 DEF ExchangeInv, ExchangeTypeOK
<1>3. Homes' /\ AskedIsOpen'
  BY <1>1 DEF ExchangeInv, Homes, AskedIsOpen, Lent
<1>4. \A d \in Clients, k \in Conns : conn[d] = k /\ Own(d, k) => Own(d, k)'
  BY <1>1 DEF ExchangeInv, ExchangeTypeOK, Own, Current
<1>5. OwnUnderWay'
  BY <1>1, <1>4 DEF ExchangeInv, OwnUnderWay, Quiet
<1>6. OthersKeep(c)
  BY <1>1 DEF OthersKeep, Pooled, Lent, Fresh, Quiet, Coming, Readable
<1>. QED
  BY <1>1, <1>2, <1>3, <1>5, <1>6 DEF ExchangeInv

(* A new holder of a connection k that nobody has. *)
LEMMA LendingKeepsExchange ==
  ASSUME ExchangeInv, NEW c \in Clients, conn[c] = NoConn,
         NEW k \in Conns, k \notin Lent, k \notin Range(idle)',
         conn' = [conn EXCEPT ![c] = k],
         idle' \in Seq(Conns), IsInjective(idle)', Range(idle)' \subseteq Range(idle),
         Range(idle) \subseteq Range(idle)' \cup {k},
         UNCHANGED <<count, open, asked, answers, torn>>
  PROVE  ExchangeInv' /\ OthersKeep(c) /\ conn'[c] = k /\ Fresh(c)'
<1>1. ExchangeTypeOK'
  BY DEF ExchangeInv, ExchangeTypeOK
<1>2. /\ conn'[c] = k
      /\ \A d \in Clients \ {c} : conn'[d] = conn[d] /\ conn[d] # k
  BY DEF ExchangeInv, ExchangeTypeOK, Lent
<1>3. Lent' = Lent \cup {k} /\ IsFiniteSet(Lent)'
  <2>1. Lent' = Lent \cup {k}
    BY <1>2 DEF Lent
  <2>. QED
    BY <2>1, FS_AddElement DEF ExchangeInv, Homes
<1>4. Homes'
  BY <1>2, <1>3 DEF ExchangeInv, Homes
<1>5. AskedIsOpen'
  BY DEF ExchangeInv, AskedIsOpen
<1>6. k \in torn \/ Quiet(k)
  BY InvImpliesFreeIsQuiet DEF FreeIsQuiet
<1>7. OwnUnderWay'
  <2> SUFFICES ASSUME NEW j \in Conns \ torn
               PROVE  Quiet(j)' \/ \E d \in Clients : conn'[d] = j /\ Own(d, j)'
    BY DEF OwnUnderWay
  <2>1. CASE Quiet(j)
    BY <2>1 DEF Quiet
  <2>2. CASE \E d \in Clients : conn[d] = j /\ Own(d, j)
    <3>1. PICK d \in Clients : conn[d] = j /\ Own(d, j)
      BY <2>2
    <3>2. d # c /\ Own(d, j)'
      BY <3>1 DEF Own, Current
    <3>. QED
      BY <1>2, <3>1, <3>2
  <2>. QED
    BY <2>1, <2>2 DEF ExchangeInv, OwnUnderWay
<1>8. OthersKeep(c) /\ Fresh(c)'
  BY <1>2, <1>3, <1>6 DEF OthersKeep, Pooled, Fresh, Quiet, Coming, Readable
<1>. QED
  BY <1>1, <1>2, <1>4, <1>5, <1>7, <1>8 DEF ExchangeInv

LEMMA BorrowKeepsExchange ==
  ASSUME ExchangeInv, NEW c \in Clients, conn[c] = NoConn, Borrow(c)
  PROVE  ExchangeInv' /\ OthersKeep(c) /\ conn'[c] \in Conns /\ Fresh(c)'
<1>1. /\ Head(idle) \in Conns /\ Head(idle) \in Range(idle)
      /\ Tail(idle) \in Seq(Conns) /\ IsInjective(Tail(idle))
      /\ Range(Tail(idle)) = Range(idle) \ {Head(idle)}
  BY TakeFirst DEF ExchangeInv, ExchangeTypeOK, Homes, Borrow
<1>2. Head(idle) \notin Lent
  BY <1>1 DEF ExchangeInv, Homes, Lent
<1>. QED
  BY <1>1, <1>2, LendingKeepsExchange DEF Borrow

LEMMA BorrowNewKeepsExchange ==
  ASSUME ExchangeInv, NEW c \in Clients, conn[c] = NoConn,
         NEW k \in Conns, BorrowNew(c, k)
  PROVE  ExchangeInv' /\ OthersKeep(c) /\ conn'[c] \in Conns /\ Fresh(c)'
<1>1. Range(idle) = {} /\ idle' = idle
  BY DEF BorrowNew, Range
<1>2. idle' \in Seq(Conns) /\ IsInjective(idle)' /\ Range(idle)' = Range(idle)
      /\ k \notin Range(idle)'
  BY <1>1 DEF ExchangeInv, ExchangeTypeOK, Homes
<1>. QED
  BY <1>2, LendingKeepsExchange DEF BorrowNew

(* Giving back a connection that is quiet, or on which an answer came in   *)
(* pieces: it is free, and first in line.  What is under way on the other  *)
(* connections has not changed.                                            *)
LEMMA GiveBackKeepsExchange ==
  ASSUME ExchangeInv, NEW c \in Clients, conn[c] # NoConn, GiveBack(c),
         UNCHANGED <<count, open, torn>>, AskedIsOpen',
         asked' \in [Conns -> Seq(Requests)], answers' \in [Conns -> Seq(Pieces)],
         \A k \in Conns \ {conn[c]} : asked'[k] = asked[k] /\ answers'[k] = answers[k],
         \/ conn[c] \in torn
         \/ asked'[conn[c]] = <<>> /\ answers'[conn[c]] = <<>>
  PROVE  ExchangeInv' /\ OthersKeep(c) /\ conn'[c] = NoConn
<1>1. /\ conn[c] \in Conns /\ conn'[c] = NoConn
      /\ \A d \in Clients \ {c} : conn'[d] = conn[d] /\ (conn[d] # NoConn => conn[d] # conn[c])
  BY DEF ExchangeInv, ExchangeTypeOK, GiveBack, Homes
<1>2. /\ idle' \in Seq(Conns) /\ IsInjective(idle')
      /\ Range(idle') = Range(idle) \cup {conn[c]} /\ NoConn \notin Range(idle')
  <2>1. /\ idle' \in Seq(Conns) /\ IsInjective(idle')
        /\ Range(idle') = Range(idle) \cup {conn[c]}
    BY <1>1, PutFirst DEF ExchangeInv, ExchangeTypeOK, Homes, GiveBack
  <2>2. NoConn \notin Range(idle)
    BY DEF ExchangeInv, ExchangeTypeOK, Range
  <2>. QED
    BY <1>1, <2>1, <2>2
<1>3. ExchangeTypeOK'
  BY <1>2 DEF ExchangeInv, ExchangeTypeOK, GiveBack
<1>4. IsFiniteSet(Lent)'
  <2>1. Lent' \subseteq Lent
    BY <1>1 DEF Lent
  <2>. QED
    BY <2>1, FS_Subset DEF ExchangeInv, Homes
<1>5. Homes'
  <2>1. \A d \in Clients : conn'[d] \notin Range(idle')
    BY <1>1, <1>2 DEF ExchangeInv, Homes
  <2>2. \A d, e \in Clients : conn'[d] # NoConn /\ conn'[d] = conn'[e] => d = e
    BY <1>1 DEF ExchangeInv, Homes
  <2>. QED
    BY <1>2, <1>4, <2>1, <2>2 DEF Homes
<1>6. OwnUnderWay'
  <2> SUFFICES ASSUME NEW k \in Conns \ torn
               PROVE  Quiet(k)' \/ \E d \in Clients : conn'[d] = k /\ Own(d, k)'
    BY DEF OwnUnderWay
  <2>1. CASE k = conn[c]
    BY <2>1 DEF Quiet
  <2>2. CASE k # conn[c] /\ Quiet(k)
    BY <2>2 DEF Quiet
  <2>3. CASE k # conn[c] /\ \E d \in Clients : conn[d] = k /\ Own(d, k)
    <3>1. PICK d \in Clients : conn[d] = k /\ Own(d, k)
      BY <2>3
    <3>2. d # c /\ Own(d, k)'
      BY <2>3, <3>1 DEF Own, Current
    <3>. QED
      BY <1>1, <3>1, <3>2
  <2>. QED
    BY <2>1, <2>2, <2>3 DEF ExchangeInv, OwnUnderWay
<1>7. OthersKeep(c)
  <2>1. Pooled \subseteq Pooled'
    <3>1. ASSUME NEW k \in Lent, k # conn[c] PROVE k \in Lent'
      <4>1. PICK d \in Clients : conn[d] = k
        BY DEF Lent
      <4>2. conn'[d] = k /\ k # NoConn
        BY <1>1, <3>1, <4>1 DEF Lent
      <4>. QED
        BY <4>2 DEF Lent
    <3>. QED
      BY <1>2, <3>1 DEF Pooled
  <2>2. ASSUME NEW d \in Clients \ {c}, conn[d] # NoConn
        PROVE  (Fresh(d) => Fresh(d)') /\ (Coming(d) => Coming(d)')
    <3>1. conn'[d] = conn[d] /\ conn[d] \in Conns \ {conn[c]}
      BY <1>1, <2>2 DEF ExchangeInv, ExchangeTypeOK
    <3>. QED
      BY <3>1 DEF Fresh, Quiet, Coming, Readable
  <2>. QED
    BY <1>1, <2>1, <2>2 DEF OthersKeep
<1>. QED
  BY <1>1, <1>3, <1>5, <1>6, <1>7 DEF ExchangeInv

(* A client that gives the connection back before it has written. *)
LEMMA UnusedKeepsExchange ==
  ASSUME ExchangeInv, NEW c \in Clients, conn[c] # NoConn, Fresh(c), GiveBack(c),
         UNCHANGED <<count, open, asked, answers, torn>>
  PROVE  ExchangeInv' /\ OthersKeep(c) /\ conn'[c] = NoConn
<1>1. \/ conn[c] \in torn
      \/ asked'[conn[c]] = <<>> /\ answers'[conn[c]] = <<>>
  BY DEF Fresh, Quiet
<1>. QED
  BY <1>1, GiveBackKeepsExchange DEF ExchangeInv, ExchangeTypeOK, AskedIsOpen

LEMMA WriteFailsKeepsExchange ==
  ASSUME ExchangeInv, NEW c \in Clients, conn[c] # NoConn, Fresh(c), WriteFails(c)
  PROVE  ExchangeInv' /\ OthersKeep(c) /\ conn'[c] = NoConn
BY UnusedKeepsExchange DEF WriteFails

(* What the holder of a connection can find on it. *)
LEMMA HolderFacts ==
  ASSUME ExchangeInv, NEW c \in Clients, conn[c] # NoConn
  PROVE  conn[c] \in Conns
         /\ (conn[c] \in torn \/ Quiet(conn[c]) \/ Own(c, conn[c]))
BY DEF ExchangeInv, ExchangeTypeOK, Homes, OwnUnderWay

(* The one answer that is there is taken: the connection is quiet again.   *)
LEMMA ReadKeepsExchange ==
  ASSUME ExchangeInv, NEW c \in Clients, conn[c] # NoConn, Read(c)
  PROVE  /\ ExchangeInv' /\ OthersKeep(c) /\ conn'[c] = NoConn
         /\ Piece(c) \in Pieces
         /\ conn[c] \in torn \/ Piece(c).to = Current(c)
<1>1. /\ conn[c] \in Conns
      /\ conn[c] \in torn \/ Quiet(conn[c]) \/ Own(c, conn[c])
  BY HolderFacts
<1>2. /\ answers[conn[c]] \in Seq(Pieces) /\ answers[conn[c]] # <<>>
      /\ answers' = [answers EXCEPT ![conn[c]] = Tail(@)]
  BY <1>1 DEF ExchangeInv, ExchangeTypeOK, Read, Readable
<1>3. /\ answers' \in [Conns -> Seq(Pieces)] /\ Piece(c) \in Pieces
      /\ \A k \in Conns \ {conn[c]} : answers'[k] = answers[k]
  <2>1. Tail(answers[conn[c]]) \in Seq(Pieces) /\ Head(answers[conn[c]]) \in Pieces
    BY <1>2
  <2>. QED
    BY <1>1, <1>2, <2>1 DEF ExchangeInv, ExchangeTypeOK, Piece
<1>4. conn[c] \notin torn => /\ asked[conn[c]] = <<>>
                             /\ answers[conn[c]] = <<[to |-> Current(c), part |-> "whole"]>>
  BY <1>1, <1>2 DEF Quiet, Own
<1>5. ASSUME conn[c] \notin torn
      PROVE  /\ asked'[conn[c]] = <<>> /\ answers'[conn[c]] = <<>>
             /\ Piece(c).to = Current(c)
  <2> DEFINE only == [to |-> Current(c), part |-> "whole"]
  <2>1. answers[conn[c]] = <<only>>
    BY <1>4, <1>5
  <2>2. answers'[conn[c]] = Tail(answers[conn[c]])
    BY <1>1, <1>2 DEF ExchangeInv, ExchangeTypeOK
  <2>3. Piece(c).to = Current(c)
    BY <2>1 DEF Piece
  <2> HIDE DEF only
  <2>4. Tail(<<only>>) = <<>>
    OBVIOUS
  <2>. QED
    BY <1>4, <1>5, <2>1, <2>2, <2>3, <2>4 DEF Read
<1>6. AskedIsOpen' /\ asked' \in [Conns -> Seq(Requests)]
      /\ \A k \in Conns \ {conn[c]} : asked'[k] = asked[k]
  BY DEF ExchangeInv, ExchangeTypeOK, AskedIsOpen, Read
<1>7. GiveBack(c) /\ UNCHANGED <<count, open, torn>>
  BY DEF Read
<1>. QED
  BY <1>3, <1>5, <1>6, <1>7, GiveBackKeepsExchange

(* A read fails only when the peer has closed and left nothing. *)
LEMMA ReadFailsKeepsExchange ==
  ASSUME ExchangeInv, NEW c \in Clients, conn[c] # NoConn, ReadFails(c)
  PROVE  ExchangeInv' /\ OthersKeep(c) /\ conn'[c] = NoConn
<1>1. conn[c] \in Conns /\ Quiet(conn[c])
  BY HolderFacts DEF ExchangeInv, AskedIsOpen, ReadFails, Readable, Quiet
<1>. QED
  BY <1>1, UnusedKeepsExchange DEF ReadFails, Fresh

(* The first write on a quiet connection puts the client's own request on  *)
(* it, which the peer has to answer.                                       *)
LEMMA WriteKeepsExchange ==
  ASSUME ExchangeInv, NEW c \in Clients, conn[c] # NoConn, Fresh(c), Write(c)
  PROVE  ExchangeInv' /\ OthersKeep(c) /\ conn' = conn /\ Coming(c)'
<1>1. conn[c] \in Conns /\ Current(c) \in Requests
  BY HolderFacts DEF ExchangeInv, ExchangeTypeOK, Current, Requests
<1>2. UNCHANGED <<conn, idle, count, open, answers, torn>>
  BY DEF Write
<1>3. CASE conn[c] \notin open
  <2>1. asked' = asked
    BY <1>3 DEF Write
  <2>2. ExchangeInv'
    BY <1>2, <2>1 DEF ExchangeInv, ExchangeTypeOK, Homes, Lent, AskedIsOpen,
                      OwnUnderWay, Own, Current, Quiet
  <2>3. OthersKeep(c)
    BY <1>2, <2>1 DEF OthersKeep, Pooled, Lent, Fresh, Quiet, Coming, Readable
  <2>. QED
    BY <1>2, <1>3, <2>2, <2>3 DEF Coming
<1>4. CASE conn[c] \in open
  <2>1. asked' = [asked EXCEPT ![conn[c]] = Append(@, Current(c))]
    BY <1>4 DEF Write
  <2>2. /\ asked' \in [Conns -> Seq(Requests)]
        /\ \A k \in Conns \ {conn[c]} : asked'[k] = asked[k]
    BY <1>1, <2>1 DEF ExchangeInv, ExchangeTypeOK
  <2>3. ExchangeTypeOK'
    BY <1>2, <2>2 DEF ExchangeInv, ExchangeTypeOK
  <2>4. Homes' /\ AskedIsOpen'
    BY <1>2, <1>4, <2>2 DEF ExchangeInv, Homes, AskedIsOpen, Lent
  <2>5. OwnUnderWay'
    <3> SUFFICES ASSUME NEW k \in Conns \ torn
                 PROVE  Quiet(k)' \/ \E d \in Clients : conn[d] = k /\ Own(d, k)'
      BY <1>2 DEF OwnUnderWay
    <3>1. CASE k = conn[c]
      <4>1. asked[k] = <<>> /\ answers[k] = <<>>
        BY <3>1 DEF Fresh, Quiet
      <4>2. asked'[k] = <<Current(c)>> /\ answers'[k] = <<>>
        BY <1>1, <1>2, <2>1, <3>1, <4>1 DEF ExchangeInv, ExchangeTypeOK
      <4>. QED
        BY <1>2, <3>1, <4>2 DEF Own, Current
    <3>2. CASE k # conn[c] /\ Quiet(k)
      BY <1>2, <2>2, <3>2 DEF Quiet
    <3>3. CASE k # conn[c] /\ ~Quiet(k)
      <4>1. PICK d \in Clients : conn[d] = k /\ Own(d, k)
        BY <3>3 DEF ExchangeInv, OwnUnderWay
      <4>2. Own(d, k)'
        BY <1>2, <2>2, <3>3, <4>1 DEF Own, Current
      <4>. QED
        BY <4>1, <4>2
    <3>. QED
      BY <3>1, <3>2, <3>3
  <2>6. OthersKeep(c)
    <3>1. Pooled' = Pooled
      BY <1>2 DEF Pooled, Lent
    <3>2. ASSUME NEW d \in Clients \ {c}, conn[d] # NoConn
          PROVE  (Fresh(d) => Fresh(d)') /\ (Coming(d) => Coming(d)')
      <4>1. conn[d] \in Conns \ {conn[c]}
        BY <3>2 DEF ExchangeInv, ExchangeTypeOK, Homes
      <4>. QED
        BY <1>2, <2>2, <4>1 DEF Fresh, Quiet, Coming, Readable
    <3>. QED
      BY <1>2, <3>1, <3>2 DEF OthersKeep
  <2>7. asked'[conn[c]] # <<>>
    <3>1. asked'[conn[c]] = Append(asked[conn[c]], Current(c))
          /\ asked[conn[c]] \in Seq(Requests)
      BY <1>1, <2>1 DEF ExchangeInv, ExchangeTypeOK
    <3>. QED
      BY <1>1, <3>1
  <2>. QED
    BY <1>2, <2>3, <2>4, <2>5, <2>6, <2>7 DEF ExchangeInv, Coming
<1>. QED
  BY <1>3, <1>4

(* The peer answers what it was asked, or closes the connection. *)
LEMMA ReplyFacts ==
  ASSUME ExchangeInv, NEW k \in Conns, NEW pieces \in Seq(Pieces), Reply(k, pieces)
  PROVE  /\ asked'[k] = Tail(asked[k]) /\ answers'[k] = answers[k] \o pieces
         /\ asked' \in [Conns -> Seq(Requests)] /\ answers' \in [Conns -> Seq(Pieces)]
         /\ \A j \in Conns \ {k} : asked'[j] = asked[j] /\ answers'[j] = answers[j]
<1>1. asked[k] \in Seq(Requests) /\ asked[k] # <<>> /\ answers[k] \in Seq(Pieces)
  BY DEF ExchangeInv, ExchangeTypeOK, Reply
<1>2. Tail(asked[k]) \in Seq(Requests) /\ answers[k] \o pieces \in Seq(Pieces)
  BY <1>1
<1>. QED
  BY <1>2 DEF ExchangeInv, ExchangeTypeOK, Reply

(* Pieces are added to what is to be read. *)
LEMMA NonEmptyEnd ==
  ASSUME NEW s \in Seq(Pieces), NEW t \in Seq(Pieces), Len(t) # 0
  PROVE  s \o t # <<>>
<1>1. Len(s \o t) = Len(s) + Len(t) /\ Len(s) \in Nat /\ Len(t) \in Nat
  OBVIOUS
<1>2. Len(<<>>) = 0
  OBVIOUS
<1>. QED
  BY <1>1, <1>2

LEMMA PeerKeepsExchange ==
  ASSUME ExchangeInv, NEW k \in Conns, Peer(k)
  PROVE  /\ ExchangeInv' /\ UNCHANGED <<conn, idle, count>>
         /\ \A d \in Clients : conn[d] # NoConn =>
              (Fresh(d) => Fresh(d)') /\ (Coming(d) => Coming(d)')
<1>1. /\ UNCHANGED <<conn, idle, count>>
      /\ open' \in SUBSET open /\ torn \subseteq torn' /\ torn' \subseteq torn \cup {k}
      /\ asked' \in [Conns -> Seq(Requests)] /\ answers' \in [Conns -> Seq(Pieces)]
      /\ \A j \in Conns \ {k} : asked'[j] = asked[j] /\ answers'[j] = answers[j]
                                /\ (j \in open => j \in open')
      /\ k \in open' \/ asked'[k] = <<>>
      /\ k \in open' => answers'[k] # <<>>
      /\ k \in torn' \/ (Quiet(k) => Quiet(k)')
      /\ \A c \in Clients : k \in torn' \/ (Own(c, k) => Own(c, k)' \/ Quiet(k)')
  <2> DEFINE whole == <<[to |-> Head(asked[k]), part |-> "whole"]>>
             first == [to |-> Head(asked[k]), part |-> "first"]
             rest == [to |-> Head(asked[k]), part |-> "rest"]
  <2>0. asked[k] \in Seq(Requests) /\ answers[k] \in Seq(Pieces) /\ k \in Conns
        /\ (asked[k] # <<>> => k \in open)
    BY DEF ExchangeInv, ExchangeTypeOK, AskedIsOpen
  <2>1. ASSUME asked[k] # <<>>
        PROVE  Head(asked[k]) \in Requests /\ whole \in Seq(Pieces)
               /\ <<first, rest>> \in Seq(Pieces)
    <3>1. Head(asked[k]) \in Requests
      BY <2>0, <2>1
    <3>2. whole[1] \in Pieces /\ first \in Pieces /\ rest \in Pieces
      BY <3>1 DEF Pieces
    <3>. QED
      BY <3>1, <3>2
  <2>2. CASE ReplyWhole(k)
    <3>1. asked[k] # <<>> /\ Reply(k, whole) /\ UNCHANGED <<conn, idle, count, open, torn>>
      BY <2>2 DEF ReplyWhole, Reply
    <3> HIDE DEF whole
    <3>2. /\ asked'[k] = Tail(asked[k]) /\ answers'[k] = answers[k] \o whole
          /\ asked' \in [Conns -> Seq(Requests)] /\ answers' \in [Conns -> Seq(Pieces)]
          /\ \A j \in Conns \ {k} : asked'[j] = asked[j] /\ answers'[j] = answers[j]
      BY <2>1, <3>1, ReplyFacts
    <3>3. ~Quiet(k)
      BY <3>1 DEF Quiet
    <3>4. ASSUME NEW c \in Clients, Own(c, k) PROVE Own(c, k)'
      <4>1. asked[k] = <<Current(c)>> /\ answers[k] = <<>>
        BY <3>1, <3>4 DEF Own
      <4>2. asked'[k] = <<>> /\ answers'[k] = whole
        BY <2>1, <3>1, <3>2, <4>1
      <4>3. whole = <<[to |-> Current(c), part |-> "whole"]>>
        BY <4>1 DEF whole
      <4>. QED
        BY <3>1, <4>2, <4>3 DEF Own, Current
    <3>5. answers'[k] # <<>>
      <4>1. Len(whole) = 1
        BY DEF whole
      <4>. QED
        BY <2>0, <2>1, <3>2, <4>1, NonEmptyEnd
    <3>. QED
      BY <2>0, <3>1, <3>2, <3>3, <3>4, <3>5 DEF ExchangeInv, ExchangeTypeOK
  <2>3. CASE ReplyInPieces(k)
    <3>1. /\ asked[k] # <<>> /\ Reply(k, <<first, rest>>) /\ torn' = torn \cup {k}
          /\ UNCHANGED <<conn, idle, count, open>>
      BY <2>3 DEF ReplyInPieces, Reply
    <3> HIDE DEF first, rest
    <3>2. /\ answers'[k] = answers[k] \o <<first, rest>>
          /\ asked' \in [Conns -> Seq(Requests)] /\ answers' \in [Conns -> Seq(Pieces)]
          /\ \A j \in Conns \ {k} : asked'[j] = asked[j] /\ answers'[j] = answers[j]
      BY <2>1, <3>1, ReplyFacts
    <3>3. answers'[k] # <<>>
      <4>1. Len(<<first, rest>>) = 2
        OBVIOUS
      <4>. QED
        BY <2>0, <2>1, <3>1, <3>2, <4>1, NonEmptyEnd
    <3>. QED
      BY <2>0, <3>1, <3>2, <3>3 DEF ExchangeInv, ExchangeTypeOK
  <2>4. CASE Close(k)
    <3>1. PICK kept \in {answers[k], <<>>} : answers' = [answers EXCEPT ![k] = kept]
      BY <2>4 DEF Close
    <3>2. /\ open' = open \ {k} /\ asked' = [asked EXCEPT ![k] = <<>>]
          /\ UNCHANGED <<conn, idle, count, torn>>
      BY <2>4 DEF Close
    <3>3. kept \in Seq(Pieces)
      <4>1. <<>> \in Seq(Pieces)
        OBVIOUS
      <4>. QED
        BY <2>0, <4>1
    <3>4. asked'[k] = <<>> /\ answers'[k] = kept
      BY <3>1, <3>2 DEF ExchangeInv, ExchangeTypeOK
    <3>. QED
      BY <3>1, <3>2, <3>3, <3>4 DEF ExchangeInv, ExchangeTypeOK, Quiet, Own, Current
  <2>. QED
    BY <2>2, <2>3, <2>4 DEF Peer
<1>2. ExchangeTypeOK'
  BY <1>1 DEF ExchangeInv, ExchangeTypeOK
<1>3. Homes' /\ AskedIsOpen'
  BY <1>1 DEF ExchangeInv, Homes, Lent, AskedIsOpen
<1>4. OwnUnderWay'
  <2> SUFFICES ASSUME NEW j \in Conns, j \notin torn'
               PROVE  Quiet(j)' \/ \E c \in Clients : conn[c] = j /\ Own(c, j)'
    BY <1>1 DEF OwnUnderWay
  <2>1. Quiet(j) \/ \E c \in Clients : conn[c] = j /\ Own(c, j)
    BY <1>1 DEF ExchangeInv, OwnUnderWay
  <2>2. CASE j = k
    BY <1>1, <2>1, <2>2
  <2>3. CASE j # k
    BY <1>1, <2>1, <2>3 DEF Quiet, Own, Current
  <2>. QED
    BY <2>2, <2>3
<1>5. ASSUME NEW d \in Clients, conn[d] # NoConn
      PROVE  (Fresh(d) => Fresh(d)') /\ (Coming(d) => Coming(d)')
  <2>1. conn[d] \in Conns /\ conn'[d] = conn[d]
    BY <1>1, <1>5 DEF ExchangeInv, ExchangeTypeOK
  <2>2. Fresh(d) => Fresh(d)'
    BY <1>1, <2>1 DEF Fresh, Quiet
  <2>3. Coming(d) => Coming(d)'
    BY <1>1, <2>1 DEF Coming, Readable
  <2>. QED
    BY <2>2, <2>3
<1>. QED
  BY <1>1, <1>2, <1>3, <1>4, <1>5 DEF ExchangeInv

-----------------------------------------------------------------------------
(* Of one lent connection at most, the next to be lent stays the same.     *)
StaysOnOne == \A k \in Conns :
  OneAtATime /\ OneAtATime' /\ NextLent(k) => NextLent(k)'

LEMMA OneIsTheOnlyOne ==
  ASSUME ExchangeInv, OneAtATime, NEW j \in Lent, NEW k \in Lent
  PROVE  j = k
<1> SUFFICES ASSUME j # k PROVE FALSE
  OBVIOUS
<1>1. IsFiniteSet(Lent)
  BY DEF ExchangeInv, Homes
<1>2. IsFiniteSet({j}) /\ Cardinality({j}) = 1
  BY FS_Singleton
<1>3. IsFiniteSet({j} \cup {k}) /\ Cardinality({j} \cup {k}) = 2
  <2>1. k \notin {j}
    OBVIOUS
  <2>2. /\ IsFiniteSet({j} \cup {k})
        /\ Cardinality({j} \cup {k}) = IF k \in {j} THEN Cardinality({j})
                                       ELSE Cardinality({j}) + 1
    BY <1>2, FS_AddElement, Zenon
  <2>. QED
    BY <1>2, <2>1, <2>2
<1>4. Cardinality({j} \cup {k}) <= Cardinality(Lent)
  <2>1. {j} \cup {k} \subseteq Lent
    OBVIOUS
  <2>. QED
    BY <1>1, <2>1, FS_Subset
<1>5. Cardinality(Lent) \in Nat
  BY <1>1, FS_CardinalityType
<1>. QED
  BY <1>3, <1>4, <1>5 DEF OneAtATime

LEMMA LendingStaysOnOne ==
  ASSUME ExchangeInv, NEW c \in Clients, conn[c] = NoConn,
         Borrow(c) \/ \E k \in Conns : BorrowNew(c, k)
  PROVE  StaysOnOne
<1>1. ASSUME NEW k \in Conns, conn' = [conn EXCEPT ![c] = k] PROVE Lent' = Lent \cup {k}
  BY <1>1, ExchangeAssumption DEF Lent, ExchangeInv, ExchangeTypeOK, ExchangeAssumption
<1>2. CASE Borrow(c)
  <2>1. Head(idle) \in Conns /\ conn' = [conn EXCEPT ![c] = Head(idle)]
    BY <1>2 DEF Borrow, ExchangeInv, ExchangeTypeOK
  <2>2. Lent' = Lent \cup {Head(idle)}
    BY <1>1, <2>1
  <2>. QED
    BY <2>2 DEF StaysOnOne, NextLent
<1>3. CASE \E k \in Conns : BorrowNew(c, k)
  <2>1. PICK k \in Conns : BorrowNew(c, k)
    BY <1>3
  <2>2. Lent' = Lent \cup {k} /\ idle = <<>>
    BY <1>1, <2>1 DEF BorrowNew
  <2>. QED
    BY <2>2 DEF StaysOnOne, NextLent
<1>. QED
  BY <1>2, <1>3

LEMMA GiveBackStaysOnOne ==
  ASSUME ExchangeInv, NEW c \in Clients, conn[c] # NoConn, GiveBack(c)
  PROVE  StaysOnOne
<1> SUFFICES ASSUME NEW k \in Conns, OneAtATime, NextLent(k) PROVE NextLent(k)'
  BY DEF StaysOnOne
<1>1. conn[c] \in Lent /\ k = conn[c]
  <2>1. conn[c] \in Lent
    BY DEF Lent
  <2>. QED
    BY <2>1, OneIsTheOnlyOne DEF NextLent
<1>2. Lent' = {}
  <2>1. \A d \in Clients \ {c} : conn[d] = NoConn
    BY <1>1, OneIsTheOnlyOne DEF Lent, ExchangeInv, Homes
  <2>. QED
    BY <2>1 DEF Lent, GiveBack, ExchangeInv, ExchangeTypeOK
<1>3. idle' # <<>> /\ Head(idle') = conn[c]
  BY <1>1 DEF GiveBack, ExchangeInv, ExchangeTypeOK
<1>. QED
  BY <1>1, <1>2, <1>3 DEF NextLent
=============================================================================
