---------------------------- MODULE FrameService ----------------------------
(***************************************************************************)
(* What a provider agent promises a consumer agent on each connection,     *)
(* without pools and dubbo servers: frames are answered one at a time and  *)
(* in order, each with the answer to itself, until the connection is       *)
(* closed.  It is what Exchange assumes of the peer of a consumer agent.   *)
(***************************************************************************)
EXTENDS Naturals

CONSTANTS Clients, MaxRequests

VARIABLES
  phase,     \* of each connection: "idle", "busy", "answered", "closed"
  count,     \* how many frames each has had
  answer     \* whose answer was decided on last

frames == <<phase, count, answer>>

Init ==
  /\ phase = [c \in Clients |-> "idle"]
  /\ count = [c \in Clients |-> 0]
  /\ answer = [c \in Clients |-> <<>>]

Move(c, from, to) == phase[c] = from /\ phase' = [phase EXCEPT ![c] = to]

Ask(c) ==
  /\ Move(c, "idle", "busy")
  /\ count[c] < MaxRequests
  /\ count' = [count EXCEPT ![c] = @ + 1]
  /\ UNCHANGED answer

(* The answer is to the frame that is being worked on, and to no other. *)
Decide(c) ==
  /\ Move(c, "busy", "answered")
  /\ answer' = [answer EXCEPT ![c] = <<c, count[c]>>]
  /\ UNCHANGED count

Deliver(c) == Move(c, "answered", "idle") /\ UNCHANGED <<count, answer>>

(* A session ends, or the process and so all of them; an idle one may be   *)
(* ended by what it reads.  No answer comes on a closed connection.        *)
Close(S) ==
  /\ phase' = [c \in Clients |-> IF c \in S THEN "closed" ELSE phase[c]]
  /\ count' \in [Clients -> 0..MaxRequests]
  /\ \A c \in Clients :
       count'[c] = count[c] \/ (phase[c] = "idle" /\ c \in S /\ count'[c] = count[c] + 1)
  /\ UNCHANGED answer

Next ==
  \/ \E c \in Clients : Ask(c) \/ Decide(c) \/ Deliver(c)
  \/ \E S \in (SUBSET Clients) \ {{}} : Close(S)

Spec == Init /\ [][Next]_frames
=============================================================================
