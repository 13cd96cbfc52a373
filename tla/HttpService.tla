---------------------------- MODULE HttpService ----------------------------
(***************************************************************************)
(* What the consumer agent promises an HTTP client, without pools and      *)
(* provider agents: every request has one response, the answer to that     *)
(* request or an error, and after an error the connection is closed.       *)
(***************************************************************************)
EXTENDS Naturals

CONSTANTS Clients, MaxRequests

VARIABLES
  phase,     \* of each HTTP connection: "none", "idle", "pending", "answered"
  count,     \* how many requests each has had
  response   \* the last response decided on

serviceVars == <<phase, count, response>>

Move(c, from, to) == phase[c] = from /\ phase' = [phase EXCEPT ![c] = to]

Decide(c, r) ==
  /\ response' = [response EXCEPT ![c] = r]
  /\ \/ phase[c] = "pending" /\ UNCHANGED count
     \/ /\ phase[c] = "idle" /\ count[c] < MaxRequests
        /\ r.status = 400
        /\ count' = [count EXCEPT ![c] = @ + 1]
  /\ phase' = [phase EXCEPT ![c] = "answered"]

Init ==
  /\ phase = [c \in Clients |-> "none"]
  /\ count = [c \in Clients |-> 0]
  /\ response = [c \in Clients |-> [status |-> 400, to |-> <<>>]]

Connect(c) == Move(c, "none", "idle") /\ UNCHANGED <<count, response>>

Disconnect(c) == Move(c, "idle", "none") /\ UNCHANGED <<count, response>>

Ask(c) ==
  /\ Move(c, "idle", "pending")
  /\ count[c] < MaxRequests
  /\ count' = [count EXCEPT ![c] = @ + 1]
  /\ UNCHANGED response

(* The answer is to the request that is pending, and to no other. *)
Answer(c) == Decide(c, [status |-> 200, to |-> <<c, count[c]>>])

Fail(c) == \E status \in {400, 500} : Decide(c, [status |-> status, to |-> <<>>])

(* The connection lives on only after an answer. *)
Deliver(c) ==
  /\ \/ Move(c, "answered", "none")
     \/ Move(c, "answered", "idle") /\ response[c].status = 200
  /\ UNCHANGED <<count, response>>

Next == \E c \in Clients :
  Connect(c) \/ Disconnect(c) \/ Ask(c) \/ Answer(c) \/ Fail(c) \/ Deliver(c)

Spec == Init /\ [][Next]_serviceVars
=============================================================================
