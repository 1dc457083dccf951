------------------------------ MODULE SessionNet ------------------------------
(***************************************************************************)
(* What the two ends of a session share: the messages of the control       *)
(* protocol and the connections that carry them.                           *)
(*                                                                         *)
(* A connection is the whole path of one WebSocket of the page: browser,   *)
(* middleware (frontend/server/client_manager.ts, backend_manager.ts),     *)
(* TCP, backend Channel.  The middleware adds the Hello and forwards the   *)
(* rest blindly, so the path is one FIFO per direction.  A connection that *)
(* breaks may still deliver a prefix of what is in flight: nobody is told  *)
(* where the cut is.                                                       *)
(***************************************************************************)
EXTENDS Naturals, Sequences

CONSTANTS MaxConns,     \* connections ever opened
          MaxBreaks     \* connections the network breaks

ASSUME NetAssumption == MaxConns \in Nat /\ MaxBreaks \in Nat

Conn == 1 .. MaxConns
NoConn == 0

FirstRequestId == 1000
FirstResponseId == 0

-------------------------------------------------------------------------------
(* Messages.  A session guid is named by the connection whose CreateSession  *)
(* made it: a connection makes at most one session and ids are never reused. *)
Guid == Conn
NoGuid == 0

Hello == [type |-> "Hello"]
CreateSession == [type |-> "CreateSession"]
AttachToSession(guid, next) ==
    [type |-> "AttachToSession", guid |-> guid, next |-> next]
PackagedRequest(id, next, body) ==
    [type |-> "PackagedRequest", id |-> id, next |-> next, body |-> body]

Requests == [type : {"PackagedRequest"}, id : Nat, next : Nat, body : Nat]

CRequests ==
    {Hello, CreateSession}
      \cup [type : {"AttachToSession"}, guid : Guid, next : Nat]
      \cup Requests

SessionSuccess(guid, next) ==
    [type |-> "SessionSuccess", guid |-> guid, next |-> next]
SessionFailure == [type |-> "SessionFailure"]
PackagedResponse(id, next, body) ==
    [type |-> "PackagedResponse", id |-> id, next |-> next, body |-> body]

Responses == [type : {"PackagedResponse"}, id : Nat, next : Nat, body : Nat]

CResponses ==
    {SessionFailure}
      \cup [type : {"SessionSuccess"}, guid : Guid, next : Nat]
      \cup Responses

\* Both ends keep what is unacknowledged in a queue and pop its front while the
\* front's serial number is below what the peer expects next.
PopAcked(queue, next) ==
    LET first == CHOOSE i \in 1 .. (Len(queue) + 1) :
                    /\ \A j \in 1 .. (i - 1) : queue[j].id < next
                    /\ i <= Len(queue) => queue[i].id >= next
    IN  SubSeq(queue, first, Len(queue))

-------------------------------------------------------------------------------
VARIABLES readyState,   \* of each connection, as the page's WebSocket sees it
          broken,       \* connections no longer guaranteed to deliver
          up,           \* in flight from the page to the backend
          down,         \* in flight from the backend to the page
          breaks        \* connections the network has broken so far

netVars == <<readyState, broken, up, down, breaks>>

NetTypeOK ==
    /\ readyState \in [Conn -> {"none", "connecting", "open", "closed"}]
    /\ broken \in SUBSET Conn
    /\ up \in [Conn -> Seq(CRequests)]
    /\ down \in [Conn -> Seq(CResponses)]
    /\ breaks \in Nat

NetInit ==
    /\ readyState = [c \in Conn |-> "none"]
    /\ broken = {}
    /\ up = [c \in Conn |-> << >>]
    /\ down = [c \in Conn |-> << >>]
    /\ breaks = 0

Opened == {c \in Conn : readyState[c] # "none"}

\* The network, the middleware or the browser's host drops connection c.
Break(c) ==
    /\ breaks < MaxBreaks
    /\ readyState[c] \in {"connecting", "open"}
    /\ c \notin broken
    /\ broken' = broken \cup {c}
    /\ breaks' = breaks + 1
    /\ UNCHANGED <<readyState, up, down>>

\* Queues after the backend hands msgs to the Channel of connection c: a
\* Channel accepts them in every state, and a closed page never reads them.
SentDown(c, msgs) ==
    IF readyState[c] = "open" THEN [down EXCEPT ![c] = @ \o msgs] ELSE down
===============================================================================
