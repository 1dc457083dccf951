----------------------------- MODULE SessionClient -----------------------------
(***************************************************************************)
(* The page's SessionManager (frontend/client/session_manager.ts): it      *)
(* opens WebSockets, creates or re-attaches a session, numbers requests,   *)
(* keeps the unacknowledged ones, and filters responses by serial number.  *)
(*                                                                         *)
(* The handlers of every WebSocket the page ever opened stay installed and *)
(* act on the one SessionManager, whichever socket `ws` is by then.  The   *)
(* state SessionFailure reloads the page, which is a new SessionManager,   *)
(* in the step that enters it.  Whenever closeHelper leaves the state      *)
(* Disconnected it has set a timer that calls connect(), and connect()     *)
(* does nothing in any other state: a pending timer is the state itself.   *)
(***************************************************************************)
EXTENDS SessionNet

CONSTANTS MaxRequests,  \* requests the pages submit in all
          MaxClicks     \* uses of the page's "reconnect" link

ASSUME ClientAssumption == MaxRequests \in Nat /\ MaxClicks \in Nat

VARIABLES state, ws, assignedSessionId, nextRequestId, nextExpectedResponseId,
          unacknowledged,
          submitted,    \* history: bodies this page submitted, in order
          delivered,    \* history: bodies of the responses this page accepted
          bodies,       \* bodies made so far, over all pages
          clicks,
          clickedEarly  \* history: the link was used before there was a session

pageVars == <<state, ws, assignedSessionId, nextRequestId,
              nextExpectedResponseId, unacknowledged, submitted, delivered>>
clientVars == <<pageVars, bodies, clicks, clickedEarly>>

ClientTypeOK ==
    /\ state \in {"Disconnected", "AwaitingConnect", "Connected", "AttachedToSession"}
    /\ ws \in Conn \cup {NoConn}
    /\ assignedSessionId \in Guid \cup {NoGuid}
    /\ nextRequestId \in Nat
    /\ nextExpectedResponseId \in Nat
    /\ unacknowledged \in Seq(Requests)
    /\ submitted \in Seq(Nat)
    /\ delivered \in Seq(Nat)
    /\ bodies \in Nat
    /\ clicks \in Nat
    /\ clickedEarly \in BOOLEAN

ClientInit ==
    /\ state = "Disconnected"
    /\ ws = NoConn
    /\ assignedSessionId = NoGuid
    /\ nextRequestId = FirstRequestId
    /\ nextExpectedResponseId = FirstResponseId
    /\ unacknowledged = << >>
    /\ submitted = << >>
    /\ delivered = << >>
    /\ bodies = 0
    /\ clicks = 0
    /\ clickedEarly = FALSE

-------------------------------------------------------------------------------
(* Queues after this.ws!.send of msgs.  An undefined or a connecting socket    *)
(* throws, which ends the handler after its assignments; a closed one drops.   *)
SentUp(msgs) ==
    IF ws \in Conn /\ readyState[ws] = "open"
      THEN [up EXCEPT ![ws] = @ \o msgs]
      ELSE up

\* new WebSocket(...), with c the next connection never used before
OpenSocket(c) ==
    /\ \A d \in Conn : readyState[d] = "none" <=> d >= c
    /\ readyState' = [readyState EXCEPT ![c] = "connecting"]
    /\ ws' = c
    /\ state' = "AwaitingConnect"
    /\ UNCHANGED <<broken, up, down, breaks, assignedSessionId, nextRequestId,
                   nextExpectedResponseId, unacknowledged, submitted, delivered,
                   bodies>>

\* Slip: connect() without its check of the state
ConnectInAnyState(c) == OpenSocket(c) /\ UNCHANGED <<clicks, clickedEarly>>

\* connect(), from start() or from the timer
Connect(c) ==
    /\ state = "Disconnected"
    /\ OpenSocket(c)
    /\ UNCHANGED <<clicks, clickedEarly>>

\* reconnect(): disconnect() forgets the old socket without closing it
Reconnect(c) ==
    /\ clicks < MaxClicks
    /\ OpenSocket(c)
    /\ clicks' = clicks + 1
    /\ clickedEarly' = IF assignedSessionId = NoGuid THEN TRUE ELSE clickedEarly

\* onopen of c.  The middleware puts the Hello in front of everything else;
\* handleOpen writes to this.ws, which need not be c.
HandleOpen(c) ==
    LET opening == IF assignedSessionId = NoGuid
                     THEN CreateSession
                     ELSE AttachToSession(assignedSessionId, nextExpectedResponseId)
        hello == [up EXCEPT ![c] = <<Hello>>]
    IN  /\ readyState[c] = "connecting"
        /\ c \notin broken
        /\ readyState' = [readyState EXCEPT ![c] = "open"]
        /\ IF ws \in Conn /\ readyState'[ws] = "open"
             THEN /\ up' = [hello EXCEPT ![ws] = Append(@, opening)]
                  /\ state' = "Connected"
             ELSE up' = hello /\ state' = state
        /\ UNCHANGED <<broken, down, breaks, ws, assignedSessionId, nextRequestId,
                       nextExpectedResponseId, unacknowledged, submitted,
                       delivered, bodies, clicks, clickedEarly>>

\* Slip: closeHelper() sets no timer, so that nothing ever connects.
DisconnectForGood == state' = "AwaitingConnect" /\ ws' = NoConn

Disconnect == state' = "Disconnected" /\ ws' = NoConn

\* onclose or onerror of c: closeHelper() disconnects, whichever socket is current
HandleClose(c) ==
    /\ readyState[c] \in {"connecting", "open"}
    /\ c \in broken
    /\ readyState' = [readyState EXCEPT ![c] = "closed"]
    /\ down' = [down EXCEPT ![c] = << >>]
    /\ Disconnect
    /\ UNCHANGED <<broken, up, breaks, assignedSessionId, nextRequestId,
                   nextExpectedResponseId, unacknowledged, submitted, delivered,
                   bodies, clicks, clickedEarly>>

-------------------------------------------------------------------------------
Arrives(c, type) ==
    /\ readyState[c] = "open"
    /\ down[c] # << >>
    /\ Head(down[c]).type = type

\* Slip: a page that attached sends nothing again.
NoCatchUp == up

CatchUp == SentUp(unacknowledged')

VisitSessionSuccess(c) ==
    /\ Arrives(c, "SessionSuccess")
    /\ assignedSessionId' = Head(down[c]).guid
    /\ unacknowledged' = PopAcked(unacknowledged, Head(down[c]).next)
    /\ state' = "AttachedToSession"
    /\ up' = CatchUp
    /\ down' = [down EXCEPT ![c] = Tail(@)]
    /\ UNCHANGED <<readyState, broken, breaks, ws, nextRequestId,
                   nextExpectedResponseId, submitted, delivered, bodies,
                   clicks, clickedEarly>>

\* SessionFailure: handleStateChange reloads the page.
VisitSessionFailure(c) ==
    /\ Arrives(c, "SessionFailure")
    /\ Disconnect
    /\ assignedSessionId' = NoGuid
    /\ nextRequestId' = FirstRequestId
    /\ nextExpectedResponseId' = FirstResponseId
    /\ unacknowledged' = << >>
    /\ submitted' = << >>
    /\ delivered' = << >>
    /\ readyState' = [d \in Conn |-> IF d \in Opened THEN "closed" ELSE "none"]
    /\ broken' = Opened
    /\ down' = [d \in Conn |-> << >>]
    /\ UNCHANGED <<up, breaks, bodies, clicks, clickedEarly>>

\* Slip: visitPackagedResponse ignores the old responses only.
IsNotOld(presp) == presp.id >= nextExpectedResponseId

IsExpected(presp) == presp.id = nextExpectedResponseId

VisitPackagedResponse(c) ==
    LET presp == Head(down[c])
    IN  /\ Arrives(c, "PackagedResponse")
        /\ down' = [down EXCEPT ![c] = Tail(@)]
        /\ IF IsExpected(presp)
             THEN /\ nextExpectedResponseId' = nextExpectedResponseId + 1
                  /\ unacknowledged' = PopAcked(unacknowledged, presp.next)
                  /\ delivered' = Append(delivered, presp.body)
             ELSE UNCHANGED <<nextExpectedResponseId, unacknowledged, delivered>>
        /\ UNCHANGED <<readyState, broken, up, breaks, state, ws, assignedSessionId,
                       nextRequestId, submitted, bodies, clicks, clickedEarly>>

Receive(c) ==
    \/ VisitSessionSuccess(c)
    \/ VisitSessionFailure(c)
    \/ VisitPackagedResponse(c)

SendDRequest ==
    LET body == bodies + 1
        pr == PackagedRequest(nextRequestId, nextExpectedResponseId, body)
    IN  /\ bodies < MaxRequests
        /\ nextRequestId' = nextRequestId + 1
        /\ unacknowledged' = Append(unacknowledged, pr)
        /\ up' = IF state = "AttachedToSession" THEN SentUp(<<pr>>) ELSE up
        /\ submitted' = Append(submitted, body)
        /\ bodies' = body
        /\ UNCHANGED <<readyState, broken, down, breaks, state, ws,
                       assignedSessionId, nextExpectedResponseId, delivered,
                       clicks, clickedEarly>>

ClientNext ==
    \/ \E c \in Conn : \/ Connect(c)
                       \/ Reconnect(c)
                       \/ HandleOpen(c)
                       \/ HandleClose(c)
                       \/ Receive(c)
    \/ SendDRequest
===============================================================================
