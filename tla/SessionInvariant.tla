---------------------------- MODULE SessionInvariant ----------------------------
(***************************************************************************)
(* Why the page sees the responses of its session, and the Server executes *)
(* the requests of its page, once and in order: inductive invariants of    *)
(* SessionProtocol.  A live connection has one home, the session all its   *)
(* messages are of; every response there is, in a queue, a thread or a     *)
(* connection, is the one its session numbered so; every request on its    *)
(* way to the page's session is the one the page numbered so, and none is  *)
(* on its way to a session its page has not heard of.                      *)
(* The one about responses holds until a page without a session uses the   *)
(* reconnect link (clickedEarly), which gives it two sessions; the one     *)
(* about requests holds whatever the user does.                            *)
(***************************************************************************)
EXTENDS SessionProtocol

Live(c) == readyState[c] \in {"connecting", "open"}
Unused(c) == readyState[c] \in {"none", "connecting"}

\* Connection c has made no session yet.
PreSession(c) ==
    Unused(c) \/ c \in pendingProfiles \/ (\E m \in ToSet(up[c]) : m.type = "Hello")

\* The session whose messages a live connection carries
Home(c) == IF assignedSessionId = NoGuid THEN c ELSE assignedSessionId

\* m is what session g numbered m.id.
Numbered(g, m) == m.id < Len(produced[g]) /\ m.body = produced[g][m.id + 1]

\* The map or a thread has, or may yet take, connection c for session g.
MapHolds(c, g) == g \in guidToSession /\ channel[g] = c
ServerHolds(c, g) ==
    server.pc \in {"record", "send"} /\ server.chan = c /\ server.guid = g
ProcessorHolds(c, g) == processor # Idle /\ processor.chan = c /\ processor.guid = g
Serves(c, g) == MapHolds(c, g) \/ ServerHolds(c, g) \/ ProcessorHolds(c, g)

-------------------------------------------------------------------------------
\* A connection that is not open yet has carried nothing.
UnusedSilent ==
    \A c \in Conn : Unused(c) =>
        up[c] = << >> /\ down[c] = << >> /\ c \notin pendingProfiles

\* The middleware's Hello comes first.
HelloFirst == \A c \in Conn : \A i \in 2 .. Len(up[c]) : up[c][i].type # "Hello"

\* A connection without a session is nobody's, and can only be refused one.
PreSessionBlank ==
    \A c \in Conn : PreSession(c) =>
        /\ c \notin guidToSession
        /\ produced[c] = << >>
        /\ assignedSessionId # c
        /\ \A g \in Guid : ~Serves(c, g)
        /\ \A m \in ToSet(down[c]) : m.type = "SessionFailure"

\* A page without a session has one connection at most, has seen no response,
\* and hears of its session first.
Fresh ==
    assignedSessionId = NoGuid =>
        /\ delivered = << >>
        /\ \A c \in Conn : Live(c) =>
             /\ state # "Disconnected"
             /\ ws = c
             /\ down[c] = << >> => \A g \in Guid : ~Serves(c, g)
             /\ down[c] # << >> => Head(down[c]).type = "SessionSuccess"

\* m is a message the page asks for its session with, on connection c.
Asks(c, m) ==
    /\ m.type = "AttachToSession" => assignedSessionId # NoGuid /\ m.guid = assignedSessionId
    /\ m.type = "CreateSession" /\ PreSession(c) => assignedSessionId = NoGuid

\* m is a message the backend answers with, on connection c.
Answers(c, m) ==
    /\ m.type = "SessionSuccess" => m.guid = Home(c)
    /\ m.type = "PackagedResponse" => Numbered(Home(c), m)

AtHome ==
    \A c \in Conn : Live(c) =>
        /\ \A m \in ToSet(up[c]) : Asks(c, m)
        /\ \A m \in ToSet(down[c]) : Answers(c, m)
        /\ \A g \in Guid : Serves(c, g) => g = Home(c)

\* The Robustifier numbers without gaps and keeps what it numbered.
Counted ==
    /\ \A g \in guidToSession :
         /\ rb[g].nextOutgoingId = Len(produced[g])
         /\ \A m \in ToSet(rb[g].unacknowledged) : Numbered(g, m)
    /\ processor # Idle => processor.guid \in guidToSession
    /\ processor.pc = "catchup" =>
         \A m \in ToSet(processor.left) : Numbered(processor.guid, m)
    /\ server.pc = "record" =>
         server.resp.id = Len(produced[server.guid]) /\ server.resp.body = server.body
    /\ server.pc = "send" => Numbered(server.guid, server.resp)

\* The page counts what it accepted, a front of what its session produced.
Delivered ==
    /\ nextExpectedResponseId = Len(delivered)
    /\ assignedSessionId # NoGuid =>
         /\ Len(delivered) <= Len(produced[assignedSessionId])
         /\ \A i \in 1 .. Len(delivered) : delivered[i] = produced[assignedSessionId][i]

\* All of it: what an induction over the steps of both ends, the network and the
\* user needs to know in order that responses are delivered in order, once.
DeliveryOK ==
    /\ UnusedSilent
    /\ HelloFirst
    /\ PreSessionBlank
    /\ Fresh
    /\ AtHome
    /\ Counted
    /\ Delivered

(* Every response there is, in a queue, a thread or a connection, is the one   *)
(* its session numbered so, and each live connection carries the messages of   *)
(* one session (Robustifier::trySend numbers, tryCatchup re-sends,             *)
(* visitPackagedResponse filters).                                             *)
DeliveryInvariant == ~clickedEarly => DeliveryOK

-------------------------------------------------------------------------------
(* And why the Server executes the page's requests once and in order.        *)

\* Connection c carries session g, or asks for it.
Belongs(c, g) ==
    \/ channelToSession[c] = g
    \/ \E m \in ToSet(up[c]) : m.type = "AttachToSession" /\ m.guid = g

\* Connection c is, or will be, one of session g.
Related(c, g) ==
    \/ Belongs(c, g)
    \/ Serves(c, g)
    \/ \E m \in ToSet(down[c]) : m.type = "SessionSuccess" /\ m.guid = g

\* m is what the page numbered m.id.
Genuine(m) ==
    LET k == m.id - FirstRequestId + 1
    IN  k \in 1 .. Len(submitted) /\ m.body = submitted[k]

Untouched(g) ==
    /\ executed[g] = << >>
    /\ produced[g] = << >>
    /\ g \in guidToSession => rb[g].nextExpectedIncomingId = FirstRequestId
    /\ \A i \in 1 .. Len(todo) : todo[i].guid # g
    /\ server # Idle => server.guid # g

\* The page numbers without gaps, keeps what it numbered, and sends when attached.
Written ==
    /\ nextRequestId = FirstRequestId + Len(submitted)
    /\ \A k, l \in 1 .. Len(submitted) : k < l => submitted[k] < submitted[l]
    /\ \A k \in 1 .. Len(submitted) : submitted[k] <= bodies
    /\ \A m \in ToSet(unacknowledged) : Genuine(m)
    /\ state = "AttachedToSession" => assignedSessionId # NoGuid

\* old: the connections the page had opened before it was loaded last.  They are
\* closed, and whatever they are of is not the page's any more.
Apart(old) ==
    /\ \A c \in old : readyState[c] = "closed"
    /\ assignedSessionId # NoGuid =>
         assignedSessionId \notin old /\ ~PreSession(assignedSessionId)
    /\ \A c \in Conn, g \in Guid : Related(c, g) =>
         ~Unused(c) /\ ~PreSession(g) /\ (c \in old <=> g \in old)

InFlight(old) ==
    \A c \in Conn \ old :
        \A m \in ToSet(up[c]) : m.type = "PackagedRequest" => Genuine(m)

\* A session that is not made yet, or that its page has not heard of, has seen nothing.
Unasked(old) ==
    /\ \A c \in Conn : PreSession(c) => Untouched(c)
    /\ assignedSessionId = NoGuid =>
         \A c \in Conn \ old :
            /\ Untouched(c)
            /\ \A m \in ToSet(up[c]) : m.type # "PackagedRequest"

\* What session g accepted, and waits for the Server, is what was submitted
\* after what the Server executed.
Waiting(g) ==
    LET done == Len(executed[g])
        next == rb[g].nextExpectedIncomingId - FirstRequestId
    IN  /\ next \in done .. Len(submitted)
        /\ \A i \in 1 .. Len(todo) : todo[i].guid = g =>
              \E k \in (done + 1) .. next : todo[i].body = submitted[k]
        /\ \A k \in (done + 1) .. next :
              \E i \in 1 .. Len(todo) : todo[i].guid = g /\ todo[i].body = submitted[k]
        /\ \A i, j \in 1 .. Len(todo) :
              i < j /\ todo[i].guid = g /\ todo[j].guid = g => todo[i].body < todo[j].body

\* Every session the page has or may yet have executes a front of what it submitted.
Accepted(old) ==
    \A g \in Guid \ old :
        /\ Len(executed[g]) <= Len(submitted)
        /\ \A k \in 1 .. Len(executed[g]) : executed[g][k] = submitted[k]
        /\ g \in guidToSession => Waiting(g)

\* The Server answers the request it executed last on that session.
Answering ==
    server # Idle =>
        LET done == executed[server.guid]
        IN  done # << >> /\ server.body = done[Len(done)]

\* All of it for requests.
RequestOK(old) ==
    /\ UnusedSilent
    /\ HelloFirst
    /\ Written
    /\ Apart(old)
    /\ InFlight(old)
    /\ Unasked(old)
    /\ Accepted(old)
    /\ Answering

(* Every request on its way to a session of the page is the one the page       *)
(* numbered so, none is on its way to a session its page has not heard of, and *)
(* what each session accepted follows what the Server executed on it           *)
(* (SessionManager numbers and keeps requests, catchUp re-sends,               *)
(* Robustifier::noteIncoming filters).                                         *)
RequestInvariant == \E old \in SUBSET Conn : RequestOK(old)

-------------------------------------------------------------------------------
(* And why no handler of the Processor fails.  It is about a page that  *)
(* has not used the reconnect link at all.                                    *)
Introduces(m) == m.type \in {"CreateSession", "AttachToSession"}

\* The Hello is the first message, what asks for a session comes right after it.
Introduction(q) ==
    /\ \A i \in 2 .. Len(q) : q[i].type # "Hello"
    /\ \A i \in 1 .. Len(q) : Introduces(q[i]) => i = 1 \/ (i = 2 /\ q[1] = Hello)

\* The Processor knows of connection c what its next message asks it to know.
Expects(c) ==
    up[c] # << >> =>
        /\ Head(up[c]).type = "Hello" => c \notin pendingProfiles /\ channelToSession[c] = NoGuid
        /\ Introduces(Head(up[c])) => c \in pendingProfiles

\* A page that opens sockets by its timer only has one live socket at most.
OneLive == \A c \in Conn : Live(c) => ws = c /\ state # "Disconnected"

UnusedUnknown ==
    \A c \in Conn : Unused(c) =>
        up[c] = << >> /\ c \notin pendingProfiles /\ channelToSession[c] = NoGuid

SurvivalInvariant ==
    clicks = 0 =>
        /\ alive
        /\ OneLive
        /\ UnusedUnknown
        /\ \A c \in Conn : Introduction(up[c]) /\ Expects(c)
===============================================================================
