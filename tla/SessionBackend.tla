----------------------------- MODULE SessionBackend -----------------------------
(***************************************************************************)
(* The backend's end of a session: the Communicator's Processor thread     *)
(* (communicator.cc), the Session with its Robustifier (session.h,         *)
(* robustifier.cc), and the part of the Server thread that executes        *)
(* requests and sends responses (server.cc).                               *)
(*                                                                         *)
(* The Processor consumes what the Channels' readers append to one queue;  *)
(* readers run at their own pace, so the next message may be the first in  *)
(* flight on any connection.  The two threads share the Session with no    *)
(* lock around its use: the Processor re-attaches and catches up step by   *)
(* step, the Server takes the channel, numbers, records and sends a        *)
(* response step by step, and the steps interleave.  A single deque        *)
(* operation or channel write is taken as one step.                        *)
(***************************************************************************)
EXTENDS SessionNet

CONSTANTS MaxAnswers,   \* responses one request may cause on its session
          MaxRestarts   \* restarts of the backend process

ASSUME BackendAssumption == MaxAnswers \in Nat /\ MaxRestarts \in Nat

VARIABLES
    pendingProfiles,    \* connections that said Hello and have no session yet
    channelToSession,
    guidToSession,      \* the guids the map knows
    alive,              \* the Processor thread has not returned
    processor,          \* what the Processor is in the middle of
    channel,            \* Session::channel_, by guid
    rb,                 \* the Robustifier of each session
    todo,               \* requests accepted and handed to the Server
    server,             \* what the Server thread is in the middle of
    executed,           \* history: bodies executed, by session
    produced,           \* history: bodies of numbered responses, by session
    restarts

commVars == <<pendingProfiles, channelToSession, guidToSession, alive, processor>>
backendVars == <<commVars, channel, rb, todo, server, executed, produced, restarts>>

NewRobustifier ==
    [nextOutgoingId |-> FirstResponseId,
     nextExpectedIncomingId |-> FirstRequestId,
     unacknowledged |-> << >>]

Robustifiers == [nextOutgoingId : Nat, nextExpectedIncomingId : Nat,
                 unacknowledged : Seq(Responses)]

\* Slip: accepts the request it expects and goes on expecting it.
NoteIncomingUncounted(r, next) ==
    [r EXCEPT !.unacknowledged = PopAcked(@, next)]

\* Slip: keeps the response it sends and goes on with the same number.
NoteOutgoingUncounted(r, resp) ==
    [r EXCEPT !.unacknowledged = Append(@, resp)]

\* Robustifier::noteIncoming of the expected message, and trySend
NoteIncoming(r, next) ==
    [r EXCEPT !.nextExpectedIncomingId = @ + 1, !.unacknowledged = PopAcked(@, next)]
NoteOutgoing(r, resp) ==
    [r EXCEPT !.nextOutgoingId = @ + 1, !.unacknowledged = Append(@, resp)]

Idle == [pc |-> "idle"]

Processors ==
    {Idle}
      \cup [pc : {"reply", "range"}, guid : Guid, chan : Conn, next : Nat]
      \cup [pc : {"catchup"}, guid : Guid, chan : Conn, left : Seq(Responses)]

Servers ==
    {Idle}
      \cup [pc : {"answer"}, guid : Guid, body : Nat, left : Nat]
      \cup [pc : {"record", "send"}, guid : Guid, body : Nat, left : Nat,
            chan : Conn, resp : Responses]

BackendTypeOK ==
    /\ pendingProfiles \in SUBSET Conn
    /\ guidToSession \in SUBSET Guid
    /\ channelToSession \in [Conn -> guidToSession \cup {NoGuid}]
    /\ alive \in BOOLEAN
    /\ processor \in Processors
    /\ channel \in [Guid -> Conn \cup {NoConn}]
    /\ \A g \in guidToSession : channel[g] # NoConn
    /\ rb \in [Guid -> Robustifiers]
    /\ todo \in Seq([guid : Guid, body : Nat])
    /\ \A i \in 1 .. Len(todo) : todo[i].guid \in guidToSession
    /\ server \in Servers
    /\ server # Idle => server.guid \in guidToSession
    /\ executed \in [Guid -> Seq(Nat)]
    /\ produced \in [Guid -> Seq(Nat)]
    /\ restarts \in Nat

BackendInit ==
    /\ pendingProfiles = {}
    /\ channelToSession = [c \in Conn |-> NoGuid]
    /\ guidToSession = {}
    /\ alive = TRUE
    /\ processor = Idle
    /\ channel = [g \in Guid |-> NoConn]
    /\ rb = [g \in Guid |-> NewRobustifier]
    /\ todo = << >>
    /\ server = Idle
    /\ executed = [g \in Guid |-> << >>]
    /\ produced = [g \in Guid |-> << >>]
    /\ restarts = 0

-------------------------------------------------------------------------------
(* The Processor thread. *)

\* The Processor takes the next message, of the given type, from connection c.
Takes(c, type) ==
    /\ alive
    /\ processor = Idle
    /\ up[c] # << >>
    /\ Head(up[c]).type = type
    /\ up' = [up EXCEPT ![c] = Tail(@)]
    /\ UNCHANGED <<readyState, breaks, server, executed, produced, restarts>>

\* A handler that fails ends tryProcessMessagesForever, for every session.
ProcessorFails ==
    /\ alive' = FALSE
    /\ UNCHANGED <<broken, down, pendingProfiles, channelToSession, guidToSession,
                   processor, channel, rb, todo>>

HandleHello(c) ==
    /\ Takes(c, "Hello")
    /\ IF c \in pendingProfiles \/ channelToSession[c] # NoGuid
         THEN ProcessorFails
         ELSE /\ pendingProfiles' = pendingProfiles \cup {c}
              /\ UNCHANGED <<broken, down, channelToSession, guidToSession, alive,
                             processor, channel, rb, todo>>

HandleCreateSession(c) ==
    /\ Takes(c, "CreateSession")
    /\ IF c \notin pendingProfiles
         THEN ProcessorFails
         ELSE /\ pendingProfiles' = pendingProfiles \ {c}
              /\ guidToSession' = guidToSession \cup {c}
              /\ channelToSession' = [channelToSession EXCEPT ![c] = c]
              /\ channel' = [channel EXCEPT ![c] = c]
              /\ rb' = [rb EXCEPT ![c] = NewRobustifier]
              /\ down' = SentDown(c, <<SessionSuccess(c, 0)>>)
              /\ UNCHANGED <<broken, alive, processor, todo>>

\* Slip: attaches to whatever guid the page names.
IsAnySession(guid) == guid \in Guid

IsKnownSession(guid) == guid \in guidToSession

\* A known guid: the session moves to c and its former channel is shut down.
HandleAttachToSession(c) ==
    LET as == Head(up[c])
        former == channel[as.guid]
    IN  /\ Takes(c, "AttachToSession")
        /\ IF c \notin pendingProfiles
             THEN ProcessorFails
             ELSE IF ~IsKnownSession(as.guid)
             THEN /\ down' = SentDown(c, <<SessionFailure>>)
                  /\ UNCHANGED <<broken, pendingProfiles, channelToSession,
                                 guidToSession, alive, processor, channel, rb, todo>>
             ELSE /\ pendingProfiles' = pendingProfiles \ {c}
                  /\ channel' = [channel EXCEPT ![as.guid] = c]
                  /\ channelToSession' =
                         [channelToSession EXCEPT ![former] = NoGuid, ![c] = as.guid]
                  /\ broken' = broken \cup {former}
                  /\ processor' = [pc |-> "reply", guid |-> as.guid, chan |-> c,
                                   next |-> as.next]
                  /\ UNCHANGED <<down, guidToSession, alive, rb, todo>>

\* Slips: accepts what it has seen before; runs the newest request first.
IsNotNewer(r, pr) == pr.id <= r.nextExpectedIncomingId
QueuedInFront(item) == <<item>> \o todo

IsExpectedRequest(r, pr) == pr.id = r.nextExpectedIncomingId
Queued(item) == Append(todo, item)

\* Session::noteIncomingRequest decides; CommunicatorCallbacks::tryOnRequest queues.
HandlePackagedRequest(c) ==
    LET pr == Head(up[c])
        g == channelToSession[c]
    IN  /\ Takes(c, "PackagedRequest")
        /\ IF g # NoGuid /\ IsExpectedRequest(rb[g], pr)
             THEN /\ rb' = [rb EXCEPT ![g] = NoteIncoming(@, pr.next)]
                  /\ todo' = Queued([guid |-> g, body |-> pr.body])
             ELSE UNCHANGED <<rb, todo>>
        /\ UNCHANGED <<broken, down, pendingProfiles, channelToSession, guidToSession,
                       alive, processor, channel>>

\* The rest of tryHandleAttachToSession: SessionSuccess, then tryCatchup, whose
\* loop fixes the end of its range before it sends the first item.
ProcessorStep(pc) ==
    /\ alive
    /\ processor.pc = pc
    /\ UNCHANGED <<readyState, broken, up, breaks, pendingProfiles, channelToSession,
                   guidToSession, alive, channel, rb, todo, server, executed,
                   produced, restarts>>

AttachReply ==
    /\ ProcessorStep("reply")
    /\ down' = SentDown(processor.chan,
                        <<SessionSuccess(processor.guid,
                                         rb[processor.guid].nextExpectedIncomingId)>>)
    /\ processor' = [processor EXCEPT !.pc = "range"]

\* Slip: tryCatchup compares the wrong way round.
AlreadySeen(r, next) == SelectSeq(r.unacknowledged, LAMBDA m : m.id < next)

Unseen(r, next) == PopAcked(r.unacknowledged, next)

CatchupRange ==
    /\ ProcessorStep("range")
    /\ processor' = [pc |-> "catchup", guid |-> processor.guid, chan |-> processor.chan,
                     left |-> Unseen(rb[processor.guid], processor.next)]
    /\ UNCHANGED down

CatchupSend ==
    /\ ProcessorStep("catchup")
    /\ IF processor.left = << >>
         THEN processor' = Idle /\ UNCHANGED down
         ELSE /\ down' = SentDown(processor.chan, <<Head(processor.left)>>)
              /\ processor' = [processor EXCEPT !.left = Tail(@)]

-------------------------------------------------------------------------------
(* The Server thread. *)
ServerStep ==
    UNCHANGED <<readyState, broken, up, breaks, commVars, channel, restarts>>

\* tryProcessRequests: the next request is executed and causes n responses.
HandleRequest ==
    /\ server = Idle
    /\ todo # << >>
    /\ ServerStep
    /\ LET r == Head(todo)
       IN  /\ executed' = [executed EXCEPT ![r.guid] = Append(@, r.body)]
           /\ \E n \in 0 .. MaxAnswers :
                server' = [pc |-> "answer", guid |-> r.guid, body |-> r.body, left |-> n]
    /\ todo' = Tail(todo)
    /\ UNCHANGED <<down, rb, produced>>

\* tryProcessResponses: trySendResponse takes the channel and numbers the response.
NumberResponse ==
    /\ server.pc = "answer"
    /\ ServerStep
    /\ LET r == rb[server.guid]
       IN  server' = IF server.left = 0
                       THEN Idle
                       ELSE [pc |-> "record", guid |-> server.guid,
                             body |-> server.body, left |-> server.left - 1,
                             chan |-> channel[server.guid],
                             resp |-> PackagedResponse(r.nextOutgoingId,
                                        r.nextExpectedIncomingId, server.body)]
    /\ UNCHANGED <<down, rb, todo, executed, produced>>

RecordResponse ==
    /\ server.pc = "record"
    /\ ServerStep
    /\ rb' = [rb EXCEPT ![server.guid] = NoteOutgoing(@, server.resp)]
    /\ produced' = [produced EXCEPT ![server.guid] = Append(@, server.body)]
    /\ server' = [server EXCEPT !.pc = "send"]
    /\ UNCHANGED <<down, todo, executed>>

SendResponse ==
    /\ server.pc = "send"
    /\ ServerStep
    /\ down' = SentDown(server.chan, <<server.resp>>)
    /\ server' = [pc |-> "answer", guid |-> server.guid, body |-> server.body,
                  left |-> server.left]
    /\ UNCHANGED <<rb, todo, executed, produced>>

-------------------------------------------------------------------------------
\* The process ends and starts again: sessions live in memory only, and the
\* connections through it end.
Restart ==
    /\ restarts < MaxRestarts
    /\ restarts' = restarts + 1
    /\ broken' = Opened
    /\ up' = [c \in Conn |-> << >>]
    /\ pendingProfiles' = {}
    /\ channelToSession' = [c \in Conn |-> NoGuid]
    /\ guidToSession' = {}
    /\ alive' = TRUE
    /\ processor' = Idle
    /\ todo' = << >>
    /\ server' = Idle
    /\ UNCHANGED <<readyState, down, breaks, channel, rb, executed, produced>>

ProcessorHandles(c) ==
    \/ HandleHello(c)
    \/ HandleCreateSession(c)
    \/ HandleAttachToSession(c)
    \/ HandlePackagedRequest(c)

ProcessorContinues ==
    \/ AttachReply
    \/ CatchupRange
    \/ CatchupSend

ServerNext ==
    \/ HandleRequest
    \/ NumberResponse
    \/ RecordResponse
    \/ SendResponse

BackendNext ==
    \/ \E c \in Conn : ProcessorHandles(c)
    \/ ProcessorContinues
    \/ ServerNext
    \/ Restart
===============================================================================
