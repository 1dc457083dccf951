------------------------------ MODULE SessionProofs ------------------------------
(***************************************************************************)
(* What holds of the session layer for every number of connections,        *)
(* requests, responses, breaks, clicks and restarts.                       *)
(***************************************************************************)
EXTENDS SessionInvariant, SequenceTheorems, WellFoundedInduction, TLAPS

-------------------------------------------------------------------------------
(* Every non-empty set of naturals has a least element. *)
LEMMA LeastElement ==
    ASSUME NEW T \in SUBSET Nat, T # {}
    PROVE  \E x \in T : \A y \in T : ~(y < x)
<1>1. \A x, y \in Nat : <<y, x>> \in OpToRel(<, Nat) => y < x
  BY Zenon DEF OpToRel
<1>2. \A x, y \in Nat : y < x => <<y, x>> \in OpToRel(<, Nat)
  BY Zenon DEF OpToRel
<1>3. PICK R : IsWellFoundedOn(R, Nat) /\ \A x, y \in Nat : <<y, x>> \in R <=> y < x
  BY NatLessThanWellFounded, <1>1, <1>2, Zenon
<1>4. PICK x \in T : \A y \in T : <<y, x>> \notin R
  BY <1>3, WFMin
<1>5. ASSUME NEW y \in T PROVE ~(y < x)
  <2>1. x \in Nat /\ y \in Nat
    OBVIOUS
  <2> QED BY <1>3, <1>4, <2>1, Zenon
<1> QED BY <1>5

(* PopAcked drops the longest front whose serial numbers are acknowledged. *)
LEMMA PopAckedProperties ==
    ASSUME NEW S, NEW q \in Seq(S), NEW next \in Nat, \A s \in S : s.id \in Nat
    PROVE  \E k \in 0 .. Len(q) :
              /\ PopAcked(q, next) = SubSeq(q, k + 1, Len(q))
              /\ \A j \in 1 .. k : q[j].id < next
              /\ k < Len(q) => q[k + 1].id >= next
<1> DEFINE Stop(i) == i <= Len(q) => q[i].id >= next
           First(i) == (\A j \in 1 .. (i - 1) : q[j].id < next) /\ Stop(i)
           T == {i \in 1 .. (Len(q) + 1) : Stop(i)}
<1>1. Len(q) \in Nat /\ \A i \in 1 .. Len(q) : q[i] \in S /\ q[i].id \in Nat
  BY ElementOfSeq, LenProperties
<1>2. T \in SUBSET Nat /\ T # {}
  <2>1. Len(q) + 1 \in T
    BY <1>1
  <2> QED BY <2>1, <1>1
<1>3. PICK i \in T : \A y \in T : ~(y < i)
  <2> HIDE DEF T
  <2> QED BY <1>2, LeastElement, Zenon
<1>4. i \in 1 .. (Len(q) + 1) /\ First(i)
  <2>1. ASSUME NEW j \in 1 .. (i - 1) PROVE q[j].id < next
    <3>1. j \in 1 .. Len(q) /\ j < i
      BY <1>1
    <3>2. j \notin T
      BY <3>1, <1>3, <1>1
    <3> QED BY <3>1, <3>2, <1>1
  <2> QED BY <2>1, <1>3
<1>5. PICK first \in 1 .. (Len(q) + 1) :
         first = (CHOOSE m \in 1 .. (Len(q) + 1) : First(m)) /\ First(first)
  <2> HIDE DEF First
  <2> QED BY <1>4, Zenon
<1>6. PopAcked(q, next) = SubSeq(q, first, Len(q))
  BY <1>5, Zenon DEF PopAcked
<1> HIDE DEF T
<1> DEFINE k == first - 1
<1>7. k \in 0 .. Len(q) /\ k + 1 = first
  BY <1>1
<1>8. \A j \in 1 .. k : q[j].id < next
  BY <1>5
<1>9. k < Len(q) => q[k + 1].id >= next
  BY <1>1, <1>5, <1>7
<1> HIDE DEF k
<1>10. PopAcked(q, next) = SubSeq(q, k + 1, Len(q))
  BY <1>6, <1>7, Zenon
<1> QED BY <1>7, <1>8, <1>9, <1>10

(* So it keeps a queue of requests a queue of requests, and of responses one of *)
(* responses.                                                                   *)
LEMMA PopAckedType ==
    ASSUME NEW S, NEW q \in Seq(S), NEW next \in Nat, \A s \in S : s.id \in Nat
    PROVE  PopAcked(q, next) \in Seq(S)
<1>1. PICK k \in 0 .. Len(q) : PopAcked(q, next) = SubSeq(q, k + 1, Len(q))
  BY PopAckedProperties
<1>2. Len(q) \in Nat /\ \A i \in (k + 1) .. Len(q) : q[i] \in S
  BY ElementOfSeq, LenProperties
<1>3. SubSeq(q, k + 1, Len(q)) \in Seq(S)
  BY <1>2, SubSeqProperties
<1> QED BY <1>1, <1>3

-------------------------------------------------------------------------------
(* Type correctness. *)

LEMMA MessageTypes ==
    /\ Hello \in CRequests
    /\ CreateSession \in CRequests
    /\ \A g \in Guid, n \in Nat : AttachToSession(g, n) \in CRequests
    /\ \A i, n, b \in Nat : PackagedRequest(i, n, b) \in Requests
    /\ Requests \subseteq CRequests
    /\ SessionFailure \in CResponses
    /\ \A g \in Guid, n \in Nat : SessionSuccess(g, n) \in CResponses
    /\ \A i, n, b \in Nat : PackagedResponse(i, n, b) \in Responses
    /\ Responses \subseteq CResponses
BY DEF CRequests, CResponses, Requests, Responses, Hello, CreateSession, AttachToSession,
       PackagedRequest, SessionFailure, SessionSuccess, PackagedResponse

(* A message's type tells its shape. *)
LEMMA MessageShapes ==
    /\ \A m \in CRequests :
          /\ m.type = "AttachToSession" => m.guid \in Guid /\ m.next \in Nat
          /\ m.type = "PackagedRequest" => m \in Requests
    /\ \A m \in Requests : m.id \in Nat /\ m.next \in Nat /\ m.body \in Nat
    /\ \A m \in CResponses :
          /\ m.type = "SessionSuccess" => m.guid \in Guid /\ m.next \in Nat
          /\ m.type = "PackagedResponse" => m \in Responses
    /\ \A m \in Responses : m.id \in Nat /\ m.next \in Nat /\ m.body \in Nat
BY DEF CRequests, CResponses, Requests, Responses, Hello, CreateSession, SessionFailure

LEMMA SentUpType ==
    ASSUME NetTypeOK, NEW msgs \in Seq(CRequests)
    PROVE  SentUp(msgs) \in [Conn -> Seq(CRequests)]
BY ConcatProperties DEF SentUp, NetTypeOK

LEMMA SentDownType ==
    ASSUME NetTypeOK, NEW c \in Conn, NEW msgs \in Seq(CResponses)
    PROVE  SentDown(c, msgs) \in [Conn -> Seq(CResponses)]
BY ConcatProperties DEF SentDown, NetTypeOK

LEMMA InitTypeOK == Init => TypeOK
<1> SUFFICES ASSUME Init PROVE NetTypeOK /\ ClientTypeOK /\ BackendTypeOK
  BY DEF TypeOK
<1> USE NetAssumption, EmptySeq DEF Init, Conn, Guid, NoConn, NoGuid
<1>1. NetTypeOK
  BY DEF NetInit, NetTypeOK
<1>2. ClientTypeOK
  <2>1. clickedEarly \in BOOLEAN
    BY Zenon DEF ClientInit
  <2> QED BY <2>1 DEF ClientInit, ClientTypeOK, FirstRequestId, FirstResponseId
<1>3. BackendTypeOK
  BY DEF BackendInit, BackendTypeOK, FirstRequestId, FirstResponseId, NewRobustifier,
         Robustifiers, Idle, Processors, Servers
<1> QED BY <1>1, <1>2, <1>3

LEMMA ClientStepTypeOK ==
    ASSUME TypeOK, ClientNext, UNCHANGED backendVars
    PROVE  TypeOK'
<1> USE DEF TypeOK
<1>1. BackendTypeOK'
  BY DEF BackendTypeOK, backendVars, commVars
<1>2. ASSUME NEW c \in Conn, OpenSocket(c), clicks' \in Nat, clickedEarly' \in BOOLEAN
      PROVE  NetTypeOK' /\ ClientTypeOK'
  BY <1>2 DEF OpenSocket, NetTypeOK, ClientTypeOK
<1>3. ASSUME NEW c \in Conn, Connect(c) \/ Reconnect(c)
      PROVE  NetTypeOK' /\ ClientTypeOK'
  <2>1. clickedEarly' \in BOOLEAN
    BY <1>3, Zenon DEF Connect, Reconnect, ClientTypeOK
  <2>2. clicks' = clicks \/ clicks' = clicks + 1
    BY <1>3, Zenon DEF Connect, Reconnect
  <2>3. clicks' \in Nat
    BY <2>2 DEF ClientTypeOK
  <2>4. OpenSocket(c)
    BY <1>3 DEF Connect, Reconnect
  <2> QED BY <1>2, <2>1, <2>3, <2>4
<1>4. ASSUME NEW c \in Conn, HandleOpen(c)
      PROVE  NetTypeOK' /\ ClientTypeOK'
  <2> DEFINE opening == IF assignedSessionId = NoGuid
                          THEN CreateSession
                          ELSE AttachToSession(assignedSessionId, nextExpectedResponseId)
             hello == [up EXCEPT ![c] = <<Hello>>]
  <2>1. opening \in CRequests
    BY MessageTypes DEF ClientTypeOK
  <2>2. hello \in [Conn -> Seq(CRequests)]
    BY MessageTypes DEF NetTypeOK
  <2> HIDE DEF opening, hello
  <2>3. up' \in [Conn -> Seq(CRequests)]
    <3>1. CASE up' = hello
      BY <3>1, <2>2
    <3>2. CASE ws \in Conn /\ up' = [hello EXCEPT ![ws] = Append(@, opening)]
      <4>1. hello[ws] \in Seq(CRequests)
        BY <3>2, <2>2
      <4>2. Append(hello[ws], opening) \in Seq(CRequests)
        BY <4>1, <2>1, AppendProperties
      <4> QED BY <3>2, <4>2, <2>2
    <3> QED BY <1>4, <3>1, <3>2 DEF HandleOpen, hello, opening
  <2>4. state' \in {state, "Connected"}
    BY <1>4 DEF HandleOpen
  <2>5. NetTypeOK'
    BY <1>4, <2>3 DEF HandleOpen, NetTypeOK
  <2> QED BY <1>4, <2>4, <2>5 DEF HandleOpen, ClientTypeOK
<1>5. ASSUME NEW c \in Conn, HandleClose(c)
      PROVE  NetTypeOK' /\ ClientTypeOK'
  BY <1>5, EmptySeq DEF HandleClose, Disconnect, NetTypeOK, ClientTypeOK, NoConn
<1>6. ASSUME NEW c \in Conn, VisitSessionSuccess(c)
      PROVE  NetTypeOK' /\ ClientTypeOK'
  <2>1. Head(down[c]) \in CResponses /\ Tail(down[c]) \in Seq(CResponses)
    BY <1>6, HeadTailProperties DEF VisitSessionSuccess, Arrives, NetTypeOK
  <2>2. Head(down[c]).guid \in Guid /\ Head(down[c]).next \in Nat
    BY <1>6, <2>1, MessageShapes DEF VisitSessionSuccess, Arrives
  <2>3. unacknowledged' \in Seq(Requests)
    BY <1>6, <2>2, PopAckedType, MessageShapes DEF VisitSessionSuccess, ClientTypeOK
  <2>4. unacknowledged' \in Seq(CRequests)
    BY <2>3, SeqMonotonic, MessageTypes
  <2>5. up' \in [Conn -> Seq(CRequests)]
    BY <1>6, <2>4, SentUpType DEF VisitSessionSuccess, CatchUp
  <2> QED BY <1>6, <2>1, <2>2, <2>3, <2>5
          DEF VisitSessionSuccess, NetTypeOK, ClientTypeOK
<1>7. ASSUME NEW c \in Conn, VisitSessionFailure(c)
      PROVE  NetTypeOK' /\ ClientTypeOK'
  BY <1>7, EmptySeq
     DEF VisitSessionFailure, Disconnect, NetTypeOK, ClientTypeOK, Opened, NoConn, NoGuid,
         FirstRequestId, FirstResponseId
<1>8. ASSUME NEW c \in Conn, VisitPackagedResponse(c)
      PROVE  NetTypeOK' /\ ClientTypeOK'
  <2>1. Head(down[c]) \in CResponses /\ Tail(down[c]) \in Seq(CResponses)
    BY <1>8, HeadTailProperties DEF VisitPackagedResponse, Arrives, NetTypeOK
  <2>2. Head(down[c]).next \in Nat /\ Head(down[c]).body \in Nat
    BY <1>8, <2>1, MessageShapes DEF VisitPackagedResponse, Arrives
  <2>3. unacknowledged' \in Seq(Requests)
    BY <1>8, <2>2, PopAckedType, MessageShapes DEF VisitPackagedResponse, ClientTypeOK
  <2>4. delivered' \in Seq(Nat)
    <3>1. delivered' \in {delivered, Append(delivered, Head(down[c]).body)}
      BY <1>8 DEF VisitPackagedResponse
    <3>2. Append(delivered, Head(down[c]).body) \in Seq(Nat)
      BY <2>2, AppendProperties DEF ClientTypeOK
    <3> QED BY <3>1, <3>2 DEF ClientTypeOK
  <2>5. nextExpectedResponseId' \in Nat
    <3>1. nextExpectedResponseId' \in {nextExpectedResponseId, nextExpectedResponseId + 1}
      BY <1>8 DEF VisitPackagedResponse
    <3> QED BY <3>1 DEF ClientTypeOK
  <2>6. /\ UNCHANGED <<readyState, broken, up, breaks, state, ws, assignedSessionId,
                      nextRequestId, submitted, bodies, clicks, clickedEarly>>
        /\ down' = [down EXCEPT ![c] = Tail(@)]
    BY <1>8 DEF VisitPackagedResponse
  <2>7. NetTypeOK'
    BY <2>1, <2>6 DEF NetTypeOK
  <2> QED BY <2>3, <2>4, <2>5, <2>6, <2>7 DEF ClientTypeOK
<1>9. ASSUME SendDRequest
      PROVE  NetTypeOK' /\ ClientTypeOK'
  <2> DEFINE pr == PackagedRequest(nextRequestId, nextExpectedResponseId, bodies + 1)
  <2>1. pr \in Requests
    BY MessageTypes DEF ClientTypeOK
  <2> HIDE DEF pr
  <2>2. <<pr>> \in Seq(CRequests)
    BY <2>1, MessageTypes
  <2>3. up' \in [Conn -> Seq(CRequests)]
    BY <1>9, <2>2, SentUpType DEF SendDRequest, pr, NetTypeOK
  <2>4. unacknowledged' \in Seq(Requests)
    <3>1. unacknowledged' = Append(unacknowledged, pr)
      BY <1>9 DEF SendDRequest, pr
    <3> QED BY <3>1, <2>1, AppendProperties DEF ClientTypeOK
  <2>5. submitted' \in Seq(Nat)
    BY <1>9, AppendProperties DEF SendDRequest, ClientTypeOK
  <2>6. /\ UNCHANGED <<readyState, broken, down, breaks, state, ws, assignedSessionId,
                      nextExpectedResponseId, delivered, clicks, clickedEarly>>
        /\ nextRequestId' = nextRequestId + 1
        /\ bodies' = bodies + 1
    BY <1>9 DEF SendDRequest
  <2>7. NetTypeOK'
    BY <2>3, <2>6 DEF NetTypeOK
  <2> QED BY <2>4, <2>5, <2>6, <2>7 DEF ClientTypeOK
<1> QED BY <1>1, <1>3, <1>4, <1>5, <1>6, <1>7, <1>8, <1>9 DEF ClientNext, Receive

LEMMA BackendShapes ==
    /\ Idle \in Processors /\ Idle \in Servers
    /\ \A p \in Processors :
          /\ p.pc \in {"reply", "range"} => p.guid \in Guid /\ p.chan \in Conn /\ p.next \in Nat
          /\ p.pc = "catchup" => p.guid \in Guid /\ p.chan \in Conn /\ p.left \in Seq(Responses)
    /\ \A pc \in {"reply", "range"}, g \in Guid, c \in Conn, n \in Nat :
          [pc |-> pc, guid |-> g, chan |-> c, next |-> n] \in Processors
    /\ \A g \in Guid, c \in Conn, q \in Seq(Responses) :
          [pc |-> "catchup", guid |-> g, chan |-> c, left |-> q] \in Processors
    /\ \A s \in Servers :
          /\ s.pc \in {"answer", "record", "send"} =>
                s # Idle /\ s.guid \in Guid /\ s.body \in Nat /\ s.left \in Nat
          /\ s.pc \in {"record", "send"} => s.chan \in Conn /\ s.resp \in Responses
    /\ \A g \in Guid, b, n \in Nat :
          [pc |-> "answer", guid |-> g, body |-> b, left |-> n] \in Servers
    /\ \A pc \in {"record", "send"}, g \in Guid, b, n \in Nat, c \in Conn, r \in Responses :
          [pc |-> pc, guid |-> g, body |-> b, left |-> n, chan |-> c, resp |-> r] \in Servers
BY DEF Processors, Servers, Idle

LEMMA RobustifierTypes ==
    ASSUME NEW r \in Robustifiers
    PROVE  /\ r.nextOutgoingId \in Nat /\ r.nextExpectedIncomingId \in Nat
           /\ r.unacknowledged \in Seq(Responses)
           /\ \A n \in Nat : NoteIncoming(r, n) \in Robustifiers
           /\ \A m \in Responses : NoteOutgoing(r, m) \in Robustifiers
<1>1. /\ r.nextOutgoingId \in Nat /\ r.nextExpectedIncomingId \in Nat
      /\ r.unacknowledged \in Seq(Responses)
  BY DEF Robustifiers
<1>2. ASSUME NEW n \in Nat PROVE NoteIncoming(r, n) \in Robustifiers
  <2> DEFINE next == r.nextExpectedIncomingId + 1
             queue == PopAcked(r.unacknowledged, n)
  <2>1. next \in Nat /\ queue \in Seq(Responses)
    <3>1. next \in Nat
      BY <1>1
    <3>2. \A m \in Responses : m.id \in Nat
      BY MessageShapes
    <3>3. queue \in Seq(Responses)
      BY <1>1, <3>2, PopAckedType
    <3> QED BY <3>1, <3>3
  <2> HIDE DEF next, queue
  <2>2. [r EXCEPT !.nextExpectedIncomingId = next, !.unacknowledged = queue] \in Robustifiers
    BY <2>1 DEF Robustifiers
  <2> QED BY <2>2 DEF NoteIncoming, next, queue
<1>3. ASSUME NEW m \in Responses PROVE NoteOutgoing(r, m) \in Robustifiers
  <2> DEFINE next == r.nextOutgoingId + 1
             queue == Append(r.unacknowledged, m)
  <2>1. next \in Nat /\ queue \in Seq(Responses)
    BY <1>1, AppendProperties
  <2> HIDE DEF next, queue
  <2>2. [r EXCEPT !.nextOutgoingId = next, !.unacknowledged = queue] \in Robustifiers
    BY <2>1 DEF Robustifiers
  <2> QED BY <2>2 DEF NoteOutgoing, next, queue
<1> QED BY <1>1, <1>2, <1>3

LEMMA ProcessorHandlesTypeOK ==
    ASSUME TypeOK, NEW c \in Conn, ProcessorHandles(c)
    PROVE  NetTypeOK' /\ BackendTypeOK'
<1> USE DEF TypeOK
<1>1. ASSUME NEW type, Takes(c, type)
      PROVE  /\ up' \in [Conn -> Seq(CRequests)]
             /\ Head(up[c]) \in CRequests
             /\ Head(up[c]).type = type
             /\ UNCHANGED <<readyState, breaks, server, executed, produced, restarts>>
  <2>1. Head(up[c]) \in CRequests /\ Tail(up[c]) \in Seq(CRequests)
    BY <1>1, HeadTailProperties DEF Takes, NetTypeOK
  <2> QED BY <1>1, <2>1 DEF Takes, NetTypeOK
<1>2. ASSUME ProcessorFails, up' \in [Conn -> Seq(CRequests)],
             UNCHANGED <<readyState, breaks, server, executed, produced, restarts>>
      PROVE  NetTypeOK' /\ BackendTypeOK'
  <2>1. NetTypeOK'
    BY <1>2 DEF ProcessorFails, NetTypeOK
  <2> QED BY <1>2, <2>1 DEF ProcessorFails, BackendTypeOK
<1>3. CASE HandleHello(c)
  <2>1. Takes(c, "Hello")
    BY <1>3 DEF HandleHello
  <2>2. CASE ProcessorFails
    BY <1>1, <1>2, <2>1, <2>2
  <2>3. CASE ~ProcessorFails
    <3>1. /\ pendingProfiles' = pendingProfiles \cup {c}
          /\ UNCHANGED <<broken, down, channelToSession, guidToSession, alive,
                         processor, channel, rb, todo>>
      BY <1>3, <2>3 DEF HandleHello
    <3>2. NetTypeOK'
      BY <1>1, <2>1, <3>1 DEF NetTypeOK
    <3>3. BackendTypeOK'
      BY <1>1, <2>1, <3>1 DEF BackendTypeOK
    <3> QED BY <3>2, <3>3
  <2> QED BY <2>2, <2>3
<1>4. CASE HandleCreateSession(c)
  <2>1. Takes(c, "CreateSession")
    BY <1>4 DEF HandleCreateSession
  <2>2. CASE ProcessorFails
    BY <1>1, <1>2, <2>1, <2>2
  <2>3. CASE ~ProcessorFails
    <3>1. /\ pendingProfiles' = pendingProfiles \ {c}
          /\ guidToSession' = guidToSession \cup {c}
          /\ channelToSession' = [channelToSession EXCEPT ![c] = c]
          /\ channel' = [channel EXCEPT ![c] = c]
          /\ rb' = [rb EXCEPT ![c] = NewRobustifier]
          /\ down' = SentDown(c, <<SessionSuccess(c, 0)>>)
          /\ UNCHANGED <<broken, alive, processor, todo>>
      BY <1>4, <2>3 DEF HandleCreateSession
    <3>2. <<SessionSuccess(c, 0)>> \in Seq(CResponses)
      BY MessageTypes DEF Guid
    <3>3. down' \in [Conn -> Seq(CResponses)]
      BY <3>1, <3>2, SentDownType
    <3>4. NetTypeOK'
      BY <1>1, <2>1, <3>1, <3>3 DEF NetTypeOK
    <3>5. NewRobustifier \in Robustifiers
      BY EmptySeq DEF NewRobustifier, Robustifiers, FirstRequestId, FirstResponseId
    <3>6. rb' \in [Guid -> Robustifiers]
      BY <3>1, <3>5 DEF BackendTypeOK
    <3>7. /\ channel' \in [Guid -> Conn \cup {NoConn}]
          /\ \A g \in guidToSession' : channel'[g] # NoConn
      BY <3>1, NetAssumption DEF BackendTypeOK, Guid, NoConn, Conn
    <3>8. /\ guidToSession' \in SUBSET Guid
          /\ channelToSession' \in [Conn -> guidToSession' \cup {NoGuid}]
          /\ guidToSession \subseteq guidToSession'
      BY <3>1 DEF BackendTypeOK, Guid
    <3>9. BackendTypeOK'
      BY <1>1, <2>1, <3>1, <3>6, <3>7, <3>8 DEF BackendTypeOK
    <3> QED BY <3>4, <3>9
  <2> QED BY <2>2, <2>3
<1>5. CASE HandleAttachToSession(c)
  <2> DEFINE as == Head(up[c])
             former == channel[as.guid]
  <2>1. Takes(c, "AttachToSession")
    BY <1>5 DEF HandleAttachToSession
  <2>2. as.guid \in Guid /\ as.next \in Nat
    BY <1>1, <2>1, MessageShapes
  <2>3. CASE ProcessorFails
    BY <1>1, <1>2, <2>1, <2>3
  <2>4. CASE ~ProcessorFails /\ as.guid \notin guidToSession
    <3>1. /\ down' = SentDown(c, <<SessionFailure>>)
          /\ UNCHANGED <<broken, pendingProfiles, channelToSession, guidToSession,
                         alive, processor, channel, rb, todo>>
      BY <1>5, <2>4 DEF HandleAttachToSession, IsKnownSession
    <3>2. down' \in [Conn -> Seq(CResponses)]
      <4>1. <<SessionFailure>> \in Seq(CResponses)
        BY MessageTypes
      <4> QED BY <3>1, <4>1, SentDownType
    <3>3. NetTypeOK'
      BY <1>1, <2>1, <3>1, <3>2 DEF NetTypeOK
    <3>4. BackendTypeOK'
      BY <1>1, <2>1, <3>1 DEF BackendTypeOK
    <3> QED BY <3>3, <3>4
  <2>5. CASE ~ProcessorFails /\ as.guid \in guidToSession
    <3>1. /\ pendingProfiles' = pendingProfiles \ {c}
          /\ channel' = [channel EXCEPT ![as.guid] = c]
          /\ channelToSession' =
                 [channelToSession EXCEPT ![former] = NoGuid, ![c] = as.guid]
          /\ broken' = broken \cup {former}
          /\ processor' = [pc |-> "reply", guid |-> as.guid, chan |-> c,
                           next |-> as.next]
          /\ UNCHANGED <<down, guidToSession, alive, rb, todo>>
      BY <1>5, <2>5 DEF HandleAttachToSession, IsKnownSession
    <3>2. former \in Conn
      BY <2>2, <2>5 DEF BackendTypeOK
    <3>3. NetTypeOK'
      BY <1>1, <2>1, <3>1, <3>2 DEF NetTypeOK
    <3>4. processor' \in Processors
      BY <2>2, <3>1, BackendShapes
    <3>5. channelToSession' \in [Conn -> guidToSession' \cup {NoGuid}]
      BY <2>5, <3>1 DEF BackendTypeOK
    <3>6. /\ channel' \in [Guid -> Conn \cup {NoConn}]
          /\ \A g \in guidToSession' : channel'[g] # NoConn
      BY <2>2, <3>1, NetAssumption DEF BackendTypeOK, Conn, NoConn
    <3>7. BackendTypeOK'
      BY <1>1, <2>1, <3>1, <3>4, <3>5, <3>6 DEF BackendTypeOK
    <3> QED BY <3>3, <3>7
  <2> QED BY <2>3, <2>4, <2>5
<1>6. CASE HandlePackagedRequest(c)
  <2> DEFINE pr == Head(up[c])
             g == channelToSession[c]
  <2>1. Takes(c, "PackagedRequest")
    BY <1>6 DEF HandlePackagedRequest
  <2>2. pr.id \in Nat /\ pr.next \in Nat /\ pr.body \in Nat
    BY <1>1, <2>1, MessageShapes
  <2>3. UNCHANGED <<broken, down, pendingProfiles, channelToSession, guidToSession,
                    alive, processor, channel>>
    BY <1>6 DEF HandlePackagedRequest
  <2>4. NetTypeOK'
    BY <1>1, <2>1, <2>3 DEF NetTypeOK
  <2>5. CASE UNCHANGED <<rb, todo>>
    BY <1>1, <2>1, <2>3, <2>4, <2>5 DEF BackendTypeOK
  <2>6. CASE ~UNCHANGED <<rb, todo>>
    <3>1. /\ g # NoGuid
          /\ rb' = [rb EXCEPT ![g] = NoteIncoming(@, pr.next)]
          /\ todo' = Append(todo, [guid |-> g, body |-> pr.body])
      BY <1>6, <2>6 DEF HandlePackagedRequest, Queued
    <3>2. g \in guidToSession /\ g \in Guid
      BY <3>1 DEF BackendTypeOK
    <3>3. rb[g] \in Robustifiers
      BY <3>2 DEF BackendTypeOK
    <3>4. rb' \in [Guid -> Robustifiers]
      <4>1. NoteIncoming(rb[g], pr.next) \in Robustifiers
        BY <2>2, <3>3, RobustifierTypes
      <4> QED BY <3>1, <4>1 DEF BackendTypeOK
    <3> DEFINE item == [guid |-> g, body |-> pr.body]
    <3>5. item \in [guid : Guid, body : Nat] /\ item.guid \in guidToSession
      BY <2>2, <3>2
    <3> HIDE DEF item
    <3>6. /\ todo' \in Seq([guid : Guid, body : Nat])
          /\ \A i \in 1 .. Len(todo') : todo'[i].guid \in guidToSession
      <4>1. todo' = Append(todo, item)
        BY <3>1 DEF item
      <4> DEFINE Items == [guid : Guid, body : Nat]
      <4>2. todo \in Seq(Items) /\ \A i \in 1 .. Len(todo) : todo[i].guid \in guidToSession
        BY DEF BackendTypeOK
      <4>3. item \in Items
        BY <3>5
      <4> HIDE DEF Items
      <4>4. /\ todo' \in Seq(Items)
            /\ Len(todo) \in Nat /\ Len(todo') = Len(todo) + 1
            /\ \A i \in 1 .. Len(todo) : todo'[i] = todo[i]
            /\ todo'[Len(todo) + 1] = item
        BY <4>1, <4>2, <4>3, AppendProperties, LenProperties
      <4>5. \A i \in 1 .. Len(todo') : i \in 1 .. Len(todo) \/ i = Len(todo) + 1
        BY <4>4
      <4> QED BY <3>5, <4>2, <4>4, <4>5 DEF Items
    <3>7. BackendTypeOK'
      BY <1>1, <2>1, <2>3, <3>4, <3>6 DEF BackendTypeOK
    <3> QED BY <2>4, <3>7
  <2> QED BY <2>5, <2>6
<1> QED BY <1>3, <1>4, <1>5, <1>6 DEF ProcessorHandles

LEMMA ProcessorContinuesTypeOK ==
    ASSUME TypeOK, ProcessorContinues
    PROVE  NetTypeOK' /\ BackendTypeOK'
<1> USE DEF TypeOK
<1>1. processor.pc \in {"reply", "range", "catchup"} /\ processor \in Processors
  BY DEF ProcessorContinues, AttachReply, CatchupRange, CatchupSend, ProcessorStep,
         BackendTypeOK
<1>2. processor.guid \in Guid /\ processor.chan \in Conn
  BY <1>1, BackendShapes
<1>3. rb[processor.guid] \in Robustifiers
  BY <1>2 DEF BackendTypeOK
<1>4. UNCHANGED <<readyState, broken, up, breaks, pendingProfiles, channelToSession,
                  guidToSession, alive, channel, rb, todo, server, executed,
                  produced, restarts>>
  BY DEF ProcessorContinues, AttachReply, CatchupRange, CatchupSend, ProcessorStep
<1>5. CASE AttachReply
  <2> DEFINE next == rb[processor.guid].nextExpectedIncomingId
  <2>1. processor.pc = "reply" /\ processor.next \in Nat
    BY <1>1, <1>5, BackendShapes DEF AttachReply, ProcessorStep
  <2>2. next \in Nat
    BY <1>3, RobustifierTypes
  <2>3. <<SessionSuccess(processor.guid, next)>> \in Seq(CResponses)
    BY <1>2, <2>2, MessageTypes
  <2>4. down' \in [Conn -> Seq(CResponses)]
    BY <1>2, <1>5, <2>3, SentDownType DEF AttachReply
  <2>5. processor' \in Processors
    BY <1>1, <1>5, <2>1 DEF AttachReply, Processors, Idle
  <2> QED BY <1>4, <2>4, <2>5 DEF NetTypeOK, BackendTypeOK
<1>6. CASE CatchupRange
  <2>1. processor.pc = "range" /\ processor.next \in Nat
    BY <1>1, <1>6, BackendShapes DEF CatchupRange, ProcessorStep
  <2>2. PopAcked(rb[processor.guid].unacknowledged, processor.next) \in Seq(Responses)
    <3>1. rb[processor.guid].unacknowledged \in Seq(Responses)
      BY <1>3, RobustifierTypes
    <3>2. \A m \in Responses : m.id \in Nat
      BY MessageShapes
    <3> QED BY <2>1, <3>1, <3>2, PopAckedType
  <2>3. processor' \in Processors
    BY <1>2, <1>6, <2>2, BackendShapes DEF CatchupRange, Unseen
  <2> QED BY <1>4, <1>6, <2>3 DEF CatchupRange, NetTypeOK, BackendTypeOK
<1>7. CASE CatchupSend
  <2>1. processor.left \in Seq(Responses)
    BY <1>1, <1>7, BackendShapes DEF CatchupSend, ProcessorStep
  <2>2. CASE processor.left = << >>
    BY <1>4, <1>7, <2>2, BackendShapes DEF CatchupSend, NetTypeOK, BackendTypeOK
  <2>3. CASE processor.left # << >>
    <3>1. Head(processor.left) \in Responses /\ Tail(processor.left) \in Seq(Responses)
      BY <2>1, <2>3, HeadTailProperties
    <3>2. <<Head(processor.left)>> \in Seq(CResponses)
      BY <3>1, MessageTypes
    <3>3. down' \in [Conn -> Seq(CResponses)]
      BY <1>2, <1>7, <2>3, <3>2, SentDownType DEF CatchupSend
    <3>4. processor' = [processor EXCEPT !.left = Tail(@)]
      BY <1>7, <2>3 DEF CatchupSend
    <3>5. processor' \in Processors
      BY <1>1, <1>7, <3>1, <3>4 DEF CatchupSend, ProcessorStep, Processors, Idle
    <3> QED BY <1>4, <3>3, <3>5 DEF NetTypeOK, BackendTypeOK
  <2> QED BY <2>2, <2>3
<1> QED BY <1>5, <1>6, <1>7 DEF ProcessorContinues

LEMMA ServerTypeOK ==
    ASSUME TypeOK, ServerNext
    PROVE  NetTypeOK' /\ BackendTypeOK'
<1> USE DEF TypeOK
<1>1. UNCHANGED <<readyState, broken, up, breaks, pendingProfiles, channelToSession,
                  guidToSession, alive, processor, channel, restarts>>
  BY DEF ServerNext, HandleRequest, NumberResponse, RecordResponse, SendResponse,
         ServerStep, commVars
<1>2. CASE HandleRequest
  <2>1. /\ Head(todo) \in [guid : Guid, body : Nat]
        /\ Tail(todo) \in Seq([guid : Guid, body : Nat])
        /\ Head(todo).guid \in guidToSession
        /\ \A i \in 1 .. Len(Tail(todo)) : Tail(todo)[i].guid \in guidToSession
    <3> DEFINE Items == [guid : Guid, body : Nat]
    <3>1. todo \in Seq(Items) /\ todo # << >>
      BY <1>2 DEF HandleRequest, BackendTypeOK
    <3>2. \A i \in 1 .. Len(todo) : todo[i].guid \in guidToSession
      BY DEF BackendTypeOK
    <3> HIDE DEF Items
    <3>3. /\ Head(todo) \in Items /\ Tail(todo) \in Seq(Items)
          /\ Len(todo) \in Nat /\ Len(todo) # 0
          /\ Len(Tail(todo)) = Len(todo) - 1
          /\ Head(todo) = todo[1]
          /\ \A i \in 1 .. Len(Tail(todo)) : Tail(todo)[i] = todo[i + 1]
      BY <3>1, HeadTailProperties, LenProperties, EmptySeq
    <3>4. \A i \in 1 .. Len(Tail(todo)) : i + 1 \in 1 .. Len(todo)
      BY <3>3
    <3>5. 1 \in 1 .. Len(todo)
      BY <3>3
    <3> QED BY <3>2, <3>3, <3>4, <3>5 DEF Items
  <2>2. Append(executed[Head(todo).guid], Head(todo).body) \in Seq(Nat)
    BY <2>1, AppendProperties DEF BackendTypeOK
  <2>3. executed' \in [Guid -> Seq(Nat)]
    BY <1>2, <2>1, <2>2 DEF HandleRequest, BackendTypeOK
  <2>4. PICK n \in 0 .. MaxAnswers :
          server' = [pc |-> "answer", guid |-> Head(todo).guid, body |-> Head(todo).body,
                     left |-> n]
    BY <1>2 DEF HandleRequest
  <2>5. n \in Nat
    BY BackendAssumption
  <2>6. Head(todo).guid \in Guid /\ Head(todo).body \in Nat
    BY <2>1
  <2>7. server' \in Servers
    BY <2>4, <2>5, <2>6, BackendShapes
  <2>8. server'.guid \in guidToSession
    BY <2>1, <2>4
  <2> QED BY <1>1, <1>2, <2>1, <2>3, <2>7, <2>8 DEF HandleRequest, NetTypeOK, BackendTypeOK
<1>3. ASSUME server.pc \in {"answer", "record", "send"}
      PROVE  /\ server \in Servers /\ server # Idle
             /\ server.guid \in Guid /\ server.guid \in guidToSession
             /\ server.body \in Nat /\ server.left \in Nat
  BY <1>3, BackendShapes DEF BackendTypeOK
<1>4. CASE NumberResponse
  <2> DEFINE r == rb[server.guid]
             resp == PackagedResponse(r.nextOutgoingId, r.nextExpectedIncomingId, server.body)
  <2>1. server.pc = "answer"
    BY <1>4 DEF NumberResponse
  <2>2. CASE server.left = 0
    BY <1>1, <1>4, <2>2, BackendShapes DEF NumberResponse, NetTypeOK, BackendTypeOK
  <2>3. CASE server.left # 0
    <3>1. r \in Robustifiers /\ channel[server.guid] \in Conn
      BY <1>3, <2>1 DEF BackendTypeOK
    <3>2. r.nextOutgoingId \in Nat /\ r.nextExpectedIncomingId \in Nat
      BY <3>1, RobustifierTypes
    <3>3. resp \in Responses
      BY <1>3, <2>1, <3>2, MessageTypes
    <3> HIDE DEF resp
    <3>4. server.left - 1 \in Nat
      BY <1>3, <2>1, <2>3
    <3>5. server' = [pc |-> "record", guid |-> server.guid, body |-> server.body,
                     left |-> server.left - 1, chan |-> channel[server.guid],
                     resp |-> resp]
      BY <1>4, <2>3 DEF NumberResponse, resp
    <3>6. server' \in Servers /\ server'.guid = server.guid
      BY <1>3, <2>1, <3>1, <3>3, <3>4, <3>5, BackendShapes
    <3> QED BY <1>1, <1>3, <1>4, <2>1, <3>6 DEF NumberResponse, NetTypeOK, BackendTypeOK
  <2> QED BY <2>2, <2>3
<1>5. CASE RecordResponse
  <2>1. server.pc = "record" /\ server.resp \in Responses /\ server.chan \in Conn
    BY <1>3, <1>5, BackendShapes DEF RecordResponse
  <2>2. NoteOutgoing(rb[server.guid], server.resp) \in Robustifiers
    BY <1>3, <2>1, RobustifierTypes DEF BackendTypeOK
  <2>3. rb' \in [Guid -> Robustifiers]
    BY <1>3, <1>5, <2>1, <2>2 DEF RecordResponse, BackendTypeOK
  <2>4. Append(produced[server.guid], server.body) \in Seq(Nat)
    BY <1>3, <2>1, AppendProperties DEF BackendTypeOK
  <2>5. produced' \in [Guid -> Seq(Nat)]
    BY <1>3, <1>5, <2>1, <2>4 DEF RecordResponse, BackendTypeOK
  <2>6. server' \in Servers /\ server'.guid = server.guid
    BY <1>3, <1>5, <2>1 DEF RecordResponse, Servers, Idle
  <2>7. UNCHANGED <<down, todo, executed>>
    BY <1>5 DEF RecordResponse
  <2>8. NetTypeOK'
    BY <1>1, <2>7 DEF NetTypeOK
  <2> QED BY <1>1, <1>3, <2>1, <2>3, <2>5, <2>6, <2>7, <2>8 DEF BackendTypeOK
<1>6. CASE SendResponse
  <2>1. server.pc = "send" /\ server.resp \in Responses /\ server.chan \in Conn
    BY <1>3, <1>6, BackendShapes DEF SendResponse
  <2>2. <<server.resp>> \in Seq(CResponses)
    BY <2>1, MessageTypes
  <2>3. down' \in [Conn -> Seq(CResponses)]
    BY <1>6, <2>1, <2>2, SentDownType DEF SendResponse
  <2>4. server' \in Servers /\ server'.guid = server.guid
    BY <1>3, <1>6, <2>1, BackendShapes DEF SendResponse
  <2> QED BY <1>1, <1>3, <1>6, <2>1, <2>3, <2>4 DEF SendResponse, NetTypeOK, BackendTypeOK
<1> QED BY <1>2, <1>4, <1>5, <1>6 DEF ServerNext

LEMMA RestartTypeOK ==
    ASSUME TypeOK, Restart
    PROVE  NetTypeOK' /\ BackendTypeOK'
BY EmptySeq, BackendShapes
   DEF TypeOK, Restart, NetTypeOK, BackendTypeOK, Opened, NoGuid

LEMMA BreakTypeOK ==
    ASSUME TypeOK, NEW c \in Conn, Break(c)
    PROVE  NetTypeOK'
BY DEF TypeOK, Break, NetTypeOK

(* Every state the program can reach is a state of the model's types; in        *)
(* particular a session the map knows always has a channel, and a connection's  *)
(* session, a queued request and a response under way belong to a known one.    *)
THEOREM TypeCorrect == Spec => []TypeOK
<1>1. TypeOK /\ [Next]_vars => TypeOK'
  <2> SUFFICES ASSUME TypeOK, [Next]_vars PROVE TypeOK'
    OBVIOUS
  <2>1. CASE ClientNext /\ UNCHANGED backendVars
    BY <2>1, ClientStepTypeOK
  <2>2. CASE BackendNext /\ UNCHANGED clientVars
    <3>1. ClientTypeOK'
      BY <2>2 DEF TypeOK, ClientTypeOK, clientVars, pageVars
    <3>2. NetTypeOK' /\ BackendTypeOK'
      BY <2>2, ProcessorHandlesTypeOK, ProcessorContinuesTypeOK, ServerTypeOK,
         RestartTypeOK DEF BackendNext
    <3> QED BY <3>1, <3>2 DEF TypeOK
  <2>3. ASSUME NEW c \in Conn, Break(c), UNCHANGED <<clientVars, backendVars>>
        PROVE  TypeOK'
    <3>1. ClientTypeOK' /\ BackendTypeOK'
      BY <2>3 DEF TypeOK, ClientTypeOK, BackendTypeOK, clientVars, pageVars,
                  backendVars, commVars
    <3> QED BY <2>3, <3>1, BreakTypeOK DEF TypeOK
  <2>4. CASE UNCHANGED vars
    BY <2>4 DEF TypeOK, NetTypeOK, ClientTypeOK, BackendTypeOK, vars, netVars,
                clientVars, pageVars, backendVars, commVars
  <2> QED BY <2>1, <2>2, <2>3, <2>4 DEF Next
<1> QED BY InitTypeOK, <1>1, PTL DEF Spec

-------------------------------------------------------------------------------
(* The Processor survives.  What a connection carries, after its first        *)
(* message is taken and after requests are added to it.                       *)
LEMMA IntroductionTaken ==
    ASSUME NEW q \in Seq(CRequests), q # << >>, Introduction(q)
    PROVE  /\ Introduction(Tail(q))
           /\ Tail(q) # << >> =>
                /\ Head(Tail(q)).type # "Hello"
                /\ Introduces(Head(Tail(q))) => Head(q) = Hello
<1>1. /\ Len(q) \in Nat /\ Len(q) # 0 /\ Head(q) = q[1]
      /\ Tail(q) \in Seq(CRequests) /\ Len(Tail(q)) = Len(q) - 1
      /\ \A i \in 1 .. Len(q) - 1 : Tail(q)[i] = q[i + 1]
  BY HeadTailProperties, LenProperties, EmptySeq
<1>2. \A i \in 2 .. Len(q) : q[i].type # "Hello"
  BY DEF Introduction
<1>3. \A i \in 1 .. Len(q) : Introduces(q[i]) => i = 1 \/ (i = 2 /\ q[1] = Hello)
  BY DEF Introduction
<1>4. Introduction(Tail(q))
  <2>1. ASSUME NEW i \in 1 .. Len(q) - 1
        PROVE  /\ Tail(q)[i].type # "Hello"
               /\ Introduces(Tail(q)[i]) => i = 1
    <3>1. i + 1 \in 2 .. Len(q) /\ i + 1 \in 1 .. Len(q) /\ Tail(q)[i] = q[i + 1] /\ i + 1 # 1
      BY <1>1
    <3>2. i + 1 = 2 => i = 1
      OBVIOUS
    <3> QED BY <1>2, <1>3, <3>1, <3>2
  <2> QED BY <1>1, <2>1 DEF Introduction
<1>5. ASSUME Tail(q) # << >>
      PROVE  Head(Tail(q)).type # "Hello" /\ (Introduces(Head(Tail(q))) => Head(q) = Hello)
  <2>1. Len(q) - 1 # 0 /\ Head(Tail(q)) = Tail(q)[1]
    BY <1>1, <1>5, HeadTailProperties, EmptySeq
  <2>2. 2 \in 2 .. Len(q) /\ 2 \in 1 .. Len(q) /\ Head(Tail(q)) = q[2]
    BY <1>1, <2>1
  <2> QED BY <1>1, <1>2, <1>3, <2>2
<1> QED BY <1>4, <1>5

LEMMA IntroductionKept ==
    ASSUME NEW q \in Seq(CRequests), NEW msgs \in Seq(Requests), Introduction(q)
    PROVE  /\ Introduction(q \o msgs)
           /\ q # << >> => Head(q \o msgs) = Head(q)
           /\ q = << >> /\ q \o msgs # << >> => Head(q \o msgs).type = "PackagedRequest"
<1>1. /\ Len(q) \in Nat /\ Len(msgs) \in Nat /\ Len(q \o msgs) = Len(q) + Len(msgs)
      /\ \A i \in 1 .. Len(q) + Len(msgs) :
            (q \o msgs)[i] = IF i <= Len(q) THEN q[i] ELSE msgs[i - Len(q)]
  BY ConcatProperties, LenProperties
<1>2. \A i \in 1 .. Len(msgs) : msgs[i].type = "PackagedRequest"
  <2>1. \A m \in Requests : m.type = "PackagedRequest"
    BY DEF Requests
  <2> QED BY <2>1, ElementOfSeq
<1>3. ASSUME NEW i \in 1 .. Len(q) + Len(msgs)
      PROVE  \/ i \in 1 .. Len(q) /\ (q \o msgs)[i] = q[i]
             \/ i > Len(q) /\ (q \o msgs)[i].type = "PackagedRequest"
  <2>1. CASE i <= Len(q)
    BY <1>1, <2>1
  <2>2. CASE ~(i <= Len(q))
    <3>1. i - Len(q) \in 1 .. Len(msgs) /\ i > Len(q)
      BY <1>1, <2>2
    <3> QED BY <1>1, <1>2, <2>2, <3>1
  <2> QED BY <2>1, <2>2
<1>4. ASSUME NEW i \in 2 .. Len(q) + Len(msgs) PROVE (q \o msgs)[i].type # "Hello"
  <2>1. i \in 1 .. Len(q) + Len(msgs) /\ (i \in 1 .. Len(q) => i \in 2 .. Len(q))
    BY <1>1
  <2> QED BY <1>3, <2>1 DEF Introduction
<1>5. ASSUME NEW i \in 1 .. Len(q) + Len(msgs), Introduces((q \o msgs)[i])
      PROVE  i = 1 \/ (i = 2 /\ (q \o msgs)[1] = Hello)
  <2>1. i \in 1 .. Len(q) /\ (q \o msgs)[i] = q[i]
    BY <1>3, <1>5 DEF Introduces
  <2>2. 1 \in 1 .. Len(q) /\ (q \o msgs)[1] = q[1]
    BY <1>1, <2>1
  <2> QED BY <1>5, <2>1, <2>2 DEF Introduction
<1>6. Introduction(q \o msgs)
  BY <1>1, <1>4, <1>5 DEF Introduction
<1>7. ASSUME q # << >> PROVE Head(q \o msgs) = Head(q)
  <2>1. Len(q) # 0
    BY <1>7, EmptySeq
  <2>2. q \o msgs # << >>
    BY <1>1, <2>1, EmptySeq
  <2>3. 1 \in 1 .. Len(q) /\ (q \o msgs)[1] = q[1]
    BY <1>1, <2>1
  <2> QED BY <1>7, <2>2, <2>3
<1>8. ASSUME q = << >>, q \o msgs # << >> PROVE Head(q \o msgs).type = "PackagedRequest"
  <2>1. q \o msgs = msgs
    BY <1>8, ConcatEmptySeq
  <2>2. Head(msgs) \in Requests
    BY <1>8, <2>1, HeadTailProperties
  <2> QED BY <2>1, <2>2 DEF Requests
<1> QED BY <1>6, <1>7, <1>8
(* The conditions on one connection stay if what they read does. *)
LEMMA ConnectionSurvives ==
    ASSUME NEW c \in Conn, Introduction(up[c]), Expects(c), up'[c] = up[c],
           c \in pendingProfiles' <=> c \in pendingProfiles,
           channelToSession[c] = NoGuid => channelToSession'[c] = NoGuid
    PROVE  Introduction(up'[c]) /\ Expects(c)'
BY DEF Expects

(* Requests may be added to every connection that is open. *)
LEMMA SentUpSurvives ==
    ASSUME TypeOK, NEW msgs \in Seq(Requests), up' = SentUp(msgs),
           UNCHANGED <<readyState, pendingProfiles, channelToSession>>, UnusedUnknown,
           \A c \in Conn : Introduction(up[c]) /\ Expects(c)
    PROVE  UnusedUnknown' /\ \A c \in Conn : Introduction(up'[c]) /\ Expects(c)'
<1>1. up \in [Conn -> Seq(CRequests)] /\ ws \in Conn \cup {NoConn}
  BY DEF TypeOK, NetTypeOK, ClientTypeOK
<1>2. CASE up' = up
  BY <1>2, ConnectionSurvives DEF UnusedUnknown, Unused
<1>3. CASE up' # up
  <2>1. PICK w \in Conn : readyState[w] = "open" /\ up' = [up EXCEPT ![w] = @ \o msgs]
    BY <1>3 DEF SentUp
  <2>2. up'[w] = up[w] \o msgs /\ \A c \in Conn : c # w => up'[c] = up[c]
    BY <1>1, <2>1
  <2>3. UnusedUnknown'
    BY <2>1, <2>2 DEF UnusedUnknown, Unused
  <2>4. ASSUME NEW c \in Conn, c # w PROVE Introduction(up'[c]) /\ Expects(c)'
    BY <2>2, <2>4, ConnectionSurvives
  <2>5. Introduction(up'[w]) /\ Expects(w)'
    <3> DEFINE q == up[w]
               more == up[w] \o msgs
    <3>1. q \in Seq(CRequests) /\ Introduction(q) /\ Expects(w) /\ up'[w] = more
      BY <1>1, <2>1, <2>2
    <3>2. /\ Introduction(more) /\ (q # << >> => Head(more) = Head(q))
          /\ q = << >> /\ more # << >> => Head(more).type = "PackagedRequest"
      BY <3>1, IntroductionKept
    <3> HIDE DEF more
    <3>3. Expects(w)'
      <4>1. CASE q = << >>
        BY <3>1, <3>2, <4>1 DEF Expects, Introduces
      <4>2. CASE q # << >>
        BY <3>1, <3>2, <4>2 DEF Expects
      <4> QED BY <4>1, <4>2
    <3> QED BY <3>1, <3>2, <3>3
  <2> QED BY <2>3, <2>4, <2>5
<1> QED BY <1>2, <1>3

LEMMA ProcessorHandlesSurvives ==
    ASSUME TypeOK, SurvivalInvariant, NEW c \in Conn, ProcessorHandles(c), UNCHANGED clientVars
    PROVE  SurvivalInvariant'
<1> SUFFICES ASSUME clicks = 0
             PROVE  (alive /\ OneLive /\ UnusedUnknown /\ \A d \in Conn : Introduction(up[d]) /\ Expects(d))'
  BY DEF SurvivalInvariant, clientVars
<1> DEFINE q == up[c]
<1>1. alive /\ OneLive /\ UnusedUnknown /\ \A d \in Conn : Introduction(up[d]) /\ Expects(d)
  BY DEF SurvivalInvariant
<1>2. up \in [Conn -> Seq(CRequests)] /\ channelToSession \in [Conn -> guidToSession \cup {NoGuid}]
  BY DEF TypeOK, NetTypeOK, BackendTypeOK
<1>3. PICK type \in {"Hello", "CreateSession", "AttachToSession", "PackagedRequest"} : Takes(c, type)
  BY DEF ProcessorHandles, HandleHello, HandleCreateSession, HandleAttachToSession, HandlePackagedRequest
<1>4. /\ q # << >> /\ Head(q).type = type /\ up' = [up EXCEPT ![c] = Tail(@)] /\ readyState' = readyState
      /\ q \in Seq(CRequests)
  BY <1>2, <1>3 DEF Takes
<1>5. up'[c] = Tail(q) /\ \A d \in Conn : d # c => up'[d] = up[d]
  BY <1>2, <1>4
<1>6. Hello.type = "Hello"
  BY DEF Hello
<1>7. type = "Hello" => c \notin pendingProfiles /\ channelToSession[c] = NoGuid
  BY <1>1, <1>4 DEF Expects
<1>8. type \in {"CreateSession", "AttachToSession"} => c \in pendingProfiles
  BY <1>1, <1>4 DEF Expects, Introduces
<1>9. /\ alive'
      /\ type = "Hello" => c \in pendingProfiles'
      /\ \A d \in Conn : d # c =>
            /\ d \in pendingProfiles' <=> d \in pendingProfiles
            /\ channelToSession[d] = NoGuid => channelToSession'[d] = NoGuid
  <2>1. CASE HandleHello(c)
    <3>1. type = "Hello"
      BY <1>4, <2>1 DEF HandleHello, Takes
    <3> QED BY <1>1, <1>7, <2>1, <3>1 DEF HandleHello
  <2>2. CASE HandleCreateSession(c)
    <3>1. type = "CreateSession"
      BY <1>4, <2>2 DEF HandleCreateSession, Takes
    <3> QED BY <1>1, <1>2, <1>8, <2>2, <3>1 DEF HandleCreateSession
  <2>3. CASE HandleAttachToSession(c)
    <3>1. type = "AttachToSession"
      BY <1>4, <2>3 DEF HandleAttachToSession, Takes
    <3> QED BY <1>1, <1>2, <1>8, <2>3, <3>1 DEF HandleAttachToSession
  <2>4. CASE HandlePackagedRequest(c)
    <3>1. type = "PackagedRequest"
      BY <1>4, <2>4 DEF HandlePackagedRequest, Takes
    <3> QED BY <1>1, <2>4, <3>1 DEF HandlePackagedRequest
  <2> QED BY <2>1, <2>2, <2>3, <2>4 DEF ProcessorHandles
<1>10. OneLive'
  BY <1>1, <1>4 DEF OneLive, Live, clientVars, pageVars
<1>11. UnusedUnknown'
  <2>1. ~Unused(c)
    BY <1>1, <1>4 DEF UnusedUnknown
  <2> QED BY <1>1, <1>4, <1>5, <1>9, <2>1 DEF UnusedUnknown, Unused
<1>12. Introduction(up'[c]) /\ Expects(c)'
  <2> DEFINE rest == Tail(q)
  <2>1. /\ Introduction(rest)
        /\ rest # << >> => Head(rest).type # "Hello" /\ (Introduces(Head(rest)) => Head(q) = Hello)
    BY <1>1, <1>4, IntroductionTaken
  <2> HIDE DEF rest
  <2>2. up'[c] = rest
    BY <1>5 DEF rest
  <2> HIDE DEF q
  <2>3. ASSUME rest # << >>, Introduces(Head(rest)) PROVE c \in pendingProfiles'
    <3>1. type = "Hello"
      BY <1>4, <1>6, <2>1, <2>3
    <3> QED BY <1>9, <3>1
  <2>4. Expects(c)'
    BY <2>1, <2>2, <2>3 DEF Expects
  <2> QED BY <2>1, <2>2, <2>4
<1>13. ASSUME NEW d \in Conn, d # c PROVE Introduction(up'[d]) /\ Expects(d)'
  BY <1>1, <1>5, <1>9, <1>13, ConnectionSurvives
<1> QED BY <1>9, <1>10, <1>11, <1>12, <1>13

LEMMA OpenSocketSurvives ==
    ASSUME TypeOK, SurvivalInvariant, clicks = 0, NEW c \in Conn, Connect(c), UNCHANGED backendVars
    PROVE  (alive /\ OneLive /\ UnusedUnknown /\ \A d \in Conn : Introduction(up[d]) /\ Expects(d))'
<1>1. alive /\ OneLive /\ UnusedUnknown /\ \A d \in Conn : Introduction(up[d]) /\ Expects(d)
  BY DEF SurvivalInvariant
<1>2. /\ alive' = alive /\ pendingProfiles' = pendingProfiles /\ channelToSession' = channelToSession
      /\ up' = up /\ state = "Disconnected" /\ state' = "AwaitingConnect" /\ ws' = c
      /\ readyState[c] = "none" /\ readyState' = [readyState EXCEPT ![c] = "connecting"]
      /\ readyState \in [Conn -> {"none", "connecting", "open", "closed"}]
  BY DEF Connect, OpenSocket, backendVars, commVars, TypeOK, NetTypeOK, Conn
<1>3. readyState'[c] = "connecting" /\ \A d \in Conn : d # c => readyState'[d] = readyState[d]
  BY <1>2
<1>4. OneLive'
  BY <1>1, <1>2, <1>3 DEF OneLive, Live
<1>5. UnusedUnknown'
  BY <1>1, <1>2, <1>3 DEF UnusedUnknown, Unused
<1> QED BY <1>1, <1>2, <1>4, <1>5, ConnectionSurvives

LEMMA TwoAppended ==
    ASSUME NEW m, NEW n
    PROVE  LET q == Append(<<m>>, n)
           IN  Len(q) = 2 /\ q[1] = m /\ q[2] = n /\ q # << >> /\ Head(q) = m
<1> DEFINE q == Append(<<m>>, n)
           S == {m, n}
<1>1. <<m>> \in Seq(S) /\ n \in S /\ Len(<<m>>) = 1 /\ <<m>>[1] = m
  OBVIOUS
<1> HIDE DEF S
<1>2. q \in Seq(S) /\ Len(q) = 2 /\ q[1] = m /\ q[2] = n /\ q # << >>
  BY <1>1, AppendProperties
<1> HIDE DEF q
<1>3. Head(q) = q[1]
  BY <1>2
<1> QED BY <1>2, <1>3 DEF q

LEMMA HandleOpenSurvives ==
    ASSUME TypeOK, SurvivalInvariant, clicks = 0, NEW c \in Conn, HandleOpen(c), UNCHANGED backendVars
    PROVE  (alive /\ OneLive /\ UnusedUnknown /\ \A d \in Conn : Introduction(up[d]) /\ Expects(d))'
<1>1. alive /\ OneLive /\ UnusedUnknown /\ \A d \in Conn : Introduction(up[d]) /\ Expects(d)
  BY DEF SurvivalInvariant
<1>2. /\ alive' = alive /\ pendingProfiles' = pendingProfiles /\ channelToSession' = channelToSession
      /\ ws' = ws /\ readyState[c] = "connecting" /\ readyState' = [readyState EXCEPT ![c] = "open"]
      /\ readyState \in [Conn -> {"none", "connecting", "open", "closed"}] /\ up \in [Conn -> Seq(CRequests)]
  BY DEF HandleOpen, backendVars, commVars, TypeOK, NetTypeOK
<1>3. ws = c /\ readyState'[c] = "open" /\ \A d \in Conn : d # c => readyState'[d] = readyState[d]
  BY <1>1, <1>2 DEF OneLive, Live
<1> DEFINE opening == IF assignedSessionId = NoGuid
                        THEN CreateSession
                        ELSE AttachToSession(assignedSessionId, nextExpectedResponseId)
<1>4. /\ state' = "Connected"
      /\ up' = [[up EXCEPT ![c] = <<Hello>>] EXCEPT ![c] = Append(@, opening)]
  BY <1>3 DEF HandleOpen
<1>5. Introduces(opening) /\ opening.type # "Hello" /\ Hello.type = "Hello" /\ ~Introduces(Hello)
  BY DEF Introduces, CreateSession, AttachToSession, Hello
<1> HIDE DEF opening
<1>6. up'[c] = Append(<<Hello>>, opening) /\ \A d \in Conn : d # c => up'[d] = up[d]
  <2> DEFINE hello == [up EXCEPT ![c] = <<Hello>>]
  <2>1. hello[c] = <<Hello>> /\ DOMAIN hello = Conn /\ \A d \in Conn : d # c => hello[d] = up[d]
    BY <1>2
  <2>2. up' = [hello EXCEPT ![c] = Append(@, opening)]
    BY <1>4
  <2> HIDE DEF hello
  <2> QED BY <2>1, <2>2
<1>7. OneLive'
  BY <1>1, <1>2, <1>3, <1>4 DEF OneLive, Live
<1>8. UnusedUnknown'
  BY <1>1, <1>2, <1>3, <1>6 DEF UnusedUnknown, Unused
<1>9. Introduction(up'[c]) /\ Expects(c)'
  <2> DEFINE q == Append(<<Hello>>, opening)
  <2>1. Len(q) = 2 /\ q[1] = Hello /\ q[2] = opening /\ q # << >> /\ Head(q) = Hello
    BY TwoAppended
  <2>2. c \notin pendingProfiles /\ channelToSession[c] = NoGuid
    BY <1>1, <1>2 DEF UnusedUnknown, Unused
  <2>3. up'[c] = q
    BY <1>6
  <2> HIDE DEF q
  <2>4. \A i \in 1 .. Len(q) : i = 1 \/ i = 2
    BY <2>1
  <2>5. \A i \in 2 .. Len(q) : i = 2
    BY <2>1
  <2>6. Introduction(q)
    BY <1>5, <2>1, <2>4, <2>5 DEF Introduction
  <2>7. Expects(c)'
    BY <1>2, <1>5, <2>1, <2>2, <2>3 DEF Expects
  <2> QED BY <2>3, <2>6, <2>7
<1>10. ASSUME NEW d \in Conn, d # c PROVE Introduction(up'[d]) /\ Expects(d)'
  BY <1>1, <1>2, <1>6, <1>10, ConnectionSurvives
<1> QED BY <1>1, <1>2, <1>7, <1>8, <1>9, <1>10

\* Sockets close; nothing the Processor reads changes.
LEMMA ClosedSurvives ==
    ASSUME SurvivalInvariant, clicks = 0, UNCHANGED <<backendVars, up>>,
           \A d \in Conn : Unused(d)' => Unused(d),
           \A d \in Conn : ~Live(d)'
    PROVE  (alive /\ OneLive /\ UnusedUnknown /\ \A d \in Conn : Introduction(up[d]) /\ Expects(d))'
<1>1. alive /\ OneLive /\ UnusedUnknown /\ \A d \in Conn : Introduction(up[d]) /\ Expects(d)
  BY DEF SurvivalInvariant
<1>2. /\ alive' = alive /\ pendingProfiles' = pendingProfiles /\ channelToSession' = channelToSession
      /\ up' = up
  BY DEF backendVars, commVars
<1>3. OneLive' /\ UnusedUnknown'
  BY <1>1, <1>2 DEF OneLive, UnusedUnknown
<1> QED BY <1>1, <1>2, <1>3, ConnectionSurvives

LEMMA ClientSurvives ==
    ASSUME TypeOK, TypeOK', SurvivalInvariant, ClientNext, UNCHANGED backendVars
    PROVE  SurvivalInvariant'
<1> DEFINE Survives == alive /\ OneLive /\ UnusedUnknown /\ \A d \in Conn : Introduction(up[d]) /\ Expects(d)
<1> SUFFICES ASSUME clicks' = 0 PROVE Survives'
  BY DEF SurvivalInvariant
<1>1. clicks = 0 /\ ~\E c \in Conn : Reconnect(c)
  <2>1. ASSUME NEW c \in Conn, Reconnect(c) PROVE FALSE
    <3>1. clicks \in Nat /\ clicks' = clicks + 1
      BY <2>1 DEF Reconnect, TypeOK, ClientTypeOK
    <3> QED BY <3>1
  <2>2. clicks' = clicks
    BY <2>1 DEF ClientNext, Connect, HandleOpen, HandleClose, Receive, VisitSessionSuccess,
                VisitSessionFailure, VisitPackagedResponse, SendDRequest
  <2> QED BY <2>1, <2>2
<1>2. alive /\ OneLive /\ UnusedUnknown /\ \A d \in Conn : Introduction(up[d]) /\ Expects(d)
  BY <1>1 DEF SurvivalInvariant
<1>3. alive' = alive /\ pendingProfiles' = pendingProfiles /\ channelToSession' = channelToSession
  BY DEF backendVars, commVars
<1>4. readyState \in [Conn -> {"none", "connecting", "open", "closed"}] /\ unacknowledged' \in Seq(Requests)
  BY DEF TypeOK, NetTypeOK, ClientTypeOK
<1>5. ASSUME NEW c \in Conn, Connect(c) PROVE Survives'
  BY <1>1, <1>5, OpenSocketSurvives
<1>6. ASSUME NEW c \in Conn, HandleOpen(c) PROVE Survives'
  BY <1>1, <1>6, HandleOpenSurvives
<1>7. ASSUME NEW c \in Conn, HandleClose(c) PROVE Survives'
  <2>1. /\ readyState[c] \in {"connecting", "open"} /\ readyState' = [readyState EXCEPT ![c] = "closed"]
        /\ up' = up
    BY <1>7 DEF HandleClose
  <2>2. \A d \in Conn : Live(d) => d = c
    BY <1>2, <2>1 DEF OneLive, Live
  <2>3. \A d \in Conn : ~Live(d)' /\ (Unused(d)' => Unused(d))
    BY <1>4, <2>1, <2>2 DEF Live, Unused
  <2> QED BY <1>1, <2>1, <2>3, ClosedSurvives
<1>8. ASSUME NEW c \in Conn, VisitSessionFailure(c) PROVE Survives'
  <2>1. /\ readyState' = [d \in Conn |-> IF d \in Opened THEN "closed" ELSE "none"]
        /\ up' = up
    BY <1>8 DEF VisitSessionFailure
  <2>2. \A d \in Conn : ~Live(d)' /\ (Unused(d)' => Unused(d))
    BY <1>4, <2>1 DEF Live, Unused, Opened
  <2> QED BY <1>1, <2>1, <2>2, ClosedSurvives
<1>9. ASSUME NEW msgs \in Seq(Requests), up' = SentUp(msgs), UNCHANGED <<readyState, ws>>,
             state' = "Disconnected" => state = "Disconnected"
      PROVE  Survives'
  <2>1. OneLive'
    BY <1>2, <1>9 DEF OneLive, Live
  <2>2. UnusedUnknown' /\ \A d \in Conn : Introduction(up'[d]) /\ Expects(d)'
    BY <1>2, <1>3, <1>9, SentUpSurvives
  <2> QED BY <1>2, <1>3, <2>1, <2>2
<1>10. ASSUME NEW c \in Conn, VisitSessionSuccess(c) PROVE Survives'
  BY <1>4, <1>9, <1>10 DEF VisitSessionSuccess, CatchUp
<1>11. ASSUME up' = up, UNCHANGED <<readyState, ws, state>> PROVE Survives'
  <2>1. OneLive' /\ UnusedUnknown'
    BY <1>2, <1>3, <1>11 DEF OneLive, Live, UnusedUnknown, Unused
  <2> QED BY <1>2, <1>3, <1>11, <2>1, ConnectionSurvives
<1>12. ASSUME NEW c \in Conn, VisitPackagedResponse(c) PROVE Survives'
  BY <1>11, <1>12 DEF VisitPackagedResponse
<1>13. CASE SendDRequest
  <2> DEFINE pr == PackagedRequest(nextRequestId, nextExpectedResponseId, bodies + 1)
  <2>1. pr \in Requests
    BY MessageTypes DEF TypeOK, ClientTypeOK
  <2>2. /\ up' = IF state = "AttachedToSession" THEN SentUp(<<pr>>) ELSE up
        /\ UNCHANGED <<readyState, state, ws>>
    BY <1>13 DEF SendDRequest
  <2> HIDE DEF pr
  <2>3. <<pr>> \in Seq(Requests)
    BY <2>1
  <2> QED BY <1>9, <1>11, <2>2, <2>3
<1> HIDE DEF Survives
<1> QED BY <1>1, <1>5, <1>6, <1>7, <1>8, <1>10, <1>12, <1>13 DEF ClientNext, Receive

LEMMA InitSurvival == Init => SurvivalInvariant
BY DEF Init, NetInit, ClientInit, BackendInit, SurvivalInvariant, OneLive, Live, UnusedUnknown, Unused,
       Introduction, Expects

LEMMA BackendSurvives ==
    ASSUME TypeOK, SurvivalInvariant, BackendNext, UNCHANGED clientVars
    PROVE  SurvivalInvariant'
<1>1. CASE \E c \in Conn : ProcessorHandles(c)
  BY <1>1, ProcessorHandlesSurvives
<1>2. CASE UNCHANGED <<readyState, up, pendingProfiles, channelToSession, alive>>
  <2>1. UNCHANGED <<ws, state, clicks>>
    BY DEF clientVars, pageVars
  <2> QED BY <1>2, <2>1 DEF SurvivalInvariant, OneLive, Live, UnusedUnknown, Unused, Expects
<1>3. CASE Restart
  <2>1. /\ up' = [c \in Conn |-> << >>] /\ pendingProfiles' = {} /\ alive'
        /\ channelToSession' = [c \in Conn |-> NoGuid]
        /\ UNCHANGED <<readyState, ws, state, clicks>>
    BY <1>3 DEF Restart, clientVars, pageVars
  <2>2. Introduction(<< >>)
    BY DEF Introduction
  <2> QED BY <2>1, <2>2 DEF SurvivalInvariant, OneLive, Live, UnusedUnknown, Unused, Expects
<1>4. CASE ProcessorContinues
  BY <1>2, <1>4 DEF ProcessorContinues, AttachReply, CatchupRange, CatchupSend, ProcessorStep
<1>5. CASE ServerNext
  BY <1>2, <1>5 DEF ServerNext, HandleRequest, NumberResponse, RecordResponse, SendResponse, ServerStep, commVars
<1> QED BY <1>1, <1>3, <1>4, <1>5 DEF BackendNext

(* As long as nobody uses the reconnect link, no handler of the Processor      *)
(* fails, which would end the thread that serves everybody: every connection   *)
(* says Hello, asks for one session, and only then sends requests, whatever    *)
(* breaks, restarts or is sent again.                                          *)
THEOREM ProcessorStaysAlive == Spec => []ProcessorSurvives
<1>1. TypeOK /\ TypeOK' /\ SurvivalInvariant /\ [Next]_vars => SurvivalInvariant'
  <2> SUFFICES ASSUME TypeOK, TypeOK', SurvivalInvariant, [Next]_vars PROVE SurvivalInvariant'
    OBVIOUS
  <2>1. CASE ClientNext /\ UNCHANGED backendVars
    BY <2>1, ClientSurvives
  <2>2. CASE BackendNext /\ UNCHANGED clientVars
    BY <2>2, BackendSurvives
  <2>3. ASSUME UNCHANGED <<readyState, up, clientVars, backendVars>> PROVE SurvivalInvariant'
    <3>1. UNCHANGED <<readyState, up, ws, state, clicks, pendingProfiles, channelToSession, alive>>
      BY <2>3 DEF clientVars, pageVars, backendVars, commVars
    <3> QED BY <3>1 DEF SurvivalInvariant, OneLive, Live, UnusedUnknown, Unused, Expects
  <2>4. ASSUME NEW c \in Conn, Break(c), UNCHANGED <<clientVars, backendVars>> PROVE SurvivalInvariant'
    BY <2>3, <2>4 DEF Break
  <2>5. CASE UNCHANGED vars
    BY <2>3, <2>5 DEF vars, netVars
  <2> QED BY <2>1, <2>2, <2>4, <2>5 DEF Next
<1>2. SurvivalInvariant => ProcessorSurvives
  BY DEF SurvivalInvariant, ProcessorSurvives, ControlMessageFirst, Introduction, Introduces
<1> QED BY InitSurvival, TypeCorrect, <1>1, <1>2, PTL DEF Spec
===============================================================================
