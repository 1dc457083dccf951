--------------------------- MODULE SessionStreamProofs ---------------------------
(***************************************************************************)
(* The page sees the responses of its session once and in order, the       *)
(* Server executes the requests of the page once and in order, and the     *)
(* session layer implements ReliableStream, for every number of            *)
(* connections, requests, responses, breaks, clicks and restarts.  What is *)
(* about responses holds until a page uses its reconnect link before it    *)
(* has a session (clickedEarly): until then DeliveryOK is inductive.  What *)
(* is about requests always holds: RequestInvariant is inductive.          *)
(***************************************************************************)
EXTENDS SessionInvariant, SessionProofs

-------------------------------------------------------------------------------
(* Responses                                                                   *)

-------------------------------------------------------------------------------
(* What is in a queue after its operations. *)
LEMMA QueueElements ==
    ASSUME NEW S, NEW q \in Seq(S)
    PROVE  /\ ToSet(q) \in SUBSET S
           /\ q # << >> => Head(q) \in ToSet(q) /\ ToSet(Tail(q)) \subseteq ToSet(q)
<1>1. Len(q) \in Nat /\ DOMAIN q = 1 .. Len(q) /\ \A i \in 1 .. Len(q) : q[i] \in S
  BY ElementOfSeq, LenProperties
<1>2. ToSet(q) \in SUBSET S
  BY <1>1 DEF ToSet
<1>3. ASSUME q # << >> PROVE Head(q) \in ToSet(q) /\ ToSet(Tail(q)) \subseteq ToSet(q)
  <2>1. /\ Head(q) = q[1]
        /\ DOMAIN Tail(q) = 1 .. (Len(q) - 1)
        /\ \A i \in 1 .. (Len(q) - 1) : Tail(q)[i] = q[i + 1]
        /\ Len(q) # 0
    BY <1>1, <1>3, HeadTailProperties, LenProperties, EmptySeq
  <2>2. 1 \in DOMAIN q /\ \A i \in 1 .. (Len(q) - 1) : i + 1 \in DOMAIN q
    BY <1>1, <2>1
  <2> QED BY <2>1, <2>2 DEF ToSet
<1> QED BY <1>2, <1>3

LEMMA AppendElements ==
    ASSUME NEW S, NEW q \in Seq(S), NEW m \in S
    PROVE  /\ ToSet(Append(q, m)) \subseteq ToSet(q) \cup {m}
           /\ Append(q, m) # << >>
           /\ Head(Append(q, m)) = IF q = << >> THEN m ELSE Head(q)
<1>1. Len(q) \in Nat /\ DOMAIN q = 1 .. Len(q)
  BY LenProperties
<1>2. /\ DOMAIN Append(q, m) = 1 .. (Len(q) + 1)
      /\ \A i \in 1 .. Len(q) : Append(q, m)[i] = q[i]
      /\ Append(q, m)[Len(q) + 1] = m
  BY <1>1, AppendProperties, LenProperties
<1>3. ASSUME NEW i \in 1 .. (Len(q) + 1) PROVE Append(q, m)[i] \in ToSet(q) \cup {m}
  <2>1. i \in 1 .. Len(q) \/ i = Len(q) + 1
    BY <1>1
  <2> QED BY <1>1, <1>2, <2>1 DEF ToSet
<1>4. ToSet(Append(q, m)) \subseteq ToSet(q) \cup {m}
  BY <1>2, <1>3 DEF ToSet
<1>5. Append(q, m) # << >> /\ Head(Append(q, m)) = Append(q, m)[1]
  BY <1>1, <1>2
<1>6. CASE q = << >>
  <2>1. Len(q) = 0
    BY <1>6, EmptySeq
  <2> QED BY <1>2, <1>4, <1>5, <1>6, <2>1
<1>7. CASE q # << >>
  <2>1. Len(q) # 0 /\ Head(q) = q[1]
    BY <1>7, EmptySeq
  <2>2. 1 \in 1 .. Len(q)
    BY <1>1, <2>1
  <2> QED BY <1>2, <1>4, <1>5, <1>7, <2>1, <2>2
<1> QED BY <1>6, <1>7

LEMMA ConcatElements ==
    ASSUME NEW S, NEW q \in Seq(S), NEW r \in Seq(S)
    PROVE  ToSet(q \o r) \subseteq ToSet(q) \cup ToSet(r)
<1>1. /\ Len(q) \in Nat /\ DOMAIN q = 1 .. Len(q)
      /\ Len(r) \in Nat /\ DOMAIN r = 1 .. Len(r)
      /\ DOMAIN (q \o r) = 1 .. (Len(q) + Len(r))
      /\ \A i \in 1 .. (Len(q) + Len(r)) :
            (q \o r)[i] = IF i <= Len(q) THEN q[i] ELSE r[i - Len(q)]
  BY ConcatProperties, LenProperties
<1>2. ASSUME NEW i \in 1 .. (Len(q) + Len(r)) PROVE (q \o r)[i] \in ToSet(q) \cup ToSet(r)
  <2>1. CASE i <= Len(q)
    BY <1>1, <2>1 DEF ToSet
  <2>2. CASE ~(i <= Len(q))
    <3>1. i - Len(q) \in 1 .. Len(r)
      BY <1>1, <2>2
    <3> QED BY <1>1, <2>2, <3>1 DEF ToSet
  <2> QED BY <2>1, <2>2
<1> QED BY <1>1, <1>2 DEF ToSet

LEMMA PopAckedElements ==
    ASSUME NEW S, NEW q \in Seq(S), NEW next \in Nat, \A s \in S : s.id \in Nat
    PROVE  ToSet(PopAcked(q, next)) \subseteq ToSet(q)
<1>1. PICK k \in 0 .. Len(q) : PopAcked(q, next) = SubSeq(q, k + 1, Len(q))
  BY PopAckedProperties
<1>2. Len(q) \in Nat /\ DOMAIN q = 1 .. Len(q) /\ \A i \in (k + 1) .. Len(q) : q[i] \in S
  BY ElementOfSeq, LenProperties
<1> DEFINE r == SubSeq(q, k + 1, Len(q))
<1>3. /\ r \in Seq(S)
      /\ Len(r) = Len(q) - k
      /\ \A i \in 1 .. Len(r) : r[i] = q[k + i]
  <2>1. /\ r \in Seq(S)
        /\ Len(r) = IF k + 1 <= Len(q) THEN Len(q) - (k + 1) + 1 ELSE 0
        /\ \A i \in 1 .. (Len(q) - (k + 1) + 1) : r[i] = q[(k + 1) + i - 1]
    BY <1>2, SubSeqProperties
  <2> HIDE DEF r
  <2>2. Len(r) = Len(q) - k
    <3>1. k \in Nat /\ k <= Len(q) /\ Len(q) \in Nat
      BY <1>2
    <3>2. CASE k + 1 <= Len(q)
      BY <1>2, <2>1, <3>1, <3>2
    <3>3. CASE ~(k + 1 <= Len(q))
      <4>1. Len(r) = 0
        BY <2>1, <3>3
      <4>2. k = Len(q)
        BY <3>1, <3>3
      <4> QED BY <3>1, <4>1, <4>2
    <3> QED BY <3>2, <3>3
  <2>3. \A i \in 1 .. Len(r) : (k + 1) + i - 1 = k + i
    BY <1>2, <2>2
  <2>4. 1 .. Len(r) = 1 .. (Len(q) - (k + 1) + 1)
    BY <1>2, <2>2
  <2> QED BY <2>1, <2>2, <2>3, <2>4
<1> HIDE DEF r
<1>4. DOMAIN r = 1 .. Len(r)
  BY <1>3, LenProperties
<1>5. \A i \in 1 .. Len(r) : k + i \in DOMAIN q
  BY <1>2, <1>3
<1> QED BY <1>1, <1>3, <1>4, <1>5 DEF ToSet, r

-------------------------------------------------------------------------------
(* What the steps do to the connections. *)

LEMMA SentDownEffect ==
    ASSUME TypeOK, NEW c \in Conn, NEW m \in CResponses, down' = SentDown(c, <<m>>)
    PROVE  \A d \in Conn :
              /\ d # c \/ readyState[c] # "open" => down'[d] = down[d]
              /\ ToSet(down'[d]) \subseteq ToSet(down[d]) \cup {m}
              /\ down'[d] = << >> => down[d] = << >>
              /\ down[d] # << >> => Head(down'[d]) = Head(down[d])
              /\ down[d] = << >> /\ down'[d] # << >> => Head(down'[d]) = m
<1>1. /\ down \in [Conn -> Seq(CResponses)]
      /\ down' = IF readyState[c] = "open" THEN [down EXCEPT ![c] = @ \o <<m>>] ELSE down
  BY DEF TypeOK, NetTypeOK, SentDown
<1>2. CASE readyState[c] # "open"
  BY <1>1, <1>2
<1>3. CASE readyState[c] = "open"
  <2>1. down[c] \in Seq(CResponses)
    BY <1>1
  <2>2. PICK r \in Seq(CResponses) : r = down[c] \o <<m>> /\ r = Append(down[c], m)
    BY <2>1, AppendIsConcat, AppendProperties
  <2>3. /\ down'[c] = r
        /\ \A d \in Conn : d # c => down'[d] = down[d]
    BY <1>1, <1>3, <2>2
  <2>4. /\ ToSet(r) \subseteq ToSet(down[c]) \cup {m}
        /\ r # << >>
        /\ down[c] # << >> => Head(r) = Head(down[c])
        /\ down[c] = << >> => Head(r) = m
    <3>1. /\ ToSet(Append(down[c], m)) \subseteq ToSet(down[c]) \cup {m}
          /\ Append(down[c], m) # << >>
          /\ Head(Append(down[c], m)) = IF down[c] = << >> THEN m ELSE Head(down[c])
      BY <2>1, AppendElements, Zenon
    <3>2. r = Append(down[c], m)
      BY <2>2
    <3> QED BY <3>1, <3>2, Zenon
  <2>5. ASSUME NEW d \in Conn, d # c PROVE down'[d] = down[d]
    BY <2>3, <2>5
  <2> QED BY <1>3, <2>3, <2>4, <2>5, Zenon
<1> QED BY <1>2, <1>3

LEMMA SentUpEffect ==
    ASSUME TypeOK, NEW msgs \in Seq(CRequests), up' = SentUp(msgs)
    PROVE  \A d \in Conn :
              /\ d # ws \/ readyState[d] # "open" => up'[d] = up[d]
              /\ ToSet(up'[d]) \subseteq ToSet(up[d]) \cup ToSet(msgs)
<1>1. /\ up \in [Conn -> Seq(CRequests)]
      /\ up' = IF ws \in Conn /\ readyState[ws] = "open"
                 THEN [up EXCEPT ![ws] = @ \o msgs] ELSE up
  BY DEF TypeOK, NetTypeOK, SentUp
<1>2. CASE ~(ws \in Conn /\ readyState[ws] = "open")
  BY <1>1, <1>2
<1>3. CASE ws \in Conn /\ readyState[ws] = "open"
  <2>1. ToSet(up[ws] \o msgs) \subseteq ToSet(up[ws]) \cup ToSet(msgs)
    BY <1>1, <1>3, ConcatElements
  <2> QED BY <1>1, <1>3, <2>1
<1> QED BY <1>2, <1>3

LEMMA TakesEffect ==
    ASSUME TypeOK, NEW c \in Conn, NEW type, Takes(c, type)
    PROVE  /\ up[c] # << >>
           /\ Head(up[c]) \in CRequests
           /\ Head(up[c]) \in ToSet(up[c])
           /\ Head(up[c]).type = type
           /\ \A d \in Conn : ToSet(up'[d]) \subseteq ToSet(up[d])
           /\ \A d \in Conn : d # c => up'[d] = up[d]
           /\ up'[c] = Tail(up[c])
<1>1. up \in [Conn -> Seq(CRequests)] /\ up' = [up EXCEPT ![c] = Tail(@)]
  BY DEF TypeOK, NetTypeOK, Takes
<1>2. up[c] # << >> /\ up[c] \in Seq(CRequests) /\ Head(up[c]).type = type
  BY <1>1 DEF Takes
<1>3. Head(up[c]) \in ToSet(up[c]) /\ ToSet(Tail(up[c])) \subseteq ToSet(up[c])
  BY <1>2, QueueElements
<1>4. Head(up[c]) \in CRequests
  BY <1>2, HeadTailProperties
<1> QED BY <1>1, <1>2, <1>3, <1>4

LEMMA ArrivesEffect ==
    ASSUME TypeOK, NEW c \in Conn, NEW type, Arrives(c, type),
           down' = [down EXCEPT ![c] = Tail(@)]
    PROVE  /\ readyState[c] = "open"
           /\ down[c] # << >>
           /\ Head(down[c]) \in CResponses
           /\ Head(down[c]) \in ToSet(down[c])
           /\ Head(down[c]).type = type
           /\ \A d \in Conn : ToSet(down'[d]) \subseteq ToSet(down[d])
           /\ \A d \in Conn : d # c => down'[d] = down[d]
<1>1. down \in [Conn -> Seq(CResponses)]
  BY DEF TypeOK, NetTypeOK
<1>2. /\ down[c] # << >> /\ down[c] \in Seq(CResponses) /\ Head(down[c]).type = type
      /\ readyState[c] = "open"
  BY <1>1 DEF Arrives
<1>3. Head(down[c]) \in ToSet(down[c]) /\ ToSet(Tail(down[c])) \subseteq ToSet(down[c])
  BY <1>2, QueueElements
<1>4. Head(down[c]) \in CResponses
  BY <1>2, HeadTailProperties
<1> QED BY <1>1, <1>2, <1>3, <1>4

-------------------------------------------------------------------------------
\* m is a message of session g: its SessionSuccess, or a response it numbered.
Speaks(g, m) ==
    \/ m.type = "SessionSuccess" /\ m.guid = g
    \/ m.type = "PackagedResponse" /\ Numbered(g, m)

(* The page keeps its part of the invariant while the backend consumes messages, *)
(* produces responses, drops connections or sends one message of the session     *)
(* a connection is held for.                                                     *)
LEMMA QuietStep ==
    ASSUME TypeOK, TypeOK', UnusedSilent, PreSessionBlank, Fresh, AtHome, Delivered,
           UNCHANGED <<readyState, pageVars>>,
           \A c \in Conn : Unused(c) =>
               /\ up'[c] = up[c] /\ down'[c] = down[c]
               /\ c \in pendingProfiles' => c \in pendingProfiles,
           \A c \in Conn : ToSet(up'[c]) \subseteq ToSet(up[c]),
           \A c \in Conn : PreSession(c)' => PreSession(c),
           \A c \in Conn, g \in Guid : Serves(c, g)' => Serves(c, g),
           guidToSession' \subseteq guidToSession,
           \A c \in Conn : PreSession(c) => produced'[c] = produced[c],
           \A g \in Guid :
               /\ Len(produced[g]) <= Len(produced'[g]) /\ Len(produced'[g]) \in Nat
               /\ \A i \in 1 .. Len(produced[g]) : produced'[g][i] = produced[g][i],
           \/ down' = down
           \/ \E c \in Conn, g \in Guid, m \in CResponses :
                 Serves(c, g) /\ Speaks(g, m) /\ down' = SentDown(c, <<m>>)
    PROVE  UnusedSilent' /\ PreSessionBlank' /\ Fresh' /\ AtHome' /\ Delivered'
<1>1. \A d \in Conn :
         /\ \A m \in ToSet(down'[d]) :
               m \in ToSet(down[d]) \/ \E g \in Guid : Serves(d, g) /\ Speaks(g, m)
         /\ down'[d] = down[d] \/ \E g \in Guid : Serves(d, g)
         /\ down'[d] = << >> => down[d] = << >>
         /\ down[d] # << >> => Head(down'[d]) = Head(down[d])
  <2>1. CASE down' = down
    BY <2>1, Zenon
  <2>2. ASSUME NEW c \in Conn, NEW g \in Guid, NEW m \in CResponses,
               Serves(c, g), Speaks(g, m), down' = SentDown(c, <<m>>)
        PROVE  \A d \in Conn :
                 /\ \A n \in ToSet(down'[d]) :
                     n \in ToSet(down[d]) \/ \E h \in Guid : Serves(d, h) /\ Speaks(h, n)
                 /\ down'[d] = down[d] \/ \E h \in Guid : Serves(d, h)
                 /\ down'[d] = << >> => down[d] = << >>
                 /\ down[d] # << >> => Head(down'[d]) = Head(down[d])
    <3>1. \A d \in Conn :
              /\ d # c => down'[d] = down[d]
              /\ \A n \in ToSet(down'[d]) : n \in ToSet(down[d]) \/ n = m
              /\ down'[d] = << >> => down[d] = << >>
              /\ down[d] # << >> => Head(down'[d]) = Head(down[d])
      BY <2>2, SentDownEffect
    <3> QED BY <2>2, <3>1, Zenon
  <2> QED BY <2>1, <2>2, Zenon
<1>2. UnusedSilent'
  BY DEF UnusedSilent, Unused
<1>3. PreSessionBlank'
  <2> SUFFICES ASSUME NEW c \in Conn, PreSession(c)'
               PROVE  (/\ c \notin guidToSession
                       /\ produced[c] = << >>
                       /\ assignedSessionId # c
                       /\ \A g \in Guid : ~Serves(c, g)
                       /\ \A m \in ToSet(down[c]) : m.type = "SessionFailure")'
    BY Zenon DEF PreSessionBlank
  <2>1. /\ PreSession(c)
        /\ c \notin guidToSession /\ produced[c] = << >> /\ assignedSessionId # c
        /\ \A g \in Guid : ~Serves(c, g)
        /\ \A m \in ToSet(down[c]) : m.type = "SessionFailure"
    BY Zenon DEF PreSessionBlank
  <2>2. assignedSessionId' = assignedSessionId
    BY DEF pageVars
  <2> QED BY <1>1, <2>1, <2>2
<1>4. /\ assignedSessionId' = assignedSessionId /\ delivered' = delivered
      /\ state' = state /\ ws' = ws /\ nextExpectedResponseId' = nextExpectedResponseId
      /\ \A c \in Conn : Live(c)' <=> Live(c)
      /\ \A c \in Conn : Home(c)' = Home(c)
  BY DEF pageVars, Live, Home
<1>5. Fresh'
  <2> SUFFICES ASSUME assignedSessionId = NoGuid
               PROVE  /\ delivered' = << >>
                      /\ \A c \in Conn : Live(c)' =>
                            /\ state' # "Disconnected"
                            /\ ws' = c
                            /\ down'[c] = << >> => \A g \in Guid : ~Serves(c, g)'
                            /\ down'[c] # << >> => Head(down'[c]).type = "SessionSuccess"
    BY <1>4, Zenon DEF Fresh
  <2>1. delivered = << >>
    BY DEF Fresh
  <2>2. ASSUME NEW c \in Conn, Live(c)
        PROVE  /\ state # "Disconnected" /\ ws = c
               /\ down[c] = << >> => \A g \in Guid : ~Serves(c, g)
               /\ down[c] # << >> => Head(down[c]).type = "SessionSuccess"
    BY <2>2 DEF Fresh
  <2>3. ASSUME NEW c \in Conn, Live(c)
        PROVE  /\ down'[c] = << >> => \A g \in Guid : ~Serves(c, g)'
               /\ down'[c] # << >> => Head(down'[c]).type = "SessionSuccess"
    <3>1. CASE down[c] = << >>
      <4>1. down'[c] = << >> /\ \A g \in Guid : ~Serves(c, g)
        BY <1>1, <2>2, <2>3, <3>1, Zenon
      <4> QED BY <4>1
    <3>2. CASE down[c] # << >>
      BY <1>1, <2>2, <2>3, <3>2, Zenon
    <3> QED BY <3>1, <3>2
  <2> QED BY <1>4, <2>1, <2>2, <2>3, Zenon
<1>6. \A g \in Guid, m \in Responses : Numbered(g, m) => Numbered(g, m)'
  <2> SUFFICES ASSUME NEW g \in Guid, NEW m \in Responses, Numbered(g, m)
               PROVE  Numbered(g, m)'
    OBVIOUS
  <2>1. m.id \in Nat /\ m.id < Len(produced[g]) /\ m.body = produced[g][m.id + 1]
    BY MessageShapes DEF Numbered
  <2>2. Len(produced[g]) \in Nat
    BY LenProperties DEF TypeOK, BackendTypeOK
  <2>3. m.id + 1 \in 1 .. Len(produced[g])
    BY <2>1, <2>2
  <2>4. produced'[g][m.id + 1] = produced[g][m.id + 1]
    BY <2>3
  <2>5. m.id < Len(produced'[g])
    BY <2>1, <2>2
  <2> QED BY <2>1, <2>4, <2>5 DEF Numbered
<1>7. AtHome'
  <2> SUFFICES ASSUME NEW c \in Conn, Live(c)
               PROVE  /\ \A m \in ToSet(up'[c]) : Asks(c, m)'
                      /\ \A m \in ToSet(down'[c]) : Answers(c, m)'
                      /\ \A g \in Guid : Serves(c, g)' => g = Home(c)'
    BY <1>4, Zenon DEF AtHome
  <2>1. /\ \A m \in ToSet(up[c]) : Asks(c, m)
        /\ \A m \in ToSet(down[c]) : Answers(c, m)
        /\ \A g \in Guid : Serves(c, g) => g = Home(c)
    BY Zenon DEF AtHome
  <2>2. \A m \in ToSet(up'[c]) : Asks(c, m)'
    BY <1>4, <2>1 DEF Asks
  <2>3. ASSUME NEW m \in ToSet(down'[c]) PROVE Answers(c, m)'
    <3>1. Home(c) \in Guid
      BY DEF Home, Guid, TypeOK, ClientTypeOK
    <3>2. down' \in [Conn -> Seq(CResponses)] /\ m \in CResponses
      <4>1. down' \in [Conn -> Seq(CResponses)]
        BY DEF TypeOK, NetTypeOK
      <4> QED BY <4>1, QueueElements
    <3>3. Answers(c, m)
      <4>1. CASE m \in ToSet(down[c])
        BY <2>1, <4>1
      <4>2. ASSUME NEW g \in Guid, Serves(c, g), Speaks(g, m) PROVE Answers(c, m)
        <5>1. g = Home(c)
          BY <2>1, <4>2
        <5> QED BY <4>2, <5>1 DEF Speaks, Answers
      <4> QED BY <1>1, <4>1, <4>2
    <3>4. m.type = "PackagedResponse" => m \in Responses
      BY <3>2, MessageShapes
    <3> QED BY <1>4, <1>6, <3>1, <3>3, <3>4 DEF Answers
  <2> QED BY <1>4, <2>1, <2>2, <2>3
<1>8. Delivered'
  <2>1. nextExpectedResponseId' = Len(delivered')
    BY <1>4 DEF Delivered
  <2>2. ASSUME assignedSessionId # NoGuid
        PROVE  /\ Len(delivered) <= Len(produced'[assignedSessionId])
               /\ \A i \in 1 .. Len(delivered) : delivered[i] = produced'[assignedSessionId][i]
    <3>1. assignedSessionId \in Guid
      BY <2>2 DEF TypeOK, ClientTypeOK
    <3>2. /\ Len(delivered) <= Len(produced[assignedSessionId])
          /\ \A i \in 1 .. Len(delivered) : delivered[i] = produced[assignedSessionId][i]
      BY <2>2 DEF Delivered
    <3>3. Len(delivered) \in Nat /\ Len(produced[assignedSessionId]) \in Nat
      BY <3>1, LenProperties DEF TypeOK, ClientTypeOK, BackendTypeOK
    <3> QED BY <3>1, <3>2, <3>3
  <2> QED BY <1>4, <2>1, <2>2 DEF Delivered
<1> QED BY <1>2, <1>3, <1>5, <1>7, <1>8

-------------------------------------------------------------------------------
(* The Processor's steps. *)

(* After the first message nothing in flight is a Hello. *)
LEMMA TakesHelloFirst ==
    ASSUME TypeOK, HelloFirst, NEW c \in Conn, NEW type, Takes(c, type)
    PROVE  /\ HelloFirst'
           /\ \A m \in ToSet(up'[c]) : m.type # "Hello"
           /\ ~Unused(c) \/ ~UnusedSilent
<1> DEFINE q == up[c]
<1>1. q \in Seq(CRequests) /\ q # << >> /\ up'[c] = Tail(q)
  BY TakesEffect DEF TypeOK, NetTypeOK
<1>2. \A i \in 2 .. Len(q) : q[i].type # "Hello"
  BY DEF HelloFirst
<1> HIDE DEF q
<1>3. /\ Tail(q) \in Seq(CRequests)
      /\ Len(Tail(q)) = Len(q) - 1 /\ Len(q) \in Nat
      /\ DOMAIN Tail(q) = 1 .. Len(Tail(q))
      /\ \A i \in 1 .. Len(Tail(q)) : Tail(q)[i] = q[i + 1]
  BY <1>1, HeadTailProperties, LenProperties
<1>4. \A i \in 1 .. Len(Tail(q)) : i + 1 \in 2 .. Len(q)
  BY <1>3
<1>5. \A i \in 1 .. Len(Tail(q)) : Tail(q)[i].type # "Hello"
  BY <1>2, <1>3, <1>4
<1>6. \A m \in ToSet(up'[c]) : m.type # "Hello"
  BY <1>1, <1>3, <1>5 DEF ToSet
<1>7. HelloFirst'
  <2> SUFFICES ASSUME NEW d \in Conn, NEW i \in 2 .. Len(up'[d])
               PROVE  up'[d][i].type # "Hello"
    BY DEF HelloFirst
  <2>1. CASE d = c
    <3>1. i \in 1 .. Len(Tail(q))
      BY <1>1, <1>3, <2>1
    <3> QED BY <1>1, <1>5, <2>1, <3>1
  <2>2. CASE d # c
    BY <2>2, TakesEffect DEF HelloFirst
  <2> QED BY <2>1, <2>2
<1>8. ~Unused(c) \/ ~UnusedSilent
  BY <1>1 DEF UnusedSilent, q
<1> QED BY <1>6, <1>7, <1>8

(* Taking a message that makes no session and answers nothing. *)
LEMMA TakenQuietly ==
    ASSUME TypeOK, TypeOK', DeliveryOK, UNCHANGED clientVars,
           NEW c \in Conn, NEW type, Takes(c, type),
           UNCHANGED <<down, guidToSession, channel, processor>>,
           pendingProfiles' \subseteq
               pendingProfiles \cup (IF type = "Hello" THEN {c} ELSE {}),
           \A g \in Guid :
               /\ rb'[g].nextOutgoingId = rb[g].nextOutgoingId
               /\ ToSet(rb'[g].unacknowledged) \subseteq ToSet(rb[g].unacknowledged)
    PROVE  DeliveryOK'
<1> USE DEF DeliveryOK
<1>1. HelloFirst' /\ ~Unused(c) /\ \A m \in ToSet(up'[c]) : m.type # "Hello"
  BY TakesHelloFirst
<1>2. UNCHANGED <<readyState, server, produced, pageVars>>
  BY DEF Takes, clientVars
<1>3. \A d \in Conn : Unused(d) =>
         /\ up'[d] = up[d] /\ down'[d] = down[d]
         /\ d \in pendingProfiles' => d \in pendingProfiles
  BY <1>1, TakesEffect
<1>4. \A d \in Conn : ToSet(up'[d]) \subseteq ToSet(up[d])
  BY TakesEffect
<1>5. type = "Hello" => PreSession(c)
  BY TakesEffect DEF PreSession
<1>6. ASSUME NEW d \in Conn, PreSession(d)' PROVE PreSession(d)
  <2>1. Unused(d)' => Unused(d)
    BY <1>2 DEF Unused
  <2>2. d \in pendingProfiles' => PreSession(d)
    BY <1>5 DEF PreSession
  <2> QED BY <1>4, <1>6, <2>1, <2>2 DEF PreSession
<1>7. \A d \in Conn, g \in Guid : Serves(d, g)' => Serves(d, g)
  BY <1>2 DEF Serves, MapHolds, ServerHolds, ProcessorHolds
<1>8. \A g \in Guid : Len(produced[g]) \in Nat
  BY LenProperties DEF TypeOK, BackendTypeOK
<1>9. UnusedSilent' /\ PreSessionBlank' /\ Fresh' /\ AtHome' /\ Delivered'
  BY <1>2, <1>3, <1>4, <1>6, <1>7, <1>8, QuietStep
<1>10. Counted'
  <2>1. guidToSession \subseteq Guid
    BY DEF TypeOK, BackendTypeOK
  <2> QED BY <1>2, <2>1 DEF Counted, Numbered
<1> QED BY <1>1, <1>9, <1>10

LEMMA HandleHelloDelivery ==
    ASSUME TypeOK, TypeOK', DeliveryOK, UNCHANGED clientVars,
           NEW c \in Conn, HandleHello(c)
    PROVE  DeliveryOK'
<1>1. Takes(c, "Hello")
  BY DEF HandleHello
<1>2. UNCHANGED <<down, guidToSession, channel, processor, rb>>
  BY DEF HandleHello, ProcessorFails
<1>3. pendingProfiles' \subseteq pendingProfiles \cup {c}
  BY DEF HandleHello, ProcessorFails
<1> QED BY <1>1, <1>2, <1>3, TakenQuietly

LEMMA HandlePackagedRequestDelivery ==
    ASSUME TypeOK, TypeOK', DeliveryOK, UNCHANGED clientVars,
           NEW c \in Conn, HandlePackagedRequest(c)
    PROVE  DeliveryOK'
<1> DEFINE pr == Head(up[c])
           g == channelToSession[c]
<1>1. Takes(c, "PackagedRequest")
  BY DEF HandlePackagedRequest
<1>2. UNCHANGED <<down, guidToSession, channel, processor, pendingProfiles>>
  BY DEF HandlePackagedRequest
<1>3. ASSUME NEW h \in Guid
      PROVE  /\ rb'[h].nextOutgoingId = rb[h].nextOutgoingId
             /\ ToSet(rb'[h].unacknowledged) \subseteq ToSet(rb[h].unacknowledged)
  <2>1. CASE rb' = rb
    BY <2>1
  <2>2. CASE rb' # rb
    <3>1. g # NoGuid /\ rb' = [rb EXCEPT ![g] = NoteIncoming(@, pr.next)]
      BY <2>2 DEF HandlePackagedRequest
    <3>2. g \in Guid /\ rb \in [Guid -> Robustifiers]
      BY <3>1 DEF TypeOK, BackendTypeOK
    <3>3. pr.next \in Nat
      BY <1>1, TakesEffect, MessageShapes
    <3>4. /\ NoteIncoming(rb[g], pr.next).nextOutgoingId = rb[g].nextOutgoingId
          /\ NoteIncoming(rb[g], pr.next).unacknowledged
                = PopAcked(rb[g].unacknowledged, pr.next)
      BY <3>2 DEF NoteIncoming, Robustifiers
    <3>5. ToSet(PopAcked(rb[g].unacknowledged, pr.next)) \subseteq ToSet(rb[g].unacknowledged)
      <4>1. rb[g].unacknowledged \in Seq(Responses)
        BY <3>2, RobustifierTypes
      <4>2. \A m \in Responses : m.id \in Nat
        BY MessageShapes
      <4> QED BY <3>3, <4>1, <4>2, PopAckedElements
    <3>6. CASE h = g
      BY <3>1, <3>2, <3>4, <3>5, <3>6
    <3>7. CASE h # g
      BY <3>1, <3>2, <3>7
    <3> QED BY <3>6, <3>7
  <2> QED BY <2>1, <2>2
<1> QED BY <1>1, <1>2, <1>3, TakenQuietly

(* A new session: its connection was nobody's, and is its home from now on. *)
LEMMA HandleCreateSessionDelivery ==
    ASSUME TypeOK, TypeOK', DeliveryOK, UNCHANGED clientVars,
           NEW c \in Conn, HandleCreateSession(c)
    PROVE  DeliveryOK'
<1> USE DEF DeliveryOK
<1>1. Takes(c, "CreateSession")
  BY DEF HandleCreateSession
<1>2. CASE c \notin pendingProfiles
  <2>1. UNCHANGED <<down, guidToSession, channel, processor, rb, pendingProfiles>>
    BY <1>2 DEF HandleCreateSession, ProcessorFails
  <2> QED BY <1>1, <2>1, TakenQuietly
<1>3. CASE c \in pendingProfiles
  <2> DEFINE m == SessionSuccess(c, 0)
  <2>1. /\ pendingProfiles' = pendingProfiles \ {c}
        /\ guidToSession' = guidToSession \cup {c}
        /\ channel' = [channel EXCEPT ![c] = c]
        /\ rb' = [rb EXCEPT ![c] = NewRobustifier]
        /\ down' = SentDown(c, <<m>>)
        /\ processor' = processor
    BY <1>3 DEF HandleCreateSession
  <2>2. UNCHANGED <<readyState, server, produced, pageVars>>
    BY <1>1 DEF Takes, clientVars
  <2>3. m \in CResponses /\ m.type = "SessionSuccess" /\ m.guid = c
    BY MessageTypes DEF SessionSuccess, Guid
  <2> HIDE DEF m
  <2>4. HelloFirst' /\ ~Unused(c) /\ \A n \in ToSet(up'[c]) : n.type # "Hello"
    BY <1>1, TakesHelloFirst
  <2>5. \A d \in Conn :
           /\ d # c => up'[d] = up[d]
           /\ ToSet(up'[d]) \subseteq ToSet(up[d])
    BY <1>1, TakesEffect
  <2>6. \A d \in Conn :
           /\ d # c => down'[d] = down[d]
           /\ \A n \in ToSet(down'[d]) : n \in ToSet(down[d]) \/ n = m
           /\ down'[d] = << >> => down[d] = << >>
           /\ down[d] # << >> => Head(down'[d]) = Head(down[d])
           /\ down[d] = << >> /\ down'[d] # << >> => Head(down'[d]) = m
    BY <2>1, <2>3, SentDownEffect
  <2>7. /\ PreSession(c)
        /\ c \notin guidToSession /\ produced[c] = << >> /\ assignedSessionId # c
        /\ \A g \in Guid : ~Serves(c, g)
        /\ \A n \in ToSet(down[c]) : n.type = "SessionFailure"
    BY <1>3, Zenon DEF PreSession, PreSessionBlank
  <2>8. \A d \in Conn : PreSession(d)' => PreSession(d) /\ d # c
    BY <2>1, <2>2, <2>4, <2>5 DEF PreSession, Unused
  <2>9. ASSUME NEW d \in Conn, NEW g \in Guid, Serves(d, g)'
        PROVE  Serves(d, g) \/ (d = c /\ g = c)
    <3>1. channel \in [Guid -> Conn \cup {NoConn}]
      BY DEF TypeOK, BackendTypeOK
    <3>2. MapHolds(d, g)' => MapHolds(d, g) \/ (d = c /\ g = c)
      BY <2>1, <3>1 DEF MapHolds, Guid
    <3>3. /\ ServerHolds(d, g)' => ServerHolds(d, g)
          /\ ProcessorHolds(d, g)' => ProcessorHolds(d, g)
      BY <2>1, <2>2 DEF ServerHolds, ProcessorHolds
    <3> QED BY <2>9, <3>2, <3>3 DEF Serves
  <2>10. /\ assignedSessionId' = assignedSessionId /\ delivered' = delivered
         /\ state' = state /\ ws' = ws /\ nextExpectedResponseId' = nextExpectedResponseId
         /\ \A d \in Conn : Live(d)' <=> Live(d)
         /\ \A d \in Conn : Home(d)' = Home(d)
    BY <2>2 DEF pageVars, Live, Home
  <2>11. UnusedSilent'
    BY <2>1, <2>2, <2>4, <2>5, <2>6 DEF UnusedSilent, Unused
  <2>12. PreSessionBlank'
    <3> SUFFICES ASSUME NEW d \in Conn, PreSession(d)'
                 PROVE  (/\ d \notin guidToSession
                         /\ produced[d] = << >>
                         /\ assignedSessionId # d
                         /\ \A g \in Guid : ~Serves(d, g)
                         /\ \A n \in ToSet(down[d]) : n.type = "SessionFailure")'
      BY Zenon DEF PreSessionBlank
    <3>1. PreSession(d) /\ d # c
      BY <2>8
    <3>2. /\ d \notin guidToSession /\ produced[d] = << >> /\ assignedSessionId # d
          /\ \A g \in Guid : ~Serves(d, g)
          /\ \A n \in ToSet(down[d]) : n.type = "SessionFailure"
      BY <3>1, Zenon DEF PreSessionBlank
    <3> QED BY <2>1, <2>2, <2>6, <2>9, <2>10, <3>1, <3>2
  <2>13. Fresh'
    <3> SUFFICES ASSUME assignedSessionId = NoGuid
                 PROVE  /\ delivered' = << >>
                        /\ \A d \in Conn : Live(d)' =>
                              /\ state' # "Disconnected"
                              /\ ws' = d
                              /\ down'[d] = << >> => \A g \in Guid : ~Serves(d, g)'
                              /\ down'[d] # << >> => Head(down'[d]).type = "SessionSuccess"
      BY <2>10, Zenon DEF Fresh
    <3>1. delivered = << >>
      BY DEF Fresh
    <3>2. ASSUME NEW d \in Conn, Live(d)
          PROVE  /\ state # "Disconnected" /\ ws = d
                 /\ down[d] = << >> => \A g \in Guid : ~Serves(d, g)
                 /\ down[d] # << >> => Head(down[d]).type = "SessionSuccess"
      BY <3>2 DEF Fresh
    <3>3. ASSUME NEW d \in Conn, Live(d)
          PROVE  /\ down'[d] = << >> => \A g \in Guid : ~Serves(d, g)'
                 /\ down'[d] # << >> => Head(down'[d]).type = "SessionSuccess"
      <4>1. CASE d # c
        BY <2>6, <2>9, <3>2, <3>3, <4>1
      <4>2. CASE d = c
        <5>1. readyState[c] = "open"
          BY <2>4, <3>3, <4>2 DEF Live, Unused
        <5>2. down'[c] # << >>
          <6>1. down \in [Conn -> Seq(CResponses)]
            BY DEF TypeOK, NetTypeOK
          <6>2. down'[c] = down[c] \o <<m>>
            BY <2>1, <5>1, <6>1 DEF SentDown
          <6>3. down[c] \o <<m>> = Append(down[c], m)
            BY <2>3, <6>1, AppendIsConcat
          <6>4. Append(down[c], m) # << >>
            BY <2>3, <6>1, AppendElements
          <6> QED BY <6>2, <6>3, <6>4
        <5>3. Head(down'[c]).type = "SessionSuccess"
          <6>1. CASE down[c] = << >>
            BY <2>3, <2>6, <5>2, <6>1
          <6>2. CASE down[c] # << >>
            BY <2>6, <3>2, <3>3, <4>2, <6>2
          <6> QED BY <6>1, <6>2
        <5> QED BY <4>2, <5>2, <5>3
      <4> QED BY <4>1, <4>2
    <3> QED BY <2>10, <3>1, <3>2, <3>3, Zenon
  <2>14. AtHome'
    <3> SUFFICES ASSUME NEW d \in Conn, Live(d)
                 PROVE  /\ \A n \in ToSet(up'[d]) : Asks(d, n)'
                        /\ \A n \in ToSet(down'[d]) : Answers(d, n)'
                        /\ \A g \in Guid : Serves(d, g)' => g = Home(d)'
      BY <2>10, Zenon DEF AtHome
    <3>1. /\ \A n \in ToSet(up[d]) : Asks(d, n)
          /\ \A n \in ToSet(down[d]) : Answers(d, n)
          /\ \A g \in Guid : Serves(d, g) => g = Home(d)
      BY Zenon DEF AtHome
    <3>2. \A n \in ToSet(up'[d]) : Asks(d, n)'
      BY <2>5, <2>8, <2>10, <3>1 DEF Asks
    <3>3. d = c => Home(d) = c
      <4> SUFFICES ASSUME d = c PROVE assignedSessionId = NoGuid
        BY DEF Home
      <4>1. Head(up[c]) \in ToSet(up[c]) /\ Head(up[c]).type = "CreateSession"
        BY <1>1, TakesEffect
      <4> QED BY <2>7, <3>1, <4>1 DEF Asks
    <3>4. \A n : Answers(d, n) => Answers(d, n)'
      BY <2>2, <2>10 DEF Answers, Numbered
    <3>5. \A n \in ToSet(down'[d]) : n \in ToSet(down[d]) \/ (n = m /\ d = c)
      BY <2>6
    <3>6. d = c => Answers(d, m)
      BY <2>3, <3>3 DEF Answers
    <3>7. \A n \in ToSet(down'[d]) : Answers(d, n)'
      BY <3>1, <3>4, <3>5, <3>6, Zenon
    <3>8. \A g \in Guid : Serves(d, g)' => g = Home(d)'
      BY <2>9, <2>10, <3>1, <3>3
    <3> QED BY <3>2, <3>7, <3>8
  <2>15. Counted'
    <3>1. \A g \in Guid : \A n : Numbered(g, n) => Numbered(g, n)'
      BY <2>2 DEF Numbered
    <3>2. ASSUME NEW g \in guidToSession'
          PROVE  /\ rb'[g].nextOutgoingId = Len(produced'[g])
                 /\ \A n \in ToSet(rb'[g].unacknowledged) : Numbered(g, n)'
      <4>1. rb \in [Guid -> Robustifiers] /\ guidToSession \subseteq Guid
        BY DEF TypeOK, BackendTypeOK
      <4>2. CASE g = c
        <5>1. rb'[c] = NewRobustifier
          BY <2>1, <4>1 DEF Guid
        <5>2. rb'[c].nextOutgoingId = 0 /\ rb'[c].unacknowledged = << >>
          BY <5>1 DEF NewRobustifier, FirstResponseId
        <5>3. Len(produced'[c]) = 0 /\ ToSet(rb'[c].unacknowledged) = {}
          BY <2>2, <2>7, <5>2 DEF ToSet
        <5> QED BY <4>2, <5>2, <5>3
      <4>3. CASE g # c
        <5>1. g \in guidToSession /\ g \in Guid /\ rb'[g] = rb[g]
          BY <2>1, <4>1, <4>3
        <5> QED BY <2>2, <3>1, <5>1 DEF Counted
      <4> QED BY <4>2, <4>3
    <3> QED BY <2>1, <2>2, <3>2 DEF Counted, Numbered
  <2>16. Delivered'
    BY <2>2, <2>10 DEF Delivered
  <2> QED BY <2>4, <2>11, <2>12, <2>13, <2>14, <2>15, <2>16
<1> QED BY <1>2, <1>3

(* A page re-attaches to its own session only, on a connection without one; a *)
(* refusal reaches only a page that had a session.                            *)
LEMMA HandleAttachToSessionDelivery ==
    ASSUME TypeOK, TypeOK', DeliveryOK, UNCHANGED clientVars,
           NEW c \in Conn, HandleAttachToSession(c)
    PROVE  DeliveryOK'
<1> USE DEF DeliveryOK
<1> DEFINE as == Head(up[c])
           k == as.guid
<1>1. Takes(c, "AttachToSession")
  BY DEF HandleAttachToSession
<1>2. CASE c \notin pendingProfiles
  <2>1. UNCHANGED <<down, guidToSession, channel, processor, rb, pendingProfiles>>
    BY <1>2 DEF HandleAttachToSession, ProcessorFails
  <2> QED BY <1>1, <2>1, TakenQuietly
<1>3. UNCHANGED <<readyState, server, produced, pageVars>>
  BY <1>1 DEF Takes, clientVars
<1>4. HelloFirst' /\ ~Unused(c) /\ \A n \in ToSet(up'[c]) : n.type # "Hello"
  BY <1>1, TakesHelloFirst
<1>5. /\ \A d \in Conn : d # c => up'[d] = up[d]
      /\ \A d \in Conn : ToSet(up'[d]) \subseteq ToSet(up[d])
      /\ as \in CRequests /\ as \in ToSet(up[c]) /\ as.type = "AttachToSession"
      /\ k \in Guid
  <2>1. /\ as \in CRequests /\ as \in ToSet(up[c]) /\ as.type = "AttachToSession"
        /\ \A d \in Conn : d # c => up'[d] = up[d]
        /\ \A d \in Conn : ToSet(up'[d]) \subseteq ToSet(up[d])
    BY <1>1, TakesEffect
  <2> QED BY <2>1, MessageShapes
<1> HIDE DEF as
<1>6. /\ assignedSessionId' = assignedSessionId /\ delivered' = delivered
      /\ state' = state /\ ws' = ws /\ nextExpectedResponseId' = nextExpectedResponseId
      /\ \A d \in Conn : Live(d)' <=> Live(d)
      /\ \A d \in Conn : Home(d)' = Home(d)
  BY <1>3 DEF pageVars, Live, Home
<1>7. Live(c) => assignedSessionId # NoGuid /\ k = Home(c)
  BY <1>5 DEF AtHome, Asks, Home
<1>8. Delivered'
  BY <1>3, <1>6 DEF Delivered
<1>9. ASSUME NEW d \in Conn
      PROVE  /\ \A n : Asks(d, n) /\ (PreSession(d)' => PreSession(d)) => Asks(d, n)'
             /\ \A n : Answers(d, n) => Answers(d, n)'
  BY <1>3, <1>6 DEF Asks, Answers, Numbered
<1>10. CASE c \in pendingProfiles /\ k \notin guidToSession
  <2>1. /\ down' = SentDown(c, <<SessionFailure>>)
        /\ UNCHANGED <<pendingProfiles, guidToSession, processor, channel, rb>>
    BY <1>10 DEF HandleAttachToSession, IsKnownSession, as
  <2>2. SessionFailure \in CResponses /\ SessionFailure.type = "SessionFailure"
    BY MessageTypes DEF SessionFailure
  <2>3. \A d \in Conn :
           /\ d # c \/ readyState[c] # "open" => down'[d] = down[d]
           /\ \A n \in ToSet(down'[d]) : n \in ToSet(down[d]) \/ n = SessionFailure
    BY <2>1, <2>2, SentDownEffect
  <2>4. \A d \in Conn : PreSession(d)' => PreSession(d)
    BY <1>3, <1>5, <2>1 DEF PreSession, Unused
  <2>5. \A d \in Conn, g \in Guid : Serves(d, g)' <=> Serves(d, g)
    BY <1>3, <2>1 DEF Serves, MapHolds, ServerHolds, ProcessorHolds
  <2>6. UnusedSilent'
    BY <1>3, <1>4, <1>5, <2>1, <2>3 DEF UnusedSilent, Unused
  <2>7. PreSessionBlank'
    <3> SUFFICES ASSUME NEW d \in Conn, PreSession(d)'
                 PROVE  (/\ d \notin guidToSession
                         /\ produced[d] = << >>
                         /\ assignedSessionId # d
                         /\ \A g \in Guid : ~Serves(d, g)
                         /\ \A n \in ToSet(down[d]) : n.type = "SessionFailure")'
      BY Zenon DEF PreSessionBlank
    <3>1. /\ d \notin guidToSession /\ produced[d] = << >> /\ assignedSessionId # d
          /\ \A g \in Guid : ~Serves(d, g)
          /\ \A n \in ToSet(down[d]) : n.type = "SessionFailure"
      BY <2>4, Zenon DEF PreSessionBlank
    <3> QED BY <1>3, <1>6, <2>1, <2>2, <2>3, <2>5, <3>1
  <2>8. Fresh'
    <3>1. ASSUME assignedSessionId = NoGuid, NEW d \in Conn, Live(d)
          PROVE  down'[d] = down[d]
      <4>1. d = c => readyState[c] # "open"
        BY <1>7, <3>1
      <4> QED BY <2>3, <4>1
    <3> QED BY <1>6, <2>5, <3>1 DEF Fresh
  <2>9. AtHome'
    <3> SUFFICES ASSUME NEW d \in Conn, Live(d)
                 PROVE  /\ \A n \in ToSet(up'[d]) : Asks(d, n)'
                        /\ \A n \in ToSet(down'[d]) : Answers(d, n)'
                        /\ \A g \in Guid : Serves(d, g)' => g = Home(d)'
      BY <1>6, Zenon DEF AtHome
    <3>1. /\ \A n \in ToSet(up[d]) : Asks(d, n)
          /\ \A n \in ToSet(down[d]) : Answers(d, n)
          /\ \A g \in Guid : Serves(d, g) => g = Home(d)
      BY Zenon DEF AtHome
    <3>2. Answers(d, SessionFailure)
      BY <2>2 DEF Answers
    <3> QED BY <1>5, <1>6, <1>9, <2>3, <2>4, <2>5, <3>1, <3>2
  <2>10. Counted'
    BY <1>3, <2>1 DEF Counted, Numbered
  <2> QED BY <1>4, <1>8, <2>6, <2>7, <2>8, <2>9, <2>10
<1>11. CASE c \in pendingProfiles /\ k \in guidToSession
  <2>1. /\ pendingProfiles' = pendingProfiles \ {c}
        /\ channel' = [channel EXCEPT ![k] = c]
        /\ processor' = [pc |-> "reply", guid |-> k, chan |-> c, next |-> as.next]
        /\ UNCHANGED <<down, guidToSession, rb>>
    BY <1>11 DEF HandleAttachToSession, IsKnownSession, as
  <2>2. processor'.pc = "reply" /\ processor'.guid = k /\ processor'.chan = c
    BY <2>1
  <2>3. /\ PreSession(c)
        /\ \A g \in Guid : ~Serves(c, g)
    BY <1>11, Zenon DEF PreSession, PreSessionBlank
  <2>4. \A d \in Conn : PreSession(d)' => PreSession(d) /\ d # c
    BY <1>3, <1>4, <1>5, <2>1 DEF PreSession, Unused
  <2>5. ASSUME NEW d \in Conn, NEW g \in Guid, Serves(d, g)'
        PROVE  Serves(d, g) \/ (d = c /\ g = k)
    <3>1. channel \in [Guid -> Conn \cup {NoConn}]
      BY DEF TypeOK, BackendTypeOK
    <3>2. MapHolds(d, g)' => MapHolds(d, g) \/ (d = c /\ g = k)
      BY <1>5, <2>1, <3>1 DEF MapHolds
    <3>3. /\ ServerHolds(d, g)' => ServerHolds(d, g)
          /\ ProcessorHolds(d, g)' => d = c /\ g = k
      BY <1>3, <2>2 DEF ServerHolds, ProcessorHolds
    <3> QED BY <2>5, <3>2, <3>3 DEF Serves
  <2>6. UnusedSilent'
    BY <1>3, <1>4, <1>5, <2>1 DEF UnusedSilent, Unused
  <2>7. PreSessionBlank'
    <3> SUFFICES ASSUME NEW d \in Conn, PreSession(d)'
                 PROVE  (/\ d \notin guidToSession
                         /\ produced[d] = << >>
                         /\ assignedSessionId # d
                         /\ \A g \in Guid : ~Serves(d, g)
                         /\ \A n \in ToSet(down[d]) : n.type = "SessionFailure")'
      BY Zenon DEF PreSessionBlank
    <3>1. PreSession(d) /\ d # c
      BY <2>4
    <3>2. /\ d \notin guidToSession /\ produced[d] = << >> /\ assignedSessionId # d
          /\ \A g \in Guid : ~Serves(d, g)
          /\ \A n \in ToSet(down[d]) : n.type = "SessionFailure"
      BY <3>1, Zenon DEF PreSessionBlank
    <3> QED BY <1>3, <1>6, <2>1, <2>5, <3>1, <3>2
  <2>8. Fresh'
    <3>1. assignedSessionId = NoGuid => ~Live(c)
      BY <1>7
    <3> QED BY <1>6, <2>1, <2>5, <3>1 DEF Fresh
  <2>9. AtHome'
    <3> SUFFICES ASSUME NEW d \in Conn, Live(d)
                 PROVE  /\ \A n \in ToSet(up'[d]) : Asks(d, n)'
                        /\ \A n \in ToSet(down'[d]) : Answers(d, n)'
                        /\ \A g \in Guid : Serves(d, g)' => g = Home(d)'
      BY <1>6, Zenon DEF AtHome
    <3>1. /\ \A n \in ToSet(up[d]) : Asks(d, n)
          /\ \A n \in ToSet(down[d]) : Answers(d, n)
          /\ \A g \in Guid : Serves(d, g) => g = Home(d)
      BY Zenon DEF AtHome
    <3> QED BY <1>5, <1>6, <1>7, <1>9, <2>1, <2>4, <2>5, <3>1
  <2>10. Counted'
    BY <1>3, <1>11, <2>1, <2>2 DEF Counted, Numbered
  <2> QED BY <1>4, <1>8, <2>6, <2>7, <2>8, <2>9, <2>10
<1> QED BY <1>2, <1>10, <1>11

LEMMA ProcessorContinuesDelivery ==
    ASSUME TypeOK, TypeOK', DeliveryOK, UNCHANGED clientVars, ProcessorContinues
    PROVE  DeliveryOK'
<1> USE DEF DeliveryOK
<1> DEFINE g == processor.guid
           c == processor.chan
<1>1. UNCHANGED <<readyState, up, pendingProfiles, guidToSession, channel, rb, server,
                  produced, pageVars>>
  BY DEF ProcessorContinues, AttachReply, CatchupRange, CatchupSend, ProcessorStep, clientVars
<1>2. /\ processor.pc \in {"reply", "range", "catchup"} /\ processor \in Processors
      /\ processor # Idle
  BY DEF ProcessorContinues, AttachReply, CatchupRange, CatchupSend, ProcessorStep,
         TypeOK, BackendTypeOK, Idle
<1>3. g \in Guid /\ c \in Conn /\ Serves(c, g) /\ g \in guidToSession
  BY <1>2, BackendShapes DEF Serves, ProcessorHolds, Counted
<1>4. /\ processor' = Idle \/ (processor'.guid = g /\ processor'.chan = c)
      /\ \/ down' = down
         \/ \E m \in CResponses : Speaks(g, m) /\ down' = SentDown(c, <<m>>)
      /\ processor'.pc = "catchup" => \A m \in ToSet(processor'.left) : Numbered(g, m)
  <2>1. CASE AttachReply
    <3> DEFINE m == SessionSuccess(g, rb[g].nextExpectedIncomingId)
    <3>1. down' = SentDown(c, <<m>>) /\ processor' = [processor EXCEPT !.pc = "range"]
      BY <2>1 DEF AttachReply
    <3>2. m \in CResponses
      BY <1>3, MessageTypes, RobustifierTypes DEF TypeOK, BackendTypeOK
    <3>3. Speaks(g, m)
      BY DEF Speaks, SessionSuccess
    <3> HIDE DEF m
    <3>4. processor'.pc = "range" /\ processor'.guid = g /\ processor'.chan = c
      <4>1. processor \in [pc : {"reply", "range"}, guid : Guid, chan : Conn, next : Nat]
        BY <1>2, <2>1 DEF AttachReply, ProcessorStep, Processors, Idle
      <4> QED BY <3>1, <4>1
    <3> QED BY <3>1, <3>2, <3>3, <3>4
  <2>2. CASE CatchupRange
    <3> DEFINE left == Unseen(rb[g], processor.next)
    <3>1. down' = down /\ processor' = [pc |-> "catchup", guid |-> g, chan |-> c, left |-> left]
      BY <2>2 DEF CatchupRange
    <3>2. processor'.guid = g /\ processor'.chan = c /\ processor'.left = left
      BY <3>1
    <3>3. \A m \in ToSet(rb[g].unacknowledged) : Numbered(g, m)
      BY <1>3 DEF Counted
    <3>4. ToSet(left) \subseteq ToSet(rb[g].unacknowledged)
      <4>1. processor.next \in Nat
        BY <1>2, <2>2, BackendShapes DEF CatchupRange, ProcessorStep
      <4>2. rb[g].unacknowledged \in Seq(Responses)
        BY <1>3, RobustifierTypes DEF TypeOK, BackendTypeOK
      <4>3. \A m \in Responses : m.id \in Nat
        BY MessageShapes
      <4> QED BY <4>1, <4>2, <4>3, PopAckedElements DEF Unseen
    <3> QED BY <3>1, <3>2, <3>3, <3>4
  <2>3. CASE CatchupSend
    <3>1. processor.pc = "catchup" /\ processor.left \in Seq(Responses)
      BY <1>2, <2>3, BackendShapes DEF CatchupSend, ProcessorStep
    <3>2. \A m \in ToSet(processor.left) : Numbered(g, m)
      BY <3>1 DEF Counted
    <3>3. CASE processor.left = << >>
      BY <2>3, <3>3 DEF CatchupSend, Idle
    <3>4. CASE processor.left # << >>
      <4> DEFINE m == Head(processor.left)
      <4>1. down' = SentDown(c, <<m>>) /\ processor' = [processor EXCEPT !.left = Tail(@)]
        BY <2>3, <3>4 DEF CatchupSend
      <4>2. /\ m \in ToSet(processor.left)
            /\ ToSet(Tail(processor.left)) \subseteq ToSet(processor.left)
            /\ m \in Responses
        BY <3>1, <3>4, QueueElements, HeadTailProperties
      <4> HIDE DEF m
      <4>3. m \in CResponses /\ Speaks(g, m)
        BY <3>2, <4>2 DEF Speaks, CResponses, Responses
      <4>4. /\ processor'.guid = g /\ processor'.chan = c
            /\ processor'.left = Tail(processor.left)
        <5>1. processor \in [pc : {"catchup"}, guid : Guid, chan : Conn, left : Seq(Responses)]
          BY <1>2, <3>1 DEF Processors, Idle
        <5> QED BY <4>1, <5>1
      <4> QED BY <3>2, <4>1, <4>2, <4>3, <4>4
    <3> QED BY <3>3, <3>4
  <2> QED BY <2>1, <2>2, <2>3 DEF ProcessorContinues
<1>5. \A d \in Conn, h \in Guid : Serves(d, h)' => Serves(d, h)
  BY <1>1, <1>2, <1>4 DEF Serves, MapHolds, ServerHolds, ProcessorHolds
<1> HIDE DEF g, c
<1>6. \/ down' = down
      \/ \E d \in Conn, h \in Guid, m \in CResponses :
            Serves(d, h) /\ Speaks(h, m) /\ down' = SentDown(d, <<m>>)
  BY <1>3, <1>4, Zenon
<1>7. ASSUME NEW d \in Conn, Unused(d)
      PROVE  /\ up'[d] = up[d] /\ down'[d] = down[d]
             /\ d \in pendingProfiles' => d \in pendingProfiles
  <2>1. readyState[d] # "open"
    BY <1>7 DEF Unused
  <2>2. down'[d] = down[d]
    <3>1. CASE down' = down
      BY <3>1
    <3>2. ASSUME NEW m \in CResponses, down' = SentDown(c, <<m>>) PROVE down'[d] = down[d]
      BY <1>3, <2>1, <3>2, SentDownEffect
    <3> QED BY <1>4, <3>1, <3>2
  <2> QED BY <1>1, <2>2
<1>8. \A d \in Conn : PreSession(d)' => PreSession(d)
  BY <1>1 DEF PreSession, Unused
<1>9. \A h \in Guid : Len(produced[h]) \in Nat
  BY LenProperties DEF TypeOK, BackendTypeOK
<1>10. UnusedSilent' /\ PreSessionBlank' /\ Fresh' /\ AtHome' /\ Delivered'
  BY <1>1, <1>5, <1>6, <1>7, <1>8, <1>9, QuietStep
<1>11. HelloFirst'
  BY <1>1 DEF HelloFirst
<1>12. Counted'
  BY <1>1, <1>3, <1>4 DEF Counted, Numbered, g, Idle
<1> QED BY <1>10, <1>11, <1>12

-------------------------------------------------------------------------------
(* The Server's steps. *)

LEMMA ServerDelivery ==
    ASSUME TypeOK, TypeOK', DeliveryOK, UNCHANGED clientVars, ServerNext
    PROVE  DeliveryOK'
<1> USE DEF DeliveryOK
<1>1. UNCHANGED <<readyState, up, pendingProfiles, guidToSession, channel, processor,
                  pageVars>>
  BY DEF ServerNext, HandleRequest, NumberResponse, RecordResponse, SendResponse,
         ServerStep, commVars, clientVars
<1>2. /\ \A d \in Conn : PreSession(d)' => PreSession(d)
      /\ HelloFirst'
  BY <1>1 DEF PreSession, Unused, HelloFirst
<1>3. \A h \in Guid : produced[h] \in Seq(Nat) /\ Len(produced[h]) \in Nat
  BY LenProperties DEF TypeOK, BackendTypeOK
<1>4. guidToSession \subseteq Guid
  BY DEF TypeOK, BackendTypeOK
<1>5. CASE HandleRequest
  <2>1. UNCHANGED <<down, rb, produced>> /\ server = Idle /\ server'.pc = "answer"
    BY <1>5 DEF HandleRequest
  <2>2. \A d \in Conn, h \in Guid : Serves(d, h)' => Serves(d, h)
    BY <1>1, <2>1 DEF Serves, MapHolds, ServerHolds, ProcessorHolds
  <2>3. UnusedSilent' /\ PreSessionBlank' /\ Fresh' /\ AtHome' /\ Delivered'
    BY <1>1, <1>2, <1>3, <2>1, <2>2, QuietStep
  <2>4. Counted'
    BY <1>1, <2>1 DEF Counted, Numbered
  <2> QED BY <1>2, <2>3, <2>4
<1>6. ASSUME server.pc \in {"answer", "record", "send"}
      PROVE  server \in Servers /\ server.guid \in Guid /\ server.guid \in guidToSession
  BY <1>6, BackendShapes DEF TypeOK, BackendTypeOK
<1>7. CASE NumberResponse
  <2>1. server.pc = "answer" /\ UNCHANGED <<down, rb, produced>>
    BY <1>7 DEF NumberResponse
  <2> DEFINE g == server.guid
             resp == PackagedResponse(rb[g].nextOutgoingId, rb[g].nextExpectedIncomingId,
                                      server.body)
  <2>2. \/ server' = Idle
        \/ /\ server'.pc = "record" /\ server'.guid = g /\ server'.body = server.body
           /\ server'.chan = channel[g] /\ server'.resp = resp
    BY <1>7 DEF NumberResponse
  <2>3. /\ resp.id = rb[g].nextOutgoingId /\ resp.body = server.body
        /\ rb[g].nextOutgoingId = Len(produced[g])
    BY <1>6, <2>1 DEF PackagedResponse, Counted
  <2> HIDE DEF resp
  <2>4. \A d \in Conn, h \in Guid : Serves(d, h)' => Serves(d, h)
    BY <1>1, <1>6, <2>1, <2>2 DEF Serves, MapHolds, ServerHolds, ProcessorHolds, Idle
  <2>5. UnusedSilent' /\ PreSessionBlank' /\ Fresh' /\ AtHome' /\ Delivered'
    BY <1>1, <1>2, <1>3, <2>1, <2>4, QuietStep
  <2>6. Counted'
    BY <1>1, <2>1, <2>2, <2>3 DEF Counted, Numbered, Idle
  <2> QED BY <1>2, <2>5, <2>6
<1>8. CASE RecordResponse
  <2>0. PICK g, resp : g = server.guid /\ resp = server.resp
    OBVIOUS
  <2>1. /\ server.pc = "record" /\ down' = down
        /\ rb' = [rb EXCEPT ![g] = NoteOutgoing(@, resp)]
        /\ produced' = [produced EXCEPT ![g] = Append(@, server.body)]
        /\ server' = [server EXCEPT !.pc = "send"]
    BY <1>8, <2>0 DEF RecordResponse
  <2>2. /\ g \in Guid /\ g \in guidToSession /\ server.body \in Nat
        /\ resp \in Responses /\ resp.id \in Nat
        /\ resp.id = Len(produced[g]) /\ resp.body = server.body
    BY <1>6, <2>0, <2>1, BackendShapes, MessageShapes DEF Counted
  <2>3. /\ server'.pc = "send" /\ server'.guid = g /\ server'.chan = server.chan
        /\ server'.resp = resp
    <3>1. server \in [pc : {"record", "send"}, guid : Guid, body : Nat, left : Nat,
                      chan : Conn, resp : Responses]
      BY <1>6, <2>1 DEF Servers, Idle
    <3> QED BY <2>0, <2>1, <3>1
  <2>4. /\ produced'[g] = Append(produced[g], server.body)
        /\ \A h \in Guid : h # g => produced'[h] = produced[h]
    BY <2>1, <2>2 DEF TypeOK, BackendTypeOK
  <2>5. /\ Len(produced'[g]) = Len(produced[g]) + 1
        /\ \A i \in 1 .. Len(produced[g]) : produced'[g][i] = produced[g][i]
        /\ produced'[g][Len(produced[g]) + 1] = server.body
    BY <1>3, <2>2, <2>4, AppendProperties
  <2>6. \A h \in Guid :
           /\ Len(produced[h]) <= Len(produced'[h]) /\ Len(produced'[h]) \in Nat
           /\ \A i \in 1 .. Len(produced[h]) : produced'[h][i] = produced[h][i]
    <3> SUFFICES ASSUME NEW h \in Guid
                 PROVE  /\ Len(produced[h]) <= Len(produced'[h]) /\ Len(produced'[h]) \in Nat
                        /\ \A i \in 1 .. Len(produced[h]) : produced'[h][i] = produced[h][i]
      OBVIOUS
    <3>1. CASE h = g
      BY <1>3, <2>5, <3>1
    <3>2. CASE h # g
      BY <1>3, <2>4, <3>2
    <3> QED BY <3>1, <3>2
  <2>7. \A c \in Conn : PreSession(c) => produced'[c] = produced[c]
    BY <2>2, <2>4 DEF PreSessionBlank, Guid
  <2>8. \A d \in Conn, h \in Guid : Serves(d, h)' => Serves(d, h)
    BY <1>1, <2>0, <2>1, <2>3 DEF Serves, MapHolds, ServerHolds, ProcessorHolds
  <2>9. UnusedSilent' /\ PreSessionBlank' /\ Fresh' /\ AtHome' /\ Delivered'
    BY <1>1, <1>2, <2>1, <2>6, <2>7, <2>8, QuietStep
  <2>10. \A h \in Guid, m \in Responses : Numbered(h, m) => Numbered(h, m)'
    <3> SUFFICES ASSUME NEW h \in Guid, NEW m \in Responses, Numbered(h, m)
                 PROVE  Numbered(h, m)'
      OBVIOUS
    <3>1. m.id \in Nat /\ m.id < Len(produced[h]) /\ m.body = produced[h][m.id + 1]
      BY MessageShapes DEF Numbered
    <3>2. m.id + 1 \in 1 .. Len(produced[h]) /\ m.id < Len(produced'[h])
      BY <1>3, <2>6, <3>1
    <3> QED BY <2>6, <3>1, <3>2 DEF Numbered
  <2>11. Numbered(g, resp)'
    BY <1>3, <2>2, <2>5 DEF Numbered
  <2>12. ASSUME NEW h \in guidToSession
         PROVE  /\ rb'[h].nextOutgoingId = Len(produced'[h])
                /\ \A m \in ToSet(rb'[h].unacknowledged) : Numbered(h, m)'
    <3>1. h \in Guid /\ rb \in [Guid -> Robustifiers]
      BY <1>4 DEF TypeOK, BackendTypeOK
    <3>2. rb[h].unacknowledged \in Seq(Responses)
      BY <3>1, RobustifierTypes
    <3>3. /\ rb[h].nextOutgoingId = Len(produced[h])
          /\ \A m \in ToSet(rb[h].unacknowledged) : Numbered(h, m)
      BY DEF Counted
    <3>4. \A m \in ToSet(rb[h].unacknowledged) : Numbered(h, m)'
      BY <2>10, <3>1, <3>2, <3>3, QueueElements
    <3>5. CASE h = g
      <4>1. rb'[g] = NoteOutgoing(rb[g], resp) /\ rb[g] \in Robustifiers
        BY <2>1, <2>2, <3>1
      <4>2. /\ rb'[g].nextOutgoingId = rb[g].nextOutgoingId + 1
            /\ rb'[g].unacknowledged = Append(rb[g].unacknowledged, resp)
        BY <4>1 DEF NoteOutgoing, Robustifiers
      <4>3. ToSet(rb'[g].unacknowledged) \subseteq ToSet(rb[g].unacknowledged) \cup {resp}
        BY <2>2, <3>2, <3>5, <4>2, AppendElements
      <4>4. rb'[g].nextOutgoingId = Len(produced'[g])
        BY <2>5, <3>3, <3>5, <4>2
      <4> QED BY <2>11, <3>4, <3>5, <4>3, <4>4
    <3>6. CASE h # g
      <4>1. rb'[h] = rb[h]
        BY <2>1, <2>2, <3>1, <3>6
      <4> QED BY <2>4, <3>1, <3>3, <3>4, <3>6, <4>1
    <3> QED BY <3>5, <3>6
  <2>13. (processor.pc = "catchup" =>
             \A m \in ToSet(processor.left) : Numbered(processor.guid, m))'
    <3> SUFFICES ASSUME processor.pc = "catchup", NEW m \in ToSet(processor.left)
                 PROVE  Numbered(processor.guid, m)'
      BY <1>1
    <3>1. processor.guid \in Guid /\ processor.left \in Seq(Responses)
      BY BackendShapes DEF TypeOK, BackendTypeOK
    <3>2. m \in Responses
      BY <3>1, QueueElements
    <3>3. Numbered(processor.guid, m)
      BY DEF Counted
    <3>4. PICK h \in Guid : h = processor.guid
      BY <3>1
    <3>5. Numbered(h, m)'
      BY <2>10, <3>2, <3>3, <3>4
    <3> QED BY <1>1, <3>4, <3>5
  <2>14. Counted'
    <3>1. Numbered(server.guid, server.resp)'
      BY <2>3, <2>11
    <3>2. (server.pc # "record")'
      BY <2>3
    <3>3. (processor # Idle => processor.guid \in guidToSession)'
      BY <1>1 DEF Counted
    <3> QED BY <1>1, <2>12, <2>13, <3>1, <3>2, <3>3 DEF Counted
  <2> QED BY <1>2, <2>9, <2>14
<1>9. CASE SendResponse
  <2> DEFINE g == server.guid
             c == server.chan
             resp == server.resp
  <2>1. /\ server.pc = "send" /\ down' = SentDown(c, <<resp>>) /\ server'.pc = "answer"
        /\ UNCHANGED <<rb, produced>>
    BY <1>9 DEF SendResponse
  <2>2. /\ g \in Guid /\ c \in Conn /\ resp \in CResponses /\ Speaks(g, resp)
        /\ Serves(c, g)
    <3>1. g \in Guid /\ c \in Conn /\ resp \in Responses
      BY <1>6, <2>1, BackendShapes
    <3>2. Numbered(g, resp)
      BY <2>1 DEF Counted
    <3>3. resp.type = "PackagedResponse" /\ resp \in CResponses
      BY <3>1 DEF Responses, CResponses
    <3> QED BY <2>1, <3>1, <3>2, <3>3 DEF Speaks, Serves, ServerHolds
  <2> HIDE DEF g, c, resp
  <2>3. \A d \in Conn, h \in Guid : Serves(d, h)' => Serves(d, h)
    BY <1>1, <2>1 DEF Serves, MapHolds, ServerHolds, ProcessorHolds
  <2>4. \A d \in Conn : Unused(d) => down'[d] = down[d]
    BY <2>1, <2>2, SentDownEffect DEF Unused
  <2>5. UnusedSilent' /\ PreSessionBlank' /\ Fresh' /\ AtHome' /\ Delivered'
    BY <1>1, <1>2, <1>3, <2>1, <2>2, <2>3, <2>4, QuietStep
  <2>6. Counted'
    BY <1>1, <2>1 DEF Counted, Numbered
  <2> QED BY <1>2, <2>5, <2>6
<1> QED BY <1>5, <1>7, <1>8, <1>9 DEF ServerNext

LEMMA RestartDelivery ==
    ASSUME TypeOK, TypeOK', DeliveryOK, UNCHANGED clientVars, Restart
    PROVE  DeliveryOK'
<1> USE DEF DeliveryOK
<1>1. /\ up' = [c \in Conn |-> << >>] /\ pendingProfiles' = {} /\ guidToSession' = {}
      /\ processor' = Idle /\ server' = Idle
      /\ UNCHANGED <<readyState, down, rb, produced, pageVars>>
  BY DEF Restart, clientVars
<1>2. \A c \in Conn : up'[c] = << >> /\ ToSet(up'[c]) = {}
  BY <1>1 DEF ToSet
<1>3. \A c \in Conn : Unused(c) =>
         /\ up'[c] = up[c] /\ down'[c] = down[c]
         /\ c \in pendingProfiles' => c \in pendingProfiles
  BY <1>1, <1>2 DEF UnusedSilent
<1>4. \A c \in Conn : PreSession(c)' => PreSession(c)
  BY <1>1, <1>2 DEF PreSession, Unused
<1>5. \A c \in Conn, g \in Guid : Serves(c, g)' => Serves(c, g)
  BY <1>1 DEF Serves, MapHolds, ServerHolds, ProcessorHolds, Idle
<1>6. \A g \in Guid : Len(produced[g]) \in Nat
  BY LenProperties DEF TypeOK, BackendTypeOK
<1>7. UnusedSilent' /\ PreSessionBlank' /\ Fresh' /\ AtHome' /\ Delivered'
  BY <1>1, <1>2, <1>3, <1>4, <1>5, <1>6, QuietStep
<1>8. HelloFirst'
  <2>1. \A c \in Conn : Len(up'[c]) = 0
    BY <1>2
  <2> QED BY <2>1 DEF HelloFirst
<1>9. Counted'
  BY <1>1 DEF Counted, Idle
<1> QED BY <1>7, <1>8, <1>9

-------------------------------------------------------------------------------
(* The page's steps. *)

LEMMA BackendUnchanged ==
    ASSUME Counted, UNCHANGED backendVars
    PROVE  /\ Counted'
           /\ UNCHANGED <<pendingProfiles, guidToSession, produced>>
           /\ \A c \in Conn, g \in Guid : Serves(c, g)' <=> Serves(c, g)
           /\ \A g \in Guid : \A m : Numbered(g, m)' <=> Numbered(g, m)
BY DEF backendVars, commVars, Counted, Serves, MapHolds, ServerHolds, ProcessorHolds, Numbered

LEMMA HomeInGuid ==
    ASSUME TypeOK, NEW c \in Conn
    PROVE  Home(c) \in Guid
BY DEF TypeOK, ClientTypeOK, Home, Guid

(* A page opens one socket at a time until it has a session. *)
LEMMA OpenSocketDelivery ==
    ASSUME TypeOK, TypeOK', DeliveryOK, UNCHANGED backendVars,
           NEW c \in Conn, OpenSocket(c), state = "Disconnected" \/ assignedSessionId # NoGuid
    PROVE  DeliveryOK'
<1> USE DEF DeliveryOK
<1>1. /\ Counted' /\ UNCHANGED <<pendingProfiles, guidToSession, produced>>
      /\ \A d \in Conn, g \in Guid : Serves(d, g)' <=> Serves(d, g)
      /\ \A g \in Guid : \A m : Numbered(g, m)' <=> Numbered(g, m)
  BY BackendUnchanged
<1>2. /\ readyState[c] = "none" /\ readyState'[c] = "connecting"
      /\ \A d \in Conn : d # c => readyState'[d] = readyState[d]
      /\ UNCHANGED <<up, down, assignedSessionId, delivered, nextExpectedResponseId>>
      /\ ws' = c /\ state' = "AwaitingConnect"
  <2>1. readyState[c] = "none" <=> c >= c
    BY DEF OpenSocket
  <2>2. c >= c
    BY DEF Conn
  <2> QED BY <2>1, <2>2 DEF OpenSocket, TypeOK, NetTypeOK
<1>3. /\ \A d \in Conn : Unused(d)' <=> Unused(d)
      /\ \A d \in Conn : PreSession(d)' <=> PreSession(d)
      /\ \A d \in Conn : Home(d)' = Home(d)
      /\ \A d \in Conn : Live(d)' => Live(d) \/ d = c
  BY <1>1, <1>2 DEF Unused, PreSession, Home, Live
<1>4. PreSession(c) /\ up[c] = << >> /\ down[c] = << >>
  BY <1>2 DEF Unused, UnusedSilent, PreSession
<1>5. \A g \in Guid : ~Serves(c, g)
  BY <1>4, Zenon DEF PreSessionBlank
<1>6. UnusedSilent' /\ HelloFirst' /\ Delivered'
  BY <1>1, <1>2, <1>3 DEF UnusedSilent, HelloFirst, Delivered
<1>7. PreSessionBlank'
  BY <1>1, <1>2, <1>3 DEF PreSessionBlank
<1>8. Fresh'
  <2> SUFFICES ASSUME assignedSessionId = NoGuid
               PROVE  /\ delivered = << >>
                      /\ \A d \in Conn : Live(d)' =>
                           /\ state' # "Disconnected"
                           /\ ws' = d
                           /\ down[d] = << >> => \A g \in Guid : ~Serves(d, g)
                           /\ down[d] # << >> => Head(down[d]).type = "SessionSuccess"
    BY <1>1, <1>2 DEF Fresh
  <2>1. \A d \in Conn : ~Live(d)
    BY DEF Fresh
  <2> QED BY <1>2, <1>3, <1>4, <1>5, <2>1 DEF Fresh
<1>9. AtHome'
  <2> SUFFICES ASSUME NEW d \in Conn, Live(d)'
               PROVE  /\ \A m \in ToSet(up'[d]) : Asks(d, m)'
                      /\ \A m \in ToSet(down'[d]) : Answers(d, m)'
                      /\ \A g \in Guid : Serves(d, g)' => g = Home(d)'
    BY Zenon DEF AtHome
  <2>1. CASE d = c
    <3>1. ToSet(up'[d]) = {} /\ ToSet(down'[d]) = {}
      BY <1>2, <1>4, <2>1 DEF ToSet
    <3> QED BY <1>1, <1>5, <2>1, <3>1
  <2>2. CASE d # c
    <3>1. /\ \A m \in ToSet(up[d]) : Asks(d, m)
          /\ \A m \in ToSet(down[d]) : Answers(d, m)
          /\ \A g \in Guid : Serves(d, g) => g = Home(d)
      BY <1>3, <2>2 DEF AtHome
    <3>2. \A m : Asks(d, m) => Asks(d, m)'
      BY <1>2, <1>3 DEF Asks
    <3>3. \A m : Answers(d, m) => Answers(d, m)'
      BY <1>1, <1>2, <1>3, HomeInGuid DEF Answers
    <3> QED BY <1>1, <1>2, <1>3, <3>1, <3>2, <3>3
  <2> QED BY <2>1, <2>2
<1> QED BY <1>1, <1>6, <1>7, <1>8, <1>9

(* onopen: the Hello, and a CreateSession only from a page without a session. *)
LEMMA HandleOpenDelivery ==
    ASSUME TypeOK, TypeOK', DeliveryOK, UNCHANGED backendVars,
           NEW c \in Conn, HandleOpen(c)
    PROVE  DeliveryOK'
<1> USE DEF DeliveryOK
<1>1. /\ Counted' /\ UNCHANGED <<pendingProfiles, guidToSession, produced>>
      /\ \A d \in Conn, g \in Guid : Serves(d, g)' <=> Serves(d, g)
      /\ \A g \in Guid : \A m : Numbered(g, m)' <=> Numbered(g, m)
  BY BackendUnchanged
<1>2. /\ readyState[c] = "connecting" /\ readyState'[c] = "open"
      /\ \A d \in Conn : d # c => readyState'[d] = readyState[d]
      /\ UNCHANGED <<down, assignedSessionId, delivered, nextExpectedResponseId, ws>>
      /\ state' \in {state, "Connected"}
  BY DEF HandleOpen, TypeOK, NetTypeOK
<1> DEFINE opening == IF assignedSessionId = NoGuid
                        THEN CreateSession
                        ELSE AttachToSession(assignedSessionId, nextExpectedResponseId)
           hello == [up EXCEPT ![c] = <<Hello>>]
<1>3. /\ opening.type # "Hello"
      /\ opening.type = "AttachToSession" =>
            assignedSessionId # NoGuid /\ opening.guid = assignedSessionId
      /\ opening.type = "CreateSession" => assignedSessionId = NoGuid
      /\ opening \in CRequests
  BY MessageTypes DEF CreateSession, AttachToSession, TypeOK, ClientTypeOK
<1>4. \/ up' = hello
      \/ ws \in Conn /\ readyState'[ws] = "open" /\ up' = [hello EXCEPT ![ws] = Append(@, opening)]
  BY DEF HandleOpen
<1> HIDE DEF opening
<1>5. /\ hello \in [Conn -> Seq(CRequests)]
      /\ hello[c] = <<Hello>>
      /\ \A d \in Conn : d # c => hello[d] = up[d]
      /\ Hello.type = "Hello"
  BY MessageTypes DEF TypeOK, NetTypeOK, Hello
<1> HIDE DEF hello
<1>6. ASSUME NEW d \in Conn
      PROVE  /\ ToSet(up'[d]) \subseteq ToSet(hello[d]) \cup {opening}
             /\ readyState'[d] # "open" => up'[d] = hello[d]
             /\ \A i \in 2 .. Len(up'[d]) : up'[d][i].type # "Hello"
  <2>1. hello[d] \in Seq(CRequests) /\ Len(hello[d]) \in Nat
    BY <1>5, LenProperties
  <2>2. \A i \in 2 .. Len(hello[d]) : hello[d][i].type # "Hello"
    <3>1. CASE d = c
      <4>1. Len(hello[d]) = 1
        BY <1>5, <3>1
      <4> QED BY <4>1
    <3>2. CASE d # c
      BY <1>5, <3>2 DEF HelloFirst
    <3> QED BY <3>1, <3>2
  <2>3. CASE up'[d] = hello[d]
    BY <2>2, <2>3
  <2>4. CASE up'[d] # hello[d]
    <3>1. readyState'[d] = "open" /\ up'[d] = Append(hello[d], opening)
      BY <1>4, <1>5, <2>4
    <3>2. ToSet(up'[d]) \subseteq ToSet(hello[d]) \cup {opening}
      BY <1>3, <2>1, <3>1, AppendElements
    <3>3. /\ Len(up'[d]) = Len(hello[d]) + 1
          /\ \A i \in 1 .. Len(hello[d]) : up'[d][i] = hello[d][i]
          /\ up'[d][Len(hello[d]) + 1] = opening
      BY <1>3, <2>1, <3>1, AppendProperties
    <3>4. \A i \in 2 .. Len(up'[d]) : i \in 2 .. Len(hello[d]) \/ i = Len(hello[d]) + 1
      BY <2>1, <3>3
    <3>5. 2 .. Len(hello[d]) \subseteq 1 .. Len(hello[d])
      BY <2>1
    <3> QED BY <1>3, <2>2, <3>1, <3>2, <3>3, <3>4, <3>5
  <2> QED BY <2>3, <2>4
<1>7. \A m \in ToSet(hello[c]) : m = Hello
  BY <1>5 DEF ToSet
<1>8. HelloFirst'
  BY <1>6 DEF HelloFirst
<1>9. /\ \A d \in Conn : Unused(d)' => Unused(d) /\ d # c
      /\ \A d \in Conn : PreSession(d)' => PreSession(d)
      /\ \A d \in Conn : Home(d)' = Home(d)
      /\ \A d \in Conn : Live(d)' <=> Live(d)
  <2>1. /\ \A d \in Conn : Unused(d)' => Unused(d) /\ d # c
        /\ Unused(c)
    BY <1>2 DEF Unused
  <2>2. \A d \in Conn : d # c =>
           \A m \in ToSet(up'[d]) : m.type = "Hello" => m \in ToSet(up[d])
    BY <1>3, <1>5, <1>6
  <2>3. \A d \in Conn : PreSession(d)' => PreSession(d)
    BY <1>1, <2>1, <2>2 DEF PreSession
  <2> QED BY <1>2, <2>1, <2>3 DEF Home, Live
<1>10. UnusedSilent'
  <2> SUFFICES ASSUME NEW d \in Conn, Unused(d)'
               PROVE  up'[d] = << >> /\ down'[d] = << >> /\ d \notin pendingProfiles'
    BY DEF UnusedSilent
  <2>1. Unused(d) /\ d # c /\ readyState'[d] # "open"
    BY <1>9 DEF Unused
  <2> QED BY <1>1, <1>2, <1>5, <1>6, <2>1 DEF UnusedSilent
<1>11. PreSessionBlank'
  BY <1>1, <1>2, <1>9 DEF PreSessionBlank
<1>12. Fresh'
  BY <1>1, <1>2, <1>9 DEF Fresh
<1>13. AtHome'
  <2> SUFFICES ASSUME NEW d \in Conn, Live(d)
               PROVE  /\ \A m \in ToSet(up'[d]) : Asks(d, m)'
                      /\ \A m \in ToSet(down'[d]) : Answers(d, m)'
                      /\ \A g \in Guid : Serves(d, g)' => g = Home(d)'
    BY <1>9, Zenon DEF AtHome
  <2>1. /\ \A m \in ToSet(up[d]) : Asks(d, m)
        /\ \A m \in ToSet(down[d]) : Answers(d, m)
        /\ \A g \in Guid : Serves(d, g) => g = Home(d)
    BY Zenon DEF AtHome
  <2>2. \A m : Asks(d, m) => Asks(d, m)'
    BY <1>2, <1>9 DEF Asks
  <2>3. \A m : Answers(d, m) => Answers(d, m)'
    BY <1>1, <1>2, <1>9, HomeInGuid DEF Answers
  <2>4. \A m \in ToSet(up'[d]) : m \in ToSet(up[d]) \/ m = opening \/ m = Hello
    BY <1>5, <1>6, <1>7
  <2>5. \A m \in ToSet(up'[d]) : Asks(d, m)'
    <3>1. \A m : m = opening \/ m = Hello => Asks(d, m)'
      BY <1>2, <1>3, <1>5 DEF Asks
    <3> QED BY <2>1, <2>2, <2>4, <3>1, Zenon
  <2> QED BY <1>1, <1>2, <1>9, <2>1, <2>3, <2>5
<1>14. Delivered'
  BY <1>1, <1>2 DEF Delivered
<1> QED BY <1>1, <1>8, <1>10, <1>11, <1>12, <1>13, <1>14

LEMMA HandleCloseDelivery ==
    ASSUME TypeOK, TypeOK', DeliveryOK, UNCHANGED backendVars,
           NEW c \in Conn, HandleClose(c)
    PROVE  DeliveryOK'
<1> USE DEF DeliveryOK
<1>1. /\ Counted' /\ UNCHANGED <<pendingProfiles, guidToSession, produced>>
      /\ \A d \in Conn, g \in Guid : Serves(d, g)' <=> Serves(d, g)
      /\ \A g \in Guid : \A m : Numbered(g, m)' <=> Numbered(g, m)
  BY BackendUnchanged
<1>2. /\ readyState'[c] = "closed"
      /\ \A d \in Conn : d # c => readyState'[d] = readyState[d] /\ down'[d] = down[d]
      /\ down'[c] = << >> /\ ToSet(down'[c]) = {}
      /\ UNCHANGED <<up, assignedSessionId, delivered, nextExpectedResponseId>>
      /\ Live(c)
  BY DEF HandleClose, TypeOK, NetTypeOK, Live, ToSet
<1>3. /\ \A d \in Conn : Unused(d)' => Unused(d) /\ d # c
      /\ \A d \in Conn : Live(d)' => Live(d) /\ d # c
      /\ \A d \in Conn : PreSession(d)' => PreSession(d)
      /\ \A d \in Conn : Home(d)' = Home(d)
  BY <1>1, <1>2 DEF Unused, Live, PreSession, Home
<1>4. UnusedSilent' /\ HelloFirst' /\ Delivered'
  BY <1>1, <1>2, <1>3 DEF UnusedSilent, HelloFirst, Delivered
<1>5. PreSessionBlank'
  BY <1>1, <1>2, <1>3 DEF PreSessionBlank
<1>6. Fresh'
  <2>1. assignedSessionId = NoGuid => \A d \in Conn : Live(d) => d = c
    BY <1>2 DEF Fresh
  <2> QED BY <1>2, <1>3, <2>1 DEF Fresh
<1>7. AtHome'
  <2> SUFFICES ASSUME NEW d \in Conn, Live(d), d # c
               PROVE  /\ \A m \in ToSet(up'[d]) : Asks(d, m)'
                      /\ \A m \in ToSet(down'[d]) : Answers(d, m)'
                      /\ \A g \in Guid : Serves(d, g)' => g = Home(d)'
    BY <1>3, Zenon DEF AtHome
  <2>1. /\ \A m \in ToSet(up[d]) : Asks(d, m)
        /\ \A m \in ToSet(down[d]) : Answers(d, m)
        /\ \A g \in Guid : Serves(d, g) => g = Home(d)
    BY Zenon DEF AtHome
  <2>2. \A m : Asks(d, m) => Asks(d, m)'
    BY <1>2, <1>3 DEF Asks
  <2>3. \A m : Answers(d, m) => Answers(d, m)'
    BY <1>1, <1>2, <1>3, HomeInGuid DEF Answers
  <2> QED BY <1>1, <1>2, <1>3, <2>1, <2>2, <2>3
<1> QED BY <1>1, <1>4, <1>5, <1>6, <1>7

(* Sending requests changes nothing but what is in flight on an open socket. *)
LEMMA SentRequests ==
    ASSUME TypeOK, HelloFirst, NEW msgs \in Seq(Requests), up' = SentUp(msgs)
    PROVE  /\ HelloFirst'
           /\ \A d \in Conn : readyState[d] # "open" => up'[d] = up[d]
           /\ \A d \in Conn : \A m \in ToSet(up'[d]) :
                  m \in ToSet(up[d]) \/ m.type = "PackagedRequest"
<1>1. msgs \in Seq(CRequests)
  BY MessageTypes, SeqMonotonic
<1>2. \A m \in ToSet(msgs) : m.type = "PackagedRequest"
  <2>1. ToSet(msgs) \in SUBSET Requests
    BY QueueElements
  <2>2. \A m \in Requests : m.type = "PackagedRequest"
    BY DEF Requests
  <2> QED BY <2>1, <2>2
<1>3. \A d \in Conn :
         /\ d # ws \/ readyState[d] # "open" => up'[d] = up[d]
         /\ ToSet(up'[d]) \subseteq ToSet(up[d]) \cup ToSet(msgs)
  BY <1>1, SentUpEffect
<1>4. HelloFirst'
  <2> SUFFICES ASSUME NEW d \in Conn
               PROVE  \A i \in 2 .. Len(up'[d]) : up'[d][i].type # "Hello"
    BY DEF HelloFirst
  <2>1. CASE up'[d] = up[d]
    BY <2>1 DEF HelloFirst
  <2>2. CASE up'[d] # up[d]
    <3>1. up[d] \in Seq(CRequests) /\ up'[d] = up[d] \o msgs
      BY <2>2 DEF SentUp, TypeOK, NetTypeOK
    <3>2. Len(up[d]) \in Nat /\ Len(msgs) \in Nat /\ DOMAIN msgs = 1 .. Len(msgs)
      BY <1>1, <3>1, LenProperties
    <3>3. /\ Len(up'[d]) = Len(up[d]) + Len(msgs)
          /\ \A i \in 1 .. Len(up[d]) + Len(msgs) :
                up'[d][i] = IF i <= Len(up[d]) THEN up[d][i] ELSE msgs[i - Len(up[d])]
      BY <1>1, <3>1, ConcatProperties
    <3>4. SUFFICES ASSUME NEW i \in 2 .. Len(up'[d]) PROVE up'[d][i].type # "Hello"
      OBVIOUS
    <3>5. i \in 1 .. Len(up[d]) + Len(msgs)
      BY <3>2, <3>3
    <3>6. CASE i <= Len(up[d])
      <4>1. i \in 2 .. Len(up[d])
        BY <3>2, <3>6
      <4> QED BY <3>3, <3>5, <3>6, <4>1 DEF HelloFirst
    <3>7. CASE ~(i <= Len(up[d]))
      <4>1. i - Len(up[d]) \in DOMAIN msgs
        BY <3>2, <3>3, <3>7
      <4>2. msgs[i - Len(up[d])].type = "PackagedRequest"
        BY <1>2, <4>1 DEF ToSet
      <4> QED BY <3>3, <3>5, <3>7, <4>2
    <3> QED BY <3>6, <3>7
  <2> QED BY <2>1, <2>2
<1> QED BY <1>2, <1>3, <1>4

LEMMA SendDRequestDelivery ==
    ASSUME TypeOK, TypeOK', DeliveryOK, UNCHANGED backendVars, SendDRequest
    PROVE  DeliveryOK'
<1> USE DEF DeliveryOK
<1>1. /\ Counted' /\ UNCHANGED <<pendingProfiles, guidToSession, produced>>
      /\ \A d \in Conn, g \in Guid : Serves(d, g)' <=> Serves(d, g)
      /\ \A g \in Guid : \A m : Numbered(g, m)' <=> Numbered(g, m)
  BY BackendUnchanged
<1>2. UNCHANGED <<readyState, down, state, ws, assignedSessionId, nextExpectedResponseId,
                  delivered>>
  BY DEF SendDRequest
<1>3. /\ HelloFirst'
      /\ \A d \in Conn : readyState[d] # "open" => up'[d] = up[d]
      /\ \A d \in Conn : \A m \in ToSet(up'[d]) :
             m \in ToSet(up[d]) \/ m.type = "PackagedRequest"
  <2> DEFINE pr == PackagedRequest(nextRequestId, nextExpectedResponseId, bodies + 1)
  <2>1. <<pr>> \in Seq(Requests)
    BY MessageTypes DEF TypeOK, ClientTypeOK
  <2>2. up' = SentUp(<<pr>>) \/ up' = up
    BY DEF SendDRequest
  <2> HIDE DEF pr
  <2>3. CASE up' = SentUp(<<pr>>)
    BY <2>1, <2>3, SentRequests
  <2>4. CASE up' = up
    BY <2>4 DEF HelloFirst
  <2> QED BY <2>2, <2>3, <2>4
<1>4. /\ \A d \in Conn : Unused(d)' <=> Unused(d)
      /\ \A d \in Conn : PreSession(d)' => PreSession(d)
      /\ \A d \in Conn : Home(d)' = Home(d)
      /\ \A d \in Conn : Live(d)' <=> Live(d)
  <2>1. \A d \in Conn : Unused(d)' <=> Unused(d)
    BY <1>2 DEF Unused
  <2>2. \A d \in Conn : PreSession(d)' => PreSession(d)
    BY <1>1, <1>3, <2>1 DEF PreSession
  <2> QED BY <1>2, <2>1, <2>2 DEF Home, Live
<1>5. UnusedSilent' /\ PreSessionBlank' /\ Fresh' /\ Delivered'
  <2>1. \A d \in Conn : Unused(d) => readyState[d] # "open"
    BY DEF Unused
  <2>2. UnusedSilent'
    BY <1>1, <1>2, <1>3, <1>4, <2>1 DEF UnusedSilent
  <2>3. PreSessionBlank'
    BY <1>1, <1>2, <1>4 DEF PreSessionBlank
  <2>4. Fresh' /\ Delivered'
    BY <1>1, <1>2, <1>4 DEF Fresh, Delivered
  <2> QED BY <2>2, <2>3, <2>4
<1>6. AtHome'
  <2> SUFFICES ASSUME NEW d \in Conn, Live(d)
               PROVE  /\ \A m \in ToSet(up'[d]) : Asks(d, m)'
                      /\ \A m \in ToSet(down'[d]) : Answers(d, m)'
                      /\ \A g \in Guid : Serves(d, g)' => g = Home(d)'
    BY <1>4, Zenon DEF AtHome
  <2>1. /\ \A m \in ToSet(up[d]) : Asks(d, m)
        /\ \A m \in ToSet(down[d]) : Answers(d, m)
        /\ \A g \in Guid : Serves(d, g) => g = Home(d)
    BY Zenon DEF AtHome
  <2>2. \A m : Asks(d, m) \/ m.type = "PackagedRequest" => Asks(d, m)'
    BY <1>2, <1>4 DEF Asks
  <2>3. \A m : Answers(d, m) => Answers(d, m)'
    BY <1>1, <1>2, <1>4, HomeInGuid DEF Answers
  <2>4. \A m \in ToSet(up'[d]) : Asks(d, m)'
    BY <1>3, <2>1, <2>2, Zenon
  <2> QED BY <1>1, <1>2, <1>4, <2>1, <2>3, <2>4
<1> QED BY <1>1, <1>3, <1>5, <1>6

(* The page learns of its session on its only connection, and from a page with *)
(* a session nothing changes hands.                                            *)
LEMMA VisitSessionSuccessDelivery ==
    ASSUME TypeOK, TypeOK', DeliveryOK, UNCHANGED backendVars,
           NEW c \in Conn, VisitSessionSuccess(c)
    PROVE  DeliveryOK'
<1> USE DEF DeliveryOK
<1>1. /\ Counted' /\ UNCHANGED <<pendingProfiles, guidToSession, produced>>
      /\ \A d \in Conn, g \in Guid : Serves(d, g)' <=> Serves(d, g)
      /\ \A g \in Guid : \A m : Numbered(g, m)' <=> Numbered(g, m)
  BY BackendUnchanged
<1>2. /\ Arrives(c, "SessionSuccess") /\ down' = [down EXCEPT ![c] = Tail(@)]
      /\ UNCHANGED <<readyState, ws, nextExpectedResponseId, delivered>>
      /\ up' = SentUp(unacknowledged') /\ unacknowledged' \in Seq(Requests)
      /\ assignedSessionId' = Head(down[c]).guid
  BY DEF VisitSessionSuccess, CatchUp, TypeOK, ClientTypeOK
<1>3. /\ readyState[c] = "open" /\ down[c] # << >>
      /\ Head(down[c]) \in CResponses /\ Head(down[c]) \in ToSet(down[c])
      /\ Head(down[c]).type = "SessionSuccess"
      /\ \A d \in Conn : ToSet(down'[d]) \subseteq ToSet(down[d])
      /\ \A d \in Conn : d # c => down'[d] = down[d]
  BY <1>2, ArrivesEffect
<1>4. assignedSessionId' = Home(c) /\ assignedSessionId' \in Guid /\ assignedSessionId' # NoGuid
  <2>1. Live(c)
    BY <1>3 DEF Live
  <2>2. Head(down[c]).guid = Home(c)
    BY <1>3, <2>1 DEF AtHome, Answers
  <2> QED BY <1>2, <2>2, HomeInGuid DEF Guid, Conn, NoGuid
<1>5. /\ HelloFirst'
      /\ \A d \in Conn : readyState[d] # "open" => up'[d] = up[d]
      /\ \A d \in Conn : \A m \in ToSet(up'[d]) :
             m \in ToSet(up[d]) \/ m.type = "PackagedRequest"
  BY <1>2, SentRequests
<1>6. /\ \A d \in Conn : Unused(d)' <=> Unused(d)
      /\ \A d \in Conn : PreSession(d)' => PreSession(d)
      /\ \A d \in Conn : Live(d)' <=> Live(d)
  <2>1. \A d \in Conn : Unused(d)' <=> Unused(d)
    BY <1>2 DEF Unused
  <2>2. \A d \in Conn : PreSession(d)' => PreSession(d)
    BY <1>1, <1>5, <2>1 DEF PreSession
  <2> QED BY <1>2, <2>1, <2>2 DEF Live
<1>7. ~PreSession(c)
  <2>1. "SessionSuccess" # "SessionFailure"
    OBVIOUS
  <2> QED BY <1>3, <2>1 DEF PreSessionBlank
<1>8. UnusedSilent'
  <2>1. \A d \in Conn : Unused(d) => readyState[d] # "open" /\ d # c
    BY <1>3 DEF Unused
  <2> QED BY <1>1, <1>2, <1>3, <1>5, <1>6, <2>1 DEF UnusedSilent
<1>9. assignedSessionId' = assignedSessionId \/ (assignedSessionId = NoGuid /\ assignedSessionId' = c)
  BY <1>4 DEF Home
<1>10. PreSessionBlank'
  <2> SUFFICES ASSUME NEW d \in Conn, PreSession(d)'
               PROVE  (/\ d \notin guidToSession
                       /\ produced[d] = << >>
                       /\ assignedSessionId # d
                       /\ \A g \in Guid : ~Serves(d, g)
                       /\ \A m \in ToSet(down[d]) : m.type = "SessionFailure")'
    BY Zenon DEF PreSessionBlank
  <2>1. /\ d # c /\ d \notin guidToSession /\ produced[d] = << >> /\ assignedSessionId # d
        /\ \A g \in Guid : ~Serves(d, g)
        /\ \A m \in ToSet(down[d]) : m.type = "SessionFailure"
    BY <1>6, <1>7, Zenon DEF PreSessionBlank
  <2> QED BY <1>1, <1>3, <1>9, <2>1
<1>11. Fresh'
  BY <1>4 DEF Fresh
<1>12. \A d \in Conn : Live(d) =>
          /\ Home(d)' = Home(d)
          /\ assignedSessionId' = assignedSessionId \/ (d = c /\ assignedSessionId = NoGuid)
  <2> SUFFICES ASSUME NEW d \in Conn, Live(d)
               PROVE  /\ Home(d)' = Home(d)
                      /\ assignedSessionId' = assignedSessionId \/ (d = c /\ assignedSessionId = NoGuid)
    OBVIOUS
  <2>1. CASE assignedSessionId = NoGuid
    <3>1. Live(c)
      BY <1>3 DEF Live
    <3>2. d = c
      BY <2>1, <3>1 DEF Fresh
    <3> QED BY <1>4, <2>1, <3>2 DEF Home
  <2>2. CASE assignedSessionId # NoGuid
    BY <1>4, <2>2 DEF Home
  <2> QED BY <2>1, <2>2
<1>13. AtHome'
  <2> SUFFICES ASSUME NEW d \in Conn, Live(d)
               PROVE  /\ \A m \in ToSet(up'[d]) : Asks(d, m)'
                      /\ \A m \in ToSet(down'[d]) : Answers(d, m)'
                      /\ \A g \in Guid : Serves(d, g)' => g = Home(d)'
    BY <1>6, Zenon DEF AtHome
  <2>1. /\ \A m \in ToSet(up[d]) : Asks(d, m)
        /\ \A m \in ToSet(down[d]) : Answers(d, m)
        /\ \A g \in Guid : Serves(d, g) => g = Home(d)
    BY Zenon DEF AtHome
  <2>2. \A m : Asks(d, m) \/ m.type = "PackagedRequest" => Asks(d, m)'
    <3>1. CASE assignedSessionId' = assignedSessionId
      BY <1>6, <3>1 DEF Asks
    <3>2. CASE d = c /\ assignedSessionId = NoGuid
      BY <1>6, <1>7, <3>2 DEF Asks
    <3> QED BY <1>12, <3>1, <3>2
  <2>3. \A m : Answers(d, m) => Answers(d, m)'
    <3>1. Home(d)' = Home(d) /\ Home(d) \in Guid
      BY <1>12, HomeInGuid
    <3> QED BY <1>1, <3>1 DEF Answers
  <2>4. \A m \in ToSet(up'[d]) : Asks(d, m)'
    BY <1>5, <2>1, <2>2, Zenon
  <2>5. \A m \in ToSet(down'[d]) : Answers(d, m)'
    BY <1>3, <2>1, <2>3
  <2> QED BY <1>1, <1>12, <2>1, <2>4, <2>5
<1>14. Delivered'
  <2>1. CASE assignedSessionId' = assignedSessionId
    BY <1>1, <1>2, <2>1 DEF Delivered
  <2>2. CASE assignedSessionId = NoGuid
    <3>1. delivered' = << >> /\ nextExpectedResponseId' = Len(delivered')
      BY <1>2, <2>2 DEF Fresh, Delivered
    <3>2. Len(delivered') = 0 /\ Len(produced'[assignedSessionId']) \in Nat
      BY <1>4, <3>1, LenProperties DEF TypeOK, BackendTypeOK
    <3> QED BY <3>1, <3>2 DEF Delivered
  <2> QED BY <1>9, <2>1, <2>2
<1> QED BY <1>1, <1>5, <1>8, <1>10, <1>11, <1>13, <1>14

(* A reload: every connection of the page is gone. *)
LEMMA VisitSessionFailureDelivery ==
    ASSUME TypeOK, TypeOK', DeliveryOK, UNCHANGED backendVars,
           NEW c \in Conn, VisitSessionFailure(c)
    PROVE  DeliveryOK'
<1> USE DEF DeliveryOK
<1>1. /\ Counted' /\ UNCHANGED <<pendingProfiles, guidToSession, produced>>
      /\ \A d \in Conn, g \in Guid : Serves(d, g)' <=> Serves(d, g)
      /\ \A g \in Guid : \A m : Numbered(g, m)' <=> Numbered(g, m)
  BY BackendUnchanged
<1>2. /\ \A d \in Conn : readyState'[d] = IF readyState[d] = "none" THEN "none" ELSE "closed"
      /\ \A d \in Conn : down'[d] = << >> /\ ToSet(down'[d]) = {}
      /\ up' = up /\ assignedSessionId' = NoGuid /\ delivered' = << >>
      /\ nextExpectedResponseId' = 0
  BY DEF VisitSessionFailure, Opened, FirstResponseId, ToSet
<1>3. /\ \A d \in Conn : Unused(d)' => Unused(d)
      /\ \A d \in Conn : ~Live(d)'
      /\ \A d \in Conn : PreSession(d)' => PreSession(d)
  BY <1>1, <1>2 DEF Unused, Live, PreSession
<1>4. UnusedSilent' /\ HelloFirst'
  BY <1>1, <1>2, <1>3 DEF UnusedSilent, HelloFirst
<1>5. PreSessionBlank'
  <2>1. \A d \in Conn : d # NoGuid
    BY DEF Conn, NoGuid
  <2> QED BY <1>1, <1>2, <1>3, <2>1 DEF PreSessionBlank
<1>6. Fresh' /\ AtHome'
  BY <1>2, <1>3 DEF Fresh, AtHome
<1>7. Delivered'
  <2>1. Len(delivered') = 0
    BY <1>2
  <2> QED BY <1>2, <2>1 DEF Delivered
<1> QED BY <1>1, <1>4, <1>5, <1>6, <1>7

(* The page accepts the response it expects, which is the next its session *)
(* produced.                                                                *)
LEMMA VisitPackagedResponseDelivery ==
    ASSUME TypeOK, TypeOK', DeliveryOK, UNCHANGED backendVars,
           NEW c \in Conn, VisitPackagedResponse(c)
    PROVE  DeliveryOK'
<1> USE DEF DeliveryOK
<1>1. /\ Counted' /\ UNCHANGED <<pendingProfiles, guidToSession, produced>>
      /\ \A d \in Conn, g \in Guid : Serves(d, g)' <=> Serves(d, g)
      /\ \A g \in Guid : \A m : Numbered(g, m)' <=> Numbered(g, m)
  BY BackendUnchanged
<1>2. /\ Arrives(c, "PackagedResponse") /\ down' = [down EXCEPT ![c] = Tail(@)]
      /\ UNCHANGED <<readyState, up, state, ws, assignedSessionId>>
  BY DEF VisitPackagedResponse
<1>3. /\ readyState[c] = "open" /\ down[c] # << >>
      /\ Head(down[c]) \in CResponses /\ Head(down[c]) \in ToSet(down[c])
      /\ Head(down[c]).type = "PackagedResponse"
      /\ \A d \in Conn : ToSet(down'[d]) \subseteq ToSet(down[d])
      /\ \A d \in Conn : d # c => down'[d] = down[d]
  BY <1>2, ArrivesEffect
<1>4. Live(c) /\ ~Unused(c)
  BY <1>3 DEF Live, Unused
<1>5. assignedSessionId # NoGuid /\ Home(c) = assignedSessionId /\ assignedSessionId \in Guid
  <2>1. "PackagedResponse" # "SessionSuccess"
    OBVIOUS
  <2>2. assignedSessionId # NoGuid
    BY <1>3, <1>4, <2>1 DEF Fresh
  <2> QED BY <2>2 DEF Home, TypeOK, ClientTypeOK
<1>6. Numbered(assignedSessionId, Head(down[c]))
  BY <1>3, <1>4, <1>5 DEF AtHome, Answers
<1>7. /\ \A d \in Conn : Unused(d)' <=> Unused(d)
      /\ \A d \in Conn : PreSession(d)' <=> PreSession(d)
      /\ \A d \in Conn : Live(d)' <=> Live(d)
      /\ \A d \in Conn : Home(d)' = Home(d)
  BY <1>1, <1>2 DEF Unused, PreSession, Live, Home
<1>8. UnusedSilent' /\ HelloFirst'
  BY <1>1, <1>2, <1>3, <1>4, <1>7 DEF UnusedSilent, HelloFirst
<1>9. PreSessionBlank'
  BY <1>1, <1>2, <1>3, <1>7 DEF PreSessionBlank
<1>10. Fresh'
  BY <1>2, <1>5 DEF Fresh
<1>11. AtHome'
  <2> SUFFICES ASSUME NEW d \in Conn, Live(d)
               PROVE  /\ \A m \in ToSet(up'[d]) : Asks(d, m)'
                      /\ \A m \in ToSet(down'[d]) : Answers(d, m)'
                      /\ \A g \in Guid : Serves(d, g)' => g = Home(d)'
    BY <1>7, Zenon DEF AtHome
  <2>1. /\ \A m \in ToSet(up[d]) : Asks(d, m)
        /\ \A m \in ToSet(down[d]) : Answers(d, m)
        /\ \A g \in Guid : Serves(d, g) => g = Home(d)
    BY Zenon DEF AtHome
  <2>2. \A m : Asks(d, m) => Asks(d, m)'
    BY <1>2, <1>7 DEF Asks
  <2>3. \A m : Answers(d, m) => Answers(d, m)'
    BY <1>1, <1>7, HomeInGuid DEF Answers
  <2> QED BY <1>1, <1>2, <1>3, <1>7, <2>1, <2>2, <2>3
<1>12. Delivered'
  <2> DEFINE presp == Head(down[c])
             all == produced[assignedSessionId]
  <2>1. /\ nextExpectedResponseId = Len(delivered) /\ Len(delivered) \in Nat
        /\ Len(delivered) <= Len(all) /\ Len(all) \in Nat
        /\ \A i \in 1 .. Len(delivered) : delivered[i] = all[i]
        /\ delivered \in Seq(Nat)
    BY <1>5, LenProperties DEF Delivered, TypeOK, ClientTypeOK, BackendTypeOK
  <2>2. presp.id \in Nat /\ presp.body \in Nat
    BY <1>3, MessageShapes
  <2>3. presp.id < Len(all) /\ presp.body = all[presp.id + 1]
    BY <1>6 DEF Numbered
  <2>4. \/ UNCHANGED <<nextExpectedResponseId, delivered>>
        \/ /\ presp.id = nextExpectedResponseId
           /\ nextExpectedResponseId' = nextExpectedResponseId + 1
           /\ delivered' = Append(delivered, presp.body)
    BY DEF VisitPackagedResponse, IsExpected
  <2>5. produced'[assignedSessionId'] = all
    BY <1>1, <1>2
  <2> HIDE DEF presp, all
  <2>6. CASE UNCHANGED <<nextExpectedResponseId, delivered>>
    BY <2>1, <2>5, <2>6 DEF Delivered
  <2>7. CASE /\ presp.id = nextExpectedResponseId
             /\ nextExpectedResponseId' = nextExpectedResponseId + 1
             /\ delivered' = Append(delivered, presp.body)
    <3>1. /\ Len(delivered') = Len(delivered) + 1
          /\ \A i \in 1 .. Len(delivered) : delivered'[i] = delivered[i]
          /\ delivered'[Len(delivered) + 1] = presp.body
      BY <2>1, <2>2, <2>7, AppendProperties
    <3>2. Len(delivered') <= Len(all) /\ presp.body = all[Len(delivered) + 1]
      BY <2>1, <2>2, <2>3, <2>7, <3>1
    <3>3. ASSUME NEW i \in 1 .. Len(delivered') PROVE delivered'[i] = all[i]
      <4>1. i \in 1 .. Len(delivered) \/ i = Len(delivered) + 1
        BY <2>1, <3>1
      <4> QED BY <2>1, <3>1, <3>2, <4>1
    <3> QED BY <2>1, <2>5, <2>7, <3>1, <3>2, <3>3 DEF Delivered
  <2> QED BY <2>4, <2>6, <2>7
<1> QED BY <1>1, <1>8, <1>9, <1>10, <1>11, <1>12

-------------------------------------------------------------------------------
(* The invariant. *)

LEMMA InitDelivery == Init => DeliveryOK
<1> SUFFICES ASSUME Init PROVE DeliveryOK
  OBVIOUS
<1>1. /\ readyState = [c \in Conn |-> "none"]
      /\ up = [c \in Conn |-> << >>] /\ down = [c \in Conn |-> << >>]
      /\ assignedSessionId = NoGuid /\ delivered = << >> /\ nextExpectedResponseId = 0
      /\ pendingProfiles = {} /\ guidToSession = {} /\ processor = Idle /\ server = Idle
      /\ produced = [g \in Guid |-> << >>]
  BY DEF Init, NetInit, ClientInit, BackendInit, FirstResponseId
<1>2. \A c \in Conn :
         /\ ~Live(c) /\ c # NoGuid
         /\ up[c] = << >> /\ down[c] = << >> /\ produced[c] = << >>
         /\ Len(up[c]) = 0 /\ ToSet(down[c]) = {}
         /\ \A g \in Guid : ~Serves(c, g)
  BY <1>1 DEF Live, ToSet, Serves, MapHolds, ServerHolds, ProcessorHolds, Idle, Guid, Conn, NoGuid
<1>3. UnusedSilent /\ HelloFirst
  BY <1>1, <1>2 DEF UnusedSilent, HelloFirst
<1>4. PreSessionBlank /\ Fresh /\ AtHome
  BY <1>1, <1>2 DEF PreSessionBlank, Fresh, AtHome
<1>5. Counted
  BY <1>1 DEF Counted, Idle
<1>6. Delivered
  <2>1. Len(delivered) = 0
    BY <1>1
  <2> QED BY <1>1, <2>1 DEF Delivered
<1> QED BY <1>3, <1>4, <1>5, <1>6 DEF DeliveryOK

\* A page that clicked too early has clicked too early ever after.
LEMMA ClickedEarlyStays ==
    ASSUME [Next]_vars, ~clickedEarly'
    PROVE  ~clickedEarly
<1>1. ASSUME UNCHANGED clickedEarly PROVE ~clickedEarly
  BY <1>1
<1>2. CASE ClientNext
  <2>1. ASSUME NEW c \in Conn, Reconnect(c) PROVE ~clickedEarly
    BY <2>1 DEF Reconnect
  <2>2. CASE ~\E c \in Conn : Reconnect(c)
    <3>1. UNCHANGED clickedEarly
      BY <1>2, <2>2 DEF ClientNext, Connect, HandleOpen, HandleClose, Receive,
                        VisitSessionSuccess, VisitSessionFailure, VisitPackagedResponse,
                        SendDRequest
    <3> QED BY <3>1
  <2> QED BY <2>1, <2>2
<1>3. CASE UNCHANGED clientVars
  BY <1>3 DEF clientVars
<1> QED BY <1>2, <1>3 DEF Next, vars

LEMMA ClientDelivery ==
    ASSUME TypeOK, TypeOK', DeliveryOK, UNCHANGED backendVars, ClientNext,
           ~clickedEarly'
    PROVE  DeliveryOK'
<1>1. ASSUME NEW c \in Conn, Connect(c) PROVE DeliveryOK'
  BY <1>1, OpenSocketDelivery DEF Connect
<1>2. ASSUME NEW c \in Conn, Reconnect(c) PROVE DeliveryOK'
  <2>1. assignedSessionId # NoGuid
    BY <1>2 DEF Reconnect
  <2> QED BY <1>2, <2>1, OpenSocketDelivery DEF Reconnect
<1>3. ASSUME NEW c \in Conn, Receive(c) PROVE DeliveryOK'
  BY <1>3, VisitSessionSuccessDelivery, VisitSessionFailureDelivery,
     VisitPackagedResponseDelivery DEF Receive
<1> QED
  BY <1>1, <1>2, <1>3, HandleOpenDelivery, HandleCloseDelivery, SendDRequestDelivery
     DEF ClientNext

LEMMA BackendDelivery ==
    ASSUME TypeOK, TypeOK', DeliveryOK, UNCHANGED clientVars, BackendNext
    PROVE  DeliveryOK'
BY HandleHelloDelivery, HandleCreateSessionDelivery, HandleAttachToSessionDelivery,
   HandlePackagedRequestDelivery, ProcessorContinuesDelivery, ServerDelivery, RestartDelivery
   DEF BackendNext, ProcessorHandles

LEMMA UnchangedDelivery ==
    ASSUME DeliveryOK,
           UNCHANGED <<readyState, up, down, clientVars, backendVars>>
    PROVE  DeliveryOK'
<1>1. UNCHANGED <<state, ws, assignedSessionId, nextExpectedResponseId, delivered,
                  pendingProfiles, guidToSession, processor, channel, rb, server, produced>>
  BY DEF clientVars, pageVars, backendVars, commVars
<1> QED
  BY <1>1 DEF DeliveryOK, UnusedSilent, HelloFirst, PreSessionBlank, Fresh, AtHome,
              Counted, Delivered, Unused, PreSession, Live, Home, Serves, MapHolds,
              ServerHolds, ProcessorHolds, Asks, Answers, Numbered

(* A live connection has one home, and all there is of a session's responses is *)
(* as the session numbered it, until a page asks for a second session before it *)
(* has the first (the reconnect link, chat.html:141).                           *)
THEOREM DeliveryInvariantHolds == Spec => []DeliveryInvariant
<1>1. TypeOK /\ TypeOK' /\ DeliveryInvariant /\ [Next]_vars => DeliveryInvariant'
  <2> SUFFICES ASSUME TypeOK, TypeOK', DeliveryInvariant, [Next]_vars, ~clickedEarly'
               PROVE  DeliveryOK'
    BY DEF DeliveryInvariant
  <2>1. DeliveryOK
    BY ClickedEarlyStays DEF DeliveryInvariant
  <2>2. CASE ClientNext /\ UNCHANGED backendVars
    BY <2>1, <2>2, ClientDelivery
  <2>3. CASE BackendNext /\ UNCHANGED clientVars
    BY <2>1, <2>3, BackendDelivery
  <2>4. ASSUME NEW c \in Conn, Break(c), UNCHANGED <<clientVars, backendVars>>
        PROVE  DeliveryOK'
    <3>1. UNCHANGED <<readyState, up, down>>
      BY <2>4 DEF Break
    <3> QED BY <2>1, <2>4, <3>1, UnchangedDelivery
  <2>5. CASE UNCHANGED vars
    BY <2>1, <2>5, UnchangedDelivery DEF vars, netVars
  <2> QED BY <2>2, <2>3, <2>4, <2>5 DEF Next
<1>2. Init => DeliveryInvariant
  BY InitDelivery DEF DeliveryInvariant
<1> QED BY <1>1, <1>2, TypeCorrect, PTL DEF Spec

LEMMA PrefixByElements ==
    ASSUME NEW S, NEW s \in Seq(S), NEW t \in Seq(S), Len(s) <= Len(t),
           \A i \in 1 .. Len(s) : s[i] = t[i]
    PROVE  IsPrefix(s, t)
<1> DEFINE n == Len(s)
<1>1. n \in Nat /\ Len(t) \in Nat
  BY LenProperties
<1>2. /\ \A i \in 1 .. n : s[i] \in S
      /\ \A i \in 1 .. n : t[i] \in S
  BY <1>1, ElementOfSeq
<1>3. /\ SubSeq(s, 1, n) \in Seq(S)
      /\ Len(SubSeq(s, 1, n)) = n
      /\ \A i \in 1 .. n : SubSeq(s, 1, n)[i] = s[i]
  BY <1>1, <1>2, SubSeqProperties
<1>4. /\ SubSeq(t, 1, n) \in Seq(S)
      /\ Len(SubSeq(t, 1, n)) = n
      /\ \A i \in 1 .. n : SubSeq(t, 1, n)[i] = t[i]
  BY <1>1, <1>2, SubSeqProperties
<1>5. SubSeq(s, 1, n) = SubSeq(t, 1, n)
  BY <1>3, <1>4, SeqEqual
<1> QED BY <1>1, <1>5 DEF IsPrefix

(* The page sees the responses of its session each once and in the order they  *)
(* were produced, over any number of breaks, reconnects and restarts, until it *)
(* asks for a second session before it has the first (tryCatchup re-sends,     *)
(* visitPackagedResponse filters).                                             *)
THEOREM DeliveryInOrderOnce == Spec => []DeliveredInOrderOnce
<1>1. TypeOK /\ DeliveryInvariant => DeliveredInOrderOnce
  <2> SUFFICES ASSUME TypeOK, DeliveryOK PROVE IsPrefix(delivered, Produced)
    BY DEF DeliveredInOrderOnce, DeliveryInvariant
  <2>1. delivered \in Seq(Nat) /\ Len(delivered) \in Nat
    BY LenProperties DEF TypeOK, ClientTypeOK
  <2>2. /\ Len(delivered) <= Len(Produced)
        /\ Produced \in Seq(Nat) /\ Len(Produced) \in Nat
        /\ \A i \in 1 .. Len(delivered) : delivered[i] = Produced[i]
    <3>1. CASE assignedSessionId = NoGuid
      <4>1. delivered = << >> /\ Produced = << >>
        BY <3>1 DEF DeliveryOK, Fresh, Produced
      <4> QED BY <4>1
    <3>2. CASE assignedSessionId # NoGuid
      <4>1. Produced = produced[assignedSessionId] /\ Produced \in Seq(Nat)
        BY <3>2 DEF Produced, TypeOK, ClientTypeOK, BackendTypeOK
      <4> QED BY <3>2, <4>1, LenProperties DEF DeliveryOK, Delivered
    <3> QED BY <3>1, <3>2
  <2> QED BY <2>1, <2>2, PrefixByElements
<1> QED BY <1>1, TypeCorrect, DeliveryInvariantHolds, PTL

-------------------------------------------------------------------------------
(* Requests                                                                    *)

-------------------------------------------------------------------------------
(* What the backend does without accepting, executing or forgetting a request. *)

\* The connections of a session stay apart from those of a page that is gone.
LEMMA ApartBackend ==
    ASSUME TypeOK, NEW old \in SUBSET Conn, Apart(old),
           UNCHANGED <<readyState, assignedSessionId>>,
           \A c \in Conn : PreSession(c)' => PreSession(c),
           \A c \in Conn, g \in Guid : Related(c, g)' =>
               Related(c, g) \/ (c = g /\ ~Unused(c) /\ ~PreSession(c)')
    PROVE  Apart(old)'
<1>1. \A c \in old : readyState'[c] = "closed"
  BY DEF Apart
<1>2. ASSUME assignedSessionId' # NoGuid
      PROVE  assignedSessionId' \notin old /\ ~PreSession(assignedSessionId)'
  <2>1. PICK g \in Guid : g = assignedSessionId
    BY <1>2 DEF TypeOK, ClientTypeOK
  <2>2. g \notin old /\ ~PreSession(g)
    BY <1>2, <2>1 DEF Apart
  <2>3. ~PreSession(g)'
    BY <2>2 DEF Guid
  <2> QED BY <2>1, <2>2, <2>3
<1>3. ASSUME NEW c \in Conn, NEW g \in Guid, Related(c, g)'
      PROVE  ~Unused(c)' /\ ~PreSession(g)' /\ (c \in old <=> g \in old)
  <2>1. Unused(c)' <=> Unused(c)
    BY DEF Unused
  <2>2. CASE Related(c, g)
    BY <2>1, <2>2 DEF Apart, Guid
  <2>3. CASE c = g /\ ~Unused(c) /\ ~PreSession(c)'
    BY <2>1, <2>3
  <2> QED BY <1>3, <2>2, <2>3
<1> QED BY <1>1, <1>2, <1>3, Zenon DEF Apart

LEMMA QuietBackend ==
    ASSUME TypeOK, TypeOK', NEW old \in SUBSET Conn, RequestOK(old),
           UNCHANGED <<readyState, clientVars, executed>>,
           UnusedSilent', HelloFirst',
           \A c \in Conn : ToSet(up'[c]) \subseteq ToSet(up[c]),
           \A c \in Conn, g \in Guid : Related(c, g)' => Related(c, g),
           \A c \in Conn : PreSession(c)' => PreSession(c),
           guidToSession' \subseteq guidToSession,
           \A g \in guidToSession' :
               rb'[g].nextExpectedIncomingId = rb[g].nextExpectedIncomingId,
           todo' = todo \/ (todo' = << >> /\ guidToSession' = {}),
           \A g \in Guid : Untouched(g) => produced'[g] = produced[g],
           server' # Idle =>
               server # Idle /\ server'.guid = server.guid /\ server'.body = server.body
    PROVE  RequestOK(old)'
<1> USE DEF RequestOK
<1>1. UNCHANGED <<state, assignedSessionId, nextRequestId, unacknowledged, submitted, bodies>>
  BY DEF clientVars, pageVars
<1>2. \A m : Genuine(m)' <=> Genuine(m)
  BY <1>1 DEF Genuine
<1>3. Written'
  BY <1>1, <1>2 DEF Written
<1>4. Apart(old)'
  <2>1. UNCHANGED <<readyState, assignedSessionId>>
    BY <1>1
  <2> QED BY <2>1, ApartBackend
<1>5. InFlight(old)'
  BY <1>2 DEF InFlight
<1>6. ASSUME NEW g \in Guid, Untouched(g) PROVE Untouched(g)'
  <2>1. \A i \in 1 .. Len(todo') : todo'[i].guid # g
    <3>1. CASE todo' = todo
      BY <1>6, <3>1 DEF Untouched
    <3>2. CASE todo' = << >>
      BY <3>2
    <3> QED BY <3>1, <3>2
  <2> QED BY <1>6, <2>1 DEF Untouched
<1>7. Unasked(old)'
  BY <1>1, <1>6 DEF Unasked, Guid
<1>8. Accepted(old)'
  <2> SUFFICES ASSUME NEW g \in Guid \ old
               PROVE  (/\ Len(executed[g]) <= Len(submitted)
                       /\ \A k \in 1 .. Len(executed[g]) : executed[g][k] = submitted[k]
                       /\ g \in guidToSession => Waiting(g))'
    BY Zenon DEF Accepted
  <2>1. /\ Len(executed[g]) <= Len(submitted)
        /\ \A k \in 1 .. Len(executed[g]) : executed[g][k] = submitted[k]
        /\ g \in guidToSession => Waiting(g)
    BY DEF Accepted
  <2>2. ASSUME g \in guidToSession' PROVE Waiting(g)'
    <3>1. Waiting(g) /\ todo' = todo
      BY <2>1, <2>2
    <3> QED BY <1>1, <2>2, <3>1 DEF Waiting
  <2> QED BY <1>1, <2>1, <2>2
<1>9. Answering'
  BY DEF Answering
<1> QED BY <1>3, <1>4, <1>5, <1>7, <1>8, <1>9

LEMMA QuietlyTaken ==
    ASSUME TypeOK, TypeOK', NEW old \in SUBSET Conn, RequestOK(old), UNCHANGED clientVars,
           NEW c \in Conn, NEW type, Takes(c, type),
           UNCHANGED <<channelToSession, guidToSession, channel, processor, rb, todo>>,
           \A d \in Conn : Unused(d) => down'[d] = down[d],
           \A d \in Conn : \A m \in ToSet(down'[d]) :
               m \in ToSet(down[d]) \/ m.type # "SessionSuccess",
           pendingProfiles' \subseteq
               pendingProfiles \cup (IF type = "Hello" THEN {c} ELSE {})
    PROVE  RequestOK(old)'
<1>1. UNCHANGED <<readyState, server, executed, produced>>
  BY DEF Takes
<1>2. \A d \in Conn : ToSet(up'[d]) \subseteq ToSet(up[d])
  BY TakesEffect
<1>3. HelloFirst' /\ ~Unused(c) /\ UnusedSilent
  BY TakesHelloFirst DEF RequestOK
<1>4. UnusedSilent'
  BY <1>1, <1>3, TakesEffect DEF UnusedSilent, Unused
<1>5. ASSUME NEW d \in Conn, NEW g \in Guid, Related(d, g)' PROVE Related(d, g)
  <2>1. Belongs(d, g)' => Belongs(d, g)
    BY <1>2 DEF Belongs
  <2>2. Serves(d, g)' => Serves(d, g)
    BY <1>1 DEF Serves, MapHolds, ServerHolds, ProcessorHolds
  <2> QED BY <1>5, <2>1, <2>2 DEF Related
<1>6. type = "Hello" => PreSession(c)
  BY TakesEffect DEF PreSession
<1>7. ASSUME NEW d \in Conn, PreSession(d)' PROVE PreSession(d)
  <2>1. Unused(d)' => Unused(d)
    BY <1>1 DEF Unused
  <2>2. d \in pendingProfiles' => PreSession(d)
    BY <1>6 DEF PreSession
  <2> QED BY <1>2, <1>7, <2>1, <2>2 DEF PreSession
<1> QED BY <1>1, <1>2, <1>3, <1>4, <1>5, <1>7, QuietBackend

(* The steps of the Processor that accept nothing: Hello, a failure, an attach  *)
(* (which moves the session to a connection that asked for it), the answers to  *)
(* it.                                                                          *)
LEMMA HandleHelloRequests ==
    ASSUME TypeOK, TypeOK', NEW old \in SUBSET Conn, RequestOK(old), UNCHANGED clientVars,
           NEW c \in Conn, HandleHello(c)
    PROVE  RequestOK(old)'
<1>1. Takes(c, "Hello")
  BY DEF HandleHello
<1>2. UNCHANGED <<channelToSession, guidToSession, channel, processor, rb, todo, down>>
  BY DEF HandleHello, ProcessorFails
<1>3. pendingProfiles' \subseteq pendingProfiles \cup {c}
  BY DEF HandleHello, ProcessorFails
<1> QED BY <1>1, <1>2, <1>3, QuietlyTaken

\* What the backend sends is no news of a session, or of one the connection carries.
LEMMA SentNews ==
    ASSUME TypeOK, NEW c \in Conn, NEW m \in CResponses, down' = SentDown(c, <<m>>)
    PROVE  /\ \A d \in Conn : Unused(d) => down'[d] = down[d]
           /\ \A d \in Conn : \A n \in ToSet(down'[d]) :
                  n \in ToSet(down[d]) \/ (d = c /\ n = m)
<1>1. \A d \in Conn :
         /\ d # c => down'[d] = down[d]
         /\ \A n \in ToSet(down'[d]) : n \in ToSet(down[d]) \/ n = m
  BY SentDownEffect
<1>2. \A d \in Conn : Unused(d) => down'[d] = down[d]
  <2>1. readyState[c] # "open" => down' = down
    BY DEF SentDown
  <2> QED BY <1>1, <2>1 DEF Unused
<1> QED BY <1>1, <1>2

LEMMA HandleAttachToSessionRequests ==
    ASSUME TypeOK, TypeOK', NEW old \in SUBSET Conn, RequestOK(old), UNCHANGED clientVars,
           NEW c \in Conn, HandleAttachToSession(c)
    PROVE  RequestOK(old)'
<1> DEFINE as == Head(up[c])
           former == channel[as.guid]
<1>1. Takes(c, "AttachToSession")
  BY DEF HandleAttachToSession
<1>2. CASE UNCHANGED <<channelToSession, channel, processor, guidToSession, rb, todo>>
           /\ pendingProfiles' \subseteq pendingProfiles
           /\ (down' = down \/ down' = SentDown(c, <<SessionFailure>>))
  <2>1. SessionFailure \in CResponses /\ SessionFailure.type # "SessionSuccess"
    BY MessageTypes DEF SessionFailure
  <2>2. /\ \A d \in Conn : Unused(d) => down'[d] = down[d]
        /\ \A d \in Conn : \A m \in ToSet(down'[d]) :
               m \in ToSet(down[d]) \/ m.type # "SessionSuccess"
    <3>1. CASE down' = down
      BY <3>1
    <3>2. CASE down' = SentDown(c, <<SessionFailure>>)
      BY <2>1, <3>2, SentNews
    <3> QED BY <1>2, <3>1, <3>2
  <2>3. pendingProfiles' \subseteq
            pendingProfiles \cup (IF "AttachToSession" = "Hello" THEN {c} ELSE {})
    BY <1>2
  <2> QED BY <1>1, <1>2, <2>2, <2>3, QuietlyTaken
<1>3. CASE /\ channelToSession' = [channelToSession EXCEPT ![former] = NoGuid, ![c] = as.guid]
           /\ channel' = [channel EXCEPT ![as.guid] = c]
           /\ processor' = [pc |-> "reply", guid |-> as.guid, chan |-> c, next |-> as.next]
           /\ UNCHANGED <<down, guidToSession, rb, todo>>
           /\ pendingProfiles' = pendingProfiles \ {c}
  <2>2. UNCHANGED <<readyState, server, executed, produced>>
    BY <1>1 DEF Takes
  <2>3. /\ \A d \in Conn : ToSet(up'[d]) \subseteq ToSet(up[d])
        /\ as \in ToSet(up[c]) /\ as.type = "AttachToSession"
    BY <1>1, TakesEffect
  <2> HIDE DEF as
  <2>4. ASSUME NEW d \in Conn, NEW g \in Guid, Belongs(d, g)' PROVE Belongs(d, g)
    <3>1. CASE channelToSession'[d] = g
      <4>1. channelToSession'[d] \in {NoGuid, channelToSession[d]} \/ (d = c /\ as.guid = g)
        BY <1>3, <3>1 DEF TypeOK, BackendTypeOK
      <4>2. g # NoGuid
        BY DEF Guid, Conn, NoGuid
      <4> QED BY <2>3, <3>1, <4>1, <4>2 DEF Belongs
    <3>2. CASE \E m \in ToSet(up'[d]) : m.type = "AttachToSession" /\ m.guid = g
      BY <2>3, <3>2 DEF Belongs
    <3> QED BY <2>4, <3>1, <3>2 DEF Belongs
  <2>5. \A d \in Conn : PreSession(d)' => PreSession(d)
    BY <1>3, <2>2, <2>3 DEF PreSession, Unused
  <2>6. ASSUME NEW d \in Conn, NEW g \in Guid, Serves(d, g)' PROVE Serves(d, g) \/ Belongs(d, g)
    <3>1. Belongs(c, as.guid)
      BY <2>3 DEF Belongs
    <3>2. MapHolds(d, g)' => MapHolds(d, g) \/ (d = c /\ g = as.guid)
      BY <1>3 DEF MapHolds, TypeOK, BackendTypeOK
    <3>3. ServerHolds(d, g)' => ServerHolds(d, g)
      BY <2>2 DEF ServerHolds
    <3>4. ProcessorHolds(d, g)' => d = c /\ g = as.guid
      BY <1>3 DEF ProcessorHolds
    <3> QED BY <2>6, <3>1, <3>2, <3>3, <3>4 DEF Serves
  <2>7. \A d \in Conn, g \in Guid : Related(d, g)' => Related(d, g)
    BY <1>3, <2>4, <2>6 DEF Related
  <2>8. HelloFirst' /\ ~Unused(c) /\ UnusedSilent
    BY <1>1, TakesHelloFirst DEF RequestOK
  <2>9. UnusedSilent'
    BY <1>1, <1>3, <2>2, <2>8, TakesEffect DEF UnusedSilent, Unused
  <2> QED BY <1>3, <2>2, <2>3, <2>5, <2>7, <2>8, <2>9, QuietBackend
<1> QED BY <1>2, <1>3 DEF HandleAttachToSession, ProcessorFails

LEMMA ProcessorContinuesRequests ==
    ASSUME TypeOK, TypeOK', NEW old \in SUBSET Conn, RequestOK(old), UNCHANGED clientVars,
           ProcessorContinues
    PROVE  RequestOK(old)'
<1>1. UNCHANGED <<readyState, up, pendingProfiles, channelToSession, guidToSession, channel,
                  rb, todo, server, executed, produced>>
  BY DEF ProcessorContinues, AttachReply, CatchupRange, CatchupSend, ProcessorStep
<1>2. PICK c \in Conn, g \in Guid : c = processor.chan /\ g = processor.guid /\ processor # Idle
  BY DEF ProcessorContinues, AttachReply, CatchupRange, CatchupSend, ProcessorStep, TypeOK,
         BackendTypeOK, Processors, Idle
<1>3. processor' = Idle \/ (processor'.chan = c /\ processor'.guid = g)
  BY <1>2 DEF ProcessorContinues, AttachReply, CatchupRange, CatchupSend, ProcessorStep,
              TypeOK, BackendTypeOK, Processors, Idle
<1>4. \/ down' = down
      \/ \E m \in CResponses :
            /\ m.type = "SessionSuccess" => m.guid = g
            /\ down' = SentDown(c, <<m>>)
  <2>1. CASE AttachReply
    <3>1. rb[g].nextExpectedIncomingId \in Nat
      BY DEF TypeOK, BackendTypeOK, Robustifiers
    <3>2. SessionSuccess(g, rb[g].nextExpectedIncomingId) \in CResponses
      BY <3>1, MessageTypes
    <3> QED BY <1>2, <2>1, <3>2 DEF AttachReply, SessionSuccess
  <2>2. CASE CatchupRange
    BY <2>2 DEF CatchupRange
  <2>3. CASE CatchupSend
    <3>1. CASE processor.left = << >>
      BY <2>3, <3>1 DEF CatchupSend
    <3>2. CASE processor.left # << >>
      <4>1. processor.left \in Seq(Responses)
        BY <2>3 DEF CatchupSend, ProcessorStep, TypeOK, BackendTypeOK, Processors, Idle
      <4>2. Head(processor.left) \in Responses
        BY <3>2, <4>1, HeadTailProperties
      <4>3. /\ Head(processor.left) \in CResponses
            /\ Head(processor.left).type # "SessionSuccess"
        BY <4>2, MessageTypes DEF Responses
      <4> QED BY <1>2, <2>3, <3>2, <4>3 DEF CatchupSend
    <3> QED BY <3>1, <3>2
  <2> QED BY <2>1, <2>2, <2>3 DEF ProcessorContinues
<1>5. /\ \A d \in Conn : Unused(d) => down'[d] = down[d]
      /\ \A d \in Conn : \A n \in ToSet(down'[d]) :
             n \in ToSet(down[d]) \/ (d = c /\ (n.type = "SessionSuccess" => n.guid = g))
  <2>1. CASE down' = down
    BY <2>1
  <2>2. ASSUME NEW m \in CResponses, m.type = "SessionSuccess" => m.guid = g,
               down' = SentDown(c, <<m>>)
        PROVE  /\ \A d \in Conn : Unused(d) => down'[d] = down[d]
               /\ \A d \in Conn : \A n \in ToSet(down'[d]) :
                    n \in ToSet(down[d]) \/ (d = c /\ (n.type = "SessionSuccess" => n.guid = g))
    BY <2>2, SentNews
  <2> QED BY <1>4, <2>1, <2>2
<1>6. ASSUME NEW d \in Conn, NEW h \in Guid, Related(d, h)' PROVE Related(d, h)
  <2>1. ProcessorHolds(c, g)
    BY <1>2 DEF ProcessorHolds
  <2>2. Belongs(d, h)' => Belongs(d, h)
    BY <1>1 DEF Belongs
  <2>3. Serves(d, h)' => Serves(d, h)
    <3>1. ProcessorHolds(d, h)' => ProcessorHolds(d, h)
      BY <1>2, <1>3 DEF ProcessorHolds
    <3> QED BY <1>1, <3>1 DEF Serves, MapHolds, ServerHolds
  <2>4. (\E m \in ToSet(down'[d]) : m.type = "SessionSuccess" /\ m.guid = h) =>
           (\E m \in ToSet(down[d]) : m.type = "SessionSuccess" /\ m.guid = h)
           \/ (d = c /\ h = g)
    BY <1>5
  <2> QED BY <1>6, <2>1, <2>2, <2>3, <2>4 DEF Related, Serves
<1>7. \A d \in Conn : PreSession(d)' => PreSession(d)
  BY <1>1 DEF PreSession, Unused
<1>8. HelloFirst' /\ UnusedSilent'
  BY <1>1, <1>5 DEF RequestOK, HelloFirst, UnusedSilent, Unused
<1>9. guidToSession \subseteq Guid
  BY DEF TypeOK, BackendTypeOK
<1> QED BY <1>1, <1>6, <1>7, <1>8, <1>9, QuietBackend

LEMMA RestartRequests ==
    ASSUME TypeOK, TypeOK', NEW old \in SUBSET Conn, RequestOK(old), UNCHANGED clientVars,
           Restart
    PROVE  RequestOK(old)'
<1>1. /\ up' = [c \in Conn |-> << >>] /\ pendingProfiles' = {} /\ guidToSession' = {}
      /\ channelToSession' = [c \in Conn |-> NoGuid] /\ todo' = << >> /\ server' = Idle
      /\ processor' = Idle
      /\ UNCHANGED <<readyState, down, rb, executed, produced>>
  BY DEF Restart
<1>2. \A c \in Conn : /\ ToSet(up'[c]) = {} /\ Len(up'[c]) = 0 /\ up'[c] = << >>
                      /\ channelToSession'[c] = NoGuid /\ c # NoGuid
  BY <1>1 DEF ToSet, Conn, NoGuid
<1>3. \A c \in Conn, g \in Guid : ~Belongs(c, g)' /\ ~Serves(c, g)'
  BY <1>1, <1>2 DEF Belongs, Serves, MapHolds, ServerHolds, ProcessorHolds, Idle, Guid
<1>4. \A c \in Conn, g \in Guid : Related(c, g)' => Related(c, g)
  BY <1>1, <1>3 DEF Related
<1>5. \A c \in Conn : PreSession(c)' => PreSession(c)
  BY <1>1, <1>2 DEF PreSession, Unused
<1>6. HelloFirst' /\ UnusedSilent'
  BY <1>1, <1>2 DEF RequestOK, HelloFirst, UnusedSilent, Unused
<1> QED BY <1>1, <1>2, <1>4, <1>5, <1>6, QuietBackend

\* Nothing was accepted on a session that has seen nothing.
LEMMA UntouchedWaits ==
    ASSUME TypeOK', NEW g \in Guid, Untouched(g)',
           rb'[g].nextExpectedIncomingId = FirstRequestId
    PROVE  Waiting(g)'
<1>1. /\ executed'[g] = << >> /\ Len(executed'[g]) = 0
      /\ \A i \in 1 .. Len(todo') : todo'[i].guid # g
      /\ Len(submitted') \in Nat
  BY LenProperties DEF Untouched, TypeOK, ClientTypeOK
<1> QED BY <1>1 DEF Waiting, FirstRequestId

(* A new session: its page has not heard of it, and nobody sent it anything. *)
LEMMA HandleCreateSessionRequests ==
    ASSUME TypeOK, TypeOK', NEW old \in SUBSET Conn, RequestOK(old), UNCHANGED clientVars,
           NEW c \in Conn, HandleCreateSession(c)
    PROVE  RequestOK(old)'
<1> USE DEF RequestOK
<1>1. Takes(c, "CreateSession")
  BY DEF HandleCreateSession
<1>2. CASE c \notin pendingProfiles
  <2>1. UNCHANGED <<channelToSession, guidToSession, channel, processor, rb, todo,
                    pendingProfiles, down>>
    BY <1>2 DEF HandleCreateSession, ProcessorFails
  <2> QED BY <1>1, <2>1, QuietlyTaken
<1>3. CASE c \in pendingProfiles
  <2>1. /\ pendingProfiles' = pendingProfiles \ {c}
        /\ guidToSession' = guidToSession \cup {c}
        /\ channelToSession' = [channelToSession EXCEPT ![c] = c]
        /\ channel' = [channel EXCEPT ![c] = c]
        /\ rb' = [rb EXCEPT ![c] = NewRobustifier]
        /\ down' = SentDown(c, <<SessionSuccess(c, 0)>>)
        /\ todo' = todo /\ processor' = processor
    BY <1>3 DEF HandleCreateSession
  <2>2. UNCHANGED <<readyState, server, executed, produced, pageVars, bodies>>
    BY <1>1 DEF Takes, clientVars
  <2>3. UNCHANGED <<state, assignedSessionId, nextRequestId, unacknowledged, submitted>>
    BY <2>2 DEF pageVars
  <2>4. \A d \in Conn : ToSet(up'[d]) \subseteq ToSet(up[d])
    BY <1>1, TakesEffect
  <2>5. PreSession(c) /\ Untouched(c) /\ c \in Guid
    BY <1>3, Zenon DEF PreSession, Unasked, Guid
  <2>6. \A d \in Conn : PreSession(d)' => PreSession(d)
    BY <2>1, <2>2, <2>4 DEF PreSession, Unused
  <2>7. /\ HelloFirst' /\ ~Unused(c) /\ UnusedSilent
        /\ \A m \in ToSet(up'[c]) : m.type # "Hello"
    BY <1>1, TakesHelloFirst
  <2>8. ~PreSession(c)'
    BY <2>1, <2>2, <2>7 DEF PreSession, Unused
  <2>9. SessionSuccess(c, 0) \in CResponses /\ SessionSuccess(c, 0).guid = c
    BY <2>5, MessageTypes DEF SessionSuccess
  <2>10. /\ \A d \in Conn : Unused(d) => down'[d] = down[d]
         /\ \A d \in Conn : \A n \in ToSet(down'[d]) :
                n \in ToSet(down[d]) \/ (d = c /\ n.guid = c)
    <3>1. PICK m \in CResponses : m = SessionSuccess(c, 0) /\ m.guid = c
      BY <2>9
    <3>2. down' = SentDown(c, <<m>>)
      BY <2>1, <3>1
    <3> QED BY <3>1, <3>2, SentNews
  <2>11. UnusedSilent'
    BY <1>1, <2>1, <2>2, <2>7, <2>10, TakesEffect DEF UnusedSilent, Unused
  <2>12. ASSUME NEW d \in Conn, NEW g \in Guid, Related(d, g)'
         PROVE  Related(d, g) \/ (d = g /\ ~Unused(d) /\ ~PreSession(d)')
    <3>1. Belongs(d, g)' => Belongs(d, g) \/ (d = c /\ g = c)
      BY <2>1, <2>4 DEF Belongs, TypeOK, BackendTypeOK
    <3>2. Serves(d, g)' => Serves(d, g) \/ (d = c /\ g = c)
      BY <2>1, <2>2 DEF Serves, MapHolds, ServerHolds, ProcessorHolds, TypeOK, BackendTypeOK
    <3> QED BY <2>7, <2>8, <2>10, <2>12, <3>1, <3>2 DEF Related
  <2>13. Apart(old)'
    <3>1. UNCHANGED <<readyState, assignedSessionId>>
      BY <2>2, <2>3
    <3> QED BY <2>6, <2>12, <3>1, ApartBackend
  <2>14. \A m : Genuine(m)' <=> Genuine(m)
    BY <2>3 DEF Genuine
  <2>15. Written' /\ Answering' /\ InFlight(old)'
    BY <2>2, <2>3, <2>4, <2>14 DEF Written, Answering, InFlight
  <2>16. rb \in [Guid -> Robustifiers]
    BY DEF TypeOK, BackendTypeOK
  <2>17. /\ rb'[c].nextExpectedIncomingId = FirstRequestId
         /\ \A g \in Guid : g # c => rb'[g] = rb[g]
    BY <2>1, <2>5, <2>16 DEF NewRobustifier
  <2>18. \A g \in Guid : Untouched(g) => Untouched(g)'
    BY <2>1, <2>2, <2>17 DEF Untouched
  <2>19. Unasked(old)'
    BY <2>3, <2>4, <2>6, <2>18 DEF Unasked, Guid
  <2>20. Accepted(old)'
    <3> SUFFICES ASSUME NEW g \in Guid \ old
                 PROVE  (/\ Len(executed[g]) <= Len(submitted)
                         /\ \A k \in 1 .. Len(executed[g]) : executed[g][k] = submitted[k]
                         /\ g \in guidToSession => Waiting(g))'
      BY Zenon DEF Accepted
    <3>1. /\ Len(executed[g]) <= Len(submitted)
          /\ \A k \in 1 .. Len(executed[g]) : executed[g][k] = submitted[k]
          /\ g \in guidToSession => Waiting(g)
      BY DEF Accepted
    <3>2. CASE g # c
      <4>1. ASSUME g \in guidToSession' PROVE Waiting(g)'
        <5>1. Waiting(g)
          BY <2>1, <3>1, <3>2, <4>1
        <5> QED BY <2>1, <2>2, <2>3, <2>17, <3>2, <5>1 DEF Waiting
      <4> QED BY <2>2, <2>3, <3>1, <4>1
    <3>3. CASE g = c
      <4>1. Untouched(g)'
        BY <2>5, <2>18, <3>3
      <4>2. Waiting(g)'
        BY <2>17, <3>3, <4>1, UntouchedWaits
      <4> QED BY <2>2, <2>3, <3>1, <4>2
    <3> QED BY <3>2, <3>3
  <2> QED BY <2>7, <2>11, <2>13, <2>15, <2>19, <2>20
<1> QED BY <1>2, <1>3

-------------------------------------------------------------------------------
(* The Processor accepts the request its session expects, the page's next, *)
(* and hands it to the Server behind the others.                           *)
LEMMA HandlePackagedRequestRequests ==
    ASSUME TypeOK, TypeOK', NEW old \in SUBSET Conn, RequestOK(old), UNCHANGED clientVars,
           NEW c \in Conn, HandlePackagedRequest(c)
    PROVE  RequestOK(old)'
<1> USE DEF RequestOK
<1>1. Takes(c, "PackagedRequest")
  BY DEF HandlePackagedRequest
<1>2. CASE UNCHANGED <<rb, todo>>
  <2>1. UNCHANGED <<channelToSession, guidToSession, channel, processor, pendingProfiles, down>>
    BY DEF HandlePackagedRequest
  <2> QED BY <1>1, <1>2, <2>1, QuietlyTaken
<1>3. CASE ~UNCHANGED <<rb, todo>>
  <2>1. PICK g \in Guid, pr \in Requests :
           /\ g = channelToSession[c] /\ pr = Head(up[c])
           /\ g \in guidToSession
           /\ pr.id = rb[g].nextExpectedIncomingId
           /\ rb' = [rb EXCEPT ![g] = NoteIncoming(@, pr.next)]
           /\ todo' = Append(todo, [guid |-> g, body |-> pr.body])
    <3>1. Head(up[c]) \in Requests
      BY <1>1, TakesEffect, MessageShapes
    <3>2. channelToSession[c] \in guidToSession \cup {NoGuid} /\ guidToSession \subseteq Guid
      BY DEF TypeOK, BackendTypeOK
    <3> QED BY <1>3, <3>1, <3>2, Zenon DEF HandlePackagedRequest, IsExpectedRequest, Queued
  <2>2. pr \in ToSet(up[c]) /\ pr.type = "PackagedRequest"
        /\ \A d \in Conn : ToSet(up'[d]) \subseteq ToSet(up[d])
    BY <1>1, <2>1, TakesEffect
  <2>3. UNCHANGED <<readyState, server, executed, produced, channelToSession, guidToSession,
                    channel, processor, down, pendingProfiles, state, assignedSessionId,
                    nextRequestId, unacknowledged, submitted, bodies>>
    BY <1>1, <1>3 DEF Takes, HandlePackagedRequest, clientVars, pageVars
  <2>4. /\ \A d \in Conn, h \in Guid : Related(d, h)' => Related(d, h)
        /\ \A d \in Conn : PreSession(d)' => PreSession(d)
        /\ \A m : Genuine(m)' <=> Genuine(m)
    <3>1. \A d \in Conn, h \in Guid : Belongs(d, h)' => Belongs(d, h)
      BY <2>2, <2>3 DEF Belongs
    <3>2. \A d \in Conn, h \in Guid : Serves(d, h)' => Serves(d, h)
      BY <2>3 DEF Serves, MapHolds, ServerHolds, ProcessorHolds
    <3>3. \A d \in Conn, h \in Guid : Related(d, h)' => Related(d, h)
      BY <2>3, <3>1, <3>2 DEF Related
    <3> QED BY <2>2, <2>3, <3>3 DEF PreSession, Unused, Genuine
  <2>5. ~PreSession(g) /\ (c \in old <=> g \in old)
    <3>1. Related(c, g)
      BY <2>1 DEF Related, Belongs
    <3> QED BY <3>1 DEF Apart
  <2>6. /\ \A h \in Guid : h # g => rb'[h] = rb[h]
        /\ rb'[g].nextExpectedIncomingId = rb[g].nextExpectedIncomingId + 1
    <3>1. rb \in [Guid -> Robustifiers] /\ rb[g] \in Robustifiers
      BY DEF TypeOK, BackendTypeOK
    <3> QED BY <2>1, <3>1 DEF NoteIncoming, Robustifiers
  <2>7. /\ Len(todo') = Len(todo) + 1 /\ Len(todo) \in Nat
        /\ \A i \in 1 .. Len(todo) : todo'[i] = todo[i]
        /\ todo'[Len(todo) + 1] = [guid |-> g, body |-> pr.body]
    BY <2>1, AppendProperties, LenProperties DEF TypeOK, BackendTypeOK
  <2>8. \A i \in 1 .. Len(todo') : i \in 1 .. Len(todo) \/ i = Len(todo) + 1
    BY <2>7
  <2>9. Written' /\ Answering' /\ InFlight(old)'
    BY <2>2, <2>3, <2>4 DEF Written, Answering, InFlight
  <2>10. HelloFirst' /\ UnusedSilent'
    <3>1. HelloFirst' /\ ~Unused(c) /\ UnusedSilent
      BY <1>1, TakesHelloFirst
    <3> QED BY <1>1, <2>3, <3>1, TakesEffect DEF UnusedSilent, Unused
  <2>11. Apart(old)'
    <3>1. UNCHANGED <<readyState, assignedSessionId>>
      BY <2>3
    <3> QED BY <2>4, <3>1, ApartBackend
  <2>12. ASSUME NEW h \in Guid, h # g, Untouched(h) PROVE Untouched(h)'
    <3>1. \A i \in 1 .. Len(todo') : todo'[i].guid # h
      BY <2>7, <2>8, <2>12 DEF Untouched
    <3> QED BY <2>3, <2>6, <2>12, <3>1 DEF Untouched
  <2>13. Unasked(old)'
    <3>1. ASSUME NEW d \in Conn, PreSession(d)' PROVE Untouched(d)'
      <4>1. PreSession(d) /\ d \in Guid /\ d # g
        BY <2>4, <2>5, <3>1 DEF Guid
      <4> QED BY <2>12, <4>1 DEF Unasked
    <3>2. ASSUME assignedSessionId = NoGuid, NEW d \in Conn \ old
          PROVE  Untouched(d)' /\ \A m \in ToSet(up'[d]) : m.type # "PackagedRequest"
      <4>1. /\ Untouched(d) /\ d \in Guid
            /\ \A m \in ToSet(up[d]) : m.type # "PackagedRequest"
        BY <3>2 DEF Unasked, Guid
      <4>2. d # g
        <5> SUFFICES ASSUME d = g PROVE FALSE
          OBVIOUS
        <5>1. c \in Conn \ old
          BY <2>5, <3>2
        <5> QED BY <2>2, <3>2, <5>1 DEF Unasked
      <4> QED BY <2>2, <2>12, <4>1, <4>2
    <3> QED BY <2>3, <3>1, <3>2 DEF Unasked
  <2>14. Accepted(old)'
    <3> SUFFICES ASSUME NEW h \in Guid \ old, h \in guidToSession'
                 PROVE  Waiting(h)'
      BY <2>3, Zenon DEF Accepted
    <3>1. h \in guidToSession
      BY <2>3
    <3>2. Waiting(h)
      BY <3>1 DEF Accepted
    <3>3. CASE h # g
      <4>1. rb'[h] = rb[h]
        BY <2>6, <3>3
      <4> HIDE DEF RequestOK
      <4>2. Waiting(h)'
        <5>1. /\ \A i \in 1 .. Len(todo') : todo'[i].guid = h => i \in 1 .. Len(todo) /\ todo'[i] = todo[i]
              /\ \A i \in 1 .. Len(todo) : i \in 1 .. Len(todo') /\ todo'[i] = todo[i]
          BY <2>7, <2>8, <3>3
        <5> DEFINE done == Len(executed[h])
                   next == rb[h].nextExpectedIncomingId - FirstRequestId
        <5>2. /\ \A i \in 1 .. Len(todo) : todo[i].guid = h =>
                    \E k \in (done + 1) .. next : todo[i].body = submitted[k]
              /\ \A k \in (done + 1) .. next :
                    \E i \in 1 .. Len(todo) : todo[i].guid = h /\ todo[i].body = submitted[k]
              /\ \A i, j \in 1 .. Len(todo) :
                    i < j /\ todo[i].guid = h /\ todo[j].guid = h => todo[i].body < todo[j].body
              /\ next \in done .. Len(submitted)
          BY <3>2 DEF Waiting
        <5> HIDE DEF done, next
        <5>3. \A i \in 1 .. Len(todo') : todo'[i].guid = h =>
                 \E k \in (done + 1) .. next : todo'[i].body = submitted[k]
          BY <5>1, <5>2
        <5>4. \A k \in (done + 1) .. next :
                 \E i \in 1 .. Len(todo') : todo'[i].guid = h /\ todo'[i].body = submitted[k]
          BY <5>1, <5>2
        <5>5. \A i, j \in 1 .. Len(todo') :
                 i < j /\ todo'[i].guid = h /\ todo'[j].guid = h => todo'[i].body < todo'[j].body
          BY <5>1, <5>2
        <5>6. Len(executed'[h]) = done /\ rb'[h].nextExpectedIncomingId - FirstRequestId = next
              /\ submitted' = submitted
          BY <2>3, <4>1 DEF done, next
        <5> QED BY <5>2, <5>3, <5>4, <5>5, <5>6 DEF Waiting
      <4> QED BY <4>2
    <3>4. CASE h = g
      <4>1. Genuine(pr)
        <5>1. c \in Conn \ old
          BY <2>5, <3>4
        <5> QED BY <2>2, <5>1 DEF InFlight
      <4> DEFINE done == Len(executed[g])
                 next == rb[g].nextExpectedIncomingId - FirstRequestId
                 last == Len(todo) + 1
      <4>2. /\ next \in done .. Len(submitted) /\ done \in Nat
            /\ next + 1 \in 1 .. Len(submitted) /\ pr.body = submitted[next + 1]
            /\ Len(submitted) \in Nat
        <5>1. done \in Nat /\ Len(submitted) \in Nat
          BY LenProperties DEF TypeOK, BackendTypeOK, ClientTypeOK
        <5> QED BY <2>1, <3>2, <3>4, <4>1, <5>1 DEF Waiting, Genuine
      <4>3. /\ \A i \in 1 .. Len(todo) : todo[i].guid = g =>
                  \E k \in (done + 1) .. next : todo[i].body = submitted[k]
            /\ \A k \in (done + 1) .. next :
                  \E i \in 1 .. Len(todo) : todo[i].guid = g /\ todo[i].body = submitted[k]
            /\ \A i, j \in 1 .. Len(todo) :
                  i < j /\ todo[i].guid = g /\ todo[j].guid = g => todo[i].body < todo[j].body
        BY <3>2, <3>4 DEF Waiting
      <4>4. rb'[g].nextExpectedIncomingId - FirstRequestId = next + 1
        <5>1. rb[g].nextExpectedIncomingId \in Nat
          BY DEF TypeOK, BackendTypeOK, Robustifiers
        <5> QED BY <2>6, <5>1 DEF FirstRequestId
      <4>5. \A k \in (done + 1) .. next : submitted[k] < submitted[next + 1]
        BY <4>2 DEF Written
      <4> HIDE DEF done, next
      <4>6. /\ next + 1 \in done .. Len(submitted)
            /\ next + 1 \in (done + 1) .. (next + 1)
            /\ \A k \in (done + 1) .. next : k \in (done + 1) .. (next + 1)
            /\ \A k \in (done + 1) .. (next + 1) : k \in (done + 1) .. next \/ k = next + 1
        BY <4>2
      <4>7. /\ last \in 1 .. Len(todo') /\ todo'[last].guid = g /\ todo'[last].body = submitted[next + 1]
            /\ \A i \in 1 .. Len(todo) : i \in 1 .. Len(todo') /\ todo'[i] = todo[i] /\ i < last
            /\ \A i \in 1 .. Len(todo') : i \in 1 .. Len(todo) \/ i = last
        BY <2>7, <2>8, <4>2
      <4> HIDE DEF last
      <4>8. \A i \in 1 .. Len(todo') : todo'[i].guid = g =>
               \E k \in (done + 1) .. (next + 1) : todo'[i].body = submitted[k]
        BY <4>3, <4>6, <4>7
      <4>9. \A k \in (done + 1) .. (next + 1) :
               \E i \in 1 .. Len(todo') : todo'[i].guid = g /\ todo'[i].body = submitted[k]
        BY <4>3, <4>6, <4>7
      <4>10. ASSUME NEW i \in 1 .. Len(todo'), NEW j \in 1 .. Len(todo'),
                    i < j, todo'[i].guid = g, todo'[j].guid = g
             PROVE  todo'[i].body < todo'[j].body
        <5>1. i \in 1 .. Len(todo)
          BY <2>7, <4>7, <4>10 DEF last
        <5>2. CASE j \in 1 .. Len(todo)
          BY <4>3, <4>7, <4>10, <5>1, <5>2
        <5>3. CASE j = last
          <6>1. PICK k \in (done + 1) .. next : todo[i].body = submitted[k]
            BY <4>3, <4>7, <4>10, <5>1
          <6> QED BY <4>5, <4>7, <5>1, <5>3, <6>1
        <5> QED BY <4>7, <5>2, <5>3
      <4>11. Len(executed'[g]) = done /\ submitted' = submitted
        BY <2>3 DEF done
      <4>12. Waiting(g)'
        BY <4>4, <4>6, <4>8, <4>9, <4>10, <4>11 DEF Waiting
      <4> QED BY <3>4, <4>12
    <3> QED BY <3>3, <3>4
  <2> QED BY <2>9, <2>10, <2>11, <2>13, <2>14
<1> QED BY <1>2, <1>3

-------------------------------------------------------------------------------
(* The Server executes the first request waiting, the page's next.          *)
LEMMA HandleRequestRequests ==
    ASSUME TypeOK, TypeOK', NEW old \in SUBSET Conn, RequestOK(old), UNCHANGED clientVars,
           HandleRequest
    PROVE  RequestOK(old)'
<1> USE DEF RequestOK
<1>1. PICK g \in Guid, b \in Nat :
         /\ g = todo[1].guid /\ b = todo[1].body
         /\ executed' = [executed EXCEPT ![g] = Append(@, b)]
         /\ server'.guid = g /\ server'.body = b
  <2> DEFINE Item == [guid : Guid, body : Nat]
  <2>1. todo \in Seq(Item) /\ todo # << >>
    BY DEF HandleRequest, TypeOK, BackendTypeOK
  <2>2. PICK r \in Item : r = Head(todo) /\ r = todo[1]
    <3> HIDE DEF Item
    <3> QED BY <2>1, HeadTailProperties
  <2>3. /\ r.guid \in Guid /\ r.body \in Nat
        /\ executed' = [executed EXCEPT ![r.guid] = Append(@, r.body)]
    BY <2>2 DEF HandleRequest
  <2>4. PICK n \in Nat : server' = [pc |-> "answer", guid |-> r.guid, body |-> r.body, left |-> n]
    BY <2>2 DEF HandleRequest
  <2> QED BY <2>2, <2>3, <2>4
<1>2. UNCHANGED <<readyState, up, down, pendingProfiles, channelToSession, guidToSession,
                  channel, processor, rb, produced, state, assignedSessionId, nextRequestId,
                  unacknowledged, submitted, bodies>>
  BY DEF HandleRequest, ServerStep, commVars, clientVars, pageVars
<1>3. /\ Len(todo) \in Nat /\ Len(todo) >= 1 /\ Len(todo') = Len(todo) - 1
      /\ \A i \in 1 .. Len(todo') : i + 1 \in 1 .. Len(todo) /\ todo'[i] = todo[i + 1]
      /\ \A i \in 2 .. Len(todo) : i - 1 \in 1 .. Len(todo') /\ todo'[i - 1] = todo[i]
  <2>1. todo \in Seq([guid : Guid, body : Nat]) /\ todo # << >> /\ todo' = Tail(todo)
    BY DEF HandleRequest, TypeOK, BackendTypeOK
  <2>2. /\ Len(todo) \in Nat /\ Len(todo) >= 1 /\ Len(todo') = Len(todo) - 1
        /\ \A i \in 1 .. Len(todo') : todo'[i] = todo[i + 1]
    BY <2>1, HeadTailProperties, LenProperties, EmptySeq
  <2> QED BY <2>2
<1>4. /\ \A h \in Guid : h # g => executed'[h] = executed[h]
      /\ Len(executed'[g]) = Len(executed[g]) + 1 /\ Len(executed[g]) \in Nat
      /\ \A k \in 1 .. Len(executed[g]) : executed'[g][k] = executed[g][k]
      /\ executed'[g][Len(executed[g]) + 1] = b
      /\ executed'[g] # << >>
  <2>1. executed \in [Guid -> Seq(Nat)] /\ executed[g] \in Seq(Nat)
    BY DEF TypeOK, BackendTypeOK
  <2>2. /\ \A h \in Guid : h # g => executed'[h] = executed[h]
        /\ executed'[g] = Append(executed[g], b)
    BY <1>1, <2>1
  <2>3. /\ Len(executed'[g]) = Len(executed[g]) + 1 /\ Len(executed[g]) \in Nat
        /\ \A k \in 1 .. Len(executed[g]) : executed'[g][k] = executed[g][k]
        /\ executed'[g][Len(executed[g]) + 1] = b
    BY <2>1, <2>2, AppendProperties, LenProperties
  <2>4. executed'[g] # << >>
    BY <2>3
  <2> QED BY <2>2, <2>3, <2>4
<1>5. /\ \A d \in Conn : PreSession(d)' <=> PreSession(d)
      /\ \A m : Genuine(m)' <=> Genuine(m)
  BY <1>2 DEF PreSession, Unused, Genuine
<1>6. Written' /\ InFlight(old)' /\ UnusedSilent' /\ HelloFirst'
  BY <1>2, <1>5 DEF Written, InFlight, UnusedSilent, HelloFirst, Unused
<1>11. Apart(old)'
  <2>1. \A d \in Conn, h \in Guid : ~ServerHolds(d, h)'
    BY DEF HandleRequest, ServerHolds
  <2>2. \A d \in Conn, h \in Guid : Serves(d, h)' => Serves(d, h)
    BY <1>2, <2>1 DEF Serves, MapHolds, ProcessorHolds
  <2>3. \A d \in Conn, h \in Guid : Related(d, h)' => Related(d, h)
    BY <1>2, <2>2 DEF Related, Belongs
  <2>4. UNCHANGED <<readyState, assignedSessionId>>
    BY <1>2
  <2> QED BY <1>5, <2>3, <2>4, ApartBackend
<1>7. Answering'
  BY <1>1, <1>4 DEF Answering
<1>8. ASSUME NEW h \in Guid, Untouched(h) PROVE Untouched(h)'
  <2>1. h # g
    BY <1>1, <1>3, <1>8 DEF Untouched
  <2>2. \A i \in 1 .. Len(todo') : todo'[i].guid # h
    BY <1>3, <1>8 DEF Untouched
  <2> QED BY <1>1, <1>2, <1>4, <1>8, <2>1, <2>2 DEF Untouched
<1>9. Unasked(old)'
  BY <1>2, <1>5, <1>8 DEF Unasked, Guid
<1>10. Accepted(old)'
  <2> SUFFICES ASSUME NEW h \in Guid \ old
               PROVE  (/\ Len(executed[h]) <= Len(submitted)
                       /\ \A k \in 1 .. Len(executed[h]) : executed[h][k] = submitted[k]
                       /\ h \in guidToSession => Waiting(h))'
    BY Zenon DEF Accepted
  <2>2. /\ Len(executed[h]) <= Len(submitted)
        /\ \A k \in 1 .. Len(executed[h]) : executed[h][k] = submitted[k]
        /\ h \in guidToSession => Waiting(h)
    BY DEF Accepted
  <2> DEFINE done == Len(executed[h])
             next == rb[h].nextExpectedIncomingId - FirstRequestId
  <2>3. ASSUME h \in guidToSession
        PROVE  /\ next \in done .. Len(submitted)
               /\ \A i \in 1 .. Len(todo) : todo[i].guid = h =>
                     \E k \in (done + 1) .. next : todo[i].body = submitted[k]
               /\ \A k \in (done + 1) .. next :
                     \E i \in 1 .. Len(todo) : todo[i].guid = h /\ todo[i].body = submitted[k]
               /\ \A i, j \in 1 .. Len(todo) :
                     i < j /\ todo[i].guid = h /\ todo[j].guid = h => todo[i].body < todo[j].body
    BY <2>2, <2>3 DEF Waiting
  <2>4. rb'[h].nextExpectedIncomingId - FirstRequestId = next /\ submitted' = submitted
    BY <1>2
  <2>5. /\ done \in Nat /\ Len(submitted) \in Nat
        /\ \A k \in 1 .. Len(submitted) : submitted[k] \in Nat
        /\ \A k, l \in 1 .. Len(submitted) : k < l => submitted[k] < submitted[l]
    <3>1. submitted \in Seq(Nat) /\ executed[h] \in Seq(Nat)
      BY DEF TypeOK, BackendTypeOK, ClientTypeOK
    <3> QED BY <3>1, LenProperties, ElementOfSeq DEF Written
  <2>6. CASE h # g
    <3>1. executed'[h] = executed[h] /\ Len(executed'[h]) = done
      BY <1>4, <2>6
    <3> HIDE DEF done, next
    <3>2. ASSUME h \in guidToSession PROVE Waiting(h)'
      <4>1. \A i \in 1 .. Len(todo') : todo'[i].guid = h =>
               \E k \in (done + 1) .. next : todo'[i].body = submitted[k]
        <5> SUFFICES ASSUME NEW i \in 1 .. Len(todo'), todo'[i].guid = h
                     PROVE  \E k \in (done + 1) .. next : todo'[i].body = submitted[k]
          OBVIOUS
        <5>1. i + 1 \in 1 .. Len(todo) /\ todo'[i] = todo[i + 1]
          BY <1>3
        <5> QED BY <2>3, <3>2, <5>1
      <4>2. \A k \in (done + 1) .. next :
               \E i \in 1 .. Len(todo') : todo'[i].guid = h /\ todo'[i].body = submitted[k]
        <5> SUFFICES ASSUME NEW k \in (done + 1) .. next
                     PROVE  \E i \in 1 .. Len(todo') : todo'[i].guid = h /\ todo'[i].body = submitted[k]
          OBVIOUS
        <5>1. PICK i \in 1 .. Len(todo) : todo[i].guid = h /\ todo[i].body = submitted[k]
          BY <2>3, <3>2
        <5>2. i \in 2 .. Len(todo)
          BY <1>1, <1>3, <2>6, <5>1
        <5> QED BY <1>3, <5>1, <5>2
      <4>3. \A i, j \in 1 .. Len(todo') :
               i < j /\ todo'[i].guid = h /\ todo'[j].guid = h => todo'[i].body < todo'[j].body
        <5> SUFFICES ASSUME NEW i \in 1 .. Len(todo'), NEW j \in 1 .. Len(todo'),
                            i < j, todo'[i].guid = h, todo'[j].guid = h
                     PROVE  todo'[i].body < todo'[j].body
          OBVIOUS
        <5>1. /\ i + 1 \in 1 .. Len(todo) /\ todo'[i] = todo[i + 1]
              /\ j + 1 \in 1 .. Len(todo) /\ todo'[j] = todo[j + 1]
              /\ i + 1 < j + 1
          BY <1>3
        <5> QED BY <2>3, <3>2, <5>1
      <4> QED BY <2>3, <2>4, <3>1, <3>2, <4>1, <4>2, <4>3 DEF Waiting
    <3> QED BY <1>2, <2>2, <3>1, <3>2
  <2>7. CASE h = g
    <3>1. h \in guidToSession
      <4>1. 1 \in 1 .. Len(todo)
        BY <1>3
      <4>2. \A i \in 1 .. Len(todo) : todo[i].guid \in guidToSession
        BY DEF TypeOK, BackendTypeOK
      <4> QED BY <1>1, <2>7, <4>1, <4>2
    <3> HIDE DEF done, next
    <3>2. done + 1 \in (done + 1) .. next /\ b = submitted[done + 1]
      <4>1. PICK k \in (done + 1) .. next : b = submitted[k]
        BY <1>1, <1>3, <2>3, <2>7, <3>1
      <4>2. done + 1 \in (done + 1) .. next /\ k \in 1 .. Len(submitted)
            /\ done + 1 \in 1 .. Len(submitted)
        <5>1. next \in done .. Len(submitted)
          BY <2>3, <3>1
        <5>2. done \in Nat /\ Len(submitted) \in Nat
          BY <2>5
        <5> QED BY <4>1, <5>1, <5>2
      <4>3. PICK i \in 1 .. Len(todo) : todo[i].guid = h /\ todo[i].body = submitted[done + 1]
        BY <2>3, <3>1, <4>2
      <4>4. i = 1
        <5> SUFFICES ASSUME i # 1 PROVE FALSE
          OBVIOUS
        <5>1. 1 \in 1 .. Len(todo) /\ 1 < i
          BY <1>3
        <5>2. b < submitted[done + 1]
          BY <1>1, <2>3, <2>7, <3>1, <4>3, <5>1
        <5>3. k # done + 1 => submitted[done + 1] < b
          BY <2>5, <4>1, <4>2
        <5>4. submitted[done + 1] \in Nat
          BY <2>5, <4>2
        <5> QED BY <4>1, <5>2, <5>3, <5>4
      <4> QED BY <1>1, <4>2, <4>3, <4>4
    <3>3. Len(executed'[h]) = done + 1
      BY <1>4, <2>7 DEF done
    <3>4. done + 1 <= Len(submitted) /\ next \in (done + 1) .. Len(submitted)
      BY <2>3, <2>5, <3>1, <3>2
    <3>5. \A k \in 1 .. Len(executed'[h]) : executed'[h][k] = submitted[k]
      <4> SUFFICES ASSUME NEW k \in 1 .. (done + 1) PROVE executed'[h][k] = submitted[k]
        BY <3>3
      <4>1. k \in 1 .. done \/ k = done + 1
        BY <2>5
      <4> QED BY <1>4, <2>2, <2>7, <3>2, <4>1 DEF done
    <3>6. /\ \A i \in 2 .. Len(todo) : todo[i].guid = h => todo[i].body # submitted[done + 1]
          /\ todo[1].guid = h /\ todo[1].body = submitted[done + 1]
      <4>1. ASSUME NEW i \in 2 .. Len(todo), todo[i].guid = h PROVE b < todo[i].body
        <5>1. 1 \in 1 .. Len(todo) /\ i \in 1 .. Len(todo) /\ 1 < i
          BY <1>3
        <5> QED BY <1>1, <2>3, <2>7, <3>1, <4>1, <5>1
      <4>2. todo[1].guid = h /\ todo[1].body = submitted[done + 1]
        BY <1>1, <2>7, <3>2
      <4> QED BY <3>2, <4>1, <4>2
    <3>7. \A i \in 1 .. Len(todo') : todo'[i].guid = h =>
             \E k \in (done + 2) .. next : todo'[i].body = submitted[k]
      <4> SUFFICES ASSUME NEW i \in 1 .. Len(todo'), todo'[i].guid = h
                   PROVE  \E k \in (done + 2) .. next : todo'[i].body = submitted[k]
        OBVIOUS
      <4>1. i + 1 \in 2 .. Len(todo) /\ i + 1 \in 1 .. Len(todo) /\ todo'[i] = todo[i + 1]
        BY <1>3
      <4>2. PICK k \in (done + 1) .. next : todo[i + 1].body = submitted[k]
        BY <2>3, <3>1, <4>1
      <4>3. k # done + 1
        BY <3>6, <4>1, <4>2
      <4>4. k \in (done + 2) .. next
        BY <2>5, <3>4, <4>2, <4>3
      <4> QED BY <4>1, <4>2, <4>4
    <3>8. \A k \in (done + 2) .. next :
             \E i \in 1 .. Len(todo') : todo'[i].guid = h /\ todo'[i].body = submitted[k]
      <4> SUFFICES ASSUME NEW k \in (done + 2) .. next
                   PROVE  \E i \in 1 .. Len(todo') : todo'[i].guid = h /\ todo'[i].body = submitted[k]
        OBVIOUS
      <4>1. k \in (done + 1) .. next /\ k \in 1 .. Len(submitted) /\ done + 1 \in 1 .. Len(submitted)
            /\ done + 1 < k
        BY <2>5, <3>4
      <4>2. PICK i \in 1 .. Len(todo) : todo[i].guid = h /\ todo[i].body = submitted[k]
        BY <2>3, <3>1, <4>1
      <4>3. submitted[done + 1] < submitted[k] /\ submitted[done + 1] \in Nat
        BY <2>5, <4>1
      <4>4. i \in 2 .. Len(todo)
        BY <1>3, <3>6, <4>2, <4>3
      <4> QED BY <1>3, <4>2, <4>4
    <3>9. \A i, j \in 1 .. Len(todo') :
             i < j /\ todo'[i].guid = h /\ todo'[j].guid = h => todo'[i].body < todo'[j].body
      <4> SUFFICES ASSUME NEW i \in 1 .. Len(todo'), NEW j \in 1 .. Len(todo'),
                          i < j, todo'[i].guid = h, todo'[j].guid = h
                   PROVE  todo'[i].body < todo'[j].body
        OBVIOUS
      <4>1. /\ i + 1 \in 1 .. Len(todo) /\ todo'[i] = todo[i + 1]
            /\ j + 1 \in 1 .. Len(todo) /\ todo'[j] = todo[j + 1]
            /\ i + 1 < j + 1
        BY <1>3
      <4> QED BY <2>3, <3>1, <4>1
    <3>10. (done + 1) + 1 = done + 2
      BY <2>5
    <3>11. Waiting(h)'
      BY <2>4, <3>3, <3>4, <3>7, <3>8, <3>9, <3>10 DEF Waiting
    <3> QED BY <1>2, <2>4, <3>3, <3>4, <3>5, <3>11
  <2> QED BY <2>6, <2>7
<1> QED BY <1>6, <1>7, <1>9, <1>10, <1>11

(* The responses to it: nothing is accepted or executed. *)
LEMMA ServerRequests ==
    ASSUME TypeOK, TypeOK', NEW old \in SUBSET Conn, RequestOK(old), UNCHANGED clientVars,
           ServerNext
    PROVE  RequestOK(old)'
<1>1. CASE HandleRequest
  BY <1>1, HandleRequestRequests
<1>2. CASE NumberResponse \/ RecordResponse \/ SendResponse
  <2>1. UNCHANGED <<readyState, up, pendingProfiles, channelToSession, guidToSession, channel,
                    processor, todo, executed>>
    BY <1>2 DEF NumberResponse, RecordResponse, SendResponse, ServerStep, commVars
  <2>2. /\ \A d \in Conn : PreSession(d)' => PreSession(d)
        /\ \A d \in Conn, h \in Guid : Belongs(d, h)' => Belongs(d, h)
    BY <2>1 DEF Belongs, PreSession, Unused
  <2>3. server # Idle
    BY <1>2 DEF NumberResponse, RecordResponse, SendResponse, Idle
  <2>4. server' # Idle => server'.guid = server.guid /\ server'.body = server.body
    <3>1. CASE NumberResponse
      BY <3>1 DEF NumberResponse
    <3>2. CASE RecordResponse
      <4>1. server \in Servers /\ server.pc = "record" /\ server' = [server EXCEPT !.pc = "send"]
        BY <3>2 DEF RecordResponse, TypeOK, BackendTypeOK
      <4> QED BY <4>1 DEF Servers, Idle
    <3>3. CASE SendResponse
      BY <3>3 DEF SendResponse
    <3> QED BY <1>2, <3>1, <3>2, <3>3
  <2>5. \A g \in Guid : rb'[g].nextExpectedIncomingId = rb[g].nextExpectedIncomingId
    <3>1. rb \in [Guid -> Robustifiers]
      BY DEF TypeOK, BackendTypeOK
    <3>2. rb' = rb \/ rb' = [rb EXCEPT ![server.guid] = NoteOutgoing(@, server.resp)]
      BY <1>2 DEF NumberResponse, RecordResponse, SendResponse
    <3> QED BY <3>1, <3>2 DEF NoteOutgoing, Robustifiers
  <2>6. ASSUME NEW g \in Guid, Untouched(g) PROVE produced'[g] = produced[g]
    <3>1. server.guid # g
      BY <2>3, <2>6 DEF Untouched
    <3> QED BY <1>2, <3>1 DEF NumberResponse, RecordResponse, SendResponse, TypeOK,
                BackendTypeOK
  <2>7. guidToSession \subseteq Guid
    BY DEF TypeOK, BackendTypeOK
  <2>8. ASSUME NEW d \in Conn, NEW h \in Guid, ServerHolds(d, h)' PROVE Serves(d, h)
    <3>1. CASE NumberResponse
      <4>1. server.guid \in guidToSession
        BY <2>3 DEF TypeOK, BackendTypeOK
      <4>2. server'.guid = server.guid /\ server'.chan = channel[server.guid]
        BY <2>8, <3>1 DEF NumberResponse, ServerHolds, Idle
      <4> QED BY <2>8, <4>1, <4>2 DEF ServerHolds, Serves, MapHolds
    <3>2. CASE RecordResponse
      <4>1. server \in Servers /\ server.pc = "record" /\ server' = [server EXCEPT !.pc = "send"]
        BY <3>2 DEF RecordResponse, TypeOK, BackendTypeOK
      <4>2. server'.guid = server.guid /\ server'.chan = server.chan
        BY <4>1 DEF Servers, Idle
      <4> QED BY <2>8, <4>1, <4>2 DEF ServerHolds, Serves
    <3>3. CASE SendResponse
      BY <2>8, <3>3 DEF SendResponse, ServerHolds, Idle
    <3> QED BY <1>2, <3>1, <3>2, <3>3
  <2>9. /\ \A d \in Conn : Unused(d) => down'[d] = down[d]
        /\ \A d \in Conn : \A n \in ToSet(down'[d]) :
               n \in ToSet(down[d]) \/ n.type # "SessionSuccess"
    <3>1. CASE down' = down
      BY <3>1
    <3>2. CASE SendResponse
      <4>1. server \in Servers /\ server.pc = "send" /\ down' = SentDown(server.chan, <<server.resp>>)
        BY <3>2 DEF SendResponse, TypeOK, BackendTypeOK
      <4>2. PICK c \in Conn, m \in Responses : c = server.chan /\ m = server.resp
        BY <4>1 DEF Servers, Idle
      <4>3. m \in CResponses /\ m.type # "SessionSuccess"
        BY MessageTypes DEF Responses
      <4>4. down' = SentDown(c, <<m>>)
        BY <4>1, <4>2
      <4> QED BY <4>3, <4>4, SentNews
    <3> QED BY <1>2, <3>1, <3>2 DEF NumberResponse, RecordResponse
  <2>10. ASSUME NEW d \in Conn, NEW h \in Guid, Related(d, h)' PROVE Related(d, h)
    <3>1. Serves(d, h)' => Serves(d, h)
      BY <2>1, <2>8 DEF Serves, MapHolds, ProcessorHolds
    <3> QED BY <2>2, <2>9, <2>10, <3>1 DEF Related
  <2>11. HelloFirst' /\ UnusedSilent'
    BY <2>1, <2>9 DEF RequestOK, HelloFirst, UnusedSilent, Unused
  <2> QED BY <2>1, <2>2, <2>3, <2>4, <2>5, <2>6, <2>7, <2>10, <2>11, QuietBackend
<1> QED BY <1>1, <1>2 DEF ServerNext

LEMMA BackendRequests ==
    ASSUME TypeOK, TypeOK', NEW old \in SUBSET Conn, RequestOK(old), UNCHANGED clientVars,
           BackendNext
    PROVE  RequestOK(old)'
BY HandleHelloRequests, HandleCreateSessionRequests, HandleAttachToSessionRequests,
   HandlePackagedRequestRequests, ProcessorContinuesRequests, ServerRequests,
   RestartRequests DEF BackendNext, ProcessorHandles

-------------------------------------------------------------------------------
LEMMA RequestsUnserved ==
    ASSUME NEW old \in SUBSET Conn, RequestOK(old), UNCHANGED backendVars
    PROVE  /\ UNCHANGED <<pendingProfiles, channelToSession, guidToSession, channel, processor,
                          rb, todo, server, executed, produced>>
           /\ Answering'
           /\ \A g \in Guid : Untouched(g)' <=> Untouched(g)
           /\ \A c \in Conn, g \in Guid : Serves(c, g)' <=> Serves(c, g)
<1>1. UNCHANGED <<pendingProfiles, channelToSession, guidToSession, channel, processor, rb,
                  todo, server, executed, produced>>
  BY DEF backendVars, commVars
<1> QED
  BY <1>1 DEF RequestOK, Answering, Untouched, Serves, MapHolds, ServerHolds, ProcessorHolds

(* What the page does without a new request and without a change of session:  *)
(* it opens and closes connections, asks for its session, re-sends what it    *)
(* keeps and forgets what was acknowledged.                                   *)
LEMMA QuietClient ==
    ASSUME TypeOK, TypeOK', NEW old \in SUBSET Conn, RequestOK(old), UNCHANGED backendVars,
           UNCHANGED <<assignedSessionId, nextRequestId, submitted, bodies>>,
           UnusedSilent', HelloFirst',
           ToSet(unacknowledged') \subseteq ToSet(unacknowledged),
           state' = "AttachedToSession" => state = state',
           \A c \in Conn : readyState[c] = "closed" => readyState'[c] = "closed",
           \A c \in Conn : Unused(c)' => Unused(c),
           \A c \in Conn : PreSession(c)' => PreSession(c),
           \A c \in Conn : ToSet(down'[c]) \subseteq ToSet(down[c]),
           \A c \in Conn : \A m \in ToSet(up'[c]) :
               \/ m \in ToSet(up[c])
               \/ /\ c \notin old /\ ~Unused(c)'
                  /\ m.type = "AttachToSession" =>
                       assignedSessionId # NoGuid /\ m.guid = assignedSessionId
                  /\ m.type # "PackagedRequest"
    PROVE  RequestOK(old)'
<1> USE DEF RequestOK
<1>1. /\ UNCHANGED <<pendingProfiles, channelToSession, guidToSession, rb, todo, server,
                     executed, produced>>
      /\ Answering'
      /\ \A g \in Guid : Untouched(g)' <=> Untouched(g)
      /\ \A c \in Conn, g \in Guid : Serves(c, g)' <=> Serves(c, g)
  BY RequestsUnserved
<1>2. \A m : Genuine(m)' <=> Genuine(m)
  BY DEF Genuine
<1>3. Written'
  BY <1>2 DEF Written
<1>4. ASSUME NEW c \in Conn, NEW g \in Guid, Related(c, g)'
      PROVE  \/ Related(c, g)
             \/ c \notin old /\ ~Unused(c)' /\ assignedSessionId # NoGuid /\ g = assignedSessionId
  <2>1. CASE Belongs(c, g)'
    BY <1>1, <2>1 DEF Belongs, Related
  <2>2. CASE ~Belongs(c, g)'
    BY <1>1, <1>4, <2>2 DEF Related
  <2> QED BY <2>1, <2>2
<1>5. Apart(old)'
  <2>1. \A c \in old : readyState'[c] = "closed"
    BY DEF Apart
  <2>2. \A g \in Guid : PreSession(g)' => PreSession(g)
    BY DEF Guid
  <2>3. ASSUME assignedSessionId # NoGuid
        PROVE  /\ assignedSessionId \in Guid /\ assignedSessionId \notin old
               /\ ~PreSession(assignedSessionId)'
    <3>1. PICK g \in Guid : g = assignedSessionId
      BY <2>3 DEF TypeOK, ClientTypeOK
    <3>2. g \notin old /\ ~PreSession(g)
      BY <2>3, <3>1 DEF Apart
    <3>3. ~PreSession(g)'
      BY <2>2, <3>2
    <3>4. assignedSessionId' = g
      BY <3>1
    <3> QED BY <3>1, <3>2, <3>3, <3>4
  <2>4. ASSUME NEW c \in Conn, NEW g \in Guid, Related(c, g)'
        PROVE  ~Unused(c)' /\ ~PreSession(g)' /\ (c \in old <=> g \in old)
    <3>1. CASE Related(c, g)
      BY <2>2, <3>1 DEF Apart
    <3>2. CASE c \notin old /\ ~Unused(c)' /\ assignedSessionId # NoGuid /\ g = assignedSessionId
      <4>1. g \notin old /\ ~PreSession(g)
        BY <3>2 DEF Apart
      <4> QED BY <2>2, <3>2, <4>1
    <3> QED BY <1>4, <2>4, <3>1, <3>2
  <2>5. assignedSessionId' # NoGuid =>
           assignedSessionId' \notin old /\ ~PreSession(assignedSessionId)'
    BY <2>3
  <2> QED BY <2>1, <2>4, <2>5, Zenon DEF Apart
<1>6. InFlight(old)'
  BY <1>2 DEF InFlight
<1>7. Unasked(old)'
  BY <1>1 DEF Unasked, Guid
<1>8. Accepted(old)'
  BY <1>1 DEF Accepted, Waiting
<1> QED BY <1>1, <1>3, <1>5, <1>6, <1>7, <1>8

LEMMA OpenSocketRequests ==
    ASSUME TypeOK, TypeOK', NEW old \in SUBSET Conn, RequestOK(old), UNCHANGED backendVars,
           NEW c \in Conn, OpenSocket(c)
    PROVE  RequestOK(old)'
<1>1. readyState[c] = "none" /\ readyState' = [readyState EXCEPT ![c] = "connecting"]
  <2>1. c >= c
    BY DEF Conn
  <2> QED BY <2>1 DEF OpenSocket
<1>2. /\ UNCHANGED <<up, down, assignedSessionId, nextRequestId, submitted, bodies,
                     unacknowledged, pendingProfiles>>
      /\ state' = "AwaitingConnect"
  BY DEF OpenSocket, backendVars, commVars
<1>3. /\ \A d \in Conn : readyState[d] = "closed" => readyState'[d] = "closed"
      /\ \A d \in Conn : Unused(d)' <=> Unused(d)
      /\ \A d \in Conn : PreSession(d)' => PreSession(d)
  BY <1>1, <1>2 DEF PreSession, Unused, TypeOK, NetTypeOK
<1>4. UnusedSilent' /\ HelloFirst'
  BY <1>2, <1>3 DEF RequestOK, UnusedSilent, HelloFirst
<1> QED BY <1>2, <1>3, <1>4, QuietClient

LEMMA HandleOpenRequests ==
    ASSUME TypeOK, TypeOK', NEW old \in SUBSET Conn, RequestOK(old), UNCHANGED backendVars,
           NEW c \in Conn, HandleOpen(c)
    PROVE  RequestOK(old)'
<1> DEFINE opening == IF assignedSessionId = NoGuid
                        THEN CreateSession
                        ELSE AttachToSession(assignedSessionId, nextExpectedResponseId)
           hello == [up EXCEPT ![c] = <<Hello>>]
<1>1. /\ readyState[c] = "connecting" /\ readyState' = [readyState EXCEPT ![c] = "open"]
      /\ UNCHANGED <<assignedSessionId, nextRequestId, submitted, bodies, unacknowledged, ws,
                     pendingProfiles, down>>
      /\ state' \in {state, "Connected"}
  BY DEF HandleOpen, backendVars, commVars
<1>2. /\ opening.type \notin {"Hello", "PackagedRequest"}
      /\ opening.type = "AttachToSession" =>
            assignedSessionId # NoGuid /\ opening.guid = assignedSessionId
      /\ opening \in CRequests
  BY MessageTypes DEF CreateSession, AttachToSession, TypeOK, ClientTypeOK
<1>3. \/ up' = hello
      \/ ws \in Conn /\ readyState'[ws] = "open" /\ up' = [hello EXCEPT ![ws] = Append(@, opening)]
  BY DEF HandleOpen
<1> HIDE DEF opening
<1>4. /\ hello \in [Conn -> Seq(CRequests)]
      /\ hello[c] = <<Hello>> /\ Len(hello[c]) = 1
      /\ ToSet(hello[c]) = {Hello}
      /\ \A d \in Conn : d # c => hello[d] = up[d]
      /\ Hello.type = "Hello"
  <2>1. hello \in [Conn -> Seq(CRequests)] /\ hello[c] = <<Hello>>
    BY MessageTypes DEF TypeOK, NetTypeOK
  <2>2. ToSet(<<Hello>>) = {Hello}
    BY DEF ToSet
  <2> QED BY <2>1, <2>2 DEF Hello
<1> HIDE DEF hello
<1>5. ASSUME NEW d \in Conn
      PROVE  \/ up'[d] = hello[d]
             \/ readyState'[d] = "open" /\ up'[d] = Append(hello[d], opening)
  BY <1>3, <1>4
<1>6. ASSUME NEW d \in Conn, NEW m \in ToSet(up'[d])
      PROVE  \/ m \in ToSet(up[d])
             \/ readyState'[d] = "open" /\ (m = opening \/ (d = c /\ m = Hello))
  <2>1. readyState'[c] = "open"
    BY <1>1 DEF TypeOK, NetTypeOK
  <2>2. m \in ToSet(hello[d]) => m \in ToSet(up[d]) \/ (d = c /\ m = Hello)
    BY <1>4
  <2>3. m \in ToSet(hello[d]) \/ (readyState'[d] = "open" /\ m = opening)
    <3>1. hello[d] \in Seq(CRequests) /\ opening \in CRequests
      BY <1>2, <1>4
    <3>2. ToSet(Append(hello[d], opening)) \subseteq ToSet(hello[d]) \cup {opening}
      BY <3>1, AppendElements
    <3> QED BY <1>5, <1>6, <3>2
  <2> QED BY <2>1, <2>2, <2>3
<1>7. /\ \A d \in Conn : readyState[d] = "closed" => readyState'[d] = "closed"
      /\ \A d \in Conn : Unused(d)' => Unused(d) /\ d # c
      /\ \A d \in Conn : readyState'[d] = "open" => ~Unused(d)' /\ readyState[d] # "closed"
      /\ Unused(c)
  BY <1>1 DEF TypeOK, NetTypeOK, Unused
<1>8. \A d \in Conn : PreSession(d)' => PreSession(d)
  BY <1>1, <1>2, <1>6, <1>7 DEF PreSession
<1>9. UnusedSilent'
  <2> SUFFICES ASSUME NEW d \in Conn, Unused(d)'
               PROVE  up'[d] = << >> /\ down'[d] = << >> /\ d \notin pendingProfiles'
    BY DEF UnusedSilent
  <2>1. Unused(d) /\ d # c /\ readyState'[d] # "open"
    BY <1>7 DEF Unused
  <2>2. up'[d] = up[d]
    BY <1>4, <1>5, <2>1
  <2> QED BY <1>1, <2>1, <2>2 DEF RequestOK, UnusedSilent
<1>10. HelloFirst'
  <2> SUFFICES ASSUME NEW d \in Conn, NEW i \in 2 .. Len(up'[d])
               PROVE  up'[d][i].type # "Hello"
    BY DEF HelloFirst
  <2>1. hello[d] \in Seq(CRequests) /\ Len(hello[d]) \in Nat
    BY <1>4, LenProperties
  <2>2. \A k \in 2 .. Len(hello[d]) : hello[d][k].type # "Hello"
    <3>1. CASE d = c
      <4>1. Len(hello[d]) = 1
        BY <1>4, <3>1
      <4> QED BY <4>1
    <3>2. CASE d # c
      BY <1>4, <3>2 DEF RequestOK, HelloFirst
    <3> QED BY <3>1, <3>2
  <2>3. CASE up'[d] = hello[d]
    BY <2>2, <2>3
  <2>4. CASE up'[d] = Append(hello[d], opening)
    <3>1. /\ Len(up'[d]) = Len(hello[d]) + 1
          /\ \A k \in 1 .. Len(hello[d]) : up'[d][k] = hello[d][k]
          /\ up'[d][Len(hello[d]) + 1] = opening
      BY <1>2, <2>1, <2>4, AppendProperties
    <3>2. i \in 2 .. Len(hello[d]) \/ i = Len(hello[d]) + 1
      BY <2>1, <3>1
    <3>3. 2 .. Len(hello[d]) \subseteq 1 .. Len(hello[d])
      BY <2>1
    <3> QED BY <1>2, <2>2, <3>1, <3>2, <3>3
  <2> QED BY <1>5, <2>3, <2>4
<1>11. \A d \in Conn : \A m \in ToSet(up'[d]) :
          \/ m \in ToSet(up[d])
          \/ /\ d \notin old /\ ~Unused(d)'
             /\ m.type = "AttachToSession" =>
                  assignedSessionId # NoGuid /\ m.guid = assignedSessionId
             /\ m.type # "PackagedRequest"
  <2>1. \A d \in old : readyState[d] = "closed"
    BY DEF RequestOK, Apart
  <2> QED BY <1>2, <1>4, <1>6, <1>7, <2>1
<1>12. /\ state' = "AttachedToSession" => state = state'
       /\ ToSet(unacknowledged') \subseteq ToSet(unacknowledged)
       /\ \A d \in Conn : ToSet(down'[d]) \subseteq ToSet(down[d])
  BY <1>1
<1> QED BY <1>1, <1>7, <1>8, <1>9, <1>10, <1>11, <1>12, QuietClient

LEMMA HandleCloseRequests ==
    ASSUME TypeOK, TypeOK', NEW old \in SUBSET Conn, RequestOK(old), UNCHANGED backendVars,
           NEW c \in Conn, HandleClose(c)
    PROVE  RequestOK(old)'
<1>1. /\ readyState' = [readyState EXCEPT ![c] = "closed"] /\ state' = "Disconnected"
      /\ down' = [down EXCEPT ![c] = << >>]
      /\ UNCHANGED <<up, assignedSessionId, nextRequestId, submitted, bodies, unacknowledged,
                     pendingProfiles>>
  BY DEF HandleClose, Disconnect, backendVars, commVars
<1>2. /\ \A d \in Conn : readyState[d] = "closed" => readyState'[d] = "closed"
      /\ \A d \in Conn : Unused(d)' => Unused(d) /\ d # c
      /\ \A d \in Conn : PreSession(d)' => PreSession(d)
      /\ \A d \in Conn : d # c => down'[d] = down[d]
      /\ down'[c] = << >> /\ ToSet(down'[c]) = {}
  BY <1>1 DEF PreSession, Unused, TypeOK, NetTypeOK, ToSet
<1>3. \A d \in Conn : ToSet(down'[d]) \subseteq ToSet(down[d])
  BY <1>2
<1>4. UnusedSilent' /\ HelloFirst'
  BY <1>1, <1>2 DEF RequestOK, UnusedSilent, HelloFirst
<1> QED BY <1>1, <1>2, <1>3, <1>4, QuietClient

LEMMA VisitPackagedResponseRequests ==
    ASSUME TypeOK, TypeOK', NEW old \in SUBSET Conn, RequestOK(old), UNCHANGED backendVars,
           NEW c \in Conn, VisitPackagedResponse(c)
    PROVE  RequestOK(old)'
<1>1. UNCHANGED <<readyState, state, up, assignedSessionId, nextRequestId, submitted, bodies,
                  pendingProfiles>>
  BY DEF VisitPackagedResponse, backendVars, commVars
<1>2. Arrives(c, "PackagedResponse") /\ down' = [down EXCEPT ![c] = Tail(@)]
  BY DEF VisitPackagedResponse
<1>3. ToSet(unacknowledged') \subseteq ToSet(unacknowledged)
  <2>2. Head(down[c]) \in Responses /\ Head(down[c]).next \in Nat
    BY <1>2, ArrivesEffect, MessageShapes
  <2>3. unacknowledged \in Seq(Requests) /\ \A m \in Requests : m.id \in Nat
    BY MessageShapes DEF TypeOK, ClientTypeOK
  <2>4. unacknowledged' \in {unacknowledged, PopAcked(unacknowledged, Head(down[c]).next)}
    BY DEF VisitPackagedResponse
  <2> QED BY <2>2, <2>3, <2>4, PopAckedElements
<1>4. /\ \A d \in Conn : PreSession(d)' => PreSession(d)
      /\ \A d \in Conn : Unused(d)' <=> Unused(d)
  BY <1>1 DEF PreSession, Unused
<1>5. /\ \A d \in Conn : ToSet(down'[d]) \subseteq ToSet(down[d])
      /\ \A d \in Conn : d # c => down'[d] = down[d]
      /\ ~Unused(c)
  BY <1>2, ArrivesEffect DEF Unused
<1>6. UnusedSilent' /\ HelloFirst'
  BY <1>1, <1>4, <1>5 DEF RequestOK, UnusedSilent, HelloFirst
<1> QED BY <1>1, <1>3, <1>4, <1>5, <1>6, QuietClient

(* What catchUp re-sends is what the page submitted. *)
LEMMA CaughtUp ==
    ASSUME TypeOK, Written, HelloFirst, NEW c \in Conn, VisitSessionSuccess(c)
    PROVE  /\ HelloFirst'
           /\ ToSet(unacknowledged') \subseteq ToSet(unacknowledged)
           /\ \A d \in Conn : readyState[d] # "open" => up'[d] = up[d]
           /\ \A d \in Conn : \A m \in ToSet(up'[d]) :
                \/ m \in ToSet(up[d])
                \/ readyState[d] = "open" /\ m.type = "PackagedRequest" /\ Genuine(m)
<1>1. Arrives(c, "SessionSuccess") /\ down' = [down EXCEPT ![c] = Tail(@)]
  BY DEF VisitSessionSuccess
<1>2. Head(down[c]).next \in Nat
  BY <1>1, ArrivesEffect, MessageShapes
<1>3. /\ unacknowledged \in Seq(Requests) /\ \A m \in Requests : m.id \in Nat
      /\ unacknowledged' = PopAcked(unacknowledged, Head(down[c]).next)
      /\ up' = SentUp(unacknowledged')
  BY MessageShapes DEF VisitSessionSuccess, CatchUp, TypeOK, ClientTypeOK
<1>4. unacknowledged' \in Seq(Requests) /\ ToSet(unacknowledged') \subseteq ToSet(unacknowledged)
  BY <1>2, <1>3, PopAckedElements, PopAckedType
<1>5. unacknowledged' \in Seq(CRequests)
  BY <1>4, MessageTypes, SeqMonotonic
<1>6. \A m \in ToSet(unacknowledged') : m.type = "PackagedRequest" /\ Genuine(m)
  <2>1. ToSet(unacknowledged') \in SUBSET Requests
    BY <1>4, QueueElements
  <2>2. \A m \in Requests : m.type = "PackagedRequest"
    BY DEF Requests
  <2>3. \A m \in ToSet(unacknowledged) : Genuine(m)
    BY DEF Written
  <2> QED BY <1>4, <2>1, <2>2, <2>3
<1>7. PICK sent \in Seq(CRequests) : sent = unacknowledged' /\ sent \in Seq(Requests)
  BY <1>4, <1>5
<1>8. up' = SentUp(sent)
  BY <1>3, <1>7
<1>9. \A d \in Conn :
         /\ d # ws \/ readyState[d] # "open" => up'[d] = up[d]
         /\ ToSet(up'[d]) \subseteq ToSet(up[d]) \cup ToSet(sent)
  BY <1>8, SentUpEffect
<1>10. HelloFirst'
  BY <1>7, <1>8, SentRequests
<1> QED BY <1>4, <1>6, <1>7, <1>9, <1>10

(* The page hears of a session that a connection of its own is for. *)
LEMMA VisitSessionSuccessRequests ==
    ASSUME TypeOK, TypeOK', NEW old \in SUBSET Conn, RequestOK(old), UNCHANGED backendVars,
           NEW c \in Conn, VisitSessionSuccess(c)
    PROVE  RequestOK(old)'
<1> USE DEF RequestOK
<1>1. /\ UNCHANGED <<pendingProfiles, channelToSession, guidToSession, rb, todo, server,
                     executed, produced>>
      /\ Answering'
      /\ \A g \in Guid : Untouched(g)' <=> Untouched(g)
      /\ \A d \in Conn, g \in Guid : Serves(d, g)' <=> Serves(d, g)
  BY RequestsUnserved
<1>2. /\ UNCHANGED <<readyState, nextRequestId, submitted, bodies>>
      /\ state' = "AttachedToSession"
      /\ Arrives(c, "SessionSuccess") /\ down' = [down EXCEPT ![c] = Tail(@)]
      /\ assignedSessionId' = Head(down[c]).guid
  BY DEF VisitSessionSuccess
<1>3. /\ HelloFirst'
      /\ ToSet(unacknowledged') \subseteq ToSet(unacknowledged)
      /\ \A d \in Conn : readyState[d] # "open" => up'[d] = up[d]
      /\ \A d \in Conn : \A m \in ToSet(up'[d]) :
           \/ m \in ToSet(up[d])
           \/ readyState[d] = "open" /\ m.type = "PackagedRequest" /\ Genuine(m)
  BY CaughtUp
<1>4. /\ readyState[c] = "open" /\ Head(down[c]) \in ToSet(down[c])
      /\ Head(down[c]).type = "SessionSuccess" /\ Head(down[c]).guid \in Guid
      /\ \A d \in Conn : ToSet(down'[d]) \subseteq ToSet(down[d])
      /\ \A d \in Conn : d # c => down'[d] = down[d]
  BY <1>2, ArrivesEffect, MessageShapes
<1>5. PICK h \in Guid : h = assignedSessionId' /\ h \notin old /\ ~PreSession(h) /\ h # NoGuid
  <2>1. PICK h \in Guid : h = Head(down[c]).guid
    BY <1>4
  <2>2. Related(c, h)
    BY <1>4, <2>1 DEF Related
  <2>3. c \notin old
    BY <1>4 DEF Apart
  <2> QED BY <1>2, <2>1, <2>2, <2>3 DEF Apart, Guid, Conn, NoGuid
<1>6. /\ \A d \in Conn : PreSession(d)' => PreSession(d)
      /\ \A d \in Conn : Unused(d)' <=> Unused(d)
      /\ \A m : Genuine(m)' <=> Genuine(m)
  BY <1>1, <1>2, <1>3 DEF PreSession, Unused, Genuine
<1>7. UnusedSilent'
  BY <1>1, <1>3, <1>4, <1>6 DEF UnusedSilent, Unused
<1>8. Written'
  BY <1>2, <1>3, <1>5, <1>6 DEF Written
<1>9. Apart(old)'
  <2>1. \A d \in old : readyState'[d] = "closed"
    BY <1>2 DEF Apart
  <2>2. ~PreSession(h)'
    BY <1>5, <1>6 DEF Guid
  <2>3. ASSUME NEW d \in Conn, NEW g \in Guid, Related(d, g)'
        PROVE  ~Unused(d)' /\ ~PreSession(g)' /\ (d \in old <=> g \in old)
    <3>1. Belongs(d, g)' => Belongs(d, g)
      BY <1>1, <1>3 DEF Belongs
    <3>2. Related(d, g)
      BY <1>1, <1>4, <2>3, <3>1 DEF Related
    <3> QED BY <1>6, <3>2 DEF Apart, Guid
  <2> QED BY <1>5, <2>1, <2>2, <2>3, Zenon DEF Apart
<1>10. InFlight(old)'
  BY <1>3, <1>6 DEF InFlight
<1>11. Unasked(old)'
  BY <1>1, <1>5, <1>6 DEF Unasked, Guid
<1>12. Accepted(old)'
  BY <1>1, <1>2 DEF Accepted, Waiting
<1> QED BY <1>1, <1>3, <1>7, <1>8, <1>9, <1>10, <1>11, <1>12

(* A page loaded anew leaves all its connections, and what they are of, behind. *)
LEMMA VisitSessionFailureRequests ==
    ASSUME TypeOK, TypeOK', NEW old \in SUBSET Conn, RequestOK(old), UNCHANGED backendVars,
           NEW c \in Conn, VisitSessionFailure(c)
    PROVE  \E left \in SUBSET Conn : RequestOK(left)'
<1> USE DEF RequestOK
<1>1. /\ UNCHANGED <<pendingProfiles, channelToSession, guidToSession, rb, todo, server,
                     executed, produced>>
      /\ Answering'
      /\ \A g \in Guid : Untouched(g)' <=> Untouched(g)
      /\ \A d \in Conn, g \in Guid : Serves(d, g)' <=> Serves(d, g)
  BY RequestsUnserved
<1>2. PICK left \in SUBSET Conn : left = {d \in Conn : readyState[d] # "none"}
  OBVIOUS
<1>3. /\ \A d \in Conn : readyState'[d] = IF d \in left THEN "closed" ELSE "none"
      /\ up' = up /\ assignedSessionId' = NoGuid /\ state' = "Disconnected"
      /\ nextRequestId' = FirstRequestId
      /\ unacknowledged' = << >> /\ submitted' = << >>
      /\ \A d \in Conn : down'[d] = << >> /\ ToSet(down'[d]) = {}
  BY <1>2 DEF VisitSessionFailure, Opened, Disconnect, ToSet
<1>4. /\ \A d \in Conn : d \notin left => Unused(d) /\ PreSession(d) /\ up[d] = << >> /\ ToSet(up[d]) = {}
      /\ \A d \in Conn : ~Unused(d) => d \in left
      /\ \A d \in Conn : Unused(d)' <=> d \notin left
  BY <1>2, <1>3 DEF Unused, PreSession, UnusedSilent, ToSet
<1>5. \A d \in Conn : PreSession(d)' => PreSession(d)
  BY <1>1, <1>3, <1>4 DEF PreSession
<1>6. UnusedSilent' /\ HelloFirst'
  BY <1>1, <1>3, <1>4 DEF UnusedSilent, HelloFirst
<1>7. Written'
  <2>1. Len(submitted') = 0 /\ ToSet(unacknowledged') = {}
    BY <1>3 DEF ToSet
  <2> QED BY <1>3, <2>1 DEF Written, FirstRequestId
<1>8. Apart(left)'
  <2>1. ASSUME NEW d \in Conn, NEW g \in Guid, Related(d, g)'
        PROVE  ~Unused(d)' /\ ~PreSession(g)' /\ (d \in left <=> g \in left)
    <3>1. Belongs(d, g)' => Belongs(d, g)
      BY <1>1, <1>3 DEF Belongs
    <3>2. Related(d, g)
      BY <1>1, <1>3, <2>1, <3>1 DEF Related
    <3>3. ~Unused(d) /\ ~PreSession(g) /\ g \in Conn
      BY <3>2 DEF Apart, Guid
    <3> QED BY <1>4, <1>5, <3>3
  <2>2. \A d \in left : readyState'[d] = "closed"
    BY <1>3
  <2> QED BY <1>3, <2>1, <2>2, Zenon DEF Apart
<1>9. InFlight(left)'
  BY <1>3, <1>4 DEF InFlight
<1>10. \A d \in Conn : PreSession(d) => Untouched(d)'
  BY <1>1 DEF Unasked, Guid
<1>11. Unasked(left)'
  BY <1>3, <1>4, <1>5, <1>10 DEF Unasked
<1>12. Accepted(left)'
  <2> SUFFICES ASSUME NEW g \in Guid \ left
               PROVE  (/\ Len(executed[g]) <= Len(submitted)
                       /\ \A k \in 1 .. Len(executed[g]) : executed[g][k] = submitted[k]
                       /\ g \in guidToSession => Waiting(g))'
    BY Zenon DEF Accepted
  <2>1. Untouched(g)'
    BY <1>4, <1>10 DEF Guid
  <2>2. Len(executed'[g]) = 0 /\ Len(submitted') = 0
    BY <1>3, <2>1 DEF Untouched
  <2>3. g \in guidToSession' => Waiting(g)'
    <3>1. g \in guidToSession' => rb'[g].nextExpectedIncomingId = FirstRequestId
      BY <2>1 DEF Untouched
    <3> QED BY <2>1, <3>1, UntouchedWaits
  <2> QED BY <2>2, <2>3
<1>13. RequestOK(left)'
  BY <1>1, <1>6, <1>7, <1>8, <1>9, <1>11, <1>12
<1> QED BY <1>13

(* A new request: it gets the next number, and goes out once there is a session *)
(* for it.                                                                      *)
LEMMA SendDRequestRequests ==
    ASSUME TypeOK, TypeOK', NEW old \in SUBSET Conn, RequestOK(old), UNCHANGED backendVars,
           SendDRequest
    PROVE  RequestOK(old)'
<1> USE DEF RequestOK
<1>1. /\ UNCHANGED <<pendingProfiles, channelToSession, guidToSession, rb, todo, server,
                     executed, produced>>
      /\ Answering'
      /\ \A g \in Guid : Untouched(g)' <=> Untouched(g)
      /\ \A d \in Conn, g \in Guid : Serves(d, g)' <=> Serves(d, g)
  BY RequestsUnserved
<1>2. PICK b \in Nat, pr \in Requests :
         /\ b = bodies + 1 /\ bodies' = b
         /\ pr.id = nextRequestId /\ pr.body = b /\ pr.type = "PackagedRequest"
         /\ nextRequestId' = nextRequestId + 1
         /\ unacknowledged' = Append(unacknowledged, pr)
         /\ up' = IF state = "AttachedToSession" THEN SentUp(<<pr>>) ELSE up
         /\ submitted' = Append(submitted, b)
  <2> DEFINE msg == PackagedRequest(nextRequestId, nextExpectedResponseId, bodies + 1)
  <2>1. bodies + 1 \in Nat /\ nextRequestId \in Nat /\ nextExpectedResponseId \in Nat
    BY DEF TypeOK, ClientTypeOK
  <2>2. msg \in Requests
    BY <2>1, MessageTypes
  <2>3. msg.id = nextRequestId /\ msg.body = bodies + 1 /\ msg.type = "PackagedRequest"
    BY DEF PackagedRequest
  <2>4. /\ bodies' = bodies + 1 /\ nextRequestId' = nextRequestId + 1
        /\ unacknowledged' = Append(unacknowledged, msg)
        /\ up' = IF state = "AttachedToSession" THEN SentUp(<<msg>>) ELSE up
        /\ submitted' = Append(submitted, bodies + 1)
    BY DEF SendDRequest
  <2> HIDE DEF msg
  <2> QED BY <2>1, <2>2, <2>3, <2>4
<1>3. UNCHANGED <<readyState, down, state, ws, assignedSessionId>>
  BY DEF SendDRequest
<1>4. /\ Len(submitted) \in Nat /\ Len(submitted') = Len(submitted) + 1
      /\ \A k \in 1 .. Len(submitted) : submitted'[k] = submitted[k] /\ submitted[k] \in Nat
      /\ submitted'[Len(submitted) + 1] = b
      /\ \A k \in 1 .. Len(submitted') : k \in 1 .. Len(submitted) \/ k = Len(submitted) + 1
      /\ \A k \in 1 .. Len(submitted) : k \in 1 .. Len(submitted')
  <2>1. submitted \in Seq(Nat)
    BY DEF TypeOK, ClientTypeOK
  <2>2. /\ Len(submitted) \in Nat /\ Len(submitted') = Len(submitted) + 1
        /\ \A k \in 1 .. Len(submitted) : submitted'[k] = submitted[k] /\ submitted[k] \in Nat
        /\ submitted'[Len(submitted) + 1] = b
    BY <1>2, <2>1, AppendProperties, LenProperties, ElementOfSeq
  <2> QED BY <2>2
<1>5. /\ \A m : Genuine(m) => Genuine(m)'
      /\ Genuine(pr)'
  <2>1. Genuine(pr)'
    BY <1>2, <1>4 DEF Genuine, Written, FirstRequestId
  <2> QED BY <1>4, <2>1 DEF Genuine
<1>6. /\ \A d \in Conn : \A m \in ToSet(up'[d]) :
            m \in ToSet(up[d]) \/ (m = pr /\ assignedSessionId # NoGuid)
      /\ HelloFirst'
      /\ \A d \in Conn : readyState[d] # "open" => up'[d] = up[d]
  <2>1. CASE up' = up
    BY <2>1 DEF HelloFirst
  <2>2. CASE state = "AttachedToSession" /\ up' = SentUp(<<pr>>)
    <3>1. assignedSessionId # NoGuid
      BY <2>2 DEF Written
    <3>2. <<pr>> \in Seq(CRequests) /\ <<pr>> \in Seq(Requests) /\ ToSet(<<pr>>) = {pr}
      BY MessageTypes DEF ToSet
    <3>3. PICK msgs \in Seq(CRequests) : msgs = <<pr>> /\ msgs \in Seq(Requests)
      BY <3>2
    <3>4. up' = SentUp(msgs)
      BY <2>2, <3>3
    <3>5. \A d \in Conn :
             /\ d # ws \/ readyState[d] # "open" => up'[d] = up[d]
             /\ ToSet(up'[d]) \subseteq ToSet(up[d]) \cup ToSet(msgs)
      BY <3>4, SentUpEffect
    <3>6. HelloFirst'
      BY <3>3, <3>4, SentRequests
    <3> QED BY <3>1, <3>2, <3>3, <3>5, <3>6
  <2> QED BY <1>2, <2>1, <2>2
<1>7. /\ \A d \in Conn : PreSession(d)' => PreSession(d)
      /\ \A d \in Conn : Unused(d)' <=> Unused(d)
      /\ \A d \in Conn, g \in Guid : Related(d, g)' => Related(d, g)
  <2>1. \A d \in Conn, g \in Guid : Belongs(d, g)' => Belongs(d, g)
    BY <1>1, <1>2, <1>6 DEF Belongs
  <2>2. \A d \in Conn, g \in Guid : Related(d, g)' => Related(d, g)
    BY <1>1, <1>3, <2>1 DEF Related
  <2> QED BY <1>1, <1>2, <1>3, <1>6, <2>2 DEF PreSession, Unused
<1>8. Written'
  <2>1. nextRequestId' = FirstRequestId + Len(submitted')
    BY <1>2, <1>4 DEF Written, FirstRequestId
  <2>2. bodies \in Nat /\ \A k \in 1 .. Len(submitted) : submitted[k] < b
    <3>1. bodies \in Nat
      BY DEF TypeOK, ClientTypeOK
    <3>2. \A k \in 1 .. Len(submitted) : submitted[k] <= bodies
      BY DEF Written
    <3> QED BY <1>2, <1>4, <3>1, <3>2
  <2>3. \A k, l \in 1 .. Len(submitted') : k < l => submitted'[k] < submitted'[l]
    <3> SUFFICES ASSUME NEW k \in 1 .. Len(submitted'), NEW l \in 1 .. Len(submitted'), k < l
                 PROVE  submitted'[k] < submitted'[l]
      OBVIOUS
    <3>1. k \in 1 .. Len(submitted)
      BY <1>4
    <3>2. CASE l \in 1 .. Len(submitted)
      BY <1>4, <3>1, <3>2 DEF Written
    <3>3. CASE l = Len(submitted) + 1
      BY <1>4, <2>2, <3>1, <3>3
    <3> QED BY <1>4, <3>2, <3>3
  <2>4. \A k \in 1 .. Len(submitted') : submitted'[k] <= bodies'
    BY <1>2, <1>4, <2>2
  <2>5. \A m \in ToSet(unacknowledged') : Genuine(m)'
    <3>1. unacknowledged \in Seq(Requests)
      BY DEF TypeOK, ClientTypeOK
    <3>2. ToSet(unacknowledged') \subseteq ToSet(unacknowledged) \cup {pr}
      BY <1>2, <3>1, AppendElements
    <3> QED BY <1>5, <3>2 DEF Written
  <2>6. state' = "AttachedToSession" => assignedSessionId' # NoGuid
    BY <1>3 DEF Written
  <2> QED BY <2>1, <2>3, <2>4, <2>5, <2>6 DEF Written
<1>9. UnusedSilent' /\ Apart(old)'
  <2>1. UnusedSilent'
    BY <1>1, <1>3, <1>6, <1>7 DEF UnusedSilent, Unused
  <2>2. Apart(old)'
    BY <1>3, <1>7, ApartBackend
  <2> QED BY <2>1, <2>2
<1>10. InFlight(old)'
  BY <1>5, <1>6 DEF InFlight
<1>11. Unasked(old)'
  BY <1>1, <1>3, <1>6, <1>7 DEF Unasked, Guid
<1>12. Accepted(old)'
  <2> SUFFICES ASSUME NEW g \in Guid \ old
               PROVE  (/\ Len(executed[g]) <= Len(submitted)
                       /\ \A k \in 1 .. Len(executed[g]) : executed[g][k] = submitted[k]
                       /\ g \in guidToSession => Waiting(g))'
    BY Zenon DEF Accepted
  <2> DEFINE done == Len(executed[g])
             next == rb[g].nextExpectedIncomingId - FirstRequestId
  <2>2. /\ done <= Len(submitted) /\ done \in Nat
        /\ \A k \in 1 .. done : executed[g][k] = submitted[k]
        /\ g \in guidToSession => Waiting(g)
    BY LenProperties DEF Accepted, TypeOK, BackendTypeOK
  <2>3. /\ done <= Len(submitted')
        /\ \A k \in 1 .. done : executed[g][k] = submitted'[k]
    BY <1>4, <2>2
  <2>4. ASSUME g \in guidToSession PROVE Waiting(g)'
    <3>1. /\ next \in done .. Len(submitted)
          /\ \A i \in 1 .. Len(todo) : todo[i].guid = g =>
                \E k \in (done + 1) .. next : todo[i].body = submitted[k]
          /\ \A k \in (done + 1) .. next :
                \E i \in 1 .. Len(todo) : todo[i].guid = g /\ todo[i].body = submitted[k]
          /\ \A i, j \in 1 .. Len(todo) :
                i < j /\ todo[i].guid = g /\ todo[j].guid = g => todo[i].body < todo[j].body
      BY <2>2, <2>4 DEF Waiting
    <3>2. rb'[g].nextExpectedIncomingId - FirstRequestId = next /\ Len(executed'[g]) = done
          /\ todo' = todo
      BY <1>1
    <3> HIDE DEF done, next
    <3>3. next \in done .. Len(submitted')
      BY <1>4, <2>2, <3>1
    <3>4. \A k \in (done + 1) .. next : submitted'[k] = submitted[k]
      <4>1. (done + 1) .. next \subseteq 1 .. Len(submitted)
        <5>1. done \in Nat /\ next \in done .. Len(submitted)
          BY <2>2, <3>1
        <5>2. Len(submitted) \in Nat
          BY <1>4
        <5> QED BY <5>1, <5>2
      <4> QED BY <1>4, <4>1
    <3>5. \A i \in 1 .. Len(todo') : todo'[i].guid = g =>
             \E k \in (done + 1) .. next : todo'[i].body = submitted'[k]
      <4> SUFFICES ASSUME NEW i \in 1 .. Len(todo), todo[i].guid = g
                   PROVE  \E k \in (done + 1) .. next : todo[i].body = submitted'[k]
        BY <3>2
      <4>1. PICK k \in (done + 1) .. next : todo[i].body = submitted[k]
        BY <3>1
      <4> QED BY <3>4, <4>1
    <3>6. \A k \in (done + 1) .. next :
             \E i \in 1 .. Len(todo') : todo'[i].guid = g /\ todo'[i].body = submitted'[k]
      <4> SUFFICES ASSUME NEW k \in (done + 1) .. next
                   PROVE  \E i \in 1 .. Len(todo) : todo[i].guid = g /\ todo[i].body = submitted'[k]
        BY <3>2
      <4>1. PICK i \in 1 .. Len(todo) : todo[i].guid = g /\ todo[i].body = submitted[k]
        BY <3>1
      <4> QED BY <3>4, <4>1
    <3>7. \A i, j \in 1 .. Len(todo') :
             i < j /\ todo'[i].guid = g /\ todo'[j].guid = g => todo'[i].body < todo'[j].body
      BY <3>1, <3>2
    <3> QED BY <3>2, <3>3, <3>5, <3>6, <3>7 DEF Waiting
  <2> QED BY <1>1, <2>3, <2>4
<1> QED BY <1>1, <1>6, <1>8, <1>9, <1>10, <1>11, <1>12

LEMMA ClientRequests ==
    ASSUME TypeOK, TypeOK', NEW old \in SUBSET Conn, RequestOK(old), UNCHANGED backendVars,
           ClientNext
    PROVE  RequestInvariant'
<1>1. ASSUME NEW c \in Conn, VisitSessionFailure(c) PROVE RequestInvariant'
  <2>1. \E left \in SUBSET Conn : RequestOK(left)'
    BY <1>1, VisitSessionFailureRequests
  <2> QED BY <2>1, Zenon DEF RequestInvariant
<1>2. CASE ~\E c \in Conn : VisitSessionFailure(c)
  <2>1. RequestOK(old)'
    BY <1>2, OpenSocketRequests, HandleOpenRequests, HandleCloseRequests,
       SendDRequestRequests, VisitSessionSuccessRequests, VisitPackagedResponseRequests
       DEF ClientNext, Connect, Reconnect, Receive
  <2> QED BY <2>1, Zenon DEF RequestInvariant
<1> QED BY <1>1, <1>2

LEMMA UnchangedRequests ==
    ASSUME NEW old \in SUBSET Conn, RequestOK(old),
           UNCHANGED <<readyState, up, down, clientVars, backendVars>>
    PROVE  RequestOK(old)'
<1>1. UNCHANGED <<state, assignedSessionId, nextRequestId, unacknowledged, submitted, bodies,
                  pendingProfiles, channelToSession, guidToSession, channel, processor, rb,
                  todo, server, executed, produced>>
  BY DEF clientVars, pageVars, backendVars, commVars
<1> QED
  BY <1>1 DEF RequestOK, UnusedSilent, HelloFirst, Written, Apart, InFlight, Unasked,
              Accepted, Answering, Genuine, Related, Belongs, Serves, MapHolds, ServerHolds,
              ProcessorHolds, Unused, PreSession, Untouched, Waiting

LEMMA InitRequests == Init => RequestOK({})
<1> SUFFICES ASSUME Init PROVE RequestOK({})
  OBVIOUS
<1>1. /\ readyState = [c \in Conn |-> "none"] /\ up = [c \in Conn |-> << >>]
      /\ down = [c \in Conn |-> << >>] /\ pendingProfiles = {} /\ processor = Idle
      /\ state = "Disconnected" /\ assignedSessionId = NoGuid /\ nextRequestId = FirstRequestId
      /\ unacknowledged = << >> /\ submitted = << >> /\ bodies = 0
      /\ channelToSession = [c \in Conn |-> NoGuid] /\ guidToSession = {}
      /\ todo = << >> /\ server = Idle
      /\ executed = [g \in Guid |-> << >>] /\ produced = [g \in Guid |-> << >>]
  BY DEF Init, NetInit, ClientInit, BackendInit
<1>2. \A c \in Conn :
         /\ up[c] = << >> /\ down[c] = << >> /\ Len(up[c]) = 0
         /\ ToSet(up[c]) = {} /\ ToSet(down[c]) = {} /\ Untouched(c)
         /\ \A g \in Guid : ~Related(c, g)
  BY <1>1 DEF ToSet, Untouched, Related, Belongs, Serves, MapHolds, ServerHolds,
              ProcessorHolds, Idle, Guid, Conn, NoGuid
<1>3. Len(submitted) = 0 /\ ToSet(unacknowledged) = {}
  BY <1>1 DEF ToSet
<1>4. Written
  BY <1>1, <1>3 DEF Written, FirstRequestId
<1>5. UnusedSilent /\ HelloFirst /\ Apart({}) /\ InFlight({}) /\ Unasked({})
  BY <1>1, <1>2 DEF UnusedSilent, HelloFirst, Apart, InFlight, Unasked
<1>6. \A g \in Guid : Len(executed[g]) = 0
  BY <1>1
<1>7. Accepted({}) /\ Answering
  BY <1>1, <1>3, <1>6 DEF Accepted, Answering
<1> QED BY <1>4, <1>5, <1>7 DEF RequestOK

(* What is in flight and in the queues on the way to a session is what its page *)
(* numbered so, and what a session accepted follows what the Server executed on *)
(* it, whatever breaks, restarts, and however often the user reconnects by hand *)
(* (SessionManager numbers and keeps requests, Robustifier::noteIncoming        *)
(* filters).                                                                    *)
THEOREM RequestInvariantHolds == Spec => []RequestInvariant
<1>1. TypeOK /\ TypeOK' /\ RequestInvariant /\ [Next]_vars => RequestInvariant'
  <2> SUFFICES ASSUME TypeOK, TypeOK', RequestInvariant, [Next]_vars
               PROVE  RequestInvariant'
    OBVIOUS
  <2>1. PICK old \in SUBSET Conn : RequestOK(old)
    BY DEF RequestInvariant
  <2>2. CASE ClientNext /\ UNCHANGED backendVars
    BY <2>1, <2>2, ClientRequests
  <2>3. CASE ~(ClientNext /\ UNCHANGED backendVars)
    <3> SUFFICES RequestOK(old)'
      BY Zenon DEF RequestInvariant
    <3>1. CASE BackendNext /\ UNCHANGED clientVars
      BY <2>1, <3>1, BackendRequests
    <3>2. ASSUME NEW c \in Conn, Break(c), UNCHANGED <<clientVars, backendVars>>
          PROVE  RequestOK(old)'
      <4>1. UNCHANGED <<readyState, up, down>>
        BY <3>2 DEF Break
      <4> QED BY <2>1, <3>2, <4>1, UnchangedRequests
    <3>3. CASE UNCHANGED vars
      BY <2>1, <3>3, UnchangedRequests DEF vars, netVars
    <3> QED BY <2>3, <3>1, <3>2, <3>3 DEF Next
  <2> QED BY <2>2, <2>3
<1>2. Init => RequestInvariant
  BY InitRequests, Zenon DEF RequestInvariant
<1> QED BY <1>1, <1>2, TypeCorrect, PTL DEF Spec

(* The Server executes what the page submitted, each request once and in the    *)
(* order of submission, on whatever session the page has, over any number of    *)
(* breaks, reconnects, restarts and uses of the reconnect link                  *)
(* (SessionManager.catchUp re-sends, Robustifier::noteIncoming filters).        *)
THEOREM ExecutionInOrderOnce == Spec => []ExecutedInOrderOnce
<1>1. TypeOK /\ RequestInvariant => ExecutedInOrderOnce
  <2> SUFFICES ASSUME TypeOK, NEW old \in SUBSET Conn, RequestOK(old)
               PROVE  IsPrefix(Executed, submitted)
    BY DEF ExecutedInOrderOnce, RequestInvariant
  <2>1. submitted \in Seq(Nat) /\ Len(submitted) \in Nat
    BY LenProperties DEF TypeOK, ClientTypeOK
  <2>2. /\ Executed \in Seq(Nat) /\ Len(Executed) <= Len(submitted)
        /\ \A i \in 1 .. Len(Executed) : Executed[i] = submitted[i]
    <3>1. CASE assignedSessionId = NoGuid
      <4>1. Executed = << >> /\ Len(Executed) = 0
        BY <3>1 DEF Executed
      <4> QED BY <2>1, <4>1
    <3>2. CASE assignedSessionId # NoGuid
      <4>1. Executed = executed[assignedSessionId] /\ Executed \in Seq(Nat)
        BY <3>2 DEF Executed, TypeOK, ClientTypeOK, BackendTypeOK
      <4>2. assignedSessionId \in Guid \ old
        BY <3>2 DEF RequestOK, Apart, TypeOK, ClientTypeOK
      <4> QED BY <4>1, <4>2 DEF RequestOK, Accepted
    <3> QED BY <3>1, <3>2
  <2> QED BY <2>1, <2>2, PrefixByElements
<1> QED BY <1>1, TypeCorrect, RequestInvariantHolds, PTL

-------------------------------------------------------------------------------
(* The refinement, step by step. *)
LEMMA SessionHistories ==
    ASSUME UNCHANGED assignedSessionId
    PROVE  /\ assignedSessionId = NoGuid => UNCHANGED <<Executed, Produced>>
           /\ assignedSessionId # NoGuid =>
                /\ Executed = executed[assignedSessionId] /\ Executed' = executed'[assignedSessionId]
                /\ Produced = produced[assignedSessionId] /\ Produced' = produced'[assignedSessionId]
BY DEF Executed, Produced

LEMMA BackendStream ==
    ASSUME TypeOK, TypeOK', RequestInvariant, RequestInvariant', UNCHANGED clientVars,
           BackendNext
    PROVE  Stream!Next \/ UNCHANGED Stream!vars
<1>1. UNCHANGED <<assignedSessionId, submitted, delivered, clickedEarly>>
  BY DEF clientVars, pageVars
<1>2. assignedSessionId # NoGuid => assignedSessionId \in Guid
  BY DEF TypeOK, ClientTypeOK
<1>3. executed \in [Guid -> Seq(Nat)] /\ produced \in [Guid -> Seq(Nat)]
  BY DEF TypeOK, BackendTypeOK
<1>4. CASE UNCHANGED <<executed, produced>>
  <2>1. UNCHANGED <<Executed, Produced>>
    BY <1>1, <1>4 DEF Executed, Produced
  <2> QED BY <1>1, <2>1 DEF Stream!vars
<1>5. CASE HandleRequest
  <2>1. /\ executed' = [executed EXCEPT ![Head(todo).guid] = Append(@, Head(todo).body)]
        /\ produced' = produced
    BY <1>5 DEF HandleRequest
  <2>2. Produced' = Produced
    BY <1>1, <2>1 DEF Produced
  <2>3. CASE assignedSessionId # NoGuid /\ assignedSessionId = Head(todo).guid
    <3>1. PICK g \in Guid : g = assignedSessionId
      BY <1>2, <2>3
    <3>2. PICK b : b = Head(todo).body
      OBVIOUS
    <3>3. /\ Executed = executed[g] /\ Executed' = executed'[g]
          /\ executed'[g] = Append(executed[g], b) /\ executed[g] \in Seq(Nat)
      BY <1>1, <1>3, <2>1, <2>3, <3>1, <3>2, SessionHistories
    <3>4. /\ Len(executed'[g]) = Len(executed[g]) + 1 /\ Len(executed[g]) \in Nat
          /\ executed'[g][Len(executed[g]) + 1] = b
      <4>1. PICK S : S = Nat \cup {b}
        OBVIOUS
      <4>2. executed[g] \in Seq(S) /\ b \in S
        BY <3>3, <4>1, SeqMonotonic
      <4> QED BY <3>3, <4>2, AppendProperties, LenProperties
    <3>5. /\ Len(executed'[g]) <= Len(submitted)
          /\ \A k \in 1 .. Len(executed'[g]) : executed'[g][k] = submitted[k]
      <4>1. PICK old \in SUBSET Conn : RequestOK(old)'
        BY DEF RequestInvariant
      <4>2. g \in Guid \ old
        BY <1>1, <2>3, <3>1, <4>1 DEF RequestOK, Apart
      <4> QED BY <1>1, <4>1, <4>2 DEF RequestOK, Accepted
    <3>6. Len(submitted) \in Nat
      BY LenProperties DEF TypeOK, ClientTypeOK
    <3>7. Len(executed[g]) < Len(submitted) /\ b = submitted[Len(executed[g]) + 1]
      BY <3>4, <3>5, <3>6
    <3>8. Stream!Execute
      BY <1>1, <2>2, <3>3, <3>7 DEF Stream!Execute
    <3> QED BY <3>8 DEF Stream!Next
  <2>4. CASE ~(assignedSessionId # NoGuid /\ assignedSessionId = Head(todo).guid)
    <3>1. Executed' = Executed
      BY <1>1, <1>2, <1>3, <2>1, <2>4 DEF Executed
    <3> QED BY <1>1, <2>2, <3>1 DEF Stream!vars
  <2> QED BY <2>3, <2>4
<1>6. CASE RecordResponse
  <2>1. /\ produced' = [produced EXCEPT ![server.guid] = Append(@, server.body)]
        /\ executed' = executed /\ server # Idle
    BY <1>6 DEF RecordResponse, Idle
  <2>2. Executed' = Executed
    BY <1>1, <2>1 DEF Executed
  <2>3. CASE assignedSessionId # NoGuid /\ assignedSessionId = server.guid
    <3>1. PICK g \in Guid : g = assignedSessionId /\ g = server.guid
      BY <1>2, <2>3
    <3>2. /\ Produced = produced[g] /\ Produced' = Append(produced[g], server.body)
          /\ Executed = executed[g]
      BY <1>1, <1>3, <2>1, <2>3, <3>1, SessionHistories
    <3>3. executed[g] # << >> /\ server.body = executed[g][Len(executed[g])]
      BY <2>1, <3>1 DEF RequestInvariant, RequestOK, Answering
    <3>4. Stream!Produce
      BY <1>1, <2>2, <3>2, <3>3 DEF Stream!Produce
    <3> QED BY <3>4 DEF Stream!Next
  <2>4. CASE ~(assignedSessionId # NoGuid /\ assignedSessionId = server.guid)
    <3>1. Produced' = Produced
      BY <1>1, <1>2, <1>3, <2>1, <2>4 DEF Produced
    <3> QED BY <1>1, <2>2, <3>1 DEF Stream!vars
  <2> QED BY <2>3, <2>4
<1>7. CASE \E c \in Conn : ProcessorHandles(c)
  <2>1. UNCHANGED <<executed, produced>>
    BY <1>7 DEF ProcessorHandles, HandleHello, HandleCreateSession, HandleAttachToSession,
                HandlePackagedRequest, Takes
  <2> QED BY <1>4, <2>1
<1>8. CASE ProcessorContinues \/ NumberResponse \/ SendResponse \/ Restart
  <2>1. UNCHANGED <<executed, produced>>
    BY <1>8 DEF ProcessorContinues, AttachReply, CatchupRange, CatchupSend, ProcessorStep,
                NumberResponse, SendResponse, Restart
  <2> QED BY <1>4, <2>1
<1> QED BY <1>5, <1>6, <1>7, <1>8 DEF BackendNext, ServerNext

LEMMA ClientStream ==
    ASSUME TypeOK, TypeOK', DeliveryOK, DeliveryOK', RequestInvariant, [Next]_vars,
           ~clickedEarly',
           UNCHANGED backendVars, ClientNext
    PROVE  Stream!Next \/ UNCHANGED Stream!vars
<1>1. UNCHANGED <<executed, produced>>
  BY DEF backendVars
<1>0. UNCHANGED clickedEarly
  <2>1. CASE \E c \in Conn : Reconnect(c)
    BY <2>1, ClickedEarlyStays, Zenon DEF Reconnect
  <2>2. CASE ~\E c \in Conn : Reconnect(c)
    BY <2>2 DEF ClientNext, Connect, HandleOpen, HandleClose, Receive,
                VisitSessionSuccess, VisitSessionFailure, VisitPackagedResponse,
                SendDRequest
  <2> QED BY <2>1, <2>2
<1>2. ASSUME UNCHANGED <<assignedSessionId, submitted, delivered>>
      PROVE  UNCHANGED Stream!vars
  <2>1. UNCHANGED <<Executed, Produced>>
    BY <1>1, <1>2 DEF Executed, Produced
  <2> QED BY <1>0, <1>2, <2>1 DEF Stream!vars
<1>3. ASSUME NEW c \in Conn, Connect(c) \/ Reconnect(c) \/ HandleOpen(c) \/ HandleClose(c)
      PROVE  UNCHANGED Stream!vars
  <2>1. UNCHANGED <<assignedSessionId, submitted, delivered>>
    BY <1>3 DEF Connect, Reconnect, OpenSocket, HandleOpen, HandleClose
  <2> QED BY <1>2, <2>1
<1>4. CASE SendDRequest
  <2>1. PICK b \in 1 .. MaxRequests : submitted' = Append(submitted, b)
    <3>1. bodies \in Nat /\ MaxRequests \in Nat /\ bodies < MaxRequests
      BY <1>4, ClientAssumption DEF SendDRequest, TypeOK, ClientTypeOK
    <3>2. bodies + 1 \in 1 .. MaxRequests
      BY <3>1
    <3> QED BY <1>4, <3>2 DEF SendDRequest
  <2>2. UNCHANGED <<assignedSessionId, delivered>>
    BY <1>4 DEF SendDRequest
  <2>3. UNCHANGED <<Executed, Produced>>
    BY <1>1, <2>2 DEF Executed, Produced
  <2>4. Stream!Submit(b)
    BY <1>0, <2>1, <2>2, <2>3 DEF Stream!Submit
  <2> QED BY <2>4 DEF Stream!Next
<1>5. ASSUME NEW c \in Conn, VisitPackagedResponse(c)
      PROVE  Stream!Next \/ UNCHANGED Stream!vars
  <2>1. UNCHANGED <<assignedSessionId, submitted>>
    BY <1>5 DEF VisitPackagedResponse
  <2>2. CASE delivered' = delivered
    BY <1>2, <2>1, <2>2
  <2>3. CASE delivered' # delivered
    <3>1. delivered' = Append(delivered, Head(down[c]).body)
      BY <1>5, <2>3 DEF VisitPackagedResponse
    <3>2. delivered \in Seq(Nat) /\ Head(down[c]).body \in Nat
      <4>1. Arrives(c, "PackagedResponse") /\ down' = [down EXCEPT ![c] = Tail(@)]
        BY <1>5 DEF VisitPackagedResponse
      <4> QED BY <4>1, ArrivesEffect, MessageShapes DEF TypeOK, ClientTypeOK
    <3>3. /\ Len(delivered') = Len(delivered) + 1 /\ Len(delivered) \in Nat
          /\ delivered'[Len(delivered) + 1] = Head(down[c]).body
      BY <3>1, <3>2, AppendProperties, LenProperties
    <3>4. assignedSessionId # NoGuid
      <4>1. delivered' # << >>
        BY <3>3
      <4> QED BY <2>1, <4>1 DEF DeliveryOK, Fresh
    <3>5. UNCHANGED <<Executed, Produced>> /\ Produced = produced[assignedSessionId]
      BY <1>1, <2>1, <3>4 DEF Executed, Produced
    <3>6. /\ Len(delivered') <= Len(Produced)
          /\ \A i \in 1 .. Len(delivered') : delivered'[i] = Produced[i]
      BY <1>1, <2>1, <3>4, <3>5 DEF DeliveryOK, Delivered
    <3>7. Len(Produced) \in Nat
      BY <3>4, <3>5, LenProperties DEF TypeOK, ClientTypeOK, BackendTypeOK
    <3>8. Len(delivered) < Len(Produced) /\ Head(down[c]).body = Produced[Len(delivered) + 1]
      BY <3>3, <3>6, <3>7
    <3>9. Stream!Deliver
      BY <1>0, <2>1, <3>1, <3>5, <3>8 DEF Stream!Deliver
    <3> QED BY <3>9 DEF Stream!Next
  <2> QED BY <2>2, <2>3
<1>6. ASSUME NEW c \in Conn, VisitSessionFailure(c) PROVE Stream!Next
  <2>1. submitted' = << >> /\ delivered' = << >> /\ Executed' = << >> /\ Produced' = << >>
    BY <1>6 DEF VisitSessionFailure, Executed, Produced
  <2> QED BY <1>0, <2>1 DEF Stream!Next, Stream!GiveUp
<1>7. ASSUME NEW c \in Conn, VisitSessionSuccess(c) PROVE UNCHANGED Stream!vars
  <2>1. /\ UNCHANGED <<submitted, delivered>> /\ assignedSessionId' = Head(down[c]).guid
        /\ Arrives(c, "SessionSuccess") /\ down' = [down EXCEPT ![c] = Tail(@)]
    BY <1>7 DEF VisitSessionSuccess
  <2>2. /\ readyState[c] = "open" /\ Head(down[c]) \in ToSet(down[c])
        /\ Head(down[c]).type = "SessionSuccess"
    BY <2>1, ArrivesEffect
  <2>3. Live(c)
    BY <2>2 DEF Live
  <2>4. assignedSessionId' = Home(c)
    BY <2>1, <2>2, <2>3 DEF DeliveryOK, AtHome, Answers
  <2>5. CASE assignedSessionId # NoGuid
    <3>1. assignedSessionId' = assignedSessionId
      BY <2>4, <2>5 DEF Home
    <3> QED BY <1>2, <2>1, <3>1
  <2>6. CASE assignedSessionId = NoGuid
    <3>1. assignedSessionId' = c /\ c # NoGuid
      BY <2>4, <2>6 DEF Home, Conn, NoGuid
    <3>2. Untouched(c)
      <4>1. PICK old \in SUBSET Conn : RequestOK(old)
        BY DEF RequestInvariant
      <4>2. c \in Conn \ old
        BY <2>2, <4>1 DEF RequestOK, Apart
      <4> QED BY <2>6, <4>1, <4>2 DEF RequestOK, Unasked
    <3>3. Executed = << >> /\ Produced = << >>
      BY <2>6 DEF Executed, Produced
    <3>4. Executed' = << >> /\ Produced' = << >>
      BY <1>1, <3>1, <3>2 DEF Executed, Produced, Untouched
    <3> QED BY <1>0, <2>1, <3>3, <3>4 DEF Stream!vars
  <2> QED BY <2>5, <2>6
<1> QED BY <1>3, <1>4, <1>5, <1>6, <1>7 DEF ClientNext, Receive

(* The session layer implements the stream its users are promised: no serial    *)
(* number, acknowledgement, reconnect or restart shows through, except that a   *)
(* page whose session is gone starts again from nothing (VisitSessionFailure),  *)
(* and until a page forfeits it by asking for two sessions at once.             *)
THEOREM StreamImplemented == Spec => ImplementsStream
<1>1. Init => Stream!Init
  BY DEF Init, ClientInit, Stream!Init, Executed, Produced
<1>2. /\ TypeOK /\ TypeOK' /\ DeliveryInvariant /\ DeliveryInvariant'
      /\ RequestInvariant /\ RequestInvariant' /\ [Next]_vars
      => [Stream!Next]_(Stream!vars)
  <2> SUFFICES ASSUME TypeOK, TypeOK', DeliveryInvariant, DeliveryInvariant',
                      RequestInvariant, RequestInvariant', [Next]_vars
               PROVE  Stream!Next \/ UNCHANGED Stream!vars
    OBVIOUS
  <2>1. CASE clickedEarly'
    BY <2>1 DEF Stream!Next, Stream!Forfeit
  <2>2. CASE ~clickedEarly'
    <3>1. DeliveryOK /\ DeliveryOK'
      BY <2>2, ClickedEarlyStays DEF DeliveryInvariant
    <3>2. CASE ClientNext /\ UNCHANGED backendVars
      BY <2>2, <3>1, <3>2, ClientStream
    <3>3. CASE BackendNext /\ UNCHANGED clientVars
      BY <3>3, BackendStream
    <3>4. CASE UNCHANGED <<clientVars, backendVars>>
      BY <3>4 DEF clientVars, pageVars, backendVars, Stream!vars, Executed, Produced
    <3> QED BY <3>2, <3>3, <3>4 DEF Next, vars
  <2> QED BY <2>1, <2>2
<1> QED
  BY <1>1, <1>2, TypeCorrect, DeliveryInvariantHolds, RequestInvariantHolds, PTL
     DEF Spec, ImplementsStream, Stream!Spec
===============================================================================
