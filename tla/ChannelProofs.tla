---------------------------- MODULE ChannelProofs -----------------------------
(***************************************************************************)
(* What holds of the threads of the channels for every number of           *)
(* connections, descriptors, messages and sends.                           *)
(***************************************************************************)
EXTENDS ChannelThreads, FiniteSetTheorems, SequenceTheorems, TLAPS

Messages == [of : Channels, n : Nat \ {0}]
Symbols == Messages \union {Newline}
Items == [channel : Channels, payload : Messages \union {Started, Stopped}]
Locals == [fd : Fds \union {NoFd}, rest : Seq(Messages), channel : 0..NumChannels]

\* Where a thread can be.
Ending == {"shutdown", "closing", "announcing", "done"}
ReaderPlaces == {"none", "entering", "reading"} \union Ending
WriterPlaces == {"none", "testing", "waiting", "entering"} \union Ending
Places == ReaderPlaces \union WriterPlaces \union {"idle", "starting", "reply", "notifying", "sending"}

PlacesOK ==
  /\ pc[Listener] \in {"idle", "starting"}
  /\ pc[Processor] \in {"idle", "shutdown", "closing", "reply", "notifying"}
  /\ pc[Server] \in {"idle", "sending", "notifying"}
  /\ \A c \in Channels : pc[Reader(c)] \in ReaderPlaces /\ pc[Writer(c)] \in WriterPlaces

\* What the variables hold.
ThreadsTypeOK ==
  /\ fds \in [Fds -> 0..NumChannels]
  /\ inbound \in [Channels -> Seq(Symbols)] /\ outbound \in [Channels -> Seq(Messages)]
  /\ accepted \in 0..NumChannels
  /\ socketFd \in [Channels -> Fds \union {NoFd}]
  /\ shutdownRequested \in [Channels -> BOOLEAN]
  /\ outgoing \in [Channels -> Seq(Messages)]
  /\ numThreadsAlive \in [Channels -> 0..2]
  /\ chunker \in [Channels -> Seq(Symbols)]
  /\ buffer \in Seq(Items)
  /\ channels \subseteq Channels /\ session \in 0..NumChannels
  /\ pc \in [Threads -> Places] /\ PlacesOK
  /\ local \in [Threads -> Locals]
  /\ died \in BOOLEAN /\ crossed \in BOOLEAN
  /\ received \in [Channels -> Seq(Messages)] /\ sent \in [Channels -> Nat]
  /\ late \subseteq Channels

\* A thread that works for a channel works for one there is.
TheirChannels ==
  /\ pc[Listener] = "starting" => accepted \in Channels
  /\ pc[Processor] \in {"shutdown", "closing", "reply"} => session \in Channels
  /\ pc[Processor] \in {"shutdown", "closing", "notifying"} => local[Processor].channel \in Channels
  /\ pc[Server] \in {"sending", "notifying"} => local[Server].channel \in Channels
  /\ \A c \in Channels : pc[Reader(c)] = "reading" => local[Reader(c)].channel \in Channels

\* The threads of a channel that have not announced their end are counted; those
\* of a connection to come have not begun.
StillAlive(t) == IF pc[t] = "done" THEN 0 ELSE 1
ThreadsCounted ==
  \A c \in Channels :
    /\ numThreadsAlive[c] = StillAlive(Reader(c)) + StillAlive(Writer(c))
    /\ c > accepted => pc[Reader(c)] = "none" /\ pc[Writer(c)] = "none"

\* A channel that ended and is known, or will be when its start is handled, will
\* be forgotten, unless it started late.
Awaits(c, payload) == \E i \in 1 .. Len(buffer) : buffer[i] = Item(c, payload)
GoodbyeIsComing ==
  \A c \in Channels :
    numThreadsAlive[c] = 0 /\ c \notin late /\ (c \in channels \/ Awaits(c, Started)) => Awaits(c, Stopped)

\* What a Reader at work has handed on, holds, and has before it is what the
\* peer said.
Follow(c, n, held, rest) ==
  /\ Len(held) <= 1 /\ \A i \in DOMAIN held : held[i] = Message(c, n + 1)
  /\ 2 * n + Len(held) + Len(rest) = 2 * Says[c]
  /\ \A i \in DOMAIN rest : rest[i] = Said(c)[2 * n + Len(held) + i]
ReadSoFar(c) ==
  /\ \A i \in DOMAIN received[c] : received[c][i] = Message(c, i)
  /\ pc[Reader(c)] = "reading" => local[Reader(c)].channel = c
  /\ pc[Reader(c)] \in {"none", "entering", "reading"} =>
       Follow(c, Len(received[c]), chunker[c], inbound[c])

\* What reached the peer, what the Writer at work holds and what waits is what was
\* sent.
Continues(c, messages, from) == \A i \in DOMAIN messages : messages[i] = Message(c, from + i)
WrittenSoFar(c) ==
  /\ Continues(c, outbound[c], 0)
  /\ pc[Writer(c)] \in {"none", "testing", "waiting"} => local[Writer(c)].rest = <<>>
  /\ pc[Writer(c)] \in {"none", "testing", "waiting", "entering"} =>
       /\ Continues(c, local[Writer(c)].rest, Len(outbound[c]))
       /\ Continues(c, outgoing[c], Len(outbound[c]) + Len(local[Writer(c)].rest))
       /\ Len(outbound[c]) + Len(local[Writer(c)].rest) + Len(outgoing[c]) = sent[c]

NothingMixedUp == ~crossed => \A c \in Channels : ReadSoFar(c) /\ WrittenSoFar(c)

ThreadsInvariant ==
  /\ ThreadsTypeOK /\ TheirChannels /\ ThreadsCounted /\ ShutdownIsLast /\ GoodbyeIsComing
  /\ NothingMixedUp

-------------------------------------------------------------------------------
(* The threads, and how a step moves them. *)

LEMMA ThreadNames ==
    /\ Listener \in Threads /\ Processor \in Threads /\ Server \in Threads
    /\ Listener # Processor /\ Listener # Server /\ Processor # Server
    /\ \A c \in Channels :
         /\ Reader(c) \in Threads /\ Writer(c) \in Threads
         /\ Reader(c) # Listener /\ Reader(c) # Processor /\ Reader(c) # Server
         /\ Writer(c) # Listener /\ Writer(c) # Processor /\ Writer(c) # Server
    /\ \A c, d \in Channels : Reader(c) # Writer(d)
    /\ \A c, d \in Channels : Reader(c) = Reader(d) => c = d
    /\ \A c, d \in Channels : Writer(c) = Writer(d) => c = d
BY DEF Threads, Listener, Processor, Server, Reader, Writer

(* Who sends notifies next, or is done. *)
LEMMA SendMoves ==
    ASSUME ThreadsTypeOK, NEW t \in Threads, NEW c \in Channels, Sends(t, c)
    PROVE  /\ pc' \in [Threads -> Places] /\ pc'[t] \in {"notifying", "idle"}
           /\ \A u \in Threads : u # t => pc'[u] = pc[u] /\ local'[u] = local[u]
           /\ pc'[t] = "notifying" => local'[t].channel = c
BY DEF ThreadsTypeOK, Sends, Goes, Locals, Places

(* A step is an action of one of these, on behalf of a channel there is. *)
ActsFor(t, c) == t \in {Reader(c), Writer(c)} \/ (t = Processor /\ c = local[t].channel)

LEMMA StepIsAction ==
    ASSUME TheirChannels, Next
    PROVE  /\ ~crossed
           /\ \/ Accept \/ Startup \/ HandleNext \/ Reply \/ ReadChannel \/ SendResponse
              \/ \E t \in {Processor, Server} : NotifySend(t)
              \/ \E c \in Channels, t \in Threads : ActsFor(t, c) /\ (RequestShutdown(t, c) \/ Close(t, c))
              \/ \E c \in Channels, t \in Threads : t \in {Reader(c), Writer(c)} /\ Announce(t, c)
              \/ \E c \in Channels : ReadEnters(c) \/ ReadReturns(c) \/ Test(c) \/ Write(c)
<1>1. CASE ProcessorStep
  <2>1. ASSUME ShutdownStep(Processor, local[Processor].channel)
        PROVE  \E c \in Channels, t \in Threads : ActsFor(t, c) /\ (RequestShutdown(t, c) \/ Close(t, c))
    <3>1. local[Processor].channel \in Channels
      BY <2>1 DEF ShutdownStep, RequestShutdown, Close, At, TheirChannels
    <3> QED BY <2>1, <3>1, ThreadNames DEF ShutdownStep, ActsFor
  <2> QED BY <1>1, <2>1 DEF ProcessorStep, Next
<1>2. ASSUME NEW c \in Channels, ReaderStep(c) \/ WriterStep(c)
      PROVE  \/ \E t \in Threads : ActsFor(t, c) /\ (RequestShutdown(t, c) \/ Close(t, c))
             \/ \E t \in Threads : t \in {Reader(c), Writer(c)} /\ Announce(t, c)
             \/ ReadEnters(c) \/ ReadReturns(c) \/ Test(c) \/ Write(c)
  BY <1>2, ThreadNames DEF ReaderStep, WriterStep, ShutdownStep, ActsFor
<1>3. CASE ServerStep
  BY <1>3 DEF ServerStep, Next
<1> QED BY <1>1, <1>2, <1>3 DEF Next

-------------------------------------------------------------------------------
(* Type correctness: first of what the channels and their threads are to each *)
(* other.                                                                      *)

LEMMA PlacesStep ==
    ThreadsTypeOK /\ TheirChannels /\ Next => pc' \in [Threads -> Places] /\ PlacesOK' /\ TheirChannels'
<1> SUFFICES ASSUME ThreadsTypeOK, TheirChannels, Next
             PROVE  pc' \in [Threads -> Places] /\ PlacesOK' /\ TheirChannels'
  OBVIOUS
<1> USE DEF At, kernel, sockets, processor, history, Places, ReaderPlaces, WriterPlaces, Ending
<1>0. /\ PlacesOK /\ TheirChannels
      /\ accepted \in 0..NumChannels /\ session \in 0..NumChannels /\ NumChannels \in Nat
      /\ pc \in [Threads -> Places] /\ local \in [Threads -> Locals]
  BY ThreadsAssumption DEF ThreadsTypeOK
<1>1. CASE Accept
  <2> DEFINE n == accepted + 1
  <2>1. n \in Channels /\ accepted' = n
    BY <1>0, <1>1 DEF Accept, Channels
  <2>2. /\ pc[Listener] = "idle" /\ UNCHANGED session
        /\ pc' = [pc EXCEPT ![Listener] = "starting", ![Reader(n)] = "entering", ![Writer(n)] = "testing"]
    BY <1>1 DEF Accept
  <2>3. \A t \in Threads : local'[t].channel = local[t].channel
    BY <1>0, <1>1 DEF Accept, Locals
  <2> HIDE DEF n
  <2>4. pc' \in [Threads -> Places]
    BY <1>0, <2>1, <2>2, ThreadNames
  <2>5. /\ pc'[Listener] = "starting" /\ pc'[Processor] = pc[Processor] /\ pc'[Server] = pc[Server]
        /\ \A c \in Channels : /\ pc'[Reader(c)] \in {pc[Reader(c)], "entering"}
                             /\ pc'[Writer(c)] \in {pc[Writer(c)], "testing"}
    <3>1. pc'[Listener] = "starting" /\ pc'[Processor] = pc[Processor] /\ pc'[Server] = pc[Server]
      BY <1>0, <2>1, <2>2, ThreadNames
    <3>2. ASSUME NEW c \in Channels
          PROVE  pc'[Reader(c)] \in {pc[Reader(c)], "entering"} /\ pc'[Writer(c)] \in {pc[Writer(c)], "testing"}
      <4>1. CASE c = n
        BY <1>0, <2>1, <2>2, <4>1, ThreadNames
      <4>2. CASE c # n
        <5>1. {Reader(c), Writer(c)} \intersect {Listener, Reader(n), Writer(n)} = {}
          BY <2>1, <4>2, ThreadNames
        <5>2. Reader(c) \in Threads /\ Writer(c) \in Threads
          BY ThreadNames
        <5> QED BY <1>0, <2>2, <5>1, <5>2
      <4> QED BY <4>1, <4>2
    <3> QED BY <3>1, <3>2
  <2>6. \A c \in Channels : local'[Reader(c)].channel = local[Reader(c)].channel
    BY <2>3, ThreadNames
  <2>7. local'[Processor].channel = local[Processor].channel /\ local'[Server].channel = local[Server].channel
    BY <2>3, ThreadNames
  <2>8. PlacesOK'
    <3>1. pc'[Listener] \in {"idle", "starting"} /\ pc'[Processor] = pc[Processor] /\ pc'[Server] = pc[Server]
      BY <2>5
    <3>2. ASSUME NEW c \in Channels
          PROVE  pc'[Reader(c)] \in ReaderPlaces /\ pc'[Writer(c)] \in WriterPlaces
      BY <1>0, <2>5 DEF PlacesOK
    <3> QED BY <1>0, <3>1, <3>2 DEF PlacesOK
  <2>9. TheirChannels'
    <3>1. /\ pc'[Listener] = "starting" => accepted' \in Channels
          /\ pc'[Processor] \in {"shutdown", "closing", "reply"} => session' \in Channels
      BY <1>0, <2>1, <2>2, <2>5 DEF TheirChannels
    <3>2. /\ pc'[Processor] \in {"shutdown", "closing", "notifying"} => local'[Processor].channel \in Channels
          /\ pc'[Server] \in {"sending", "notifying"} => local'[Server].channel \in Channels
      BY <1>0, <2>5, <2>7 DEF TheirChannels
    <3>3. ASSUME NEW c \in Channels, pc'[Reader(c)] = "reading"
          PROVE  local'[Reader(c)].channel \in Channels
      BY <1>0, <2>5, <2>6, <3>3 DEF TheirChannels
    <3> QED BY <3>1, <3>2, <3>3 DEF TheirChannels
  <2> QED BY <2>4, <2>8, <2>9
<1>2. CASE Startup
  BY <1>0, <1>2, ThreadNames DEF Startup, Goes, PlacesOK, TheirChannels
<1>3. CASE HandleNext
  <2>1. Head(buffer).channel \in Channels
    <3>1. buffer \in Seq(Items) /\ buffer # <<>>
      BY <1>3 DEF HandleNext, ThreadsTypeOK
    <3>2. Head(buffer) \in Items
      BY <3>1
    <3> QED BY <3>2 DEF Items
  <2>2. PICK where \in {"idle", "reply", "shutdown"} :
           /\ Goes(Processor, where)
           /\ where # "idle" => session' \in Channels
           /\ where = "shutdown" => session # 0 /\ local' = [local EXCEPT ![Processor].channel = session]
           /\ \A t \in Threads : t # Processor => local'[t] = local[t]
           /\ UNCHANGED accepted
    BY <1>0, <1>3, <2>1 DEF HandleNext
  <2>3. /\ where = "shutdown" => local'[Processor].channel \in Channels
        /\ pc'[Processor] = where /\ \A t \in Threads : t # Processor => pc'[t] = pc[t]
    BY <1>0, <2>2, ThreadNames DEF Channels, Locals, Goes
  <2>4. pc' \in [Threads -> Places] /\ PlacesOK'
    BY <1>0, <2>2, <2>3, ThreadNames DEF PlacesOK, Goes
  <2> QED BY <1>0, <2>2, <2>3, <2>4, ThreadNames DEF TheirChannels
<1>4. CASE Reply
  <2>1. /\ pc[Processor] = "reply" /\ session \in Channels /\ Sends(Processor, session)
        /\ UNCHANGED <<accepted, session>>
    BY <1>0, <1>4 DEF Reply, TheirChannels
  <2> QED BY <1>0, <2>1, SendMoves, ThreadNames DEF PlacesOK, TheirChannels
<1>5. CASE ReadChannel
  <2>1. /\ pc' = [pc EXCEPT ![Server] = "sending"] /\ session \in Channels
        /\ local' = [local EXCEPT ![Server].channel = session] /\ UNCHANGED <<accepted, session>>
    <3>1. session # 0
      BY <1>5 DEF ReadChannel
    <3>2. session \in Channels
      BY <1>0, <3>1 DEF Channels
    <3> QED BY <1>5, <3>2 DEF ReadChannel, Goes
  <2>2. local'[Server].channel = session /\ \A t \in Threads : t # Server => local'[t] = local[t]
    BY <1>0, <2>1, ThreadNames DEF Locals
  <2> QED BY <1>0, <2>1, <2>2, ThreadNames DEF PlacesOK, TheirChannels
<1>6. CASE SendResponse
  <2>1. /\ pc[Server] = "sending" /\ local[Server].channel \in Channels /\ Sends(Server, local[Server].channel)
        /\ UNCHANGED <<accepted, session>>
    BY <1>0, <1>6 DEF SendResponse, TheirChannels
  <2> QED BY <1>0, <2>1, SendMoves, ThreadNames DEF PlacesOK, TheirChannels
<1>7. ASSUME NEW t \in {Processor, Server}, NotifySend(t)
      PROVE pc' \in [Threads -> Places] /\ PlacesOK' /\ TheirChannels'
  BY <1>0, <1>7, ThreadNames DEF NotifySend, Notifies, PlacesOK, TheirChannels
<1>8. ASSUME NEW c \in Channels, NEW t \in Threads, ActsFor(t, c), RequestShutdown(t, c) \/ Close(t, c)
      PROVE pc' \in [Threads -> Places] /\ PlacesOK' /\ TheirChannels'
  BY <1>0, <1>8, ThreadNames DEF RequestShutdown, Close, ActsFor, AfterShutdown, Goes, NotifiesShutdown, Notifies,
       PlacesOK, TheirChannels
<1>9. ASSUME NEW c \in Channels, NEW t \in Threads, t \in {Reader(c), Writer(c)}, Announce(t, c)
      PROVE pc' \in [Threads -> Places] /\ PlacesOK' /\ TheirChannels'
  BY <1>0, <1>9, ThreadNames DEF Announce, Goes, PlacesOK, TheirChannels
<1>10. ASSUME NEW c \in Channels, ReadEnters(c)
      PROVE pc' \in [Threads -> Places] /\ PlacesOK' /\ TheirChannels'
  <2> DEFINE connection == ConnectionOf(Reader(c))
  <2>1. /\ pc' = [pc EXCEPT ![Reader(c)] = IF connection = 0 THEN "shutdown" ELSE "reading"]
        /\ local' = [local EXCEPT ![Reader(c)] = [Nothing EXCEPT !.channel = connection]]
        /\ UNCHANGED <<accepted, session>>
    BY <1>10 DEF ReadEnters, Goes
  <2>2. connection \in 0..NumChannels
    BY <1>0, ThreadNames DEF ConnectionOf, ThreadsTypeOK, Locals, NoFd
  <2>3. local'[Reader(c)].channel = connection /\ \A t \in Threads : t # Reader(c) => local'[t] = local[t]
    BY <1>0, <2>1, ThreadNames DEF Nothing
  <2> HIDE DEF connection
  <2>4. connection # 0 => connection \in Channels
    BY <1>0, <2>2 DEF Channels
  <2>5. pc' \in [Threads -> Places] /\ \A t \in Threads : t # Reader(c) => pc'[t] = pc[t]
    BY <1>0, <2>1, ThreadNames
  <2>6. pc'[Reader(c)] = "shutdown" \/ (pc'[Reader(c)] = "reading" /\ local'[Reader(c)].channel \in Channels)
    BY <1>0, <2>1, <2>3, <2>4, ThreadNames
  <2>7. PlacesOK'
    BY <1>0, <2>5, <2>6, ThreadNames DEF PlacesOK
  <2>8. \A d \in Channels : pc'[Reader(d)] = "reading" => local'[Reader(d)].channel \in Channels
    <3> TAKE d \in Channels
    <3>1. CASE d = c
      BY <2>6, <3>1
    <3>2. CASE d # c
      BY <1>0, <2>3, <2>5, <3>2, ThreadNames DEF TheirChannels
    <3> QED BY <3>1, <3>2
  <2> QED BY <1>0, <2>1, <2>3, <2>5, <2>7, <2>8, ThreadNames DEF TheirChannels
<1>11. ASSUME NEW c \in Channels, ReadReturns(c)
      PROVE pc' \in [Threads -> Places] /\ PlacesOK' /\ TheirChannels'
  <2>1. PICK where \in {"entering", "shutdown"} : pc' = [pc EXCEPT ![Reader(c)] = where]
    BY <1>11 DEF ReadReturns, Goes
  <2>2. /\ \A t \in Threads : t # Reader(c) => local'[t] = local[t]
        /\ UNCHANGED <<accepted, session>>
    BY <1>0, <1>11 DEF ReadReturns
  <2>3. pc' \in [Threads -> Places] /\ \A t \in Threads : t # Reader(c) => pc'[t] = pc[t]
    BY <1>0, <2>1, ThreadNames
  <2>4. pc'[Reader(c)] = where
    BY <1>0, <2>1, ThreadNames
  <2> QED BY <1>0, <2>2, <2>3, <2>4, ThreadNames DEF PlacesOK, TheirChannels
<1>12. ASSUME NEW c \in Channels, Test(c)
      PROVE pc' \in [Threads -> Places] /\ PlacesOK' /\ TheirChannels'
  BY <1>0, <1>12, ThreadNames DEF Test, Goes, PlacesOK, TheirChannels
<1>13. ASSUME NEW c \in Channels, Write(c)
      PROVE pc' \in [Threads -> Places] /\ PlacesOK' /\ TheirChannels'
  <2>1. PICK where \in {"entering", "testing", "shutdown"} : pc' = [pc EXCEPT ![Writer(c)] = where]
    BY <1>0, <1>13, ThreadNames DEF Write, Goes
  <2>2. /\ \A t \in Threads : t # Writer(c) => local'[t] = local[t]
        /\ UNCHANGED <<accepted, session>>
    BY <1>0, <1>13 DEF Write
  <2>3. pc' \in [Threads -> Places] /\ \A t \in Threads : t # Writer(c) => pc'[t] = pc[t]
    BY <1>0, <2>1, ThreadNames
  <2>4. pc'[Writer(c)] = where
    BY <1>0, <2>1, ThreadNames
  <2> QED BY <1>0, <2>2, <2>3, <2>4, ThreadNames DEF PlacesOK, TheirChannels
<1> QED BY <1>1, <1>2, <1>3, <1>4, <1>5, <1>6, <1>7, <1>8, <1>9, <1>10, <1>11, <1>12, <1>13, StepIsAction

-------------------------------------------------------------------------------
(* What the Chunker makes of what the Reader reads. *)

\* The first k even numbers.
Evens(k) == {2 * j : j \in 1 .. k}

LEMMA EvensCounted ==
    ASSUME NEW k \in Nat
    PROVE  IsFiniteSet(Evens(k)) /\ Cardinality(Evens(k)) = k
<1> DEFINE double == [j \in 1 .. k |-> 2 * j]
<1>1. double \in Bijection(1 .. k, Evens(k))
  <2>1. double \in [1 .. k -> Evens(k)]
    BY DEF Evens
  <2>2. \A i, j \in 1 .. k : double[i] = double[j] => i = j
    OBVIOUS
  <2>3. \A e \in Evens(k) : \E j \in 1 .. k : double[j] = e
    BY DEF Evens
  <2> QED BY <2>1, <2>2, <2>3 DEF Bijection, Injection, Surjection, IsInjective
<1>2. IsFiniteSet(1 .. k) /\ Cardinality(1 .. k) = k
  BY FS_Interval
<1> HIDE DEF double
<1>3. ExistsBijection(1 .. k, Evens(k))
  BY <1>1 DEF ExistsBijection
<1> QED BY <1>2, <1>3, FS_Bijection

LEMMA NthEven ==
    ASSUME NEW k \in Nat, NEW n \in 1 .. k
    PROVE  Nth(Evens(k), n) = 2 * n
<1> DEFINE Before(e) == {i \in Evens(k) : i <= e}
<1>1. ASSUME NEW j \in 1 .. k PROVE Cardinality(Before(2 * j)) = j
  <2>1. Before(2 * j) = Evens(j)
    BY DEF Evens
  <2> QED BY <2>1, EvensCounted
<1>2. 2 * n \in Evens(k) /\ Cardinality(Before(2 * n)) = n
  BY <1>1 DEF Evens
<1>3. \A e \in Evens(k) : Cardinality(Before(e)) = n => e = 2 * n
  <2> TAKE e \in Evens(k)
  <2>1. PICK j \in 1 .. k : e = 2 * j
    BY DEF Evens
  <2> QED BY <1>1, <2>1
<1> HIDE DEF Before
<1>4. (CHOOSE e \in Evens(k) : Cardinality(Before(e)) = n) = 2 * n
  BY <1>2, <1>3
<1> QED BY <1>4 DEF Nth, Before

LEMMA EvenOrOdd ==
    ASSUME NEW k \in Nat, NEW m \in Nat, m <= 2 * k + 1, NEW i \in 1 .. m
    PROVE  (\E j \in Nat : i = 2 * j + 1) \/ \E j \in 1 .. k : i = 2 * j
<1>1. i \div 2 \in Nat /\ (i = 2 * (i \div 2) + 1 \/ i = 2 * (i \div 2))
  OBVIOUS
<1>2. ASSUME i = 2 * (i \div 2) PROVE i \div 2 \in 1 .. k
  BY <1>1, <1>2
<1> QED BY <1>1, <1>2

(* Of symbols that alternate with newlines every one that a newline follows is a *)
(* record, and the one that none follows yet is kept.                           *)
LEMMA RecordsRead ==
    ASSUME NEW S, NEW bytes \in Seq(S), NEW k \in Nat, 2 * k <= Len(bytes), Len(bytes) <= 2 * k + 1,
           \A j \in Nat : 2 * j + 1 \in 1 .. Len(bytes) => bytes[2 * j + 1] # Newline,
           \A j \in 1 .. k : bytes[2 * j] = Newline
    PROVE  /\ Records(bytes) = [n \in 1 .. k |-> bytes[2 * n - 1]]
           /\ Kept(bytes) \in Seq(S) /\ Len(Kept(bytes)) = Len(bytes) - 2 * k
           /\ \A i \in DOMAIN Kept(bytes) : Kept(bytes)[i] = bytes[2 * k + i]
<1>1. Ends(bytes) = Evens(k)
  <2>1. DOMAIN bytes = 1 .. Len(bytes) /\ Len(bytes) \in Nat
    OBVIOUS
  <2>2. \A i \in 1 .. Len(bytes) : (\E j \in Nat : i = 2 * j + 1) \/ \E j \in 1 .. k : i = 2 * j
    <3>1. 2 * k <= Len(bytes) /\ Len(bytes) <= 2 * k + 1
      OBVIOUS
    <3> QED BY <2>1, <3>1, EvenOrOdd
  <2>3. \A i \in 1 .. Len(bytes) : bytes[i] = Newline <=> \E j \in 1 .. k : i = 2 * j
    BY <2>2
  <2>4. \A j \in 1 .. k : 2 * j \in 1 .. Len(bytes)
    OBVIOUS
  <2> QED BY <2>1, <2>3, <2>4 DEF Ends, Evens
<1>2. LastEnd(bytes) = 2 * k
  <2> DEFINE ends == Evens(k) \union {0}
  <2>1. 2 * k \in ends /\ \A e \in ends : e \in Nat /\ e <= 2 * k
    BY DEF Evens
  <2>2. \A x \in ends : (\A y \in ends : x >= y) => x = 2 * k
    BY <2>1
  <2>3. \A y \in ends : 2 * k >= y
    BY <2>1
  <2> HIDE DEF ends
  <2>4. (CHOOSE x \in ends : \A y \in ends : x >= y) = 2 * k
    BY <2>1, <2>2, <2>3
  <2> QED BY <1>1, <2>4 DEF LastEnd, Max, ends
<1>3. Records(bytes) = [n \in 1 .. k |-> bytes[2 * n - 1]]
  BY <1>1, EvensCounted, NthEven DEF Records
<1>4. Kept(bytes) = SubSeq(bytes, 2 * k + 1, Len(bytes))
  BY <1>2 DEF Kept
<1>5. Len(bytes) \in Nat /\ \A i \in (2 * k + 1) .. Len(bytes) : bytes[i] \in S
  OBVIOUS
<1>6. /\ SubSeq(bytes, 2 * k + 1, Len(bytes)) \in Seq(S)
      /\ Len(SubSeq(bytes, 2 * k + 1, Len(bytes))) = Len(bytes) - 2 * k
      /\ \A i \in DOMAIN SubSeq(bytes, 2 * k + 1, Len(bytes)) :
           SubSeq(bytes, 2 * k + 1, Len(bytes))[i] = bytes[2 * k + i]
  <2> DEFINE kept == SubSeq(bytes, 2 * k + 1, Len(bytes))
  <2>1. /\ kept \in Seq(S) /\ Len(kept) = IF 2 * k + 1 <= Len(bytes) THEN Len(bytes) - (2 * k + 1) + 1 ELSE 0
        /\ \A i \in 1 .. Len(bytes) - (2 * k + 1) + 1 : kept[i] = bytes[2 * k + 1 + i - 1]
    <3> HIDE DEF kept
    <3>1. 2 * k + 1 \in Int /\ Len(bytes) \in Int
      BY <1>5
    <3> QED BY <1>5, <3>1, SubSeqProperties DEF kept
  <2> HIDE DEF kept
  <2>2. Len(kept) = Len(bytes) - 2 * k /\ DOMAIN kept = 1 .. Len(kept)
    <3>1. PICK m \in Nat : m = Len(bytes) /\ 2 * k <= m
      BY <1>5
    <3>2. Len(kept) = IF 2 * k + 1 <= m THEN m - (2 * k + 1) + 1 ELSE 0
      BY <2>1, <3>1, Zenon
    <3>3. Len(kept) = m - 2 * k
      <4>1. CASE 2 * k + 1 <= m
        BY <3>2, <4>1
      <4>2. CASE ~(2 * k + 1 <= m)
        <5>1. m - 2 * k = 0
          BY <3>1, <4>2
        <5> QED BY <3>2, <4>2, <5>1
      <4> QED BY <4>1, <4>2
    <3>4. DOMAIN kept = 1 .. Len(kept)
      BY <2>1, LenProperties
    <3> QED BY <3>1, <3>3, <3>4
  <2>3. \A i \in DOMAIN kept : kept[i] = bytes[2 * k + i]
    BY <1>5, <2>1, <2>2
  <2> QED BY <2>1, <2>2, <2>3 DEF kept
<1> QED BY <1>3, <1>4, <1>6

LEMMA WhatIsSaid ==
    ASSUME NEW c \in Channels
    PROVE  /\ Says[c] \in Nat /\ Said(c) \in Seq(Symbols) /\ Len(Said(c)) = 2 * Says[c]
           /\ \A j \in Nat : 2 * j + 1 \in 1 .. 2 * Says[c] => Said(c)[2 * j + 1] = Message(c, j + 1)
           /\ \A j \in Nat : 2 * j \in 1 .. 2 * Says[c] => Said(c)[2 * j] = Newline
           /\ \A n : Message(c, n) # Newline
<1>1. Says[c] \in Nat
  BY ThreadsAssumption
<1>2. \A j \in Nat : (2 * j + 1) % 2 = 1 /\ (2 * j) % 2 = 0 /\ (2 * j + 1 + 1) \div 2 = j + 1
  OBVIOUS
<1>3. \A j \in Nat : 2 * j + 1 \in 1 .. 2 * Says[c] => Said(c)[2 * j + 1] = Message(c, j + 1)
  BY <1>1, <1>2 DEF Said
<1>4. \A j \in Nat : 2 * j \in 1 .. 2 * Says[c] => Said(c)[2 * j] = Newline
  BY <1>1, <1>2 DEF Said
<1>5. \A i \in 1 .. 2 * Says[c] : i % 2 = 1 => Message(c, (i + 1) \div 2) \in Symbols
  BY <1>1 DEF Message, Symbols, Messages
<1>6. Said(c) \in Seq(Symbols) /\ Len(Said(c)) = 2 * Says[c]
  <2>1. \A i \in 1 .. 2 * Says[c] : (IF i % 2 = 1 THEN Message(c, (i + 1) \div 2) ELSE Newline) \in Symbols
    BY <1>5 DEF Symbols
  <2> QED BY <1>1, <2>1 DEF Said
<1>7. \A n : Message(c, n) # Newline
  BY ThreadsAssumption DEF Message, Newline, Channels
<1> QED BY <1>1, <1>3, <1>4, <1>6, <1>7

LEMMA Halves == \A m \in Nat : m \div 2 \in Nat /\ (m = 2 * (m \div 2) \/ m = 2 * (m \div 2) + 1)
OBVIOUS

\* The k messages that come after the first n.
Following(c, n, k) == [j \in 1 .. k |-> Message(c, n + j)]

(* A read that takes n symbols completes k records, and leaves the Chunker with *)
(* what begins the next one.                                                     *)
LEMMA ReadingGoesOn ==
    ASSUME NEW c \in Channels, NEW r \in Nat, NEW held \in Seq(Symbols), NEW rest \in Seq(Symbols),
           Follow(c, r, held, rest), NEW n \in 1 .. Len(rest)
    PROVE  /\ Kept(held \o SubSeq(rest, 1, n)) \in Seq(Symbols) /\ SubSeq(rest, n + 1, Len(rest)) \in Seq(Symbols)
           /\ \E k \in Nat :
                /\ Records(held \o SubSeq(rest, 1, n)) = Following(c, r, k)
                /\ Follow(c, r + k, Kept(held \o SubSeq(rest, 1, n)), SubSeq(rest, n + 1, Len(rest)))
<1> DEFINE bytes == held \o SubSeq(rest, 1, n)
           left == SubSeq(rest, n + 1, Len(rest))
           k == (Len(held) + n) \div 2
<1>0. /\ \A j \in Nat : 2 * j + 1 \in 1 .. 2 * Says[c] => Said(c)[2 * j + 1] = Message(c, j + 1)
      /\ \A j \in Nat : 2 * j \in 1 .. 2 * Says[c] => Said(c)[2 * j] = Newline
      /\ \A j : Message(c, j) # Newline
  BY WhatIsSaid
<1>1. /\ Len(held) \in Nat /\ Len(held) <= 1 /\ Len(rest) \in Nat /\ n \in Nat /\ Says[c] \in Nat
      /\ 2 * r + Len(held) + Len(rest) = 2 * Says[c]
  BY WhatIsSaid DEF Follow
<1>2. /\ SubSeq(rest, 1, n) \in Seq(Symbols) /\ Len(SubSeq(rest, 1, n)) = n
      /\ \A i \in 1 .. n : SubSeq(rest, 1, n)[i] = rest[i]
  OBVIOUS
<1>3. /\ left \in Seq(Symbols) /\ Len(left) = Len(rest) - n
      /\ \A i \in 1 .. Len(left) : left[i] = rest[n + i]
  OBVIOUS
<1>4. /\ bytes \in Seq(Symbols) /\ Len(bytes) = Len(held) + n
      /\ \A i \in 1 .. Len(bytes) : bytes[i] = Said(c)[2 * r + i]
  <2> DEFINE read == SubSeq(rest, 1, n)
  <2> HIDE DEF read
  <2>1. /\ bytes \in Seq(Symbols) /\ Len(bytes) = Len(held) + n
        /\ \A i \in 1 .. Len(bytes) : bytes[i] = IF i <= Len(held) THEN held[i] ELSE read[i - Len(held)]
    BY <1>1, <1>2, ConcatProperties DEF read
  <2>2. \A i \in 1 .. Len(held) : held[i] = Said(c)[2 * r + i]
    <3> TAKE i \in 1 .. Len(held)
    <3>1. i = 1 /\ 2 * r + 1 \in 1 .. 2 * Says[c]
      BY <1>1
    <3>2. held[i] = Message(c, r + 1)
      BY <1>1 DEF Follow
    <3> QED BY <1>0, <3>1, <3>2
  <2>3. \A i \in 1 .. n : read[i] = Said(c)[2 * r + Len(held) + i]
    <3>1. \A i \in 1 .. n : i \in DOMAIN rest /\ read[i] = rest[i]
      BY <1>1, <1>2 DEF read
    <3> QED BY <3>1 DEF Follow
  <2>4. ASSUME NEW i \in 1 .. Len(bytes), i > Len(held) PROVE read[i - Len(held)] = Said(c)[2 * r + i]
    BY <1>1, <2>1, <2>3, <2>4
  <2>5. ASSUME NEW i \in 1 .. Len(bytes) PROVE bytes[i] = Said(c)[2 * r + i]
    <3>1. CASE i <= Len(held)
      BY <1>1, <2>1, <2>2, <3>1
    <3>2. CASE i > Len(held)
      BY <1>1, <2>1, <2>4, <3>2
    <3> QED BY <1>1, <2>1, <3>1, <3>2
  <2> QED BY <2>1, <2>5
<1>5. k \in Nat /\ 2 * k <= Len(held) + n /\ Len(held) + n <= 2 * k + 1
  <2>1. Len(held) + n \in Nat
    BY <1>1
  <2> QED BY <2>1, Halves
<1> HIDE DEF bytes, left, k
<1>6. \A j \in Nat : 2 * j + 1 \in 1 .. Len(bytes) => bytes[2 * j + 1] = Message(c, r + j + 1)
  <2> TAKE j \in Nat
  <2>1. HAVE 2 * j + 1 \in 1 .. Len(bytes)
  <2>2. bytes[2 * j + 1] = Said(c)[2 * (r + j) + 1] /\ 2 * (r + j) + 1 \in 1 .. 2 * Says[c]
    BY <1>1, <1>4, <2>1
  <2>3. r + j \in Nat
    OBVIOUS
  <2> QED BY <1>0, <2>2, <2>3
<1>7. \A j \in 1 .. k : bytes[2 * j] = Newline
  <2> TAKE j \in 1 .. k
  <2>1. bytes[2 * j] = Said(c)[2 * (r + j)] /\ 2 * (r + j) \in 1 .. 2 * Says[c]
    BY <1>1, <1>4, <1>5
  <2>2. r + j \in Nat
    BY <1>5
  <2> QED BY <1>0, <2>1, <2>2
<1>8. /\ Records(bytes) = [j \in 1 .. k |-> bytes[2 * j - 1]]
      /\ Kept(bytes) \in Seq(Symbols) /\ Len(Kept(bytes)) = Len(bytes) - 2 * k
      /\ \A i \in DOMAIN Kept(bytes) : Kept(bytes)[i] = bytes[2 * k + i]
  <2>1. \A j \in Nat : 2 * j + 1 \in 1 .. Len(bytes) => bytes[2 * j + 1] # Newline
    BY <1>0, <1>6
  <2>2. 2 * k <= Len(bytes) /\ Len(bytes) <= 2 * k + 1
    BY <1>4, <1>5
  <2> QED BY <1>4, <1>5, <1>7, <2>1, <2>2, RecordsRead
<1>9. \A j \in 1 .. k : bytes[2 * j - 1] = Message(c, r + j)
  <2> TAKE j \in 1 .. k
  <2>1. j - 1 \in Nat /\ 2 * (j - 1) + 1 = 2 * j - 1 /\ 2 * j - 1 \in 1 .. Len(bytes) /\ r + (j - 1) + 1 = r + j
    BY <1>1, <1>4, <1>5
  <2> QED BY <1>6, <2>1
<1>10. Records(bytes) = Following(c, r, k)
  BY <1>8, <1>9 DEF Following
<1>11. /\ Len(Kept(bytes)) \in Nat /\ Len(Kept(bytes)) <= 1
       /\ 2 * (r + k) + Len(Kept(bytes)) = 2 * r + Len(held) + n
  BY <1>1, <1>4, <1>5, <1>8
<1>12. \A i \in DOMAIN Kept(bytes) : Kept(bytes)[i] = Message(c, r + k + 1)
  <2> TAKE i \in DOMAIN Kept(bytes)
  <2>1. i \in 1 .. Len(Kept(bytes))
    BY <1>8
  <2>2. PICK m \in Nat : m = Len(Kept(bytes))
    BY <1>11
  <2>3. i = 1 /\ m = 1
    BY <1>11, <2>1, <2>2
  <2>4. PICK b \in Nat : b = Len(bytes)
    BY <1>8
  <2>5. m = b - 2 * k
    BY <1>8, <2>2, <2>4, Zenon
  <2>6. 2 * k + 1 \in 1 .. b
    BY <1>5, <2>3, <2>5
  <2>7. 2 * k + 1 \in 1 .. Len(bytes)
    BY <2>4, <2>6
  <2> QED BY <1>5, <1>6, <1>8, <2>3, <2>7
<1>13. \A i \in DOMAIN left : left[i] = Said(c)[2 * r + Len(held) + n + i]
  <2> TAKE i \in DOMAIN left
  <2>1. n + i \in DOMAIN rest /\ left[i] = rest[n + i] /\ i \in Nat
    BY <1>1, <1>3
  <2>2. rest[n + i] = Said(c)[2 * r + Len(held) + (n + i)]
    BY <2>1 DEF Follow
  <2> QED BY <1>1, <2>1, <2>2
<1>14. \A i \in DOMAIN left : left[i] = Said(c)[2 * (r + k) + Len(Kept(bytes)) + i]
  BY <1>11, <1>13
<1>15. 2 * (r + k) + Len(Kept(bytes)) + Len(left) = 2 * Says[c]
  BY <1>1, <1>3, <1>11
<1> QED BY <1>3, <1>5, <1>8, <1>10, <1>11, <1>12, <1>14, <1>15 DEF bytes, left, Follow

LEMMA NothingIsLocal ==
    /\ Nothing \in Locals /\ Nothing.rest = <<>>
    /\ \A fd \in Fds \union {NoFd} : [Nothing EXCEPT !.fd = fd] \in Locals
<1>1. <<>> \in Seq(Messages) /\ 0 \in 0 .. NumChannels
  BY ThreadsAssumption
<1> QED BY <1>1 DEF Nothing, Locals

(* What a Reader hands on when a read returns, and how it goes on. *)
HandsOn(c, k) ==
  LET messages == Following(c, Len(received[c]), k)
  IN  /\ buffer' = buffer \o [j \in 1 .. k |-> Item(c, messages[j])]
      /\ received' = [received EXCEPT ![c] = @ \o messages]

LEMMA ReadReturnsHow ==
    ASSUME ThreadsTypeOK, NothingMixedUp, ~crossed, NEW c \in Channels, ReadReturns(c)
    PROVE  /\ \E k \in Nat :
                /\ HandsOn(c, k)
                /\ pc'[Reader(c)] = "entering" =>
                     Follow(c, Len(received[c]) + k, chunker'[c], inbound'[c])
           /\ pc'[Reader(c)] \in {"entering", "shutdown"} /\ \A t \in Threads : t # Reader(c) => pc'[t] = pc[t]
           /\ local' \in [Threads -> Locals] /\ \A t \in Threads : t # Reader(c) => local'[t] = local[t]
           /\ inbound' \in [Channels -> Seq(Symbols)] /\ chunker' \in [Channels -> Seq(Symbols)]
           /\ \A d \in Channels : d # c => inbound'[d] = inbound[d] /\ chunker'[d] = chunker[d]
<1> DEFINE t == Reader(c)
           r == Len(received[c])
           bytes(n) == chunker[c] \o SubSeq(inbound[c], 1, n)
           left(n) == SubSeq(inbound[c], n + 1, Len(inbound[c]))
           Handed(n, k) ==
             /\ buffer' = buffer \o [j \in 1 .. k |-> Item(c, SubSeq(Records(bytes(n)), 1, k)[j])]
             /\ received' = [received EXCEPT ![c] = @ \o SubSeq(Records(bytes(n)), 1, k)]
             /\ \/ /\ k = Len(Records(bytes(n)))
                   /\ Goes(t, "entering") /\ local' = [local EXCEPT ![t] = [Nothing EXCEPT !.fd = socketFd[c]]]
                \/ /\ k < Len(Records(bytes(n)))
                   /\ Goes(t, "shutdown") /\ local' = [local EXCEPT ![t] = Nothing]
           Some(n) ==
             /\ inbound' = [inbound EXCEPT ![c] = left(n)] /\ chunker' = [chunker EXCEPT ![c] = Kept(bytes(n))]
             /\ \E k \in Parsed(c, Len(Records(bytes(n)))) : Handed(n, k)
<1>1. /\ local[t].channel = c /\ Follow(c, r, chunker[c], inbound[c]) /\ r \in Nat
      /\ chunker[c] \in Seq(Symbols) /\ inbound[c] \in Seq(Symbols) /\ t \in Threads
      /\ inbound \in [Channels -> Seq(Symbols)] /\ chunker \in [Channels -> Seq(Symbols)]
      /\ pc \in [Threads -> Places] /\ local \in [Threads -> Locals] /\ socketFd[c] \in Fds \union {NoFd}
      /\ buffer \in Seq(Items) /\ received \in [Channels -> Seq(Messages)]
  <2>1. pc[t] = "reading"
    BY DEF ReadReturns, At
  <2>2. local[t].channel = c /\ Follow(c, r, chunker[c], inbound[c])
    BY <2>1 DEF NothingMixedUp, ReadSoFar
  <2> QED BY <2>2, ThreadNames DEF ThreadsTypeOK
<1>2. [Nothing EXCEPT !.fd = socketFd[c]] \in Locals /\ Nothing \in Locals
  BY <1>1, NothingIsLocal
<1>3. ASSUME NEW n \in 1 .. Len(inbound[c]), Some(n)
      PROVE  /\ \E k \in Nat : HandsOn(c, k) /\ (pc'[t] = "entering" => Follow(c, r + k, chunker'[c], inbound'[c]))
             /\ pc'[t] \in {"entering", "shutdown"} /\ \A u \in Threads : u # t => pc'[u] = pc[u]
             /\ local' \in [Threads -> Locals] /\ \A u \in Threads : u # t => local'[u] = local[u]
             /\ inbound' \in [Channels -> Seq(Symbols)] /\ chunker' \in [Channels -> Seq(Symbols)]
             /\ \A d \in Channels : d # c => inbound'[d] = inbound[d] /\ chunker'[d] = chunker[d]
  <2>1. Follow(c, r, chunker[c], inbound[c]) /\ r \in Nat /\ chunker[c] \in Seq(Symbols) /\ inbound[c] \in Seq(Symbols)
    BY <1>1
  <2> HIDE DEF r
  <2>2. PICK m \in Nat :
          /\ Records(bytes(n)) = Following(c, r, m)
          /\ Follow(c, r + m, Kept(bytes(n)), left(n))
          /\ Kept(bytes(n)) \in Seq(Symbols) /\ left(n) \in Seq(Symbols)
    <3> DEFINE held == chunker[c]
               rest == inbound[c]
    <3>1. held \in Seq(Symbols) /\ rest \in Seq(Symbols) /\ Follow(c, r, held, rest) /\ n \in 1 .. Len(rest) /\ r \in Nat
      BY <2>1
    <3>2. bytes(n) = held \o SubSeq(rest, 1, n) /\ left(n) = SubSeq(rest, n + 1, Len(rest))
      OBVIOUS
    <3> HIDE DEF held, rest, bytes, left
    <3> QED BY <3>1, <3>2, ReadingGoesOn
  <2> HIDE DEF bytes, left
  <2>3. inbound'[c] = left(n) /\ chunker'[c] = Kept(bytes(n))
    BY <1>1, <1>3
  <2>4. /\ inbound' \in [Channels -> Seq(Symbols)] /\ chunker' \in [Channels -> Seq(Symbols)]
        /\ \A d \in Channels : d # c => inbound'[d] = inbound[d] /\ chunker'[d] = chunker[d]
    BY <1>1, <1>3, <2>2
  <2>5. PICK k \in Parsed(c, Len(Records(bytes(n)))) : Handed(n, k)
    BY <1>3
  <2>6. Len(Records(bytes(n))) = m
    BY <2>2 DEF Following
  <2>7. k \in 0 .. m
    BY <2>5, <2>6 DEF Parsed
  <2>8. SubSeq(Records(bytes(n)), 1, k) = Following(c, r, k)
    <3>1. \A j \in 1 .. k : Records(bytes(n))[j] = Message(c, r + j)
      BY <2>2, <2>7 DEF Following
    <3>2. SubSeq(Records(bytes(n)), 1, k) = [j \in 1 .. k |-> Records(bytes(n))[j]]
      BY <2>2, <2>7 DEF Following
    <3> QED BY <3>1, <3>2 DEF Following
  <2>9. HandsOn(c, k)
    BY <1>1, <2>5, <2>8, Zenon DEF HandsOn, r
  <2>10. CASE k = m /\ Goes(t, "entering") /\ local' = [local EXCEPT ![t] = [Nothing EXCEPT !.fd = socketFd[c]]]
    BY <1>1, <1>2, <2>2, <2>3, <2>4, <2>9, <2>10 DEF Goes
  <2>11. CASE Goes(t, "shutdown") /\ local' = [local EXCEPT ![t] = Nothing]
    <3>1. pc'[Reader(c)] = "shutdown"
      BY <1>1, <2>11 DEF Goes
    <3> QED BY <1>1, <1>2, <2>4, <2>7, <2>9, <2>11, <3>1 DEF Goes
  <2> QED BY <2>5, <2>6, <2>10, <2>11
<1>4. CASE Goes(t, "shutdown") /\ local' = [local EXCEPT ![t] = Nothing] /\ UNCHANGED <<chunker, inbound, buffer, received>>
  <2>1. HandsOn(c, 0)
    <3>1. Following(c, Len(received[c]), 0) = <<>>
      BY DEF Following
    <3>2. \A messages : [j \in 1 .. 0 |-> Item(c, messages[j])] = <<>>
      OBVIOUS
    <3>3. buffer \o <<>> = buffer /\ received[c] \o <<>> = received[c]
      BY <1>1
    <3> QED BY <1>1, <1>4, <3>1, <3>2, <3>3 DEF HandsOn
  <2>2. pc'[Reader(c)] = "shutdown"
    BY <1>1, <1>4 DEF Goes
  <2> QED BY <1>1, <1>2, <1>4, <2>1, <2>2 DEF Goes
<1>5. \/ \E n \in 1 .. Len(inbound[c]) : Some(n)
      \/ Goes(t, "shutdown") /\ local' = [local EXCEPT ![t] = Nothing] /\ UNCHANGED <<chunker, inbound, buffer, received>>
  BY <1>1, Zenon DEF ReadReturns
<1> QED BY <1>3, <1>4, <1>5

-------------------------------------------------------------------------------
(* Type correctness: then of the rest. *)

LEMMA Concatenated ==
    ASSUME NEW S, NEW first \in Seq(S), NEW second \in Seq(S)
    PROVE  /\ first \o second \in Seq(S) /\ Len(first \o second) = Len(first) + Len(second)
           /\ \A i \in 1 .. Len(first) : (first \o second)[i] = first[i]
           /\ \A i \in 1 .. Len(second) : (first \o second)[Len(first) + i] = second[i]
<1>1. Len(first) \in Nat /\ Len(second) \in Nat
  OBVIOUS
<1>2. first \o second \in Seq(S) /\ Len(first \o second) = Len(first) + Len(second)
  BY ConcatProperties
<1>3. ASSUME NEW i \in 1 .. Len(first) PROVE (first \o second)[i] = first[i]
  <2>1. i \in 1 .. Len(first) + Len(second) /\ i <= Len(first)
    BY <1>1
  <2> QED BY <2>1, ConcatProperties
<1>4. ASSUME NEW i \in 1 .. Len(second) PROVE (first \o second)[Len(first) + i] = second[i]
  <2>1. Len(first) + i \in 1 .. Len(first) + Len(second) /\ ~(Len(first) + i <= Len(first)) /\ Len(first) + i - Len(first) = i
    BY <1>1
  <2> QED BY <2>1, ConcatProperties
<1> QED BY <1>2, <1>3, <1>4

LEMMA LocalChanges ==
    \A l \in Locals :
      /\ \A c \in 0 .. NumChannels : [l EXCEPT !.channel = c] \in Locals
      /\ \A fd \in Fds \union {NoFd} : [l EXCEPT !.fd = fd] \in Locals
      /\ \A fd \in Fds \union {NoFd}, rest \in Seq(Messages) : [l EXCEPT !.fd = fd, !.rest = rest] \in Locals
BY DEF Locals

LEMMA ItemTypes ==
    \A c \in Channels :
      /\ Item(c, Started) \in Items /\ Item(c, Stopped) \in Items
      /\ \A n \in Nat \ {0} : Message(c, n) \in Messages /\ Item(c, Message(c, n)) \in Items
      /\ \A n : Message(c, n) # Started /\ Message(c, n) # Stopped
      /\ \A payload : Item(c, payload).channel = c /\ Item(c, payload).payload = payload
      /\ Started # Stopped
BY ThreadsAssumption DEF Item, Items, Message, Messages, Started, Stopped, Channels

LEMMA HandsOnTypes ==
    ASSUME NEW c \in Channels, NEW k \in Nat, HandsOn(c, k),
           buffer \in Seq(Items), received \in [Channels -> Seq(Messages)]
    PROVE  /\ buffer' \in Seq(Items) /\ received' \in [Channels -> Seq(Messages)]
           /\ Len(buffer') = Len(buffer) + k /\ Len(received'[c]) = Len(received[c]) + k
           /\ \A i \in 1 .. Len(buffer) : buffer'[i] = buffer[i]
           /\ \A i \in 1 .. k : buffer'[Len(buffer) + i] = Item(c, Message(c, Len(received[c]) + i))
           /\ \A i \in 1 .. Len(received[c]) : received'[c][i] = received[c][i]
           /\ \A i \in 1 .. k : received'[c][Len(received[c]) + i] = Message(c, Len(received[c]) + i)
           /\ \A d \in Channels : d # c => received'[d] = received[d]
<1> DEFINE n == Len(received[c])
           more == Following(c, n, k)
           items == [j \in 1 .. k |-> Item(c, more[j])]
<1>1. n \in Nat
  OBVIOUS
<1> HIDE DEF n
<1>2. more \in Seq(Messages) /\ Len(more) = k /\ \A i \in 1 .. k : more[i] = Message(c, n + i)
  <2>1. \A i \in 1 .. k : Message(c, n + i) \in Messages
    BY <1>1, ItemTypes
  <2> QED BY <2>1 DEF Following
<1>3. items \in Seq(Items) /\ Len(items) = k /\ \A i \in 1 .. k : items[i] = Item(c, Message(c, n + i))
  <2>1. \A i \in 1 .. k : items[i] = Item(c, Message(c, n + i)) /\ items[i] \in Items
    BY <1>1, <1>2, ItemTypes
  <2> QED BY <2>1
<1>4. buffer' = buffer \o items /\ received' = [received EXCEPT ![c] = @ \o more]
  BY DEF HandsOn, n
<1> HIDE DEF items, more
<1>5. /\ buffer' \in Seq(Items) /\ Len(buffer') = Len(buffer) + k
      /\ \A i \in 1 .. Len(buffer) : buffer'[i] = buffer[i]
      /\ \A i \in 1 .. k : buffer'[Len(buffer) + i] = items[i]
  <2>1. buffer \in Seq(Items) /\ items \in Seq(Items) /\ Len(items) = k /\ buffer' = buffer \o items
    BY <1>3, <1>4
  <2> HIDE DEF Items
  <2>2. /\ buffer \o items \in Seq(Items) /\ Len(buffer \o items) = Len(buffer) + Len(items)
        /\ \A i \in 1 .. Len(buffer) : (buffer \o items)[i] = buffer[i]
        /\ \A i \in 1 .. Len(items) : (buffer \o items)[Len(buffer) + i] = items[i]
    BY <2>1, Concatenated
  <2> QED BY <2>1, <2>2, Zenon
<1>6. /\ received'[c] \in Seq(Messages) /\ Len(received'[c]) = n + k
      /\ \A i \in 1 .. n : received'[c][i] = received[c][i]
      /\ \A i \in 1 .. k : received'[c][n + i] = more[i]
  <2>1. received'[c] = received[c] \o more /\ received[c] \in Seq(Messages)
    BY <1>4
  <2> DEFINE old == received[c]
  <2>2. old \in Seq(Messages) /\ more \in Seq(Messages)
    BY <1>2, <2>1
  <2> HIDE DEF old
  <2>3. /\ old \o more \in Seq(Messages) /\ Len(old \o more) = Len(old) + Len(more)
        /\ \A i \in 1 .. Len(old) : (old \o more)[i] = old[i]
        /\ \A i \in 1 .. Len(more) : (old \o more)[Len(old) + i] = more[i]
    BY <2>2, Concatenated
  <2> QED BY <1>2, <2>1, <2>3, Zenon DEF n, old
<1>7. received' \in [Channels -> Seq(Messages)] /\ \A d \in Channels : d # c => received'[d] = received[d]
  BY <1>4, <1>6
<1> QED BY <1>2, <1>3, <1>5, <1>6, <1>7 DEF n

(* What a connection is. *)
LEMMA ConnectionTypes ==
    ASSUME ThreadsTypeOK, NEW t \in Threads
    PROVE  ConnectionOf(t) \in 0 .. NumChannels /\ (ConnectionOf(t) # 0 => ConnectionOf(t) \in Channels)
<1>1. local[t].fd \in Fds \union {NoFd} /\ fds \in [Fds -> 0 .. NumChannels]
  BY DEF ThreadsTypeOK, Locals
<1>2. ConnectionOf(t) \in 0 .. NumChannels
  <2>1. CASE local[t].fd = NoFd
    BY <2>1, ThreadsAssumption DEF ConnectionOf
  <2>2. CASE local[t].fd # NoFd
    <3>1. fds[local[t].fd] \in 0 .. NumChannels
      BY <1>1, <2>2
    <3> QED BY <2>2, <3>1 DEF ConnectionOf
  <2> QED BY <2>1, <2>2
<1> QED BY <1>2, ThreadsAssumption DEF Channels

LEMMA TypeStep ==
    ASSUME ThreadsTypeOK, TheirChannels, ThreadsCounted, NothingMixedUp, Next
    PROVE  ThreadsTypeOK'
<1> USE DEF At, kernel, sockets, processor, history
<1>0. pc' \in [Threads -> Places] /\ PlacesOK'
  BY PlacesStep
<1>1. CASE Accept
  <2> DEFINE n == accepted + 1
  <2>1. n \in Channels /\ accepted' = n /\ n \in 0 .. NumChannels
    BY <1>1, ThreadsAssumption DEF Accept, Channels, ThreadsTypeOK
  <2>2. PICK fd \in Fds : /\ fds' = [fds EXCEPT ![fd] = n]
                          /\ socketFd' = [socketFd EXCEPT ![n] = fd]
                          /\ local' = [local EXCEPT ![Reader(n)].fd = fd]
    BY <1>1 DEF Accept, FreeFds
  <2> HIDE DEF n
  <2>3. fds' \in [Fds -> 0 .. NumChannels] /\ socketFd' \in [Channels -> Fds \union {NoFd}]
    BY <2>1, <2>2 DEF ThreadsTypeOK
  <2>4. local' \in [Threads -> Locals]
    BY <2>1, <2>2 DEF ThreadsTypeOK, Locals
  <2>5. UNCHANGED <<inbound, outbound, shutdownRequested, outgoing, numThreadsAlive, chunker, buffer, processor, died, history>>
    BY <1>1 DEF Accept
  <2> QED BY <1>0, <2>1, <2>3, <2>4, <2>5 DEF ThreadsTypeOK
<1>2. CASE Startup
  <2>1. accepted \in Channels /\ buffer' = Append(buffer, Item(accepted, Started)) /\ late' \in {late, late \union {accepted}}
    BY <1>2 DEF Startup, TheirChannels, Appends
  <2>2. buffer' \in Seq(Items) /\ late' \subseteq Channels
    BY <2>1, ItemTypes, AppendProperties DEF ThreadsTypeOK
  <2>3. UNCHANGED <<kernel, accepted, sockets, outgoing, numThreadsAlive, chunker, processor, local, died, received, sent, crossed>>
    BY <1>2 DEF Startup
  <2> QED BY <1>0, <2>2, <2>3 DEF ThreadsTypeOK
<1>3. CASE HandleNext
  <2>1. Head(buffer) \in Items /\ Tail(buffer) \in Seq(Items)
    <3>1. buffer \in Seq(Items) /\ buffer # <<>>
      BY <1>3 DEF HandleNext, ThreadsTypeOK
    <3> QED BY <3>1
  <2>2. Head(buffer).channel \in Channels /\ Head(buffer).channel \in 0 .. NumChannels
    BY <2>1, ThreadsAssumption DEF Items, Channels
  <2>3. channels' \subseteq Channels /\ buffer' = Tail(buffer) /\ session' \in {session, Head(buffer).channel}
    BY <1>3, <2>2 DEF HandleNext, ChannelsAfter, ThreadsTypeOK
  <2>4. local' \in [Threads -> Locals]
    <3>1. local' = local \/ local' = [local EXCEPT ![Processor].channel = session]
      BY <1>3 DEF HandleNext
    <3>2. [local[Processor] EXCEPT !.channel = session] \in Locals
      BY LocalChanges, ThreadNames DEF ThreadsTypeOK
    <3> QED BY <3>1, <3>2, ThreadNames DEF ThreadsTypeOK
  <2>5. UNCHANGED <<kernel, accepted, sockets, outgoing, numThreadsAlive, chunker, died, history>>
    BY <1>3 DEF HandleNext
  <2>6. buffer' \in Seq(Items) /\ session' \in 0 .. NumChannels
    BY <2>1, <2>2, <2>3 DEF ThreadsTypeOK
  <2> QED BY <1>0, <2>3, <2>4, <2>5, <2>6 DEF ThreadsTypeOK
<1>4. ASSUME NEW t \in Threads, NEW c \in Channels, Sends(t, c),
             UNCHANGED <<kernel, accepted, sockets, numThreadsAlive, chunker, buffer, processor, died, received, crossed, late>>
      PROVE  ThreadsTypeOK'
  <2>1. sent' \in [Channels -> Nat] /\ sent'[c] \in Nat \ {0}
    BY <1>4 DEF Sends, ThreadsTypeOK
  <2>2. outgoing' \in [Channels -> Seq(Messages)]
    <3>1. Append(outgoing[c], Message(c, sent'[c])) \in Seq(Messages)
      BY <2>1, ItemTypes, AppendProperties DEF ThreadsTypeOK
    <3> QED BY <1>4, <3>1 DEF Sends, Queued, ThreadsTypeOK
  <2>3. local' \in [Threads -> Locals]
    <3>1. local' = [local EXCEPT ![t].channel = c] \/ local' = [local EXCEPT ![t] = Nothing]
      BY <1>4 DEF Sends
    <3>2. c \in 0 .. NumChannels
      BY ThreadsAssumption DEF Channels
    <3>3. [local[t] EXCEPT !.channel = c] \in Locals
      BY <3>2, LocalChanges DEF ThreadsTypeOK
    <3> QED BY <3>1, <3>3, NothingIsLocal DEF ThreadsTypeOK
  <2> QED BY <1>0, <1>4, <2>1, <2>2, <2>3 DEF ThreadsTypeOK
<1>5. CASE Reply
  BY <1>4, <1>5, ThreadNames DEF Reply, TheirChannels
<1>6. CASE SendResponse
  BY <1>4, <1>6, ThreadNames DEF SendResponse, TheirChannels
<1>7. CASE ReadChannel
  <2>1. local' = [local EXCEPT ![Server].channel = session]
    BY <1>7 DEF ReadChannel
  <2>2. local' \in [Threads -> Locals]
    BY <2>1 DEF ThreadsTypeOK, Locals
  <2>3. UNCHANGED <<kernel, accepted, sockets, outgoing, numThreadsAlive, chunker, buffer, processor, died, history>>
    BY <1>7 DEF ReadChannel
  <2> QED BY <1>0, <2>2, <2>3 DEF ThreadsTypeOK
<1>8. ASSUME NEW t \in {Processor, Server}, NotifySend(t) PROVE ThreadsTypeOK'
  <2>1. local' \in [Threads -> Locals]
    BY <1>8, NothingIsLocal DEF NotifySend, ThreadsTypeOK
  <2>2. UNCHANGED <<kernel, accepted, sockets, outgoing, numThreadsAlive, chunker, buffer, processor, died, history>>
    BY <1>8 DEF NotifySend
  <2> QED BY <1>0, <2>1, <2>2 DEF ThreadsTypeOK
<1>9. ASSUME NEW c \in Channels, NEW t \in Threads, RequestShutdown(t, c) \/ Close(t, c) PROVE ThreadsTypeOK'
  <2>1. CASE RequestShutdown(t, c)
    <3>1. shutdownRequested' \in [Channels -> BOOLEAN]
      BY <2>1 DEF RequestShutdown, ThreadsTypeOK
    <3>2. UNCHANGED <<kernel, accepted, socketFd, outgoing, numThreadsAlive, chunker, buffer, processor, local, died, history>>
      BY <2>1 DEF RequestShutdown
    <3> QED BY <1>0, <3>1, <3>2 DEF ThreadsTypeOK
  <2>2. CASE Close(t, c)
    <3>1. fds' \in [Fds -> 0 .. NumChannels] /\ socketFd' \in [Channels -> Fds \union {NoFd}]
      <4>1. fds' = [fds EXCEPT ![socketFd[c]] = 0] /\ socketFd' = [socketFd EXCEPT ![c] = NoFd] /\ 0 \in 0 .. NumChannels
        BY <2>2, ThreadsAssumption DEF Close
      <4> QED BY <4>1 DEF ThreadsTypeOK
    <3>2. UNCHANGED <<inbound, outbound, accepted, shutdownRequested, outgoing, numThreadsAlive, chunker, buffer, processor,
                      local, died, history>>
      BY <2>2 DEF Close
    <3> QED BY <1>0, <3>1, <3>2 DEF ThreadsTypeOK
  <2> QED BY <1>9, <2>1, <2>2
<1>10. ASSUME NEW c \in Channels, NEW t \in Threads, t \in {Reader(c), Writer(c)}, Announce(t, c) PROVE ThreadsTypeOK'
  <2>1. numThreadsAlive[c] \in {1, 2} 
    BY <1>10 DEF Announce, ThreadsCounted, StillAlive
  <2>2. numThreadsAlive' \in [Channels -> 0 .. 2]
    BY <1>10, <2>1 DEF Announce, ThreadsTypeOK
  <2>3. buffer' \in Seq(Items)
    <3>1. buffer' = buffer \/ buffer' = Append(buffer, Item(c, Stopped))
      BY <1>10 DEF Announce, Appends
    <3>2. buffer \in Seq(Items) /\ Item(c, Stopped) \in Items
      BY ItemTypes DEF ThreadsTypeOK
    <3>3. Append(buffer, Item(c, Stopped)) \in Seq(Items)
      BY <3>2, AppendProperties
    <3> QED BY <3>1, <3>2, <3>3
  <2>4. UNCHANGED <<kernel, accepted, sockets, outgoing, chunker, processor, local, died, history>>
    BY <1>10 DEF Announce
  <2> QED BY <1>0, <2>2, <2>3, <2>4 DEF ThreadsTypeOK
<1>11. ASSUME NEW c \in Channels, ReadEnters(c) PROVE ThreadsTypeOK'
  <2> DEFINE connection == ConnectionOf(Reader(c))
  <2>1. local' = [local EXCEPT ![Reader(c)] = [Nothing EXCEPT !.channel = connection]] /\ crossed' \in BOOLEAN
    BY <1>11 DEF ReadEnters, Cross
  <2>2. [Nothing EXCEPT !.channel = connection] \in Locals
    <3>1. connection \in 0 .. NumChannels
      BY ConnectionTypes, ThreadNames
    <3> HIDE DEF connection
    <3> QED BY <3>1, NothingIsLocal DEF Locals
  <2>3. local' \in [Threads -> Locals]
    BY <2>1, <2>2 DEF ThreadsTypeOK
  <2>4. UNCHANGED <<kernel, accepted, sockets, outgoing, numThreadsAlive, chunker, buffer, processor, died, received, sent, late>>
    BY <1>11 DEF ReadEnters
  <2> QED BY <1>0, <2>1, <2>3, <2>4 DEF ThreadsTypeOK
<1>12. ASSUME NEW c \in Channels, ReadReturns(c) PROVE ThreadsTypeOK'
  <2>1. ~crossed
    BY DEF Next
  <2>2. /\ local' \in [Threads -> Locals] /\ inbound' \in [Channels -> Seq(Symbols)]
        /\ chunker' \in [Channels -> Seq(Symbols)]
    BY <1>12, <2>1, ReadReturnsHow
  <2>3. buffer' \in Seq(Items) /\ received' \in [Channels -> Seq(Messages)]
    BY <1>12, <2>1, ReadReturnsHow, HandsOnTypes DEF ThreadsTypeOK
  <2>4. UNCHANGED <<fds, outbound, accepted, sockets, outgoing, numThreadsAlive, processor, died, sent, crossed, late>>
    BY <1>12 DEF ReadReturns
  <2> QED BY <1>0, <2>2, <2>3, <2>4 DEF ThreadsTypeOK
<1>13. ASSUME NEW c \in Channels, Test(c) PROVE ThreadsTypeOK'
  <2>1. local' = local \/ local' = [local EXCEPT ![Writer(c)] = [@ EXCEPT !.fd = socketFd[c], !.rest = outgoing[c]]]
    BY <1>13 DEF Test
  <2>2. local' \in [Threads -> Locals]
    <3>1. socketFd[c] \in Fds \union {NoFd} /\ outgoing[c] \in Seq(Messages)
      BY DEF ThreadsTypeOK
    <3>2. [local[Writer(c)] EXCEPT !.fd = socketFd[c], !.rest = outgoing[c]] \in Locals
      BY <3>1, LocalChanges, ThreadNames DEF ThreadsTypeOK
    <3> QED BY <2>1, <3>2, ThreadNames DEF ThreadsTypeOK
  <2>3. outgoing' \in [Channels -> Seq(Messages)]
    <3>1. outgoing' = outgoing \/ outgoing' = [outgoing EXCEPT ![c] = <<>>]
      BY <1>13 DEF Test
    <3>2. outgoing \in [Channels -> Seq(Messages)] /\ <<>> \in Seq(Messages)
      BY EmptySeq DEF ThreadsTypeOK
    <3> QED BY <3>1, <3>2
  <2>4. UNCHANGED <<kernel, accepted, sockets, numThreadsAlive, chunker, buffer, processor, died, history>>
    BY <1>13 DEF Test
  <2> QED BY <1>0, <2>2, <2>3, <2>4 DEF ThreadsTypeOK
<1>14. ASSUME NEW c \in Channels, Write(c) PROVE ThreadsTypeOK'
  <2> DEFINE t == Writer(c)
             connection == ConnectionOf(t)
             rest == local[t].rest
  <2>1. rest \in Seq(Messages) /\ connection \in 0 .. NumChannels /\ t \in Threads
    BY ConnectionTypes, ThreadNames DEF ThreadsTypeOK, Locals
  <2>2. UNCHANGED <<fds, inbound, accepted, sockets, outgoing, numThreadsAlive, chunker, buffer, processor, received, sent, late>>
    BY <1>14 DEF Write
  <2>3. crossed' \in BOOLEAN /\ died' \in BOOLEAN
    BY <1>14 DEF Write, Cross, ThreadsTypeOK
  <2>4. local' \in [Threads -> Locals] /\ outbound' \in [Channels -> Seq(Messages)]
    <3>1. CASE local' \in {local, [local EXCEPT ![t] = Nothing]} /\ outbound' = outbound
      BY <3>1, NothingIsLocal DEF ThreadsTypeOK
    <3>2. ASSUME NEW n \in 1 .. Len(rest),
                 local' = [local EXCEPT ![t] = IF n = Len(rest) THEN Nothing
                                               ELSE [@ EXCEPT !.rest = SubSeq(rest, n + 1, Len(rest))]],
                 outbound' = [outbound EXCEPT ![connection] = @ \o SubSeq(rest, 1, n)]
          PROVE  local' \in [Threads -> Locals] /\ outbound' \in [Channels -> Seq(Messages)]
      <4>1. SubSeq(rest, n + 1, Len(rest)) \in Seq(Messages) /\ SubSeq(rest, 1, n) \in Seq(Messages)
        BY <2>1
      <4> HIDE DEF rest, connection
      <4>2. [local[t] EXCEPT !.rest = SubSeq(rest, n + 1, Len(rest))] \in Locals
        BY <2>1, <4>1 DEF ThreadsTypeOK, Locals
      <4>3. local' \in [Threads -> Locals]
        BY <3>2, <4>2, NothingIsLocal DEF ThreadsTypeOK
      <4>4. \A d \in Channels : outbound[d] \o SubSeq(rest, 1, n) \in Seq(Messages)
        BY <4>1, ConcatProperties DEF ThreadsTypeOK
      <4>5. outbound' \in [Channels -> Seq(Messages)]
        BY <3>2, <4>4 DEF ThreadsTypeOK
      <4> QED BY <4>3, <4>5
    <3> QED BY <1>14, <3>1, <3>2 DEF Write
  <2> QED BY <1>0, <2>2, <2>3, <2>4 DEF ThreadsTypeOK
<1> QED BY <1>1, <1>2, <1>3, <1>5, <1>6, <1>7, <1>8, <1>9, <1>10, <1>11, <1>12, <1>13, <1>14, StepIsAction

-------------------------------------------------------------------------------
(* The count of the threads. *)

\* A thread that moves has begun and has not ended.
Moves == \A u \in Threads : pc'[u] # pc[u] => {pc[u], pc'[u]} \intersect {"none", "done"} = {}

LEMMA OtherSteps ==
    ASSUME ThreadsTypeOK, TheirChannels, Next
    PROVE  \/ Accept
           \/ \E c \in Channels, t \in Threads : t \in {Reader(c), Writer(c)} /\ Announce(t, c)
           \/ /\ Moves /\ UNCHANGED <<accepted, numThreadsAlive>>
              /\ \/ Startup \/ HandleNext \/ (\E c \in Channels : ReadReturns(c))
                 \/ UNCHANGED <<buffer, channels, late>>
<1> USE DEF At, kernel, sockets, processor, history
<1>0. pc \in [Threads -> Places] /\ ThreadsTypeOK
  BY DEF ThreadsTypeOK
<1>1. ASSUME NEW t \in Threads, NEW where, Goes(t, where), {pc[t], where} \intersect {"none", "done"} = {}
      PROVE  Moves
  BY <1>0, <1>1 DEF Goes, Moves
<1>2. ASSUME NEW t \in Threads, NEW c \in Channels, NEW where, Notifies(t, c, where),
             {pc[t], where} \intersect {"none", "done"} = {}
      PROVE  Moves
  BY <1>0, <1>2 DEF Notifies, Moves
<1>3. CASE Startup
  BY <1>1, <1>3, ThreadNames DEF Startup
<1>4. CASE HandleNext
  BY <1>1, <1>4, ThreadNames DEF HandleNext
<1>5. CASE Reply \/ SendResponse
  BY <1>1, <1>5, ThreadNames DEF Reply, SendResponse, Sends
<1>6. CASE ReadChannel
  BY <1>1, <1>6, ThreadNames DEF ReadChannel
<1>7. ASSUME NEW t \in {Processor, Server}, NotifySend(t)
      PROVE  Moves /\ UNCHANGED <<accepted, numThreadsAlive, buffer, channels, late>>
  <2>1. local[t].channel \in Channels /\ pc[t] = "notifying" /\ t \in Threads
    BY <1>7, ThreadNames DEF NotifySend, TheirChannels
  <2> QED BY <1>2, <1>7, <2>1 DEF NotifySend
<1>8. ASSUME NEW c \in Channels, NEW t \in Threads, RequestShutdown(t, c) \/ Close(t, c)
      PROVE  Moves /\ UNCHANGED <<accepted, numThreadsAlive, buffer, channels, late>>
  <2>1. CASE RequestShutdown(t, c)
    BY <1>1, <2>1 DEF RequestShutdown, AfterShutdown
  <2>2. CASE Close(t, c)
    BY <1>2, <2>2 DEF Close, NotifiesShutdown, AfterShutdown
  <2> QED BY <1>8, <2>1, <2>2
<1>9. ASSUME NEW c \in Channels, ReadEnters(c)
      PROVE  Moves /\ UNCHANGED <<accepted, numThreadsAlive, buffer, channels, late>>
  BY <1>1, <1>9, ThreadNames DEF ReadEnters
<1>10. ASSUME NEW c \in Channels, ReadReturns(c)
      PROVE  Moves /\ UNCHANGED <<accepted, numThreadsAlive>>
  <2>1. /\ pc[Reader(c)] = "reading" /\ UNCHANGED <<accepted, numThreadsAlive>>
        /\ Goes(Reader(c), "entering") \/ Goes(Reader(c), "shutdown")
    BY <1>10 DEF ReadReturns
  <2> QED BY <1>1, <2>1, ThreadNames
<1>11. ASSUME NEW c \in Channels, Test(c)
      PROVE  Moves /\ UNCHANGED <<accepted, numThreadsAlive, buffer, channels, late>>
  BY <1>1, <1>11, ThreadNames DEF Test
<1>12. ASSUME NEW c \in Channels, Write(c)
      PROVE  Moves /\ UNCHANGED <<accepted, numThreadsAlive, buffer, channels, late>>
  <2>1. /\ pc[Writer(c)] = "entering" /\ UNCHANGED <<accepted, numThreadsAlive, buffer, channels, late>>
        /\ UNCHANGED pc \/ \E where \in {"shutdown", "testing", "entering"} : Goes(Writer(c), where)
    BY <1>12 DEF Write
  <2> QED BY <1>1, <2>1, ThreadNames DEF Moves
<1> QED BY <1>3, <1>4, <1>5, <1>6, <1>7, <1>8, <1>9, <1>10, <1>11, <1>12, StepIsAction DEF Reply, SendResponse, ReadChannel

LEMMA CountedStep ==
    ASSUME ThreadsTypeOK, TheirChannels, ThreadsCounted, Next
    PROVE  ThreadsCounted'
<1>0. /\ pc \in [Threads -> Places] /\ accepted \in 0 .. NumChannels /\ NumChannels \in Nat
      /\ numThreadsAlive \in [Channels -> 0 .. 2]
  BY ThreadsAssumption DEF ThreadsTypeOK
<1>1. CASE Accept
  <2> DEFINE n == accepted + 1
  <2>1. /\ n \in Channels /\ accepted' = n /\ UNCHANGED numThreadsAlive
        /\ pc' = [pc EXCEPT ![Listener] = "starting", ![Reader(n)] = "entering", ![Writer(n)] = "testing"]
    BY <1>0, <1>1 DEF Accept, Channels
  <2>2. pc[Reader(n)] = "none" /\ pc[Writer(n)] = "none"
    BY <1>0, <2>1 DEF ThreadsCounted
  <2> HIDE DEF n
  <2>3. ASSUME NEW c \in Channels
        PROVE  /\ StillAlive(Reader(c))' = StillAlive(Reader(c)) /\ StillAlive(Writer(c))' = StillAlive(Writer(c))
               /\ c # n => pc'[Reader(c)] = pc[Reader(c)] /\ pc'[Writer(c)] = pc[Writer(c)]
    <3>1. CASE c = n
      <4>1. pc'[Reader(n)] = "entering" /\ pc'[Writer(n)] = "testing"
        BY <1>0, <2>1, ThreadNames
      <4> QED BY <2>2, <3>1, <4>1 DEF StillAlive
    <3>2. CASE c # n
      <4>1. {Reader(c), Writer(c)} \intersect {Listener, Reader(n), Writer(n)} = {}
        BY <2>1, <3>2, ThreadNames
      <4>2. Reader(c) \in Threads /\ Writer(c) \in Threads
        BY ThreadNames
      <4>3. pc'[Reader(c)] = pc[Reader(c)] /\ pc'[Writer(c)] = pc[Writer(c)]
        BY <1>0, <2>1, <4>1, <4>2
      <4> QED BY <4>3 DEF StillAlive
    <3> QED BY <3>1, <3>2
  <2>4. \A c \in Channels : c > n => c > accepted /\ c # n
    BY <1>0 DEF n, Channels
  <2> QED BY <2>1, <2>3, <2>4 DEF ThreadsCounted
<1>2. ASSUME NEW c \in Channels, NEW t \in Threads, t \in {Reader(c), Writer(c)}, Announce(t, c)
      PROVE  ThreadsCounted'
  <2>1. /\ pc[t] = "announcing" /\ pc' = [pc EXCEPT ![t] = "done"]
        /\ numThreadsAlive' = [numThreadsAlive EXCEPT ![c] = @ - 1] /\ accepted' = accepted
    BY <1>2 DEF Announce, At, Goes
  <2>2. pc'[t] = "done" /\ \A u \in Threads : u # t => pc'[u] = pc[u]
    BY <1>0, <2>1
  <2>3. ASSUME NEW d \in Channels
        PROVE  /\ numThreadsAlive'[d] = StillAlive(Reader(d))' + StillAlive(Writer(d))'
               /\ d > accepted' => pc'[Reader(d)] = "none" /\ pc'[Writer(d)] = "none"
    <3>1. /\ numThreadsAlive[d] = StillAlive(Reader(d)) + StillAlive(Writer(d))
          /\ d > accepted => pc[Reader(d)] = "none" /\ pc[Writer(d)] = "none"
          /\ Reader(d) \in Threads /\ Writer(d) \in Threads /\ Reader(d) # Writer(d)
      BY ThreadNames DEF ThreadsCounted
    <3>2. CASE d = c
      BY <1>0, <1>2, <2>1, <2>2, <3>1, <3>2 DEF StillAlive
    <3>3. CASE d # c
      <4>1. t # Reader(d) /\ t # Writer(d)
        BY <1>2, <3>3, ThreadNames
      <4> QED BY <1>0, <2>1, <2>2, <3>1, <3>3, <4>1 DEF StillAlive
    <3> QED BY <3>2, <3>3
  <2> QED BY <2>3 DEF ThreadsCounted
<1>3. CASE Moves /\ UNCHANGED <<accepted, numThreadsAlive>>
  <2>1. \A u \in Threads : (pc[u] = "done" <=> pc'[u] = "done") /\ (pc[u] = "none" => pc'[u] = "none")
    BY <1>3 DEF Moves
  <2> QED BY <1>3, <2>1, ThreadNames DEF ThreadsCounted, StillAlive
<1> QED BY <1>1, <1>2, <1>3, OtherSteps

-------------------------------------------------------------------------------
(* What the buffer carries. *)

\* Something of one channel is appended.
Grows(c, payloads) ==
  /\ Len(buffer) <= Len(buffer') /\ \A i \in 1 .. Len(buffer) : buffer'[i] = buffer[i]
  /\ \A i \in 1 .. Len(buffer') : i > Len(buffer) => buffer'[i].channel = c /\ buffer'[i].payload \in payloads

LEMMA GrownBuffer ==
    ASSUME buffer \in Seq(Items), buffer' \in Seq(Items), NEW c \in Channels, NEW payloads, Grows(c, payloads),
           NEW d \in Channels, NEW payload
    PROVE  /\ Awaits(d, payload) => Awaits(d, payload)'
           /\ Awaits(d, payload)' => Awaits(d, payload) \/ (d = c /\ payload \in payloads)
<1>1. ASSUME Awaits(d, payload) PROVE Awaits(d, payload)'
  <2>1. PICK i \in 1 .. Len(buffer) : buffer[i] = Item(d, payload)
    BY <1>1 DEF Awaits
  <2>2. i \in 1 .. Len(buffer') /\ buffer'[i] = Item(d, payload)
    BY <2>1 DEF Grows
  <2> QED BY <2>2 DEF Awaits, Item
<1>2. ASSUME Awaits(d, payload)' PROVE Awaits(d, payload) \/ (d = c /\ payload \in payloads)
  <2>1. PICK i \in 1 .. Len(buffer') : buffer'[i] = Item(d, payload)
    BY <1>2 DEF Awaits, Item
  <2>2. CASE i <= Len(buffer)
    <3>1. i \in 1 .. Len(buffer) /\ buffer[i] = Item(d, payload)
      BY <2>1, <2>2 DEF Grows
    <3> QED BY <3>1 DEF Awaits
  <2>3. CASE i > Len(buffer)
    BY <2>1, <2>3 DEF Grows, Item
  <2> QED BY <2>2, <2>3
<1> QED BY <1>1, <1>2

LEMMA AppendGrows ==
    ASSUME buffer \in Seq(Items), NEW c \in Channels, NEW payload, Item(c, payload) \in Items, Appends(c, payload)
    PROVE  /\ buffer' \in Seq(Items) /\ Grows(c, {payload})
           /\ Len(buffer') = Len(buffer) + 1 /\ buffer'[Len(buffer) + 1] = Item(c, payload)
<1>1. /\ buffer' \in Seq(Items) /\ Len(buffer') = Len(buffer) + 1 /\ buffer'[Len(buffer) + 1] = Item(c, payload)
      /\ \A i \in 1 .. Len(buffer) : buffer'[i] = buffer[i]
  BY AppendProperties DEF Appends
<1>2. \A i \in 1 .. Len(buffer') : i > Len(buffer) => i = Len(buffer) + 1
  BY <1>1
<1> QED BY <1>1, <1>2 DEF Grows, Item

LEMMA HandsOnGrows ==
    ASSUME buffer \in Seq(Items), received \in [Channels -> Seq(Messages)],
           NEW c \in Channels, NEW k \in Nat, HandsOn(c, k)
    PROVE  buffer' \in Seq(Items) /\ Grows(c, {Message(c, n) : n \in Nat})
<1>1. /\ buffer' \in Seq(Items) /\ Len(buffer') = Len(buffer) + k
      /\ \A i \in 1 .. Len(buffer) : buffer'[i] = buffer[i]
      /\ \A i \in 1 .. k : buffer'[Len(buffer) + i] = Item(c, Message(c, Len(received[c]) + i))
  BY HandsOnTypes
<1>2. ASSUME NEW i \in 1 .. Len(buffer'), i > Len(buffer)
      PROVE  buffer'[i].channel = c /\ buffer'[i].payload \in {Message(c, n) : n \in Nat}
  <2>1. i - Len(buffer) \in 1 .. k /\ Len(buffer) + (i - Len(buffer)) = i
    BY <1>1, <1>2
  <2>2. buffer'[i] = Item(c, Message(c, Len(received[c]) + (i - Len(buffer))))
    BY <1>1, <2>1
  <2>3. Len(received[c]) + (i - Len(buffer)) \in Nat
    BY <2>1
  <2> QED BY <2>2, <2>3 DEF Item
<1>3. Len(buffer) <= Len(buffer')
  BY <1>1
<1> QED BY <1>1, <1>2, <1>3 DEF Grows

LEMMA BufferStep ==
    ASSUME ThreadsTypeOK, TheirChannels, ThreadsCounted, ShutdownIsLast, GoodbyeIsComing, NothingMixedUp, Next
    PROVE  ShutdownIsLast' /\ GoodbyeIsComing'
<1>0. /\ buffer \in Seq(Items) /\ numThreadsAlive \in [Channels -> 0 .. 2] /\ late \subseteq Channels
      /\ received \in [Channels -> Seq(Messages)] /\ Len(buffer) \in Nat
  BY DEF ThreadsTypeOK
<1>1. ASSUME NEW i \in 1 .. Len(buffer)
      PROVE  buffer[i] = Item(buffer[i].channel, buffer[i].payload) /\ buffer[i].channel \in Channels
  <2>1. buffer[i] \in Items
    BY <1>0, <1>1
  <2> QED BY <2>1 DEF Items, Item
<1>2. ASSUME NEW c \in Channels, NEW payloads, Grows(c, payloads), buffer' \in Seq(Items), Stopped \notin payloads,
             UNCHANGED <<numThreadsAlive, channels>>,
             \/ numThreadsAlive[c] > 0 /\ late' = late /\ Started \notin payloads
             \/ payloads = {Started} /\ late' = IF numThreadsAlive[c] = 0 THEN late \union {c} ELSE late
      PROVE  ShutdownIsLast' /\ GoodbyeIsComing'
  <2>1. ASSUME NEW i \in 1 .. Len(buffer'), buffer'[i].payload = Stopped
        PROVE  /\ i \in 1 .. Len(buffer) /\ buffer'[i] = buffer[i]
               /\ numThreadsAlive'[buffer'[i].channel] = 0
               /\ \A j \in i + 1 .. Len(buffer') :
                    buffer'[j].channel = buffer'[i].channel =>
                      buffer'[j].payload = Started /\ buffer'[j].channel \in late'
    <3>1. i \in 1 .. Len(buffer) /\ buffer'[i] = buffer[i]
      BY <1>0, <1>2, <2>1 DEF Grows
    <3>2. /\ numThreadsAlive[buffer[i].channel] = 0
          /\ \A j \in i + 1 .. Len(buffer) :
               buffer[j].channel = buffer[i].channel => buffer[j].payload = Started /\ buffer[j].channel \in late
      BY <2>1, <3>1 DEF ShutdownIsLast
    <3>3. ASSUME NEW j \in i + 1 .. Len(buffer'), buffer'[j].channel = buffer'[i].channel
          PROVE  buffer'[j].payload = Started /\ buffer'[j].channel \in late'
      <4>1. CASE j <= Len(buffer)
        <5>1. j \in i + 1 .. Len(buffer) /\ j \in 1 .. Len(buffer)
          BY <1>0, <4>1
        <5>2. buffer'[j] = buffer[j]
          BY <1>2, <5>1 DEF Grows
        <5> QED BY <1>2, <3>1, <3>2, <3>3, <5>1, <5>2
      <4>2. CASE j > Len(buffer)
        <5>1. j \in 1 .. Len(buffer')
          BY <1>0
        <5>2. buffer'[j].channel = c /\ buffer'[j].payload \in payloads
          BY <1>2, <4>2, <5>1 DEF Grows
        <5> QED BY <1>2, <3>1, <3>2, <3>3, <5>2
      <4> QED BY <1>0, <1>2, <4>1, <4>2
    <3> QED BY <1>2, <3>1, <3>2, <3>3
  <2>2. ASSUME NEW d \in Channels, numThreadsAlive'[d] = 0, d \notin late', d \in channels' \/ Awaits(d, Started)'
        PROVE  Awaits(d, Stopped)'
    <3>1. d \notin late /\ numThreadsAlive[d] = 0 /\ (d = c => Started \notin payloads)
      BY <1>2, <2>2
    <3>2. Awaits(d, Started)' => Awaits(d, Started)
      BY <1>0, <1>2, <3>1, GrownBuffer
    <3>3. Awaits(d, Stopped)
      BY <1>2, <2>2, <3>1, <3>2 DEF GoodbyeIsComing
    <3> QED BY <1>0, <1>2, <3>3, GrownBuffer
  <2> QED BY <2>1, <2>2 DEF ShutdownIsLast, GoodbyeIsComing
<1>3. CASE Startup
  <2>1. /\ accepted \in Channels /\ Appends(accepted, Started) /\ UNCHANGED <<numThreadsAlive, channels>>
        /\ late' = IF numThreadsAlive[accepted] = 0 THEN late \union {accepted} ELSE late
    BY <1>3 DEF Startup, At, TheirChannels, processor
  <2>2. buffer' \in Seq(Items) /\ Grows(accepted, {Started}) /\ Stopped \notin {Started}
    BY <1>0, <2>1, AppendGrows, ItemTypes
  <2> QED BY <1>2, <2>1, <2>2
<1>4. ASSUME NEW c \in Channels, ReadReturns(c)
      PROVE  ShutdownIsLast' /\ GoodbyeIsComing'
  <2>1. PICK k \in Nat : HandsOn(c, k)
    BY <1>4, ReadReturnsHow DEF Next
  <2>2. buffer' \in Seq(Items) /\ Grows(c, {Message(c, n) : n \in Nat})
    BY <1>0, <2>1, HandsOnGrows
  <2>3. Stopped \notin {Message(c, n) : n \in Nat} /\ Started \notin {Message(c, n) : n \in Nat}
    BY ItemTypes
  <2>4. UNCHANGED <<numThreadsAlive, channels, late>> /\ numThreadsAlive[c] > 0
    <3>1. UNCHANGED <<numThreadsAlive, channels, late>> /\ pc[Reader(c)] = "reading"
      BY <1>4 DEF ReadReturns, At, processor
    <3>2. StillAlive(Reader(c)) = 1 /\ StillAlive(Writer(c)) \in {0, 1}
      BY <3>1 DEF StillAlive
    <3>3. numThreadsAlive[c] = StillAlive(Reader(c)) + StillAlive(Writer(c))
      BY DEF ThreadsCounted
    <3> QED BY <3>1, <3>2, <3>3
  <2> QED BY <1>2, <2>2, <2>3, <2>4
<1>5. ASSUME NEW c \in Channels, NEW t \in {Reader(c), Writer(c)}, Announce(t, c)
      PROVE  ShutdownIsLast' /\ GoodbyeIsComing'
  <2>1. /\ numThreadsAlive' = [numThreadsAlive EXCEPT ![c] = @ - 1] /\ UNCHANGED <<channels, late>>
        /\ numThreadsAlive[c] > 0
    BY <1>5 DEF Announce, At, processor, history, ThreadsCounted, StillAlive
  <2>2. ASSUME NEW i \in 1 .. Len(buffer), buffer[i].payload = Stopped
        PROVE  buffer[i].channel # c /\ numThreadsAlive'[buffer[i].channel] = 0
    <3>1. buffer[i].channel \in Channels /\ numThreadsAlive[buffer[i].channel] = 0
      BY <1>1, <2>2 DEF ShutdownIsLast
    <3> QED BY <1>0, <2>1, <3>1
  <2>3. CASE numThreadsAlive[c] = 1
    <3>1. /\ buffer' \in Seq(Items) /\ Grows(c, {Stopped})
          /\ Len(buffer') = Len(buffer) + 1 /\ buffer'[Len(buffer) + 1] = Item(c, Stopped)
      BY <1>0, <1>5, <2>3, AppendGrows, ItemTypes DEF Announce, IsLast
    <3>2. ASSUME NEW i \in 1 .. Len(buffer'), buffer'[i].payload = Stopped
          PROVE  /\ numThreadsAlive'[buffer'[i].channel] = 0
                 /\ \A j \in i + 1 .. Len(buffer') :
                      buffer'[j].channel = buffer'[i].channel =>
                        buffer'[j].payload = Started /\ buffer'[j].channel \in late'
      <4>1. CASE i = Len(buffer) + 1
        BY <1>0, <2>1, <2>3, <3>1, <4>1 DEF Item
      <4>2. CASE i \in 1 .. Len(buffer)
        <5>1. buffer'[i] = buffer[i] /\ buffer[i].channel # c /\ numThreadsAlive'[buffer[i].channel] = 0
          BY <2>2, <3>1, <3>2, <4>2 DEF Grows
        <5>2. ASSUME NEW j \in i + 1 .. Len(buffer'), buffer'[j].channel = buffer'[i].channel
              PROVE  buffer'[j].payload = Started /\ buffer'[j].channel \in late'
          <6>1. j \in i + 1 .. Len(buffer)
            <7>1. j # Len(buffer) + 1
              BY <3>1, <5>1, <5>2 DEF Item
            <7> QED BY <1>0, <3>1, <4>2, <7>1
          <6>2. j \in 1 .. Len(buffer) /\ buffer'[j] = buffer[j]
            BY <1>0, <3>1, <4>2, <6>1 DEF Grows
          <6> QED BY <2>1, <3>2, <4>2, <5>1, <5>2, <6>1, <6>2 DEF ShutdownIsLast
        <5> QED BY <5>1, <5>2
      <4> QED BY <1>0, <3>1, <4>1, <4>2
    <3>3. ASSUME NEW d \in Channels, numThreadsAlive'[d] = 0, d \notin late', d \in channels' \/ Awaits(d, Started)'
          PROVE  Awaits(d, Stopped)'
      <4>1. CASE d = c
        <5>1. Len(buffer) + 1 \in 1 .. Len(buffer')
          BY <1>0, <3>1
        <5> QED BY <3>1, <4>1, <5>1 DEF Awaits, Item
      <4>2. CASE d # c
        <5>1. numThreadsAlive[d] = 0
          BY <1>0, <2>1, <3>3, <4>2
        <5>2. Awaits(d, Started)' => Awaits(d, Started)
          BY <1>0, <3>1, <4>2, GrownBuffer
        <5>3. Awaits(d, Stopped)
          BY <2>1, <3>3, <5>1, <5>2 DEF GoodbyeIsComing
        <5> QED BY <1>0, <3>1, <5>3, GrownBuffer
      <4> QED BY <4>1, <4>2
    <3> QED BY <3>2, <3>3 DEF ShutdownIsLast, GoodbyeIsComing
  <2>4. CASE numThreadsAlive[c] # 1
    <3>1. buffer' = buffer /\ numThreadsAlive'[c] # 0
      BY <1>0, <1>5, <2>1, <2>4 DEF Announce, IsLast
    <3>2. \A d \in Channels : numThreadsAlive'[d] = 0 => numThreadsAlive[d] = 0
      BY <1>0, <2>1, <3>1
    <3>3. ShutdownIsLast'
      BY <2>1, <2>2, <3>1 DEF ShutdownIsLast
    <3>4. \A d \in Channels, payload \in {Started, Stopped} : Awaits(d, payload)' <=> Awaits(d, payload)
      BY <3>1 DEF Awaits, Item, Started, Stopped
    <3> QED BY <2>1, <3>2, <3>3, <3>4 DEF GoodbyeIsComing
  <2> QED BY <2>3, <2>4
<1>6. CASE HandleNext
  <2> DEFINE h == buffer[1].channel
             p == buffer[1].payload
  <2>1. /\ 1 \in 1 .. Len(buffer) /\ h \in Channels /\ buffer[1] = Item(h, p)
        /\ Len(buffer') = Len(buffer) - 1 /\ \A i \in 1 .. Len(buffer') : buffer'[i] = buffer[i + 1]
        /\ UNCHANGED <<numThreadsAlive, late>> /\ channels' = ChannelsAfter(h, p)
    <3>1. buffer # <<>> /\ buffer' = Tail(buffer) /\ Head(buffer) = buffer[1]
      BY <1>6 DEF HandleNext, At
    <3>2. 1 \in 1 .. Len(buffer)
      BY <1>0, <3>1
    <3>3. Len(buffer') = Len(buffer) - 1 /\ \A i \in 1 .. Len(buffer') : buffer'[i] = buffer[i + 1]
      BY <1>0, <3>1, HeadTailProperties
    <3> QED BY <1>1, <1>6, <3>1, <3>2, <3>3 DEF HandleNext, history
  <2> HIDE DEF h, p
  <2>2. ASSUME NEW d \in Channels, NEW payload, d # h \/ payload # p
        PROVE  Awaits(d, payload) => Awaits(d, payload)'
    <3>1. ASSUME Awaits(d, payload) PROVE Awaits(d, payload)'
      <4>1. PICK i \in 1 .. Len(buffer) : buffer[i] = Item(d, payload)
        BY <3>1 DEF Awaits
      <4>2. i # 1
        BY <2>1, <2>2, <4>1, ItemTypes
      <4>3. i - 1 \in 1 .. Len(buffer') /\ buffer'[i - 1] = Item(d, payload)
        BY <1>0, <2>1, <4>1, <4>2
      <4> QED BY <4>3 DEF Awaits, Item
    <3> QED BY <3>1
  <2>3. ASSUME NEW d \in Channels, NEW payload, Awaits(d, payload)'
        PROVE  \E i \in 2 .. Len(buffer) : buffer[i] = Item(d, payload)
    <3>1. PICK i \in 1 .. Len(buffer') : buffer'[i] = Item(d, payload)
      BY <2>3 DEF Awaits, Item
    <3>2. i + 1 \in 2 .. Len(buffer) /\ buffer[i + 1] = Item(d, payload)
      BY <1>0, <2>1, <3>1
    <3> QED BY <3>2
  <2>4. ASSUME NEW i \in 1 .. Len(buffer'), buffer'[i].payload = Stopped
        PROVE  /\ numThreadsAlive'[buffer'[i].channel] = 0
               /\ \A j \in i + 1 .. Len(buffer') :
                    buffer'[j].channel = buffer'[i].channel =>
                      buffer'[j].payload = Started /\ buffer'[j].channel \in late'
    <3>1. i + 1 \in 1 .. Len(buffer) /\ buffer'[i] = buffer[i + 1]
      BY <1>0, <2>1
    <3>2. ASSUME NEW j \in i + 1 .. Len(buffer')
          PROVE  j + 1 \in (i + 1) + 1 .. Len(buffer) /\ buffer'[j] = buffer[j + 1]
      <4>1. j \in 1 .. Len(buffer')
        BY <1>0, <2>1
      <4> QED BY <1>0, <2>1, <4>1
    <3> QED BY <2>1, <2>4, <3>1, <3>2 DEF ShutdownIsLast
  <2>5. ASSUME NEW d \in Channels, numThreadsAlive'[d] = 0, d \notin late', d \in channels' \/ Awaits(d, Started)'
        PROVE  Awaits(d, Stopped)'
    <3>1. numThreadsAlive[d] = 0 /\ d \notin late
      BY <2>1, <2>5
    <3>2. d \in channels \/ Awaits(d, Started)
      <4>1. CASE Awaits(d, Started)'
        <5>1. PICK i \in 2 .. Len(buffer) : buffer[i] = Item(d, Started)
          BY <2>3, <4>1
        <5>2. i \in 1 .. Len(buffer)
          BY <1>0
        <5> QED BY <5>1, <5>2 DEF Awaits
      <4>2. CASE d \in channels'
        <5>1. d \in channels \/ (d = h /\ p = Started)
          BY <2>1, <4>2 DEF ChannelsAfter
        <5> QED BY <2>1, <5>1 DEF Awaits
      <4> QED BY <2>5, <4>1, <4>2
    <3>3. Awaits(d, Stopped)
      BY <3>1, <3>2 DEF GoodbyeIsComing
    <3>4. CASE d = h /\ p = Stopped
      <4>1. d \notin channels'
        BY <2>1, <3>4, ItemTypes DEF ChannelsAfter
      <4>2. PICK i \in 2 .. Len(buffer) : buffer[i] = Item(d, Started)
        BY <2>3, <2>5, <4>1
      <4>3. buffer[i].channel = h /\ buffer[1].payload = Stopped /\ buffer[1].channel = h
        BY <2>1, <3>4, <4>2, ItemTypes
      <4>4. i \in 1 + 1 .. Len(buffer)
        BY <1>0
      <4>5. d \in late
        BY <2>1, <3>4, <4>3, <4>4 DEF ShutdownIsLast
      <4> QED BY <3>1, <4>5
    <3> QED BY <2>2, <3>3, <3>4
  <2> QED BY <2>4, <2>5 DEF ShutdownIsLast, GoodbyeIsComing
<1>7. CASE UNCHANGED <<buffer, numThreadsAlive, channels, late>>
  <2>1. \A d \in Channels, payload \in {Started, Stopped} : Awaits(d, payload)' <=> Awaits(d, payload)
    BY <1>7 DEF Awaits, Item, Started, Stopped
  <2> QED BY <1>7, <2>1 DEF ShutdownIsLast, GoodbyeIsComing
<1>8. Accept => UNCHANGED <<buffer, numThreadsAlive, channels, late>>
  BY DEF Accept, processor, history
<1> QED BY <1>3, <1>4, <1>5, <1>6, <1>7, <1>8, OtherSteps

-------------------------------------------------------------------------------
(* What a peer said, and what was sent to it. *)

\* What the steps of others leave of a channel.
ReadingStays(c) ==
  /\ received'[c] = received[c] /\ chunker'[c] = chunker[c] /\ inbound'[c] = inbound[c]
  /\ pc'[Reader(c)] = "reading" => local'[Reader(c)].channel = c
  /\ pc'[Reader(c)] \in {"none", "entering", "reading"} => pc[Reader(c)] \in {"none", "entering", "reading"}
WritingStays(c) ==
  /\ outbound'[c] = outbound[c] /\ outgoing'[c] = outgoing[c] /\ sent'[c] = sent[c]
  /\ pc'[Writer(c)] \in {"none", "testing", "waiting"} => pc[Writer(c)] \in {"none", "testing", "waiting"}
  /\ pc'[Writer(c)] = "entering" => pc[Writer(c)] = "entering"
  /\ pc'[Writer(c)] \in {"none", "testing", "waiting", "entering"} => local'[Writer(c)].rest = local[Writer(c)].rest

LEMMA StaysSo ==
    ASSUME NEW c \in Channels
    PROVE  /\ ReadSoFar(c) /\ ReadingStays(c) => ReadSoFar(c)'
           /\ WrittenSoFar(c) /\ WritingStays(c) => WrittenSoFar(c)'
<1>1. ASSUME ReadSoFar(c), ReadingStays(c) PROVE ReadSoFar(c)'
  <2>1. /\ \A i \in DOMAIN received'[c] : received'[c][i] = Message(c, i)
        /\ pc'[Reader(c)] = "reading" => local'[Reader(c)].channel = c
        /\ pc'[Reader(c)] \in {"none", "entering", "reading"} =>
             Follow(c, Len(received'[c]), chunker'[c], inbound'[c])
    BY <1>1 DEF ReadSoFar, ReadingStays
  <2> QED BY <2>1 DEF ReadSoFar, Follow, Said, Message, Newline, Reader
<1>2. ASSUME WrittenSoFar(c), WritingStays(c) PROVE WrittenSoFar(c)'
  <2>1. /\ Continues(c, outbound'[c], 0)
        /\ pc'[Writer(c)] \in {"none", "testing", "waiting"} => local'[Writer(c)].rest = <<>>
        /\ pc'[Writer(c)] \in {"none", "testing", "waiting", "entering"} =>
             /\ Continues(c, local'[Writer(c)].rest, Len(outbound'[c]))
             /\ Continues(c, outgoing'[c], Len(outbound'[c]) + Len(local'[Writer(c)].rest))
             /\ Len(outbound'[c]) + Len(local'[Writer(c)].rest) + Len(outgoing'[c]) = sent'[c]
    BY <1>2 DEF WrittenSoFar, WritingStays
  <2> QED BY <2>1 DEF WrittenSoFar, Continues, Message, Writer
<1> QED BY <1>1, <1>2

\* A thread that is not of the channel, or is past its work, moves.
LEMMA OthersStay ==
    ASSUME ThreadsTypeOK, NEW c \in Channels, ReadSoFar(c), NEW t \in Threads,
           t \notin {Reader(c), Writer(c)} \/ pc'[t] \in Ending,
           \A u \in Threads : u # t => local'[u] = local[u],
           \A u \in Threads : u # t => pc'[u] = pc[u] \/ (pc[u] = "waiting" /\ pc'[u] = "testing")
    PROVE  /\ received'[c] = received[c] /\ chunker'[c] = chunker[c] /\ inbound'[c] = inbound[c] => ReadingStays(c)
           /\ outbound'[c] = outbound[c] /\ outgoing'[c] = outgoing[c] /\ sent'[c] = sent[c] => WritingStays(c)
<1>1. pc'[Reader(c)] \in Ending \/ (pc'[Reader(c)] = pc[Reader(c)] /\ local'[Reader(c)] = local[Reader(c)])
  <2>1. pc[Reader(c)] # "waiting"
    BY DEF ThreadsTypeOK, PlacesOK, ReaderPlaces, Ending
  <2> QED BY <2>1, ThreadNames
<1>2. \/ pc'[Writer(c)] \in Ending
      \/ /\ pc'[Writer(c)] = pc[Writer(c)] \/ (pc[Writer(c)] = "waiting" /\ pc'[Writer(c)] = "testing")
         /\ local'[Writer(c)] = local[Writer(c)]
  BY ThreadNames
<1> QED BY <1>1, <1>2 DEF ReadingStays, WritingStays, ReadSoFar, Ending

LEMMA Continued ==
    ASSUME NEW c \in Channels, NEW first \in Seq(Messages), NEW second \in Seq(Messages), NEW from \in Nat,
           Continues(c, first, from), Continues(c, second, from + Len(first))
    PROVE  Continues(c, first \o second, from)
<1>1. ASSUME NEW i \in 1 .. Len(first) + Len(second) PROVE (first \o second)[i] = Message(c, from + i)
  <2>1. CASE i \in 1 .. Len(first)
    BY <2>1, Concatenated DEF Continues
  <2>2. CASE i \notin 1 .. Len(first)
    <3>1. i - Len(first) \in 1 .. Len(second) /\ Len(first) + (i - Len(first)) = i
      BY <2>2
    <3>2. (first \o second)[i] = second[i - Len(first)]
      BY <3>1, Concatenated
    <3>3. second[i - Len(first)] = Message(c, from + Len(first) + (i - Len(first)))
      BY <3>1 DEF Continues
    <3>4. from + Len(first) + (i - Len(first)) = from + i
      BY <3>1
    <3> QED BY <3>2, <3>3, <3>4
  <2> QED BY <2>1, <2>2
<1>2. first \o second \in Seq(Messages) /\ Len(first \o second) = Len(first) + Len(second)
  BY Concatenated
<1>3. DOMAIN (first \o second) = 1 .. Len(first) + Len(second)
  BY <1>2
<1> QED BY <1>1, <1>3 DEF Continues

LEMMA Divided ==
    ASSUME NEW c \in Channels, NEW messages \in Seq(Messages), NEW from \in Nat, Continues(c, messages, from),
           NEW n \in 1 .. Len(messages)
    PROVE  /\ SubSeq(messages, 1, n) \in Seq(Messages) /\ Len(SubSeq(messages, 1, n)) = n
           /\ Continues(c, SubSeq(messages, 1, n), from)
           /\ SubSeq(messages, n + 1, Len(messages)) \in Seq(Messages)
           /\ Len(SubSeq(messages, n + 1, Len(messages))) = Len(messages) - n
           /\ Continues(c, SubSeq(messages, n + 1, Len(messages)), from + n)
<1> DEFINE first == SubSeq(messages, 1, n)
           second == SubSeq(messages, n + 1, Len(messages))
<1>0. n \in Nat /\ Len(messages) \in Nat /\ n <= Len(messages)
  OBVIOUS
<1>1. first \in Seq(Messages) /\ Len(first) = n /\ \A i \in 1 .. n : first[i] = messages[i]
  BY <1>0
<1>2. /\ second \in Seq(Messages) /\ Len(second) = Len(messages) - n
      /\ \A i \in 1 .. Len(messages) - n : second[i] = messages[n + i]
  BY <1>0
<1> HIDE DEF first, second
<1>3. Continues(c, first, from)
  <2>1. DOMAIN first = 1 .. n /\ \A i \in 1 .. n : i \in DOMAIN messages
    BY <1>0, <1>1
  <2> QED BY <1>1, <2>1 DEF Continues
<1>4. ASSUME NEW i \in 1 .. Len(messages) - n PROVE second[i] = Message(c, from + n + i)
  <2>1. n + i \in 1 .. Len(messages)
    BY <1>0
  <2>2. messages[n + i] = Message(c, from + (n + i)) /\ from + (n + i) = from + n + i
    BY <1>0, <2>1 DEF Continues
  <2> QED BY <1>2, <2>2
<1>5. Continues(c, second, from + n)
  <2>1. DOMAIN second = 1 .. Len(messages) - n
    BY <1>2
  <2> QED BY <1>4, <2>1 DEF Continues
<1> QED BY <1>1, <1>2, <1>3, <1>5 DEF first, second

LEMMA SendWrites ==
    ASSUME ThreadsTypeOK, NEW t \in {Processor, Server}, NEW c \in Channels, Sends(t, c), WrittenSoFar(c), UNCHANGED outbound
    PROVE  WrittenSoFar(c)'
<1> DEFINE w == Writer(c)
           written == outbound[c]
           held == local[w].rest
           waits == outgoing[c]
           message == Message(c, sent[c] + 1)
<1>1. /\ pc'[w] = pc[w] /\ local'[w] = local[w] /\ w \in Threads
  BY SendMoves, ThreadNames
<1>2. /\ written \in Seq(Messages) /\ held \in Seq(Messages) /\ waits \in Seq(Messages) /\ sent[c] \in Nat
      /\ outgoing \in [Channels -> Seq(Messages)] /\ sent \in [Channels -> Nat]
  BY <1>1 DEF ThreadsTypeOK, Locals
<1>3. sent'[c] = sent[c] + 1 /\ outgoing'[c] = Append(waits, message)
  BY <1>2 DEF Sends, Queued
<1>4. message \in Messages
  BY <1>2, ItemTypes
<1> HIDE DEF written, held, waits, message
<1>5. /\ Append(waits, message) \in Seq(Messages) /\ Len(Append(waits, message)) = Len(waits) + 1
      /\ \A i \in 1 .. Len(waits) : Append(waits, message)[i] = waits[i]
      /\ Append(waits, message)[Len(waits) + 1] = message
  BY <1>2, <1>4, AppendProperties
<1>6. ASSUME pc[w] \in {"none", "testing", "waiting", "entering"}
      PROVE  /\ Continues(c, Append(waits, message), Len(written) + Len(held))
             /\ Len(written) + Len(held) + Len(Append(waits, message)) = sent[c] + 1
  <2>1. Continues(c, waits, Len(written) + Len(held)) /\ Len(written) + Len(held) + Len(waits) = sent[c]
    BY <1>6 DEF WrittenSoFar, written, held, waits
  <2>2. ASSUME NEW i \in 1 .. Len(waits) + 1
        PROVE  Append(waits, message)[i] = Message(c, Len(written) + Len(held) + i)
    <3>1. CASE i = Len(waits) + 1
      <4>1. Len(written) + Len(held) + i = sent[c] + 1
        BY <1>2, <2>1, <3>1
      <4> QED BY <1>5, <3>1, <4>1 DEF message
    <3>2. CASE i # Len(waits) + 1
      <4>1. i \in 1 .. Len(waits)
        BY <1>2, <3>2
      <4> QED BY <1>2, <1>5, <2>1, <4>1 DEF Continues
    <3> QED BY <3>1, <3>2
  <2>3. DOMAIN Append(waits, message) = 1 .. Len(waits) + 1
    BY <1>5
  <2> QED BY <1>2, <1>5, <2>1, <2>2, <2>3 DEF Continues
<1>7. /\ Continues(c, outbound'[c], 0)
      /\ pc'[w] \in {"none", "testing", "waiting"} => local'[w].rest = <<>>
      /\ pc'[w] \in {"none", "testing", "waiting", "entering"} =>
           /\ Continues(c, local'[w].rest, Len(outbound'[c]))
           /\ Continues(c, outgoing'[c], Len(outbound'[c]) + Len(local'[w].rest))
           /\ Len(outbound'[c]) + Len(local'[w].rest) + Len(outgoing'[c]) = sent'[c]
  BY <1>1, <1>3, <1>6 DEF WrittenSoFar, written, held
<1> QED BY <1>7 DEF WrittenSoFar, Continues, Message, Writer

LEMMA TestHolds ==
    ASSUME ThreadsTypeOK, NEW c \in Channels, Test(c), WrittenSoFar(c)
    PROVE  WrittenSoFar(c)'
<1> DEFINE w == Writer(c)
<1>0. /\ pc[w] = "testing" /\ w \in Threads /\ pc \in [Threads -> Places] /\ local \in [Threads -> Locals]
      /\ outgoing \in [Channels -> Seq(Messages)] /\ outbound[c] \in Seq(Messages) /\ outgoing[c] \in Seq(Messages)
      /\ UNCHANGED <<outbound, sent>>
  BY ThreadNames DEF ThreadsTypeOK, Test, At, kernel, history
<1>1. /\ Continues(c, outbound[c], 0) /\ local[w].rest = <<>>
      /\ Continues(c, outgoing[c], Len(outbound[c]) + Len(local[w].rest))
      /\ Len(outbound[c]) + Len(local[w].rest) + Len(outgoing[c]) = sent[c]
  BY <1>0 DEF WrittenSoFar
<1>2. CASE UNCHANGED <<outgoing, local>> /\ pc'[w] \in {"shutdown", "waiting"}
  <2>1. WritingStays(c)
    BY <1>0, <1>2 DEF WritingStays
  <2> QED BY <2>1, StaysSo
<1>3. CASE /\ pc'[w] = "entering" /\ local'[w].rest = outgoing[c] /\ outgoing'[c] = <<>>
  <2>1. Len(local[w].rest) = 0 /\ Len(outbound[c]) + 0 = Len(outbound[c])
    BY <1>0, <1>1
  <2>2. Continues(c, outgoing[c], Len(outbound[c])) /\ Len(outbound[c]) + Len(outgoing[c]) + 0 = sent[c]
    BY <1>0, <1>1, <2>1
  <2>3. Len(<<>>) = 0 /\ Continues(c, <<>>, Len(outbound[c]) + Len(outgoing[c]))
    BY DEF Continues
  <2>4. /\ Continues(c, outbound'[c], 0)
        /\ pc'[w] = "entering"
        /\ Continues(c, local'[w].rest, Len(outbound'[c]))
        /\ Continues(c, outgoing'[c], Len(outbound'[c]) + Len(local'[w].rest))
        /\ Len(outbound'[c]) + Len(local'[w].rest) + Len(outgoing'[c]) = sent'[c]
    BY <1>0, <1>1, <1>3, <2>2, <2>3
  <2> QED BY <2>4 DEF WrittenSoFar, Continues, Message, Writer
<1>4. \/ UNCHANGED <<outgoing, local>> /\ pc'[w] \in {"shutdown", "waiting"}
      \/ pc'[w] = "entering" /\ local'[w].rest = outgoing[c] /\ outgoing'[c] = <<>>
  <2>1. CASE shutdownRequested[c] \/ outgoing[c] = <<>>
    BY <1>0, <2>1 DEF Test, Goes
  <2>2. CASE ~(shutdownRequested[c] \/ outgoing[c] = <<>>)
    <3>1. /\ pc' = [pc EXCEPT ![w] = "entering"] /\ outgoing' = [outgoing EXCEPT ![c] = <<>>]
          /\ local' = [local EXCEPT ![w] = [@ EXCEPT !.fd = socketFd[c], !.rest = outgoing[c]]]
      BY <2>2 DEF Test, Goes
    <3>2. local[w] \in Locals
      BY <1>0
    <3> QED BY <1>0, <3>1, <3>2 DEF Locals
  <2> QED BY <2>1, <2>2
<1> QED BY <1>2, <1>3, <1>4

LEMMA WriteHolds ==
    ASSUME ThreadsTypeOK, NEW c \in Channels, Write(c), ~crossed', WrittenSoFar(c)
    PROVE  WrittenSoFar(c)' /\ \A d \in Channels : d # c => outbound'[d] = outbound[d]
<1> DEFINE w == Writer(c)
           connection == ConnectionOf(w)
           written == outbound[c]
           rest == local[w].rest
           waits == outgoing[c]
<1>0. /\ pc[w] = "entering" /\ w \in Threads /\ pc \in [Threads -> Places] /\ local \in [Threads -> Locals]
      /\ outbound \in [Channels -> Seq(Messages)] /\ written \in Seq(Messages) /\ waits \in Seq(Messages)
      /\ rest \in Seq(Messages) /\ local[w] \in Locals
      /\ UNCHANGED <<outgoing, sent>>
  BY ThreadNames DEF ThreadsTypeOK, Write, At, Locals
<1>1. connection \in {0, c}
  BY DEF Write, Cross
<1>2. /\ Continues(c, written, 0) /\ Continues(c, rest, Len(written))
      /\ Continues(c, waits, Len(written) + Len(rest)) /\ Len(written) + Len(rest) + Len(waits) = sent[c]
  BY <1>0 DEF WrittenSoFar
<1>3. CASE UNCHANGED outbound /\ (pc'[w] = "shutdown" \/ UNCHANGED <<local, pc>>)
  <2>1. WritingStays(c)
    BY <1>0, <1>3 DEF WritingStays
  <2> QED BY <1>3, <2>1, StaysSo
<1>4. ASSUME connection # 0, NEW n \in 1 .. Len(rest),
             local' = [local EXCEPT ![w] = IF n = Len(rest) THEN Nothing
                                           ELSE [@ EXCEPT !.rest = SubSeq(rest, n + 1, Len(rest))]],
             outbound' = [outbound EXCEPT ![connection] = @ \o SubSeq(rest, 1, n)],
             Goes(w, IF n = Len(rest) THEN "testing" ELSE "entering")
      PROVE  WrittenSoFar(c)' /\ \A d \in Channels : d # c => outbound'[d] = outbound[d]
  <2> DEFINE first == SubSeq(rest, 1, n)
             second == SubSeq(rest, n + 1, Len(rest))
  <2>1. connection = c
    BY <1>1, <1>4
  <2>2. /\ outbound'[c] = written \o first /\ \A d \in Channels : d # c => outbound'[d] = outbound[d]
        /\ pc'[w] = IF n = Len(rest) THEN "testing" ELSE "entering"
    BY <1>0, <1>4, <2>1 DEF Goes
  <2>3. local'[w].rest = IF n = Len(rest) THEN <<>> ELSE second
    <3>1. CASE n = Len(rest)
      <4>1. local'[w] = Nothing
        BY <1>0, <1>4, <3>1
      <4> QED BY <3>1, <4>1 DEF Nothing
    <3>2. CASE n # Len(rest)
      <4>1. local'[w] = [local[w] EXCEPT !.rest = second]
        BY <1>0, <1>4, <3>2
      <4> QED BY <1>0, <3>2, <4>1 DEF Locals
    <3> QED BY <3>1, <3>2
  <2> HIDE DEF connection, rest, written, waits
  <2>4. n = Len(rest) => second = <<>>
    <3>1. n \in Nat
      OBVIOUS
    <3> QED BY <3>1
  <2>5. /\ first \in Seq(Messages) /\ Len(first) = n /\ Continues(c, first, Len(written))
        /\ second \in Seq(Messages) /\ Len(second) = Len(rest) - n /\ Continues(c, second, Len(written) + n)
    <3>1. Len(written) \in Nat
      BY <1>0
    <3> QED BY <1>0, <1>2, <3>1, Divided
  <2> HIDE DEF first, second
  <2>6. /\ written \o first \in Seq(Messages) /\ Len(written \o first) = Len(written) + n
        /\ Continues(c, written \o first, 0)
    <3>1. written \o first \in Seq(Messages) /\ Len(written \o first) = Len(written) + Len(first)
      BY <1>0, <2>5, Concatenated
    <3>2. Continues(c, first, 0 + Len(written))
      <4>1. 0 + Len(written) = Len(written)
        BY <1>0
      <4> QED BY <2>5, <4>1
    <3>3. Continues(c, written \o first, 0)
      BY <1>0, <1>2, <2>5, <3>2, Continued
    <3> QED BY <2>5, <3>1, <3>3
  <2>7. local'[w].rest = second
    BY <2>3, <2>4
  <2>8. Len(written) + n + (Len(rest) - n) = Len(written) + Len(rest)
    BY <1>0
  <2>9. /\ Continues(c, outbound'[c], 0)
        /\ pc'[w] \in {"none", "testing", "waiting"} => local'[w].rest = <<>>
        /\ Continues(c, local'[w].rest, Len(outbound'[c]))
        /\ Continues(c, outgoing'[c], Len(outbound'[c]) + Len(local'[w].rest))
        /\ Len(outbound'[c]) + Len(local'[w].rest) + Len(outgoing'[c]) = sent'[c]
    <3>1. Len(outbound'[c]) + Len(local'[w].rest) = Len(written) + Len(rest) /\ outgoing'[c] = waits /\ sent'[c] = sent[c]
      BY <1>0, <2>2, <2>5, <2>6, <2>7, <2>8 DEF waits
    <3>2. pc'[w] \in {"none", "testing", "waiting"} => local'[w].rest = <<>>
      BY <2>2, <2>3
    <3> QED BY <1>2, <2>2, <2>5, <2>6, <2>7, <3>1, <3>2
  <2> QED BY <2>2, <2>9 DEF WrittenSoFar, Continues, Message, Writer
<1>5. CASE connection = 0
  <2>1. (Goes(w, "shutdown") /\ UNCHANGED outbound) \/ UNCHANGED <<outbound, local, pc>>
    BY <1>5 DEF Write
  <2> QED BY <1>0, <1>3, <2>1 DEF Goes
<1>6. CASE connection # 0
  <2>1. \/ \E n \in 1 .. Len(rest) :
             /\ local' = [local EXCEPT ![w] = IF n = Len(rest) THEN Nothing
                                              ELSE [@ EXCEPT !.rest = SubSeq(rest, n + 1, Len(rest))]]
             /\ outbound' = [outbound EXCEPT ![connection] = @ \o SubSeq(rest, 1, n)]
             /\ Goes(w, IF n = Len(rest) THEN "testing" ELSE "entering")
        \/ UNCHANGED <<outbound, local, pc>>
    BY <1>6 DEF Write
  <2> QED BY <1>3, <1>4, <1>6, <2>1
<1> QED BY <1>5, <1>6

LEMMA ReadHolds ==
    ASSUME ThreadsTypeOK, NothingMixedUp, ~crossed, NEW c \in Channels, ReadReturns(c)
    PROVE  ReadSoFar(c)' /\ \A d \in Channels : d # c => received'[d] = received[d]
<1>1. ReadSoFar(c) /\ received \in [Channels -> Seq(Messages)] /\ buffer \in Seq(Items) /\ received[c] \in Seq(Messages)
  BY DEF NothingMixedUp, ThreadsTypeOK
<1>2. PICK k \in Nat :
        /\ HandsOn(c, k)
        /\ pc'[Reader(c)] = "entering" => Follow(c, Len(received[c]) + k, chunker'[c], inbound'[c])
  BY ReadReturnsHow
<1>3. pc'[Reader(c)] \in {"entering", "shutdown"}
  BY ReadReturnsHow
<1>4. /\ received' \in [Channels -> Seq(Messages)] /\ Len(received'[c]) = Len(received[c]) + k
      /\ \A j \in 1 .. Len(received[c]) : received'[c][j] = received[c][j]
      /\ \A j \in 1 .. k : received'[c][Len(received[c]) + j] = Message(c, Len(received[c]) + j)
      /\ \A d \in Channels : d # c => received'[d] = received[d]
  BY <1>1, <1>2, HandsOnTypes
<1>5. ASSUME NEW j \in 1 .. Len(received'[c]) PROVE received'[c][j] = Message(c, j)
  <2>1. CASE j \in 1 .. Len(received[c])
    BY <1>1, <1>4, <2>1 DEF ReadSoFar
  <2>2. CASE j \notin 1 .. Len(received[c])
    <3>1. j - Len(received[c]) \in 1 .. k /\ Len(received[c]) + (j - Len(received[c])) = j
      BY <1>1, <1>4, <2>2
    <3> QED BY <1>4, <3>1
  <2> QED BY <2>1, <2>2
<1>6. /\ \A j \in DOMAIN received'[c] : received'[c][j] = Message(c, j)
      /\ pc'[Reader(c)] = "reading" => local'[Reader(c)].channel = c
      /\ pc'[Reader(c)] \in {"none", "entering", "reading"} =>
           Follow(c, Len(received'[c]), chunker'[c], inbound'[c])
  <2>1. DOMAIN received'[c] = 1 .. Len(received'[c])
    BY <1>4
  <2> QED BY <1>2, <1>3, <1>4, <1>5, <2>1
<1> QED BY <1>4, <1>6 DEF ReadSoFar, Follow, Said, Message, Newline, Reader

LEMMA MixedStep ==
    ASSUME ThreadsTypeOK, TheirChannels, ThreadsCounted, NothingMixedUp, Next
    PROVE  NothingMixedUp'
<1> SUFFICES ASSUME ~crossed', NEW d \in Channels
             PROVE  ReadSoFar(d)' /\ WrittenSoFar(d)'
  BY DEF NothingMixedUp, Channels
<1> USE DEF At, kernel, sockets, processor, history
<1>0. /\ ~crossed /\ ReadSoFar(d) /\ WrittenSoFar(d)
      /\ pc \in [Threads -> Places] /\ local \in [Threads -> Locals] /\ ThreadsTypeOK /\ TheirChannels
      /\ Reader(d) \in Threads /\ Writer(d) \in Threads
  BY ThreadNames DEF NothingMixedUp, Next, ThreadsTypeOK
<1> DEFINE ReadSame == received'[d] = received[d] /\ chunker'[d] = chunker[d] /\ inbound'[d] = inbound[d]
           WrittenSame == outbound'[d] = outbound[d] /\ outgoing'[d] = outgoing[d] /\ sent'[d] = sent[d]
           Moved(t) == /\ \A u \in Threads : u # t => local'[u] = local[u]
                       /\ \A u \in Threads : u # t => pc'[u] = pc[u] \/ (pc[u] = "waiting" /\ pc'[u] = "testing")
<1>1. ASSUME NEW t \in Threads, t \notin {Reader(d), Writer(d)} \/ pc'[t] \in Ending, Moved(t)
      PROVE  (ReadSame => ReadSoFar(d)') /\ (WrittenSame => WrittenSoFar(d)')
  BY <1>0, <1>1, OthersStay, StaysSo
<1>2. ASSUME NEW t \in Threads, UNCHANGED <<inbound, outbound, outgoing, chunker, received, sent>>,
             t \notin {Reader(d), Writer(d)} \/ pc'[t] \in Ending, Moved(t)
      PROVE  ReadSoFar(d)' /\ WrittenSoFar(d)'
  BY <1>1, <1>2
<1>3. CASE Accept
  <2> DEFINE n == accepted + 1
  <2>1. /\ n \in Channels /\ UNCHANGED <<inbound, outbound, outgoing, chunker, received, sent>>
        /\ pc' = [pc EXCEPT ![Listener] = "starting", ![Reader(n)] = "entering", ![Writer(n)] = "testing"]
    BY <1>3, ThreadsAssumption DEF Accept, Channels, ThreadsTypeOK
  <2>2. pc[Reader(n)] = "none" /\ pc[Writer(n)] = "none"
    BY <2>1 DEF ThreadsCounted, Channels, ThreadsTypeOK
  <2>3. \A u \in Threads : local'[u].channel = local[u].channel /\ local'[u].rest = local[u].rest
    BY <1>0, <1>3 DEF Accept, Locals
  <2> HIDE DEF n
  <2>4. CASE d = n
    <3>1. pc'[Reader(d)] = "entering" /\ pc'[Writer(d)] = "testing"
      BY <1>0, <2>1, <2>4, ThreadNames
    <3> QED BY <1>0, <2>1, <2>2, <2>3, <2>4, <3>1, StaysSo DEF ReadingStays, WritingStays
  <2>5. CASE d # n
    <3>1. {Reader(d), Writer(d)} \intersect {Listener, Reader(n), Writer(n)} = {}
      BY <2>1, <2>5, ThreadNames
    <3>2. pc'[Reader(d)] = pc[Reader(d)] /\ pc'[Writer(d)] = pc[Writer(d)]
      BY <1>0, <2>1, <3>1
    <3> QED BY <1>0, <2>1, <2>3, <3>2, StaysSo DEF ReadingStays, WritingStays, ReadSoFar
  <2> QED BY <2>4, <2>5
<1>4. CASE Startup
  BY <1>0, <1>2, <1>4, ThreadNames DEF Startup, Goes
<1>5. CASE HandleNext
  <2>1. \A t \in Threads : t # Processor => local'[t] = local[t]
    BY <1>0, <1>5 DEF HandleNext
  <2> QED BY <1>0, <1>2, <1>5, <2>1, ThreadNames DEF HandleNext, Goes
<1>6. ASSUME NEW t \in {Processor, Server}, NEW c \in Channels, Sends(t, c),
             UNCHANGED <<kernel, chunker, received>>
      PROVE  ReadSoFar(d)' /\ WrittenSoFar(d)'
  <2>1. t \in Threads /\ t \notin {Reader(d), Writer(d)} /\ Moved(t)
    BY <1>6, SendMoves, ThreadNames
  <2>2. CASE d = c
    BY <1>0, <1>1, <1>6, <2>1, <2>2, SendWrites
  <2>3. CASE d # c
    <3>1. outgoing'[d] = outgoing[d] /\ sent'[d] = sent[d]
      BY <1>0, <1>6, <2>3 DEF Sends, ThreadsTypeOK
    <3> QED BY <1>1, <1>6, <2>1, <3>1
  <2> QED BY <2>2, <2>3
<1>7. CASE Reply
  BY <1>0, <1>6, <1>7 DEF Reply, TheirChannels
<1>8. CASE SendResponse
  BY <1>0, <1>6, <1>8 DEF SendResponse, TheirChannels
<1>9. CASE ReadChannel
  <2>1. \A t \in Threads : t # Server => local'[t] = local[t]
    BY <1>0, <1>9 DEF ReadChannel
  <2> QED BY <1>0, <1>2, <1>9, <2>1, ThreadNames DEF ReadChannel, Goes
<1>10. ASSUME NEW t \in {Processor, Server}, NotifySend(t)
       PROVE  ReadSoFar(d)' /\ WrittenSoFar(d)'
  <2>1. Moved(t)
    BY <1>0, <1>10 DEF NotifySend, Notifies
  <2> QED BY <1>2, <1>10, <2>1, ThreadNames DEF NotifySend
<1>11. ASSUME NEW c \in Channels, NEW t \in Threads, ActsFor(t, c), RequestShutdown(t, c) \/ Close(t, c)
       PROVE  ReadSoFar(d)' /\ WrittenSoFar(d)'
  <2>1. UNCHANGED <<inbound, outbound, outgoing, chunker, received, sent, local>>
    BY <1>11 DEF RequestShutdown, Close
  <2>2. Moved(t) /\ pc'[t] \in {"closing", AfterShutdown(t)}
    <3>1. CASE RequestShutdown(t, c)
      BY <1>0, <3>1 DEF RequestShutdown, Goes
    <3>2. CASE Close(t, c)
      BY <1>0, <3>2 DEF Close, NotifiesShutdown, Notifies
    <3> QED BY <1>11, <3>1, <3>2
  <2>3. t \notin {Reader(d), Writer(d)} \/ pc'[t] \in Ending
    BY <2>2, ThreadNames DEF AfterShutdown, Ending
  <2> QED BY <1>2, <2>1, <2>2, <2>3
<1>12. ASSUME NEW c \in Channels, NEW t \in Threads, Announce(t, c)
       PROVE  ReadSoFar(d)' /\ WrittenSoFar(d)'
  BY <1>0, <1>2, <1>12 DEF Announce, Goes, Ending
<1>13. ASSUME NEW c \in Channels, ReadEnters(c)
       PROVE  ReadSoFar(d)' /\ WrittenSoFar(d)'
  <2> DEFINE connection == ConnectionOf(Reader(c))
  <2>1. /\ pc[Reader(c)] = "entering" /\ connection \in {0, c} /\ Reader(c) \in Threads
        /\ pc' = [pc EXCEPT ![Reader(c)] = IF connection = 0 THEN "shutdown" ELSE "reading"]
        /\ local' = [local EXCEPT ![Reader(c)] = [Nothing EXCEPT !.channel = connection]]
        /\ UNCHANGED <<inbound, outbound, outgoing, chunker, received, sent>>
    BY <1>13, ThreadNames DEF ReadEnters, Goes, Cross
  <2> HIDE DEF connection
  <2>2. Moved(Reader(c))
    BY <1>0, <2>1
  <2>3. CASE c # d \/ connection = 0
    <3>1. Reader(c) \notin {Reader(d), Writer(d)} \/ pc'[Reader(c)] \in Ending
      BY <1>0, <2>1, <2>3, ThreadNames DEF Ending
    <3> QED BY <1>2, <2>1, <2>2, <3>1
  <2>4. CASE c = d /\ connection = c
    <3>1. local'[Reader(d)].channel = d /\ pc[Reader(d)] = "entering"
      BY <1>0, <2>1, <2>4 DEF Nothing
    <3>2. local'[Writer(d)] = local[Writer(d)] /\ pc'[Writer(d)] = pc[Writer(d)]
      BY <1>0, <2>1, <2>4, ThreadNames
    <3> QED BY <1>0, <2>1, <3>1, <3>2, StaysSo DEF ReadingStays, WritingStays
  <2> QED BY <2>1, <2>3, <2>4
<1>14. ASSUME NEW c \in Channels, ReadReturns(c)
       PROVE  ReadSoFar(d)' /\ WrittenSoFar(d)'
  <2>1. /\ \A u \in Threads : u # Reader(c) => pc'[u] = pc[u] /\ local'[u] = local[u]
        /\ \A e \in Channels : e # c => inbound'[e] = inbound[e] /\ chunker'[e] = chunker[e]
    BY <1>0, <1>14, ReadReturnsHow
  <2>2. /\ ReadSoFar(c)' /\ \A e \in Channels : e # c => received'[e] = received[e]
        /\ UNCHANGED <<outbound, outgoing, sent>> /\ Reader(c) \in Threads
    BY <1>0, <1>14, ReadHolds, ThreadNames DEF ReadReturns
  <2>3. CASE d = c
    <3>1. WritingStays(d)
      BY <1>0, <2>1, <2>2, <2>3, ThreadNames DEF WritingStays
    <3> QED BY <1>0, <2>2, <2>3, <3>1, StaysSo
  <2>4. CASE d # c
    <3>1. Reader(c) \notin {Reader(d), Writer(d)} /\ Moved(Reader(c))
      BY <2>1, <2>4, ThreadNames
    <3> QED BY <1>1, <2>1, <2>2, <2>4, <3>1
  <2> QED BY <2>3, <2>4
<1>15. ASSUME NEW c \in Channels, Test(c) \/ Write(c)
       PROVE  ReadSoFar(d)' /\ WrittenSoFar(d)'
  <2>1. /\ UNCHANGED <<inbound, chunker, received, sent>> /\ Writer(c) \in Threads
        /\ \A u \in Threads : u # Writer(c) => pc'[u] = pc[u] /\ local'[u] = local[u]
    <3>1. CASE Test(c)
      <4>1. /\ UNCHANGED <<inbound, chunker, received, sent>> /\ Writer(c) \in Threads
            /\ \E where \in {"shutdown", "waiting", "entering"} : Goes(Writer(c), where)
        BY <3>1, ThreadNames DEF Test
      <4>2. \A u \in Threads : u # Writer(c) => local'[u] = local[u]
        BY <1>0, <3>1 DEF Test
      <4> QED BY <1>0, <4>1, <4>2 DEF Goes
    <3>2. CASE Write(c)
      <4>1. /\ UNCHANGED <<inbound, chunker, received, sent>> /\ Writer(c) \in Threads
            /\ UNCHANGED pc \/ \E where \in {"shutdown", "testing", "entering"} : Goes(Writer(c), where)
        BY <3>2, ThreadNames DEF Write
      <4>2. \A u \in Threads : u # Writer(c) => local'[u] = local[u]
        BY <1>0, <3>2 DEF Write
      <4> QED BY <1>0, <4>1, <4>2 DEF Goes
    <3> QED BY <1>15, <3>1, <3>2
  <2>2. ReadSoFar(d)'
    <3>1. ReadingStays(d)
      BY <1>0, <2>1, ThreadNames DEF ReadingStays, ReadSoFar
    <3> QED BY <1>0, <3>1, StaysSo
  <2>3. CASE d = c
    BY <1>0, <1>15, <2>2, <2>3, TestHolds, WriteHolds
  <2>4. CASE d # c
    <3>1. outbound'[d] = outbound[d] /\ outgoing'[d] = outgoing[d]
      <4>1. CASE Test(c)
        BY <1>0, <2>4, <4>1 DEF Test, ThreadsTypeOK
      <4>2. CASE Write(c)
        <5>1. WrittenSoFar(c)
          BY <1>0 DEF NothingMixedUp
        <5> QED BY <1>0, <2>4, <4>2, <5>1, WriteHolds DEF Write
      <4> QED BY <1>15, <4>1, <4>2
    <3>2. Writer(c) \notin {Reader(d), Writer(d)} /\ Moved(Writer(c))
      BY <2>1, <2>4, ThreadNames
    <3> QED BY <1>1, <2>1, <2>2, <3>1, <3>2
  <2> QED BY <2>3, <2>4
<1> QED BY <1>0, <1>3, <1>4, <1>5, <1>7, <1>8, <1>9, <1>10, <1>11, <1>12, <1>13, <1>14, <1>15, StepIsAction

-------------------------------------------------------------------------------
(* The theorems. *)

LEMMA ThreadsInitially == Init => ThreadsInvariant
<1> SUFFICES ASSUME Init PROVE ThreadsInvariant
  OBVIOUS
<1>1. /\ NumChannels \in Nat /\ 0 \in 0 .. NumChannels /\ Channels = 1 .. NumChannels
      /\ accepted = 0 /\ buffer = <<>> /\ channels = {} /\ session = 0 /\ died = FALSE /\ crossed = FALSE /\ late = {}
  BY ThreadsAssumption DEF Init, Channels
<1>2. /\ \A c \in Channels : Said(c) \in Seq(Symbols) /\ Len(Said(c)) = 2 * Says[c] /\ Says[c] \in Nat
      /\ \A S : <<>> \in Seq(S)
  BY WhatIsSaid
<1>3. \A c \in Channels : pc[Reader(c)] = "none" /\ pc[Writer(c)] = "none"
  BY ThreadNames DEF Init
<1>4. pc[Listener] = "idle" /\ pc[Processor] = "idle" /\ pc[Server] = "idle"
  BY ThreadNames DEF Init
<1>5. ThreadsTypeOK
  <2>1. pc \in [Threads -> Places]
    BY DEF Init, Places, ReaderPlaces
  <2>2. PlacesOK
    BY <1>3, <1>4 DEF PlacesOK, ReaderPlaces, WriterPlaces
  <2>3. local \in [Threads -> Locals]
    BY NothingIsLocal DEF Init
  <2>4. inbound \in [Channels -> Seq(Symbols)] /\ outbound \in [Channels -> Seq(Messages)]
    BY <1>2 DEF Init
  <2>5. /\ outgoing \in [Channels -> Seq(Messages)] /\ chunker \in [Channels -> Seq(Symbols)]
        /\ received \in [Channels -> Seq(Messages)] /\ buffer \in Seq(Items)
    BY <1>2 DEF Init
  <2>6. /\ fds \in [Fds -> 0 .. NumChannels] /\ socketFd \in [Channels -> Fds \union {NoFd}]
        /\ shutdownRequested \in [Channels -> BOOLEAN] /\ numThreadsAlive \in [Channels -> 0 .. 2]
        /\ sent \in [Channels -> Nat]
    BY <1>1 DEF Init
  <2> QED BY <1>1, <2>1, <2>2, <2>3, <2>4, <2>5, <2>6 DEF ThreadsTypeOK
<1>6. TheirChannels
  BY <1>3, <1>4 DEF TheirChannels
<1>7. ThreadsCounted
  BY <1>3 DEF Init, ThreadsCounted, StillAlive
<1>8. ShutdownIsLast /\ GoodbyeIsComing
  BY <1>1 DEF ShutdownIsLast, GoodbyeIsComing, Awaits
<1>9. ASSUME NEW c \in Channels PROVE ReadSoFar(c) /\ WrittenSoFar(c)
  <2>1. /\ received[c] = <<>> /\ chunker[c] = <<>> /\ inbound[c] = Said(c) /\ outbound[c] = <<>>
        /\ outgoing[c] = <<>> /\ sent[c] = 0 /\ local[Writer(c)].rest = <<>>
    BY ThreadNames DEF Init, Nothing
  <2>2. DOMAIN Said(c) = 1 .. 2 * Says[c]
    BY DEF Said
  <2>3. Follow(c, 0, <<>>, Said(c))
    BY <1>2, <2>2 DEF Follow
  <2>4. \A from : Continues(c, <<>>, from)
    BY DEF Continues
  <2> QED BY <1>3, <2>1, <2>3, <2>4 DEF ReadSoFar, WrittenSoFar
<1> QED BY <1>5, <1>6, <1>7, <1>8, <1>9 DEF ThreadsInvariant, NothingMixedUp

LEMMA ThreadsStep == ThreadsInvariant /\ [Next]_vars => ThreadsInvariant'
<1> SUFFICES ASSUME ThreadsInvariant, [Next]_vars PROVE ThreadsInvariant'
  OBVIOUS
<1> USE DEF ThreadsInvariant
<1>1. CASE Next
  BY <1>1, PlacesStep, TypeStep, CountedStep, BufferStep, MixedStep
<1>2. CASE UNCHANGED vars
  <2>1. /\ UNCHANGED <<fds, inbound, outbound, accepted, socketFd, shutdownRequested, outgoing, numThreadsAlive>>
        /\ UNCHANGED <<chunker, buffer, channels, session, pc, local, died, received, sent, crossed, late>>
    BY <1>2 DEF vars, kernel, sockets, processor, history
  <2>2. ThreadsTypeOK'
    BY <2>1 DEF ThreadsTypeOK, PlacesOK
  <2>3. TheirChannels' /\ ThreadsCounted'
    BY <2>1 DEF TheirChannels, ThreadsCounted, StillAlive
  <2>4. ShutdownIsLast' /\ GoodbyeIsComing'
    BY <2>1 DEF ShutdownIsLast, GoodbyeIsComing, Awaits
  <2>5. NothingMixedUp'
    <3> SUFFICES ASSUME ~crossed', NEW c \in Channels PROVE ReadSoFar(c)' /\ WrittenSoFar(c)'
      BY DEF NothingMixedUp, Channels
    <3>1. ReadSoFar(c) /\ WrittenSoFar(c)
      BY <2>1 DEF NothingMixedUp
    <3>2. ReadingStays(c) /\ WritingStays(c)
      BY <2>1, <3>1 DEF ReadingStays, WritingStays, ReadSoFar
    <3> QED BY <3>1, <3>2, StaysSo
  <2> QED BY <2>2, <2>3, <2>4, <2>5
<1> QED BY <1>1, <1>2

LEMMA ThreadsAlways == Spec => []ThreadsInvariant
BY ThreadsInitially, ThreadsStep, PTL DEF Spec

LEMMA WholeMessages == ThreadsInvariant => MessagesComeWhole
<1> SUFFICES ASSUME ThreadsInvariant, ~crossed, NEW c \in Channels
             PROVE  /\ received[c] = [n \in 1..Len(received[c]) |-> Message(c, n)]
                    /\ outbound[c] = [n \in 1..Len(outbound[c]) |-> Message(c, n)]
  BY DEF MessagesComeWhole
<1>1. ReadSoFar(c) /\ WrittenSoFar(c) /\ received[c] \in Seq(Messages) /\ outbound[c] \in Seq(Messages)
  BY DEF ThreadsInvariant, NothingMixedUp, ThreadsTypeOK
<1>2. \A i \in 1 .. Len(received[c]) : received[c][i] = Message(c, i)
  BY <1>1 DEF ReadSoFar
<1>3. \A i \in 1 .. Len(outbound[c]) : outbound[c][i] = Message(c, i)
  BY <1>1 DEF WrittenSoFar, Continues
<1>4. ASSUME NEW messages \in Seq(Messages), \A i \in 1 .. Len(messages) : messages[i] = Message(c, i)
      PROVE  messages = [n \in 1 .. Len(messages) |-> Message(c, n)]
  <2>1. messages = [n \in 1 .. Len(messages) |-> messages[n]]
    BY LenProperties
  <2> QED BY <1>4, <2>1
<1> QED BY <1>1, <1>2, <1>3, <1>4

LEMMA ForgottenInTheEnd == ThreadsInvariant => EndedChannelsAreForgotten
<1> SUFFICES ASSUME ThreadsInvariant, buffer = <<>>, NEW c \in channels, c \notin late
             PROVE  numThreadsAlive[c] > 0
  BY DEF EndedChannelsAreForgotten
<1>1. c \in Channels /\ numThreadsAlive[c] \in 0 .. 2
  BY DEF ThreadsInvariant, ThreadsTypeOK
<1>2. ~Awaits(c, Stopped)
  BY DEF Awaits
<1>3. numThreadsAlive[c] # 0
  BY <1>1, <1>2 DEF ThreadsInvariant, GoodbyeIsComing
<1> QED BY <1>1, <1>3

(* Whatever is sent, read, cut up and shut down on whichever connections,   *)
(* what a Reader hands on is whole and in order, and so is what reaches the *)
(* peer, until a descriptor number is used again under a thread.            *)
THEOREM WholeAndInOrder == Spec => []MessagesComeWhole
BY ThreadsAlways, WholeMessages, PTL

(* The goodbye of a channel is said when both its threads are done, and     *)
(* nothing of the channel is behind it in the buffer but a late start.      *)
THEOREM GoodbyeIsLast == Spec => []ShutdownIsLast
<1>1. ThreadsInvariant => ShutdownIsLast
  BY DEF ThreadsInvariant
<1> QED BY <1>1, ThreadsAlways, PTL

(* A channel that ended is not kept once all is handled, whichever of its   *)
(* threads ended first, unless its start was announced after its end.       *)
THEOREM EndedAreForgotten == Spec => []EndedChannelsAreForgotten
BY ThreadsAlways, ForgottenInTheEnd, PTL

=============================================================================
