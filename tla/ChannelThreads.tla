---------------------------- MODULE ChannelThreads ----------------------------
(***************************************************************************)
(* The threads below the session layer: the Listener accepts connections    *)
(* and makes Channels (communicator/channel.cc), each with a Reader and a   *)
(* Writer; the Readers put what they read in the Processor's MessageBuffer, *)
(* the Processor attaches a session to one channel after the other and      *)
(* shuts the former one down, and the Server sends on the session's         *)
(* channel.                                                                 *)
(*                                                                         *)
(* A step is what a thread does under a lock, or one system call, with what *)
(* it does alone before the next.  The buffer stands for the MessageBuffer  *)
(* and what the Processor has swapped out of it: together they are a queue. *)
(*                                                                         *)
(* The kernel's part: accept gives the lowest free number, a system call    *)
(* takes a number and holds the connection behind it, and close frees the   *)
(* number without waking who is blocked on the connection.                  *)
(***************************************************************************)
EXTENDS Integers, Sequences, SequencesExt, FiniteSetsExt, Functions

CONSTANTS NumChannels,      \* the connections, in the order they come
          Fds,              \* the descriptor numbers left for them
          Says,             \* Says[c]: how many messages the peer of c sends
          HangsUp,          \* whose peers hang up when they have sent them
          Garbled,          \* whose messages may not parse
          MaxSends          \* bound: the Server sends while fewer have been sent

Channels == 1..NumChannels

ASSUME ThreadsAssumption ==
  /\ NumChannels \in Nat /\ Fds \subseteq Nat /\ IsFiniteSet(Fds)
  /\ Says \in [Channels -> Nat] /\ HangsUp \subseteq Channels /\ Garbled \subseteq Channels
  /\ MaxSends \in Nat

VARIABLES
  fds,                 \* whose connection a number is; 0 when it is free
  inbound, outbound,   \* the bytes on their way from and to each peer
  accepted,            \* connections accepted
  socketFd, shutdownRequested, outgoing, numThreadsAlive,   \* Channel
  chunker,             \* each Reader's Chunker: read and not yet a message
  buffer,              \* the MessageBuffer, with what the Processor swapped out
  channels,            \* Communicator::channels_
  session,             \* the session's channel, 0 before it has one
  pc, local,           \* where each thread is, and what it holds
  died,                \* the process has been killed by a signal
  received, sent,      \* history: messages read from and sent on each channel
  crossed, late        \* history: see Cross and Startup

kernel == <<fds, inbound, outbound>>
sockets == <<socketFd, shutdownRequested>>
processor == <<channels, session>>
history == <<received, sent, crossed, late>>
vars == <<kernel, accepted, sockets, outgoing, numThreadsAlive, chunker, buffer,
          processor, pc, local, died, history>>

NoFd == -1
Listener == <<"Listener", 0>>
Processor == <<"Processor", 0>>
Server == <<"Server", 0>>
Reader(c) == <<"Reader", c>>
Writer(c) == <<"Writer", c>>
Threads == {Listener, Processor, Server} \cup {Reader(c) : c \in Channels}
             \cup {Writer(c) : c \in Channels}

(* The n-th message on the connection of c is one symbol, and a newline.    *)
(* All that a peer says is on its way from the start: a read may return any *)
(* part of it.  A response is one symbol, its newline included.             *)
Message(c, n) == [of |-> c, n |-> n]
Newline == [of |-> 0, n |-> 0]
Said(c) == [i \in 1..2 * Says[c] |-> IF i % 2 = 1 THEN Message(c, (i + 1) \div 2) ELSE Newline]

(* What the MessageBuffer carries.                                          *)
Item(c, payload) == [channel |-> c, payload |-> payload]
Started == [of |-> 0, n |-> 1]
Stopped == [of |-> 0, n |-> 2]

Nothing == [fd |-> NoFd, rest |-> <<>>, channel |-> 0]

Init ==
  /\ fds = [fd \in Fds |-> 0]
  /\ inbound = [c \in Channels |-> Said(c)] /\ outbound = [c \in Channels |-> <<>>]
  /\ accepted = 0
  /\ socketFd = [c \in Channels |-> NoFd]
  /\ shutdownRequested = [c \in Channels |-> FALSE]
  /\ outgoing = [c \in Channels |-> <<>>]
  /\ numThreadsAlive = [c \in Channels |-> 2]
  /\ chunker = [c \in Channels |-> <<>>]
  /\ buffer = <<>> /\ channels = {} /\ session = 0
  /\ pc = [t \in Threads |-> IF t \in {Listener, Processor, Server} THEN "idle" ELSE "none"]
  /\ local = [t \in Threads |-> Nothing]
  /\ died = FALSE
  /\ received = [c \in Channels |-> <<>>] /\ sent = [c \in Channels |-> 0]
  /\ crossed = FALSE /\ late = {}

-----------------------------------------------------------------------------
(* Steps that several threads take                                          *)

At(t, where) == pc[t] = where
Goes(t, where) == pc' = [pc EXCEPT ![t] = where]

(* notify_all: the Writer tests its condition again.  t goes on.            *)
Notifies(t, c, where) ==
  pc' = [u \in Threads |-> IF u = t THEN where
                           ELSE IF u = Writer(c) /\ At(u, "waiting") THEN "testing"
                           ELSE pc[u]]

(* MessageBuffer::append; the Processor looks at the buffer itself.         *)
Appends(c, payload) == buffer' = Append(buffer, Item(c, payload))

(* Mutants: what waits is overwritten; only the second to send notifies.    *)
Overwritten(c, message) == <<message>>
NotifySecond(c) == outgoing[c] # <<>>

Queued(c, message) == Append(outgoing[c], message)
NeedsNotify(c) == outgoing[c] = <<>>

(* Channel::trySend under the lock; who finds outgoing_ empty notifies.     *)
Sends(t, c) ==
  /\ sent' = [sent EXCEPT ![c] = @ + 1]
  /\ outgoing' = [outgoing EXCEPT ![c] = Queued(c, Message(c, sent'[c]))]
  /\ IF NeedsNotify(c)
     THEN Goes(t, "notifying") /\ local' = [local EXCEPT ![t].channel = c]
     ELSE Goes(t, "idle") /\ local' = [local EXCEPT ![t] = Nothing]

NotifySend(t) ==
  /\ At(t, "notifying")
  /\ Notifies(t, local[t].channel, "idle")
  /\ local' = [local EXCEPT ![t] = Nothing]
  /\ UNCHANGED <<kernel, accepted, sockets, outgoing, numThreadsAlive, chunker, buffer,
                 processor, died, history>>

(* Channel::requestShutdown: the thread that sets the flag closes the       *)
(* descriptor, forgets it and wakes the Writer.                             *)
AfterShutdown(t) == IF t = Processor THEN "reply" ELSE "announcing"

RequestShutdown(t, c) ==
  /\ At(t, "shutdown")
  /\ IF shutdownRequested[c]
     THEN Goes(t, AfterShutdown(t)) /\ UNCHANGED shutdownRequested
     ELSE Goes(t, "closing") /\ shutdownRequested' = [shutdownRequested EXCEPT ![c] = TRUE]
  /\ UNCHANGED <<kernel, accepted, socketFd, outgoing, numThreadsAlive, chunker, buffer,
                 processor, local, died, history>>

(* A mutant: nobody is notified.                                            *)
NotifiesNobody(t, c) == Goes(t, AfterShutdown(t))
NotifiesShutdown(t, c) == Notifies(t, c, AfterShutdown(t))

Close(t, c) ==
  /\ At(t, "closing")
  /\ fds' = [fds EXCEPT ![socketFd[c]] = 0]
  /\ socketFd' = [socketFd EXCEPT ![c] = NoFd]
  /\ NotifiesShutdown(t, c)
  /\ UNCHANGED <<inbound, outbound, accepted, shutdownRequested, outgoing, numThreadsAlive,
                 chunker, buffer, processor, local, died, history>>

ShutdownStep(t, c) == RequestShutdown(t, c) \/ Close(t, c)

(* A mutant: each of the two threads is taken for the last one.             *)
IsLastOfAny(c) == TRUE
IsLast(c) == numThreadsAlive[c] = 1

(* maybeTransmitShutdownMessage: the last one out says goodbye.             *)
Announce(t, c) ==
  /\ At(t, "announcing")
  /\ numThreadsAlive' = [numThreadsAlive EXCEPT ![c] = @ - 1]
  /\ IF IsLast(c) THEN Appends(c, Stopped) ELSE UNCHANGED buffer
  /\ Goes(t, "done")
  /\ UNCHANGED <<kernel, accepted, sockets, outgoing, chunker, processor, local, died,
                 history>>

(* socket_.fd() is read before the call is made: here, when the thread turns*)
(* to it.  ConnectionOf is what the number stands for when the call is made;*)
(* 0 is EBADF, and it may be the connection of another channel.             *)
ConnectionOf(t) == IF local[t].fd = NoFd THEN 0 ELSE fds[local[t].fd]
Cross(c, connection) == crossed' = (connection \notin {0, c})

-----------------------------------------------------------------------------
(* The Listener: the threads run before the start is announced.             *)

FreeFds == {fd \in Fds : fds[fd] = 0}

Accept ==
  LET c == accepted + 1
  IN  /\ At(Listener, "idle") /\ accepted < NumChannels
      /\ \E fd \in FreeFds :
           /\ \A other \in FreeFds : fd <= other
           /\ fds' = [fds EXCEPT ![fd] = c]
           /\ socketFd' = [socketFd EXCEPT ![c] = fd]
           /\ local' = [local EXCEPT ![Reader(c)].fd = fd]
      /\ accepted' = c
      /\ pc' = [pc EXCEPT ![Listener] = "starting", ![Reader(c)] = "entering",
                          ![Writer(c)] = "testing"]
      /\ UNCHANGED <<inbound, outbound, shutdownRequested, outgoing, numThreadsAlive,
                     chunker, buffer, processor, died, history>>

Startup ==
  /\ At(Listener, "starting")
  /\ Appends(accepted, Started)
  /\ Goes(Listener, "idle")
  /\ late' = IF numThreadsAlive[accepted] = 0 THEN late \cup {accepted} ELSE late
  /\ UNCHANGED <<kernel, accepted, sockets, outgoing, numThreadsAlive, chunker, processor,
                 local, died, received, sent, crossed>>

-----------------------------------------------------------------------------
(* The Reader of channel c                                                  *)

ReadEnters(c) ==
  LET connection == ConnectionOf(Reader(c))
  IN  /\ At(Reader(c), "entering")
      /\ local' = [local EXCEPT ![Reader(c)] = [Nothing EXCEPT !.channel = connection]]
      /\ Goes(Reader(c), IF connection = 0 THEN "shutdown" ELSE "reading")
      /\ Cross(c, connection)
      /\ UNCHANGED <<kernel, accepted, sockets, outgoing, numThreadsAlive, chunker, buffer,
                     processor, died, received, sent, late>>

(* Chunker::maybePop until there is no terminator left: what is before each *)
(* of them is a record, and what follows the last one is kept.              *)
Ends(bytes) == {i \in DOMAIN bytes : bytes[i] = Newline}
LastEnd(bytes) == Max(Ends(bytes) \cup {0})

Nth(ends, n) == CHOOSE e \in ends : Cardinality({i \in ends : i <= e}) = n
Records(bytes) == [n \in 1..Cardinality(Ends(bytes)) |-> bytes[Nth(Ends(bytes), n) - 1]]
Kept(bytes) == SubSeq(bytes, LastEnd(bytes) + 1, Len(bytes))

(* How many of n records tryOnMessage gets through.                         *)
Parsed(c, n) == IF c \in Garbled THEN 0..n ELSE {n}

(* read gives what is there, as much of it as the kernel likes, and the     *)
(* messages it completes are handed on, up to the first that does not parse;*)
(* a read of nothing is the end.                                            *)
ReadReturns(c) ==
  LET t == Reader(c)
      from == local[t].channel
  IN  /\ At(t, "reading")
      /\ \/ \E n \in 1..Len(inbound[from]) :
            LET bytes == chunker[c] \o SubSeq(inbound[from], 1, n)
            IN  /\ inbound' = [inbound EXCEPT ![from] = SubSeq(@, n + 1, Len(@))]
                /\ chunker' = [chunker EXCEPT ![c] = Kept(bytes)]
                /\ \E k \in Parsed(c, Len(Records(bytes))) :
                     LET parsed == SubSeq(Records(bytes), 1, k)
                     IN  /\ buffer' = buffer \o [i \in 1..k |-> Item(c, parsed[i])]
                         /\ received' = [received EXCEPT ![c] = @ \o parsed]
                         /\ \/ /\ k = Len(Records(bytes))
                               /\ Goes(t, "entering")
                               /\ local' = [local EXCEPT ![t] = [Nothing EXCEPT !.fd = socketFd[c]]]
                            \/ /\ k < Len(Records(bytes))
                               /\ Goes(t, "shutdown") /\ local' = [local EXCEPT ![t] = Nothing]
         \/ /\ inbound[from] = <<>> /\ from \in HangsUp
            /\ Goes(t, "shutdown") /\ local' = [local EXCEPT ![t] = Nothing]
            /\ UNCHANGED <<chunker, inbound, buffer, received>>
      /\ UNCHANGED <<fds, outbound, accepted, sockets, outgoing, numThreadsAlive, processor, died,
                     sent, crossed, late>>

ReaderStep(c) ==
  LET t == Reader(c)
  IN  ReadEnters(c) \/ ReadReturns(c) \/ ShutdownStep(t, c) \/ Announce(t, c)

-----------------------------------------------------------------------------
(* The Writer of channel c                                                  *)

(* Under the lock, until there is something to do.                          *)
Test(c) ==
  LET t == Writer(c)
  IN  /\ At(t, "testing")
      /\ IF shutdownRequested[c] \/ outgoing[c] = <<>>
         THEN /\ Goes(t, IF shutdownRequested[c] THEN "shutdown" ELSE "waiting")
              /\ UNCHANGED <<outgoing, local>>
         ELSE /\ Goes(t, "entering")
              /\ local' = [local EXCEPT ![t] = [@ EXCEPT !.fd = socketFd[c], !.rest = outgoing[c]]]
              /\ outgoing' = [outgoing EXCEPT ![c] = <<>>]
      /\ UNCHANGED <<kernel, accepted, sockets, numThreadsAlive, chunker, buffer, processor,
                     died, history>>

(* tryWriteAll calls write with the number it was given until all is taken. *)
(* A write to a connection whose peer is gone may be the SIGPIPE that       *)
(* nobody ignores.                                                          *)
Write(c) ==
  LET t == Writer(c)
      connection == ConnectionOf(t)
      rest == local[t].rest
  IN  /\ At(t, "entering")
      /\ Cross(c, connection)
      /\ \/ /\ connection = 0
            /\ Goes(t, "shutdown") /\ local' = [local EXCEPT ![t] = Nothing]
            /\ UNCHANGED <<outbound, died>>
         \/ /\ connection # 0
            /\ \E n \in 1..Len(rest) :
                 /\ local' = [local EXCEPT ![t] =
                                IF n = Len(rest) THEN Nothing
                                ELSE [@ EXCEPT !.rest = SubSeq(rest, n + 1, Len(rest))]]
                 /\ outbound' = [outbound EXCEPT ![connection] = @ \o SubSeq(rest, 1, n)]
                 /\ Goes(t, IF n = Len(rest) THEN "testing" ELSE "entering")
            /\ UNCHANGED died
         \/ /\ connection \in HangsUp
            /\ died' = TRUE
            /\ UNCHANGED <<outbound, local, pc>>
      /\ UNCHANGED <<fds, inbound, accepted, sockets, outgoing, numThreadsAlive, chunker,
                     buffer, processor, received, sent, late>>

WriterStep(c) ==
  LET t == Writer(c)
  IN  Test(c) \/ Write(c) \/ ShutdownStep(t, c) \/ Announce(t, c)

-----------------------------------------------------------------------------
(* The Processor                                                            *)

(* A mutant: an ended channel stays in the map.                             *)
NeverForget(c, payload) == IF payload = Started THEN channels \cup {c} ELSE channels

ChannelsAfter(c, payload) ==
  CASE payload = Started -> channels \cup {c}
    [] payload = Stopped -> channels \ {c}
    [] OTHER -> channels

(* A channel's first message creates the session or attaches to it: it gets *)
(* the session's channel and the former one is shut down.                   *)
HandleNext ==
  /\ At(Processor, "idle") /\ buffer # <<>>
  /\ LET c == Head(buffer).channel
         payload == Head(buffer).payload
         attaches == payload = Message(c, 1)
     IN  /\ channels' = ChannelsAfter(c, payload)
         /\ buffer' = Tail(buffer)
         /\ session' = IF attaches THEN c ELSE session
         /\ local' = IF attaches THEN [local EXCEPT ![Processor].channel = session] ELSE local
         /\ Goes(Processor, IF ~attaches THEN "idle"
                            ELSE IF session = 0 THEN "reply" ELSE "shutdown")
  /\ UNCHANGED <<kernel, accepted, sockets, outgoing, numThreadsAlive, chunker, died, history>>

Reply ==
  /\ At(Processor, "reply")
  /\ Sends(Processor, session)
  /\ UNCHANGED <<kernel, accepted, sockets, numThreadsAlive, chunker, buffer, processor, died,
                 received, crossed, late>>

ProcessorStep ==
  HandleNext \/ ShutdownStep(Processor, local[Processor].channel) \/ Reply
    \/ NotifySend(Processor)

-----------------------------------------------------------------------------
(* The Server: the session's channel is read, then used.                    *)

ReadChannel ==
  /\ At(Server, "idle") /\ session # 0
  /\ FoldFunction(+, 0, sent) < MaxSends
  /\ local' = [local EXCEPT ![Server].channel = session]
  /\ Goes(Server, "sending")
  /\ UNCHANGED <<kernel, accepted, sockets, outgoing, numThreadsAlive, chunker, buffer,
                 processor, died, history>>

SendResponse ==
  /\ At(Server, "sending")
  /\ Sends(Server, local[Server].channel)
  /\ UNCHANGED <<kernel, accepted, sockets, numThreadsAlive, chunker, buffer, processor, died,
                 received, crossed, late>>

ServerStep == ReadChannel \/ SendResponse \/ NotifySend(Server)

-----------------------------------------------------------------------------
Next ==
  /\ ~died /\ ~crossed
  /\ \/ Accept \/ Startup \/ ProcessorStep \/ ServerStep
     \/ \E c \in Channels : ReaderStep(c) \/ WriterStep(c)

Spec == Init /\ [][Next]_vars

(* While some thread can go on, one does.  The work is finite, so each has   *)
(* its turn; a thread that waits or is blocked has none.                    *)
FairSpec == Spec /\ WF_vars(Next)

-----------------------------------------------------------------------------
(* Properties.  The sends are bounded and a shutdown is never taken back,   *)
(* so what must follow each of them holds for good in the end.              *)

(* What the Reader of a channel hands on is, in order and whole, what the   *)
(* peer of that connection said, however TCP cut it up (Chunker, channel.cc *)
(* 146-158), and what reaches a peer is what Processor and Server together  *)
(* sent on its channel, however write cuts it up (trySend,                  *)
(* runWriterThreadForever), unless a descriptor number was reused under a   *)
(* thread.                                                                  *)
MessagesComeWhole ==
  ~crossed =>
    \A c \in Channels :
      /\ received[c] = [n \in 1..Len(received[c]) |-> Message(c, n)]
      /\ outbound[c] = [n \in 1..Len(outbound[c]) |-> Message(c, n)]

(* The last thread out says goodbye, once, and nothing of the channel comes *)
(* after it but a start that is late (maybeTransmitShutdownMessage).        *)
ShutdownIsLast ==
  \A i \in 1..Len(buffer) :
    buffer[i].payload = Stopped =>
      /\ numThreadsAlive[buffer[i].channel] = 0
      /\ \A j \in i + 1..Len(buffer) :
           buffer[j].channel = buffer[i].channel =>
             buffer[j].payload = Started /\ buffer[j].channel \in late

(* When all is handled, the Communicator keeps the channels that run, and   *)
(* of those that ended only those whose start came late                     *)
(* (tryHandleChannelStartup, tryHandleChannelShutdown).                     *)
EndedChannelsAreForgotten ==
  buffer = <<>> =>
    \A c \in channels : numThreadsAlive[c] > 0 \/ c \in late

(* A response put on a channel that stays open is written: the notification *)
(* that trySend saves when outgoing_ is not empty is never the one the      *)
(* Writer waits for (trySend, runWriterThreadForever).                      *)
SendsAreWritten ==
  <>[](crossed \/ died \/ \A c \in Channels : outgoing[c] = <<>> \/ shutdownRequested[c])

(* When a channel is shut down and its peer has hung up, both its threads   *)
(* end, whoever asked and wherever they were (requestShutdown).             *)
ShutdownEnds ==
  <>[](crossed \/ died \/ \A c \in HangsUp : shutdownRequested[c] => numThreadsAlive[c] = 0)

(* What the comment in requestShutdown expects of close: it unblocks the    *)
(* read thread (channel.cc 91).                                             *)
ShutdownUnblocksReader ==
  <>[](crossed \/ died \/ \A c \in Channels : shutdownRequested[c] => At(Reader(c), "done"))
=============================================================================
