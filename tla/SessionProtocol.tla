---------------------------- MODULE SessionProtocol ----------------------------
(***************************************************************************)
(* The session layer end to end: the page's SessionManager and the         *)
(* backend's Processor and Server threads over connections that break, a   *)
(* backend that restarts, and a user who reconnects by hand.               *)
(***************************************************************************)
EXTENDS SessionClient, SessionBackend, FiniteSets, SequencesExt

vars == <<netVars, clientVars, backendVars>>

Init == NetInit /\ ClientInit /\ BackendInit

Next ==
    \/ ClientNext /\ UNCHANGED backendVars
    \/ BackendNext /\ UNCHANGED clientVars
    \/ \E c \in Conn : Break(c) /\ UNCHANGED <<clientVars, backendVars>>

Spec == Init /\ [][Next]_vars

-------------------------------------------------------------------------------
(* Fairness.  The browser runs every handler that is due and retries every   *)
(* five seconds; a connection that is not broken delivers, a broken one is   *)
(* reported closed in the end; the Processor and the Server loop for ever.   *)
(* Nothing obliges the user, the network's faults or a restart to happen, or *)
(* a broken connection to deliver anything.                                  *)
ClientFairness ==
    \A c \in Conn :
        /\ WF_vars(Connect(c) /\ UNCHANGED backendVars)
        /\ WF_vars(HandleOpen(c) /\ UNCHANGED backendVars)
        /\ WF_vars(HandleClose(c) /\ UNCHANGED backendVars)
        /\ WF_vars(c \notin broken /\ Receive(c) /\ UNCHANGED backendVars)

BackendFairness ==
    /\ \A c \in Conn :
         WF_vars(c \notin broken /\ ProcessorHandles(c) /\ UNCHANGED clientVars)
    /\ WF_vars(ProcessorContinues /\ UNCHANGED clientVars)
    /\ WF_vars(ServerNext /\ UNCHANGED clientVars)

FairSpec == Spec /\ ClientFairness /\ BackendFairness

-------------------------------------------------------------------------------
TypeOK == NetTypeOK /\ ClientTypeOK /\ BackendTypeOK

\* The page's session, as the histories know it
Executed == IF assignedSessionId = NoGuid THEN << >> ELSE executed[assignedSessionId]
Produced == IF assignedSessionId = NoGuid THEN << >> ELSE produced[assignedSessionId]

(* The server executes what this page submitted, each request once and in the *)
(* order of submission, over any number of broken and re-attached connections *)
(* (SessionManager.catchUp re-sends, Robustifier::noteIncoming filters).      *)
(* A page that reconnects by hand before it has a session gets two of them;   *)
(* each executes it so, though the one the page drops may have executed it    *)
(* as well.                                                                   *)
ExecutedInOrderOnce == IsPrefix(Executed, submitted)

(* The page sees the responses of its session each once and in the order they *)
(* were produced (Robustifier::tryCatchup re-sends, visitPackagedResponse     *)
(* filters), unless it asked for a second session before it had the first     *)
(* (clickedEarly): it counts the responses of both as one stream.             *)
DeliveredInOrderOnce == ~clickedEarly => IsPrefix(delivered, Produced)

(* A connection carries one CreateSession or AttachToSession, right after the *)
(* Hello, and only PackagedRequests from then on; so no handler of the        *)
(* Processor fails and the thread that serves everybody stays alive.  (The    *)
(* user's reconnect link breaks this, see ControlMessageFirst.)               *)
ControlMessageFirst ==
    \A c \in Conn : \A i \in 1 .. Len(up[c]) :
        up[c][i].type \in {"CreateSession", "AttachToSession"} =>
            i = 1 \/ (i = 2 /\ up[c][1] = Hello)

ProcessorSurvives == clicks = 0 => alive /\ ControlMessageFirst

(* The session layer implements the stream its users are promised, which a    *)
(* page forfeits that asks for a second session before it has the first.      *)
Stream == INSTANCE ReliableStream
    WITH Body <- 1 .. MaxRequests, executed <- Executed, produced <- Produced,
         forfeited <- clickedEarly

ImplementsStream == Stream!Spec

-------------------------------------------------------------------------------
(* Liveness, under FairSpec. *)

(* Once the network stops breaking connections the page is attached for good. *)
EventuallyAttached == <>[](state = "AttachedToSession")

(* A submitted request is executed, whatever connections break meanwhile.     *)
RequestsExecuted ==
    \A b \in 1 .. MaxRequests :
        (\E i \in 1 .. Len(submitted) : submitted[i] = b)
            ~> (\E i \in 1 .. Len(Executed) : Executed[i] = b)

(* The Server is between taking the channel for a response and having sent    *)
(* it, while the Processor is re-attaching that very session.                 *)
SendDuringAttach ==
    /\ processor # Idle
    /\ server # Idle
    /\ server.pc \in {"record", "send"}
    /\ server.guid = processor.guid

ResponsesArrive ==
    \A n \in 1 .. (MaxRequests * MaxAnswers) :
        (Len(Produced) >= n) ~> (Len(delivered) >= n)

(* A numbered response reaches the page unless a send ever overlapped an      *)
(* attach of its session: that race is the only way to lose one.              *)
ResponsesArriveUnlessRaced == [](~SendDuringAttach) => ResponsesArrive
===============================================================================
