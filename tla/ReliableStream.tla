---------------------------- MODULE ReliableStream ----------------------------
(***************************************************************************)
(* What a session promises to the page that opened it, with no connection, *)
(* no serial number and no acknowledgement in sight: the requests the page *)
(* submits are executed once each and in the order of submission, the      *)
(* responses the server produces are delivered once each and in the order  *)
(* of production, and only a page that gives its session up starts again   *)
(* from nothing.  A page that asks for two sessions at once forfeits this. *)
(***************************************************************************)
EXTENDS Naturals, Sequences

CONSTANT Body           \* what a request carries; a response names its request

VARIABLES submitted,    \* requests the page handed to its session
          executed,     \* requests the server executed
          produced,     \* responses the server produced
          delivered,    \* responses the page received
          forfeited     \* a page asked for two sessions: no more is promised

vars == <<submitted, executed, produced, delivered, forfeited>>

Init ==
    /\ submitted = << >>
    /\ executed = << >>
    /\ produced = << >>
    /\ delivered = << >>
    /\ forfeited = FALSE

Submit(b) ==
    /\ submitted' = Append(submitted, b)
    /\ UNCHANGED <<executed, produced, delivered, forfeited>>

Execute ==
    /\ Len(executed) < Len(submitted)
    /\ executed' = Append(executed, submitted[Len(executed) + 1])
    /\ UNCHANGED <<submitted, produced, delivered, forfeited>>

\* The server runs one request at a time: what it produces answers the last one.
Produce ==
    /\ executed # << >>
    /\ produced' = Append(produced, executed[Len(executed)])
    /\ UNCHANGED <<submitted, executed, delivered, forfeited>>

Deliver ==
    /\ Len(delivered) < Len(produced)
    /\ delivered' = Append(delivered, produced[Len(delivered) + 1])
    /\ UNCHANGED <<submitted, executed, produced, forfeited>>

GiveUp ==
    /\ submitted' = << >>
    /\ executed' = << >>
    /\ produced' = << >>
    /\ delivered' = << >>
    /\ UNCHANGED forfeited

Forfeit == forfeited'

Next ==
    \/ \E b \in Body : Submit(b)
    \/ Execute
    \/ Produce
    \/ Deliver
    \/ GiveUp
    \/ Forfeit

Spec == Init /\ [][Next]_vars
===============================================================================
