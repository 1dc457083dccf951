------------------------------ MODULE PagingNet ------------------------------
(* What a page and its subscription say to each other.  The session layer      *)
(* delivers everything, in order (SessionProtocol).                            *)
EXTENDS Naturals, Sequences

CONSTANT End              \* SearchOrigin: from the end; the others are identifiers

VARIABLES requests, responses

Sides == {"front", "back"}

SubscribeRequest(start) == [type |-> "Subscribe", start |-> start]
GetMoreRequest(side, count) == [type |-> "GetMoreZgrams", side |-> side, count |-> count]

AckSubscribe(ests) == [type |-> "AckSubscribe", estimates |-> ests]
AckMoreZgrams(side, ids, ests) ==
  [type |-> "AckMoreZgrams", side |-> side, zgrams |-> ids, estimates |-> ests]
EstimatesUpdate(ests) == [type |-> "EstimatesUpdate", estimates |-> ests]
GeneralError == [type |-> "GeneralError"]

\* The oldest request, or response, is of this type and is taken.
TakeRequest(type) ==
  /\ requests # <<>> /\ Head(requests).type = type
  /\ requests' = Tail(requests)

TakeResponse(type) ==
  /\ responses # <<>> /\ Head(responses).type = type
  /\ responses' = Tail(responses)
==============================================================================
