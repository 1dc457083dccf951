-------------------------------- MODULE Page --------------------------------
(* The page's side of paging: Z2kState with its two StreamStatusViewModels.    *)
EXTENDS PagingNet, Integers, SequencesExt

CONSTANTS
  InitialQuerySize,       \* zgrams a new page wants
  ButtonSizes,            \* the sizes of the "Get more" buttons
  Undefined,              \* an appetite without end: streaming
  MaxSafeInteger          \* Number.MAX_SAFE_INTEGER: more than there will be

ASSUME PageAssumption ==
  /\ InitialQuerySize \in Nat \ {0} /\ ButtonSizes \subseteq Nat
  /\ MaxSafeInteger \in Nat \ {0}
  /\ Undefined \notin Int

VARIABLES
  zgrams,                 \* the identifiers shown, top to bottom
  appetite, estimate,     \* of the two streams
  outstanding             \* getMoreZgramsRequestOutstanding

pageVars == <<zgrams, appetite, estimate, outstanding>>

\* Z2kState::start.
PageInit(start) ==
  /\ requests = <<SubscribeRequest(start)>>
  /\ zgrams = <<>>
  /\ appetite = IF start = End
                THEN [front |-> InitialQuerySize, back |-> Undefined]
                ELSE [side \in Sides |-> InitialQuerySize \div 2]
  /\ estimate = [side \in Sides |-> [count |-> 0, exact |-> TRUE]]
  /\ outstanding = FALSE

CalcGetMoreAmount(e, a) ==
  LET available == IF e.exact THEN e.count ELSE MaxSafeInteger
      desired == IF a = Undefined THEN MaxSafeInteger ELSE a
  IN IF available < desired THEN available ELSE desired

\* sendMoreIfThereIsSufficientAppetite, the last thing a handler does: the back
\* side comes first.
SendMore(waiting) ==
  LET Amount(side) == CalcGetMoreAmount(estimate'[side], appetite'[side])
      side == IF Amount("back") # 0 THEN "back" ELSE "front"
  IN IF waiting \/ Amount(side) = 0
     THEN outstanding' = waiting /\ UNCHANGED requests
     ELSE /\ outstanding' = TRUE
          /\ requests' = Append(requests, GetMoreRequest(side, Amount(side)))

\* Slip: an estimate is only shown.
VisitEstimatesQuietly ==
  /\ TakeResponse("AckSubscribe") \/ TakeResponse("EstimatesUpdate")
  /\ estimate' = Head(responses).estimates
  /\ UNCHANGED <<requests, zgrams, appetite, outstanding>>

VisitEstimates ==
  /\ TakeResponse("AckSubscribe") \/ TakeResponse("EstimatesUpdate")
  /\ estimate' = Head(responses).estimates
  /\ UNCHANGED <<zgrams, appetite>>
  /\ SendMore(outstanding)

\* Slip: front zgrams are shown in the order they come in.
VisitAckMoreZgramsUnreversed ==
  /\ TakeResponse("AckMoreZgrams")
  /\ LET ack == Head(responses)
     IN /\ zgrams' = IF ack.side = "front" THEN ack.zgrams \o zgrams ELSE zgrams \o ack.zgrams
        /\ estimate' = ack.estimates
  /\ UNCHANGED appetite
  /\ SendMore(FALSE)

\* An answer without zgrams is dropped, the estimates in it too.
VisitAckMoreZgrams ==
  /\ TakeResponse("AckMoreZgrams")
  /\ LET ack == Head(responses)
         found == ack.zgrams
     IN IF found = <<>>
        THEN /\ outstanding' = FALSE
             /\ UNCHANGED <<zgrams, appetite, estimate, requests>>
        ELSE /\ zgrams' = IF ack.side = "front" THEN Reverse(found) \o zgrams
                                                ELSE zgrams \o found
             /\ appetite' = IF appetite[ack.side] = Undefined THEN appetite
                            ELSE [appetite EXCEPT ![ack.side] = @ - Len(found)]
             /\ estimate' = ack.estimates
             /\ SendMore(FALSE)

VisitGeneralError ==
  /\ TakeResponse("GeneralError")
  /\ UNCHANGED <<requests, zgrams, appetite, estimate, outstanding>>

\* A button of StreamStatusViewModel: there are none while there is an appetite.
Buttons(side) ==
  LET e == estimate[side]
  IN IF appetite[side] = Undefined \/ appetite[side] > 0 THEN {}
     ELSE IF ~e.exact THEN ButtonSizes
     ELSE IF e.count = 0 /\ side = "back" THEN {Undefined}
     ELSE {n \in ButtonSizes \union {e.count}: e.count >= n}

Click(side) ==
  /\ \E n \in Buttons(side): appetite' = [appetite EXCEPT ![side] = n]
  /\ UNCHANGED <<responses, zgrams, estimate>>
  /\ SendMore(outstanding)

VisitResponse == VisitEstimates \/ VisitAckMoreZgrams \/ VisitGeneralError
==============================================================================
