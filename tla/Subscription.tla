---------------------------- MODULE Subscription ----------------------------
(* The backend's side of paging: the Coordinator with one Subscription over an *)
(* index that grows with every post and is replaced by every reindexing.       *)
(*                                                                             *)
(* A zgram is its identifier, whether the subscription's query finds it, and   *)
(* whether it is kept for ever (logged) or for a week.  The query's iterator   *)
(* is what module Search shows it to be: it finds, in order, what there is     *)
(* beyond the place it has reached, and may find more than it was asked for.   *)
EXTENDS PagingNet, Integers, SequencesExt, FiniteSetsExt

CONSTANTS
  PageSize, QueryMargin,  \* what the page asks for in Subscribe
  MaxStored,              \* zgrams in the index to begin with
  MaxZgrams,              \* bound on the identifiers given out
  MaxResets, MaxFailures  \* bounds on reindexing and on failed look-ups

ASSUME SubscriptionAssumption ==
  /\ PageSize \in Nat \ {0} /\ QueryMargin \in Nat \ {0}
  /\ MaxStored \in Nat /\ MaxZgrams \in Nat /\ MaxResets \in Nat /\ MaxFailures \in Nat
  /\ End \notin Nat

VARIABLES
  index,                  \* zgramInfos: the zgrams, which their identifiers order
  subscribed,             \* the session is in sessionToSubscription_
  displayed,              \* displayed_: ["front" |-> first, "back" |-> second]
  status,                 \* frontStatus_, backStatus_: what was found beyond displayed_
                          \* (residual), and the place the iterator has reached
  lastEstimates,
  resets, failures,       \* counters for the bounds
  purged                  \* history: some reindexing dropped a zgram

subscriptionVars == <<index, subscribed, displayed, status, lastEstimates, resets, failures, purged>>

ZgramEnd == Max({0} \union {z.id + 1: z \in index})

\* The identifiers of the matching zgrams of idx on one side of a place, and
\* the same, nearest first: the n-th has n that are not farther.
IdsBeyond(idx, side, place) ==
  LET ids == {z.id: z \in {z \in idx: z.matches}}
  IN IF side = "back" THEN {id \in ids: id >= place} ELSE {id \in ids: id < place}

NotFarther(side, ids, id) ==
  IF side = "back" THEN {other \in ids: other <= id} ELSE {other \in ids: other >= id}
NearestFirst(side, ids) ==
  [n \in 1..Cardinality(ids) |-> CHOOSE id \in ids: Cardinality(NotFarther(side, ids, id)) = n]

Beyond(idx, side, place) == NearestFirst(side, IdsBeyond(idx, side, place))

FirstOf(s, n) == SubSeq(s, 1, IF Len(s) < n THEN Len(s) ELSE n)
AllBut(s, n) == SubSeq(s, n + 1, Len(s))

--------------------------------------------------------------------------------
\* A PerSideStatus after its iterator returned these items.
Found(side, s, items) ==
  [residual |-> s.residual \o items,
   next |-> IF items = <<>> THEN s.next
            ELSE IF side = "back" THEN Last(items) + 1
            ELSE Last(items)]

\* Slip: one item short of enough is enough.
TopUpShort(idx, side, s, minItems) ==
  LET coming == Beyond(idx, side, s.next)
  IN IF Len(s.residual) + 1 >= minItems
     THEN {s}
     ELSE {Found(side, s, coming)}

\* What topUp may leave: at least minItems, if there are as many.  Nothing is
\* looked for while there are enough.
TopUp(idx, side, s, minItems) ==
  LET coming == Beyond(idx, side, s.next)
      wanted == minItems - Len(s.residual)
      least == IF Len(coming) < wanted THEN Len(coming) ELSE wanted
  IN IF Len(s.residual) >= minItems
     THEN {s}
     ELSE {Found(side, s, SubSeq(coming, 1, n)): n \in least..Len(coming)}

\* resetIndex: both sides anew, from what is displayed.
CreateSide(idx, side, place) == TopUp(idx, side, [residual |-> <<>>, next |-> place], QueryMargin)

\* Slip: the back side begins at the end of the new index.
ResetSidesFromEnd(idx, places) ==
  {[front |-> f, back |-> b]: f \in CreateSide(idx, "front", places["front"]),
                              b \in CreateSide(idx, "back", Cardinality(idx))}

ResetSides(idx, places) ==
  {[front |-> f, back |-> b]: f \in CreateSide(idx, "front", places["front"]),
                              b \in CreateSide(idx, "back", places["back"])}

Estimates(sides) ==
  [side \in Sides |->
    LET n == Len(sides[side].residual)
    IN [count |-> IF n < QueryMargin THEN n ELSE QueryMargin, exact |-> n < QueryMargin]]

UpdateDisplayed(places, ids) ==
  [front |-> Min({places["front"]} \union Range(ids)),
   back |-> Max({places["back"]} \union {id + 1: id \in Range(ids)})]

--------------------------------------------------------------------------------
NoEstimates == [side \in Sides |-> [count |-> 0, exact |-> FALSE]]

SubscriptionInit ==
  /\ \E n \in 0..MaxStored:
       \E kinds \in [1..n -> BOOLEAN \X BOOLEAN]:
         index = {[id |-> i - 1, matches |-> kinds[i][1], logged |-> kinds[i][2]]: i \in 1..n}
  /\ subscribed = FALSE
  /\ displayed = [side \in Sides |-> 0]
  /\ status = [side \in Sides |-> [residual |-> <<>>, next |-> 0]]
  /\ lastEstimates = NoEstimates
  /\ responses = <<>>
  /\ resets = 0 /\ failures = 0 /\ purged = FALSE

\* Coordinator::subscribe.  A start that is a time has become an identifier.
Subscribe ==
  /\ TakeRequest("Subscribe")
  /\ LET start == IF Head(requests).start = End THEN ZgramEnd ELSE Head(requests).start
     IN /\ displayed' = [side \in Sides |-> start]
        /\ status' \in ResetSides(index, displayed')
  /\ subscribed' = TRUE
  /\ lastEstimates' = Estimates(status')
  /\ responses' = Append(responses, AckSubscribe(lastEstimates'))
  /\ UNCHANGED <<index, resets, failures, purged>>

\* A query that does not parse is answered too, without a subscription.
RefuseSubscribe ==
  /\ TakeRequest("Subscribe")
  /\ responses' = Append(responses, AckSubscribe(NoEstimates))
  /\ UNCHANGED subscriptionVars

\* Server::handleRequest, of a session that is not subscribed.
RefuseRequest ==
  /\ ~subscribed
  /\ TakeRequest("GetMoreZgrams")
  /\ responses' = Append(responses, GeneralError)
  /\ UNCHANGED subscriptionVars

\* Coordinator::getMoreZgrams.  What is sent leaves the residual and counts as
\* displayed before the look-up of the zgrams, which may fail.
GetMoreZgrams ==
  /\ subscribed
  /\ TakeRequest("GetMoreZgrams")
  /\ LET req == Head(requests)
         resultSize == IF req.count < PageSize THEN req.count ELSE PageSize
     IN \E s \in TopUp(index, req.side, status[req.side], resultSize + QueryMargin):
          LET ids == FirstOf(s.residual, resultSize)
          IN /\ status' = [status EXCEPT ![req.side] =
                             [s EXCEPT !.residual = AllBut(s.residual, Len(ids))]]
             /\ displayed' = UpdateDisplayed(displayed, ids)
             /\ \/ /\ lastEstimates' = Estimates(status')
                   /\ responses' = Append(responses, AckMoreZgrams(req.side, ids, lastEstimates'))
                   /\ UNCHANGED failures
                \/ /\ failures < MaxFailures /\ ids # <<>>
                   /\ failures' = failures + 1
                   /\ responses' = Append(responses, GeneralError)
                   /\ UNCHANGED lastEstimates
  /\ UNCHANGED <<index, subscribed, resets, purged>>

\* Coordinator::tryPostZgramsNoSub, of anybody's zgram: the subscribers hear of
\* their estimates if those changed.
PostZgrams(matches, logged) ==
  /\ ZgramEnd < MaxZgrams
  /\ index' = index \union {[id |-> ZgramEnd, matches |-> matches, logged |-> logged]}
  /\ IF subscribed
     THEN /\ \E f \in TopUp(index', "front", status["front"], QueryMargin),
                b \in TopUp(index', "back", status["back"], QueryMargin):
               status' = [front |-> f, back |-> b]
          /\ lastEstimates' = Estimates(status')
          /\ responses' = IF lastEstimates' = lastEstimates
                          THEN responses
                          ELSE Append(responses, EstimatesUpdate(lastEstimates'))
     ELSE UNCHANGED <<status, lastEstimates, responses>>
  /\ UNCHANGED <<requests, subscribed, displayed, resets, failures, purged>>

\* Coordinator::tryResetIndex after a reindexing, which leaves out the zgrams of
\* unlogged files older than a week.  Nobody hears of it.  The newest zgram is
\* taken to be younger: otherwise its identifier would be given out again.
ResetIndex(oldest) ==
  /\ resets < MaxResets
  /\ oldest < ZgramEnd
  /\ index' = {z \in index: z.logged \/ z.id >= oldest}
  /\ IF subscribed THEN status' \in ResetSides(index', displayed) ELSE UNCHANGED status
  /\ resets' = resets + 1
  /\ purged' = (purged \/ index' # index)
  /\ UNCHANGED <<requests, responses, subscribed, displayed, lastEstimates, failures>>

ServeRequest == Subscribe \/ RefuseSubscribe \/ RefuseRequest \/ GetMoreZgrams
==============================================================================
