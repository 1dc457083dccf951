------------------------------- MODULE Paging -------------------------------
(* A page reading a query's results, both ways from where it began, while      *)
(* zgrams are posted and the index is rebuilt under its subscription.          *)
EXTENDS Subscription, Page

vars == <<requests, responses, subscriptionVars, pageVars>>

Init ==
  /\ SubscriptionInit
  /\ \E start \in {End} \union 0..ZgramEnd: PageInit(start)

Post == \E matches, logged \in BOOLEAN: PostZgrams(matches, logged) /\ UNCHANGED pageVars
Reset == \E oldest \in 0..MaxZgrams: ResetIndex(oldest) /\ UNCHANGED pageVars
Server == ServeRequest /\ UNCHANGED pageVars
Browser == VisitResponse /\ UNCHANGED subscriptionVars
User == \E side \in Sides: Click(side) /\ UNCHANGED subscriptionVars

Next == Post \/ Reset \/ Server \/ Browser \/ User

Spec == Init /\ [][Next]_vars

\* The Server thread and the browser handle what reaches them.
FairSpec == Spec /\ WF_vars(Server) /\ WF_vars(Browser)

--------------------------------------------------------------------------------
\* What the answer that is on its way brings, if there is one.
Coming(side) ==
  LET answers == {i \in DOMAIN responses: responses[i].type = "AckMoreZgrams" /\ responses[i].side = side}
  IN IF answers = {} THEN <<>> ELSE responses[Min(answers)].zgrams

\* What the page shows is in the order of the identifiers, each of them once,
\* and stays so when what is on its way arrives on either side (visitAckMoreZgrams
\* reverses and unshifts the front side, pushes the back side).
ShownInOrder ==
  LET run == Reverse(Coming("front")) \o zgrams \o Coming("back")
  IN \A i \in 1..Len(run) - 1: run[i] < run[i + 1]

\* displayed_ is "the range of Zgrams that our client is actually displaying":
\* no zgram of the index in that range that the query finds is missing from the
\* page and from what is on its way to it, unless a look-up failed.  Posts,
\* chunks, estimates and reindexing leave no gap.
NothingMissing ==
  failures = 0 =>
    \A z \in index:
      z.matches /\ displayed["front"] <= z.id /\ z.id < displayed["back"] =>
        \E side \in Sides: Contains(zgrams \o Coming(side), z.id)

\* Once everything sent has arrived, the page's estimates are the truth about
\* the index beyond what is displayed: the exact count, or at least the margin.
\* That holds although only a post or an answer makes the backend report them;
\* only a reindexing that drops zgrams leaves the page uninformed.
EstimatesAreTrue ==
  subscribed /\ responses = <<>> /\ ~purged /\ failures = 0 =>
    \A side \in Sides:
      LET beyond == Cardinality(IdsBeyond(index, side, displayed[side]))
      IN IF estimate[side].exact THEN estimate[side].count = beyond
                                 ELSE beyond >= QueryMargin

Served ==
  \A side \in Sides:
    \/ appetite[side] # Undefined /\ appetite[side] <= 0
    \/ IdsBeyond(index, side, displayed[side]) = {}

\* The page gets what it wants, or all there is, by the few occasions on which
\* it asks (processEstimatesUpdate, the buttons); streaming, it gets every post.
\* After a failed look-up the request stays outstanding for ever; after a purge
\* an answer without zgrams may keep the page waiting until the next post.
EventuallyServed == <>[](subscribed /\ failures = 0 /\ ~purged => Served)
==============================================================================
