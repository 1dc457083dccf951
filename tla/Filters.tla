------------------------------ MODULE Filters -------------------------------
(***************************************************************************)
(* The filters of one user, which the Coordinator keeps in memory and each *)
(* of the user's browsers in its local storage.  The version of a list is  *)
(* the second in which it was proposed; who has the higher one wins.       *)
(***************************************************************************)
EXTENDS Integers, Sequences, FiniteSets, SequencesExt

CONSTANTS
  Browsers,
  FilterNames,                            \* filters
  MaxTime, MaxProposals, MaxInterruptions \* bounds

ASSUME FiltersAssumption == MaxTime \in Nat /\ MaxProposals \in Nat /\ MaxInterruptions \in Nat

VARIABLES
  filters,           \* filters_ of the user: [version, list], or NoFilters
  subscriptions,     \* the browsers whose page has a subscription
  localFilters,      \* what each browser's storage has
  shown,             \* the list its page works with (FiltersViewModel)
  requests, updates, \* what is on its way from and to each page
  second,            \* the time
  proposals, interruptions, \* counters for the bounds
  lastProposed,      \* history: when a list was last accepted as new
  sameSecond         \* history: two new lists were accepted in one second
filterVars ==
  <<filters, subscriptions, localFilters, shown, requests, updates, second, proposals, interruptions, lastProposed, sameSecond>>

NoFilters == [version |-> -1, list |-> {}]
SubscribeRequest == [type |-> "Subscribe"]
ProposeFilters(local, new, list) ==
  [type |-> "ProposeFilters", basedOnVersion |-> local.version, theseFiltersAreNew |-> new, filters |-> list]

FiltersInit ==
  /\ filters = NoFilters /\ subscriptions = {}
  /\ localFilters = [b \in Browsers |-> [version |-> 0, list |-> {}]] /\ shown = [b \in Browsers |-> {}]
  /\ requests = [b \in Browsers |-> <<>>] /\ updates = [b \in Browsers |-> <<>>]
  /\ second = 1 /\ proposals = 0 /\ interruptions = 0
  /\ lastProposed = 0 /\ sameSecond = FALSE

IsOpen(b) == b \in subscriptions \/ requests[b] # <<>>

\* A page starts: it subscribes and proposes what its browser has, but shows
\* nothing before it is answered.
Start(b) ==
  /\ ~IsOpen(b)
  /\ requests' = [requests EXCEPT ![b] =
       <<SubscribeRequest, ProposeFilters(localFilters[b], FALSE, localFilters[b].list)>>]
  /\ UNCHANGED <<filters, subscriptions, localFilters, shown, updates, second, proposals, interruptions, lastProposed, sameSecond>>

\* The user adds a filter to what the page shows, or removes one.
ChangeFilters(b, name) ==
  /\ IsOpen(b)
  /\ proposals < MaxProposals /\ proposals' = proposals + 1
  /\ LET list == shown[b]
         changed == IF name \in list THEN list \ {name} ELSE list \union {name}
     IN  requests' = [requests EXCEPT ![b] = Append(@, ProposeFilters(localFilters[b], TRUE, changed))]
  /\ UNCHANGED <<filters, subscriptions, localFilters, shown, updates, second, interruptions, lastProposed, sameSecond>>

\* A page takes over what it is sent, whatever its own version.
VisitFiltersUpdate(b) ==
  /\ updates[b] # <<>>
  /\ localFilters' = [localFilters EXCEPT ![b] = Head(updates[b])]
  /\ shown' = [shown EXCEPT ![b] = Head(updates[b]).list]
  /\ updates' = [updates EXCEPT ![b] = Tail(@)]
  /\ UNCHANGED <<filters, subscriptions, requests, second, proposals, interruptions, lastProposed, sameSecond>>

TakeFrom(b, type) ==
  /\ requests[b] # <<>> /\ Head(requests[b]).type = type
  /\ requests' = [requests EXCEPT ![b] = Tail(@)]

HandleSubscribe(b) ==
  /\ TakeFrom(b, "Subscribe")
  /\ subscriptions' = subscriptions \union {b}
  /\ UNCHANGED <<filters, localFilters, shown, updates, second, proposals, interruptions, lastProposed, sameSecond>>

\* The Coordinator keeps its list if it has one that is newer, or the same.
KeepsOwn(o) ==
  /\ filters # NoFilters
  /\ \/ filters.version > o.basedOnVersion
     \/ filters.version = o.basedOnVersion /\ ~o.theseFiltersAreNew

\* Mutant: who proposes knows.
ToOthers(b) == subscriptions \ {b}
\* The pages that are told of a new list.
Told(b) == subscriptions

\* The proposer is sent the list that was kept, or every page the new one.
HandleProposeFilters(b) ==
  /\ TakeFrom(b, "ProposeFilters")
  /\ LET o == Head(requests[b])
         new == [version |-> IF o.theseFiltersAreNew THEN second ELSE o.basedOnVersion, list |-> o.filters]
     IN  IF KeepsOwn(o)
         THEN /\ updates' = [updates EXCEPT ![b] = Append(@, filters)]
              /\ UNCHANGED <<filters, lastProposed, sameSecond>>
         ELSE /\ filters' = new
              /\ updates' = [u \in Browsers |-> IF u \in Told(b) THEN Append(updates[u], new) ELSE updates[u]]
              /\ IF o.theseFiltersAreNew
                 THEN lastProposed' = second /\ sameSecond' = (sameSecond \/ lastProposed = second)
                 ELSE UNCHANGED <<lastProposed, sameSecond>>
  /\ UNCHANGED <<subscriptions, localFilters, shown, second, proposals, interruptions>>

\* A page is closed, with what was on its way; or the backend is restarted, which
\* closes them all, and has forgotten the filters.
Close(b) ==
  /\ IsOpen(b)
  /\ interruptions < MaxInterruptions /\ interruptions' = interruptions + 1
  /\ subscriptions' = subscriptions \ {b}
  /\ requests' = [requests EXCEPT ![b] = <<>>] /\ updates' = [updates EXCEPT ![b] = <<>>]
  /\ shown' = [shown EXCEPT ![b] = {}]
  /\ UNCHANGED <<filters, localFilters, second, proposals, lastProposed, sameSecond>>
RestartBackend ==
  /\ interruptions < MaxInterruptions /\ interruptions' = interruptions + 1
  /\ filters' = NoFilters /\ subscriptions' = {}
  /\ requests' = [b \in Browsers |-> <<>>] /\ updates' = [b \in Browsers |-> <<>>]
  /\ shown' = [b \in Browsers |-> {}]
  /\ UNCHANGED <<localFilters, second, proposals, lastProposed, sameSecond>>

Tick ==
  /\ second < MaxTime
  /\ second' = second + 1
  /\ UNCHANGED <<filters, subscriptions, localFilters, shown, requests, updates, proposals, interruptions, lastProposed, sameSecond>>

FiltersNext ==
  \/ \E b \in Browsers : Start(b) \/ VisitFiltersUpdate(b) \/ HandleSubscribe(b) \/ HandleProposeFilters(b) \/ Close(b)
  \/ \E b \in Browsers, name \in FilterNames : ChangeFilters(b, name)
  \/ RestartBackend
  \/ Tick

\* The filters by themselves, as the Coordinator's specification has them beside
\* its other topics.
FiltersSpec == FiltersInit /\ [][FiltersNext]_filterVars

\* A page has been answered since it started.
Answered(b) == b \in subscriptions /\ \A i \in DOMAIN requests[b] : requests[b][i].theseFiltersAreNew
\* What its browser will have when all that was sent has arrived.
Heard(b) == IF updates[b] = <<>> THEN localFilters[b] ELSE Last(updates[b])

\* Every page of the user ends up with the list the backend keeps, in its
\* storage and on the screen, whoever proposed what in whatever order; and a
\* version names one list, unless two were proposed within a second (the version
\* is the second).
FiltersAgree ==
  /\ \A b \in Browsers : Answered(b) =>
       /\ Heard(b) = filters
       /\ updates[b] = <<>> => shown[b] = localFilters[b].list
  /\ ~sameSecond =>
       \A b, c \in Browsers : localFilters[b].version = localFilters[c].version => localFilters[b] = localFilters[c]

=============================================================================
