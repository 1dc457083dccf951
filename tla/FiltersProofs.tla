--------------------------- MODULE FiltersProofs ----------------------------
(***************************************************************************)
(* That the filters of a user agree wherever they are kept, for every      *)
(* number of browsers, of filters and of proposals.                        *)
(***************************************************************************)
EXTENDS Filters, SequenceTheorems, TLAPS

FilterLists == [version : Nat, list : SUBSET FilterNames]
Proposals ==
  [type : {"ProposeFilters"}, basedOnVersion : Nat, theseFiltersAreNew : BOOLEAN, filters : SUBSET FilterNames]

\* What the variables hold.
FiltersTypeOK ==
  /\ filters \in FilterLists \union {NoFilters}
  /\ subscriptions \subseteq Browsers
  /\ localFilters \in [Browsers -> FilterLists]
  /\ shown \in [Browsers -> SUBSET FilterNames]
  /\ requests \in [Browsers -> Seq({SubscribeRequest} \union Proposals)]
  /\ updates \in [Browsers -> Seq(FilterLists)]
  /\ second \in Nat /\ lastProposed \in Nat
  /\ proposals \in Nat /\ interruptions \in Nat
  /\ sameSecond \in BOOLEAN

\* What a page proposes when it starts, it proposes first.
IsOld(request) == request \in Proposals /\ ~request.theseFiltersAreNew
IsNew(request) == request \in Proposals /\ request.theseFiltersAreNew

\* A page that has not subscribed yet has sent nothing, or a subscription, its
\* old list, and then new ones; and a subscribed page at most the last two.
RequestsInOrder ==
  \A b \in Browsers :
    IF b \in subscriptions
    THEN \A i \in DOMAIN requests[b] : IsNew(requests[b][i]) \/ (i = 1 /\ IsOld(requests[b][i]))
    ELSE requests[b] # <<>> =>
           /\ Len(requests[b]) >= 2 /\ requests[b][1] = SubscribeRequest /\ IsOld(requests[b][2])
           /\ \A i \in DOMAIN requests[b] : i > 2 => IsNew(requests[b][i])

\* A page that was answered will have what the backend has, and shows what its
\* browser has once it heard everything.
AnsweredAgree ==
  \A b \in Browsers : Answered(b) =>
    /\ Heard(b) = filters
    /\ updates[b] = <<>> => shown[b] = localFilters[b].list

\* The lists with a version, wherever they are: with the backend, in a browser,
\* or on the way to or from a page.
Proposed(request) == [version |-> request.basedOnVersion, list |-> request.filters]
Circulating ==
  ({filters} \ {NoFilters})
    \union (UNION {{localFilters[b]} \union {updates[b][i] : i \in DOMAIN updates[b]} : b \in Browsers})
    \union (UNION {{Proposed(requests[b][i]) : i \in {j \in DOMAIN requests[b] : IsOld(requests[b][j])}} : b \in Browsers})

\* None is newer than the newest that was accepted, and two with one version are
\* the same.
VersionsIdentify ==
  /\ lastProposed <= second
  /\ ~sameSecond =>
       /\ \A v \in Circulating : v.version <= lastProposed
       /\ \A v, w \in Circulating : v.version = w.version => v = w

FiltersInvariant == FiltersTypeOK /\ RequestsInOrder /\ AnsweredAgree /\ VersionsIdentify

-------------------------------------------------------------------------------
(* Type correctness. *)

LEMMA InitialTypes == FiltersInit => FiltersTypeOK
<1>1. NoFilters \in {NoFilters} /\ [version |-> 0, list |-> {}] \in FilterLists
  BY DEF FilterLists
<1>2. <<>> \in Seq({SubscribeRequest} \union Proposals) /\ <<>> \in Seq(FilterLists)
  BY EmptySeq
<1>3. SUFFICES ASSUME FiltersInit PROVE FiltersTypeOK
  OBVIOUS
<1>4. /\ localFilters \in [Browsers -> FilterLists] /\ shown \in [Browsers -> SUBSET FilterNames]
      /\ requests \in [Browsers -> Seq({SubscribeRequest} \union Proposals)] /\ updates \in [Browsers -> Seq(FilterLists)]
  BY <1>1, <1>2, <1>3 DEF FiltersInit
<1>5. filters \in {NoFilters} /\ subscriptions = {}
  BY <1>3 DEF FiltersInit
<1>6. second \in Nat /\ lastProposed \in Nat /\ proposals \in Nat /\ interruptions \in Nat /\ sameSecond \in BOOLEAN
  BY <1>3 DEF FiltersInit
<1> QED BY <1>4, <1>5, <1>6 DEF FiltersTypeOK

(* What a page sends is a request, and a request that proposes comes with a list. *)
LEMMA RequestTypes ==
    /\ \A local \in FilterLists, new \in BOOLEAN, list \in SUBSET FilterNames :
         /\ ProposeFilters(local, new, list) \in Proposals
         /\ ProposeFilters(local, new, list).theseFiltersAreNew = new
    /\ SubscribeRequest \notin Proposals
    /\ \A o \in Proposals : Proposed(o) \in FilterLists
BY DEF ProposeFilters, Proposals, FilterLists, SubscribeRequest, Proposed

(* The requests left behind the first. *)
LEMMA TakeFromTypes ==
    ASSUME FiltersTypeOK, NEW b \in Browsers, NEW type, TakeFrom(b, type)
    PROVE  /\ requests' \in [Browsers -> Seq({SubscribeRequest} \union Proposals)]
           /\ requests[b] # <<>> /\ Head(requests[b]) = requests[b][1] /\ requests[b][1].type = type
           /\ requests[b][1] \in {SubscribeRequest} \union Proposals
           /\ requests'[b] = Tail(requests[b])
           /\ \A c \in Browsers : c # b => requests'[c] = requests[c]
           /\ Len(requests'[b]) = Len(requests[b]) - 1
           /\ \A i \in DOMAIN requests'[b] : i + 1 \in DOMAIN requests[b] /\ requests'[b][i] = requests[b][i + 1]
<1> DEFINE R == {SubscribeRequest} \union Proposals
<1>1. requests \in [Browsers -> Seq(R)] /\ requests[b] \in Seq(R) /\ requests[b] # <<>>
  BY DEF FiltersTypeOK, TakeFrom
<1>2. requests' = [requests EXCEPT ![b] = Tail(@)] /\ Head(requests[b]).type = type
  BY DEF TakeFrom
<1> HIDE DEF R
<1>3. /\ Tail(requests[b]) \in Seq(R) /\ Len(Tail(requests[b])) = Len(requests[b]) - 1
      /\ \A i \in 1 .. Len(Tail(requests[b])) : Tail(requests[b])[i] = requests[b][i + 1]
      /\ Head(requests[b]) = requests[b][1] /\ requests[b][1] \in R
      /\ Len(requests[b]) \in Nat
  BY <1>1
<1>4. requests'[b] = Tail(requests[b]) /\ \A c \in Browsers : c # b => requests'[c] = requests[c]
  BY <1>1, <1>2
<1>5. DOMAIN requests[b] = 1 .. Len(requests[b]) /\ DOMAIN requests'[b] = 1 .. Len(requests'[b])
  BY <1>1, <1>3, <1>4
<1>6. requests' \in [Browsers -> Seq(R)]
  BY <1>1, <1>2, <1>3
<1> QED BY <1>1, <1>2, <1>3, <1>4, <1>5, <1>6 DEF R

\* Taking a request leaves no request in the queues that was not in them.
LEMMA TakeFromKeeps ==
    ASSUME FiltersTypeOK, NEW b \in Browsers, NEW type, TakeFrom(b, type)
    PROVE  \A c \in Browsers : \A i \in DOMAIN requests'[c] :
              \E j \in DOMAIN requests[c] : requests'[c][i] = requests[c][j]
<1>1. \A i \in DOMAIN requests'[b] : i + 1 \in DOMAIN requests[b] /\ requests'[b][i] = requests[b][i + 1]
  BY TakeFromTypes
<1>2. \A c \in Browsers : c # b => requests'[c] = requests[c]
  BY TakeFromTypes
<1> TAKE c \in Browsers
<1> TAKE i \in DOMAIN requests'[c]
<1>3. CASE c = b
  <2>1. i + 1 \in DOMAIN requests[c] /\ requests'[c][i] = requests[c][i + 1]
    BY <1>1, <1>3
  <2> QED BY <2>1
<1>4. CASE c # b
  BY <1>2, <1>4
<1> QED BY <1>3, <1>4

(* A list that is handled is one of the two kinds, and is refused, for the *)
(* backend's own, or becomes the backend's and every subscribed page's.    *)
LEMMA ProposalHandled ==
    ASSUME FiltersTypeOK, NEW b \in Browsers, HandleProposeFilters(b)
    PROVE  /\ TakeFrom(b, "ProposeFilters") /\ requests[b][1] \in Proposals
           /\ \/ /\ KeepsOwn(requests[b][1]) /\ filters \in FilterLists
                 /\ updates' = [updates EXCEPT ![b] = Append(@, filters)]
                 /\ UNCHANGED <<filters, lastProposed, sameSecond>>
              \/ /\ ~KeepsOwn(requests[b][1]) /\ filters' \in FilterLists
                 /\ updates' = [u \in Browsers |->
                      IF u \in subscriptions THEN Append(updates[u], filters') ELSE updates[u]]
                 /\ \/ /\ IsNew(requests[b][1]) /\ filters'.version = second
                       /\ lastProposed' = second /\ sameSecond' = (sameSecond \/ lastProposed = second)
                    \/ /\ IsOld(requests[b][1]) /\ filters' = Proposed(requests[b][1])
                       /\ UNCHANGED <<lastProposed, sameSecond>>
<1> DEFINE o == requests[b][1]
<1>1. TakeFrom(b, "ProposeFilters") /\ o.type = "ProposeFilters" /\ o = Head(requests[b])
  BY TakeFromTypes DEF HandleProposeFilters
<1>2. o \in Proposals
  BY <1>1, TakeFromTypes DEF SubscribeRequest
<1>3. /\ o.theseFiltersAreNew \in BOOLEAN
      /\ [version |-> IF o.theseFiltersAreNew THEN second ELSE o.basedOnVersion, list |-> o.filters] \in FilterLists
  BY <1>2 DEF FiltersTypeOK, Proposals, FilterLists
<1>4. CASE KeepsOwn(o)
  BY <1>1, <1>2, <1>4 DEF HandleProposeFilters, KeepsOwn, FiltersTypeOK
<1>5. CASE ~KeepsOwn(o)
  <2>1. /\ filters' = [version |-> IF o.theseFiltersAreNew THEN second ELSE o.basedOnVersion, list |-> o.filters]
        /\ updates' = [u \in Browsers |-> IF u \in subscriptions THEN Append(updates[u], filters') ELSE updates[u]]
        /\ IF o.theseFiltersAreNew
           THEN lastProposed' = second /\ sameSecond' = (sameSecond \/ lastProposed = second)
           ELSE UNCHANGED <<lastProposed, sameSecond>>
    BY <1>1, <1>5, Zenon DEF HandleProposeFilters, Told
  <2>2. CASE o.theseFiltersAreNew
    BY <1>1, <1>2, <1>3, <1>5, <2>1, <2>2 DEF IsNew
  <2>3. CASE ~o.theseFiltersAreNew
    BY <1>1, <1>2, <1>3, <1>5, <2>1, <2>3 DEF IsOld, Proposed
  <2> QED BY <2>2, <2>3
<1> QED BY <1>4, <1>5

LEMMA TypeStep == FiltersTypeOK /\ [FiltersNext]_filterVars => FiltersTypeOK'
<1> SUFFICES ASSUME FiltersTypeOK, [FiltersNext]_filterVars PROVE FiltersTypeOK'
  OBVIOUS
<1> USE DEF FiltersTypeOK
<1>1. CASE UNCHANGED filterVars
  BY <1>1 DEF filterVars
<1>2. ASSUME NEW b \in Browsers, Start(b) PROVE FiltersTypeOK'
  <2>1. <<SubscribeRequest, ProposeFilters(localFilters[b], FALSE, localFilters[b].list)>>
          \in Seq({SubscribeRequest} \union Proposals)
    <3> DEFINE old == ProposeFilters(localFilters[b], FALSE, localFilters[b].list)
               R == {SubscribeRequest} \union Proposals
    <3>1. SubscribeRequest \in R /\ old \in R
      BY RequestTypes DEF FilterLists
    <3> HIDE DEF old, R
    <3>2. <<SubscribeRequest, old>> \in Seq(R)
      BY <3>1
    <3> QED BY <3>2 DEF old, R
  <2> QED BY <1>2, <2>1 DEF Start
<1>3. ASSUME NEW b \in Browsers, NEW name \in FilterNames, ChangeFilters(b, name) PROVE FiltersTypeOK'
  <2> DEFINE list == shown[b]
             changed == IF name \in list THEN list \ {name} ELSE list \union {name}
  <2>1. requests' = [requests EXCEPT ![b] = Append(@, ProposeFilters(localFilters[b], TRUE, changed))]
    BY <1>3 DEF ChangeFilters
  <2>2. ProposeFilters(localFilters[b], TRUE, changed) \in {SubscribeRequest} \union Proposals
    <3>1. changed \in SUBSET FilterNames
      OBVIOUS
    <3> QED BY <3>1, RequestTypes
  <2>3. requests' \in [Browsers -> Seq({SubscribeRequest} \union Proposals)]
    BY <2>1, <2>2, AppendProperties
  <2>4. UNCHANGED <<filters, subscriptions, localFilters, shown, updates, second, interruptions, lastProposed, sameSecond>>
        /\ proposals' = proposals + 1
    BY <1>3 DEF ChangeFilters
  <2> HIDE DEF changed
  <2> QED BY <2>3, <2>4
<1>4. ASSUME NEW b \in Browsers, VisitFiltersUpdate(b) PROVE FiltersTypeOK'
  <2>1. Head(updates[b]) \in FilterLists /\ Tail(updates[b]) \in Seq(FilterLists)
    BY <1>4 DEF VisitFiltersUpdate
  <2>2. Head(updates[b]).list \in SUBSET FilterNames
    BY <2>1 DEF FilterLists
  <2> QED BY <1>4, <2>1, <2>2 DEF VisitFiltersUpdate
<1>5. ASSUME NEW b \in Browsers, HandleSubscribe(b) PROVE FiltersTypeOK'
  BY <1>5, TakeFromTypes DEF HandleSubscribe
<1>6. ASSUME NEW b \in Browsers, HandleProposeFilters(b) PROVE FiltersTypeOK'
  <2>1. requests' \in [Browsers -> Seq({SubscribeRequest} \union Proposals)]
    BY <1>6, TakeFromTypes, ProposalHandled
  <2>2. UNCHANGED <<subscriptions, localFilters, shown, second, proposals, interruptions>>
    BY <1>6 DEF HandleProposeFilters
  <2>3. /\ filters' \in FilterLists \union {NoFilters}
        /\ lastProposed' \in Nat /\ sameSecond' \in BOOLEAN
        /\ updates' \in [Browsers -> Seq(FilterLists)]
    <3> HIDE DEF FiltersTypeOK
    <3>1. CASE filters \in FilterLists /\ updates' = [updates EXCEPT ![b] = Append(@, filters)]
               /\ UNCHANGED <<filters, lastProposed, sameSecond>>
      BY <3>1, AppendProperties DEF FiltersTypeOK
    <3>2. CASE /\ filters' \in FilterLists
               /\ updates' = [u \in Browsers |-> IF u \in subscriptions THEN Append(updates[u], filters') ELSE updates[u]]
      <4>1. updates' \in [Browsers -> Seq(FilterLists)]
        BY <3>2, AppendProperties DEF FiltersTypeOK
      <4>2. lastProposed' \in {lastProposed, second} /\ sameSecond' \in BOOLEAN
        BY <1>6, ProposalHandled DEF FiltersTypeOK
      <4> QED BY <3>2, <4>1, <4>2 DEF FiltersTypeOK
    <3> QED BY <1>6, <3>1, <3>2, ProposalHandled
  <2> QED BY <2>1, <2>2, <2>3
<1>7. ASSUME NEW b \in Browsers, Close(b) PROVE FiltersTypeOK'
  BY <1>7 DEF Close
<1>8. CASE RestartBackend
  BY <1>8 DEF RestartBackend
<1>9. CASE Tick
  BY <1>9 DEF Tick
<1> QED BY <1>1, <1>2, <1>3, <1>4, <1>5, <1>6, <1>7, <1>8, <1>9 DEF FiltersNext


-------------------------------------------------------------------------------
(* The requests of a page come in order. *)

\* RequestsInOrder of one browser.
InOrder(b) ==
  IF b \in subscriptions
  THEN \A i \in DOMAIN requests[b] : IsNew(requests[b][i]) \/ (i = 1 /\ IsOld(requests[b][i]))
  ELSE requests[b] # <<>> =>
         /\ Len(requests[b]) >= 2 /\ requests[b][1] = SubscribeRequest /\ IsOld(requests[b][2])
         /\ \A i \in DOMAIN requests[b] : i > 2 => IsNew(requests[b][i])

(* Who is taken a subscription from had none, and who a proposal from had one. *)
LEMMA FirstRequest ==
    ASSUME FiltersTypeOK, RequestsInOrder, NEW b \in Browsers
    PROVE  /\ TakeFrom(b, "Subscribe") => b \notin subscriptions
           /\ TakeFrom(b, "ProposeFilters") => b \in subscriptions
<1>1. ASSUME TakeFrom(b, "Subscribe") PROVE b \notin subscriptions
  <2>1. requests[b] # <<>> /\ requests[b][1].type = "Subscribe" /\ 1 \in DOMAIN requests[b]
    BY <1>1, TakeFromTypes DEF FiltersTypeOK
  <2> QED BY <2>1 DEF RequestsInOrder, IsNew, IsOld, Proposals
<1>2. ASSUME TakeFrom(b, "ProposeFilters") PROVE b \in subscriptions
  <2>1. requests[b] # <<>> /\ requests[b][1].type = "ProposeFilters"
    BY <1>2, TakeFromTypes
  <2> QED BY <2>1 DEF RequestsInOrder, SubscribeRequest
<1> QED BY <1>1, <1>2

LEMMA OrderStep == FiltersTypeOK /\ RequestsInOrder /\ [FiltersNext]_filterVars => RequestsInOrder'
<1> SUFFICES ASSUME FiltersTypeOK, RequestsInOrder, [FiltersNext]_filterVars, NEW c \in Browsers PROVE InOrder(c)'
  BY DEF RequestsInOrder, InOrder
<1>0. InOrder(c) /\ requests[c] \in Seq({SubscribeRequest} \union Proposals) /\ c \in DOMAIN requests
  BY DEF RequestsInOrder, InOrder, FiltersTypeOK
<1>1. CASE requests'[c] = requests[c] /\ (c \in subscriptions' <=> c \in subscriptions)
  BY <1>0, <1>1 DEF InOrder
<1>2. CASE requests'[c] = <<>>
  BY <1>2 DEF InOrder
<1>3. ASSUME NEW b \in Browsers, Start(b) PROVE InOrder(c)'
  <2>1. CASE c = b
    <3> DEFINE old == ProposeFilters(localFilters[b], FALSE, localFilters[b].list)
    <3>1. requests'[c] = <<SubscribeRequest, old>> /\ c \notin subscriptions'
      BY <1>0, <1>3, <2>1 DEF Start, IsOpen
    <3>2. IsOld(old)
      BY RequestTypes DEF IsOld, FiltersTypeOK, FilterLists
    <3> HIDE DEF old
    <3> QED BY <3>1, <3>2 DEF InOrder
  <2>2. CASE c # b
    BY <1>0, <1>1, <1>3, <2>2 DEF Start
  <2> QED BY <2>1, <2>2
<1>4. ASSUME NEW b \in Browsers, NEW name \in FilterNames, ChangeFilters(b, name) PROVE InOrder(c)'
  <2>1. CASE c = b
    <3>1. PICK new : /\ requests'[c] = Append(requests[c], new) /\ IsNew(new)
      <4> DEFINE list == shown[b]
                 changed == IF name \in list THEN list \ {name} ELSE list \union {name}
                 new == ProposeFilters(localFilters[b], TRUE, changed)
      <4>1. requests'[c] = Append(requests[c], new)
        BY <1>0, <1>4, <2>1 DEF ChangeFilters
      <4>2. changed \in SUBSET FilterNames
        BY DEF FiltersTypeOK
      <4>3. IsNew(new)
        BY <4>2, RequestTypes DEF IsNew, FiltersTypeOK
      <4> QED BY <4>1, <4>3
    <3>2. (c \in subscriptions \/ requests[c] # <<>>) /\ subscriptions' = subscriptions
      BY <1>4, <2>1 DEF ChangeFilters, IsOpen
    <3>3. /\ DOMAIN requests[c] = 1 .. Len(requests[c]) /\ DOMAIN requests'[c] = 1 .. (Len(requests[c]) + 1)
          /\ \A i \in 1 .. Len(requests[c]) : requests'[c][i] = requests[c][i]
          /\ requests'[c][Len(requests[c]) + 1] = new
          /\ Len(requests'[c]) = Len(requests[c]) + 1
          /\ Len(requests[c]) \in Nat
      <4>1. IsNew(new) => new \in {SubscribeRequest} \union Proposals
        BY DEF IsNew
      <4> QED BY <1>0, <3>1, <4>1
    <3> QED BY <1>0, <3>1, <3>2, <3>3 DEF InOrder
  <2>2. CASE c # b
    BY <1>0, <1>1, <1>4, <2>2 DEF ChangeFilters
  <2> QED BY <2>1, <2>2
<1>5. ASSUME NEW b \in Browsers, VisitFiltersUpdate(b) PROVE InOrder(c)'
  BY <1>1, <1>5 DEF VisitFiltersUpdate
<1>6. ASSUME NEW b \in Browsers, HandleSubscribe(b) PROVE InOrder(c)'
  <2>1. TakeFrom(b, "Subscribe") /\ subscriptions' = subscriptions \union {b}
    BY <1>6 DEF HandleSubscribe
  <2>2. CASE c = b
    <3>1. /\ b \notin subscriptions /\ requests[b] # <<>> /\ requests'[b] \in Seq({SubscribeRequest} \union Proposals)
          /\ \A i \in DOMAIN requests'[b] : i + 1 \in DOMAIN requests[b] /\ requests'[b][i] = requests[b][i + 1]
      BY <2>1, FirstRequest, TakeFromTypes
    <3>2. \A i \in DOMAIN requests'[b] : i \in Nat /\ i >= 1
      BY <3>1
    <3> QED BY <1>0, <2>1, <2>2, <3>1, <3>2 DEF InOrder
  <2>3. CASE c # b
    BY <1>1, <2>1, <2>3, TakeFromTypes
  <2> QED BY <2>2, <2>3
<1>7. ASSUME NEW b \in Browsers, HandleProposeFilters(b) PROVE InOrder(c)'
  <2>1. TakeFrom(b, "ProposeFilters") /\ subscriptions' = subscriptions
    BY <1>7 DEF HandleProposeFilters
  <2>2. CASE c = b
    <3>1. /\ b \in subscriptions /\ requests[b] # <<>> /\ requests'[b] \in Seq({SubscribeRequest} \union Proposals)
          /\ \A i \in DOMAIN requests'[b] : i + 1 \in DOMAIN requests[b] /\ requests'[b][i] = requests[b][i + 1]
      BY <2>1, FirstRequest, TakeFromTypes
    <3>2. \A i \in DOMAIN requests'[b] : i \in Nat /\ i >= 1
      BY <3>1
    <3> QED BY <1>0, <2>1, <2>2, <3>1, <3>2 DEF InOrder
  <2>3. CASE c # b
    BY <1>1, <2>1, <2>3, TakeFromTypes
  <2> QED BY <2>2, <2>3
<1>8. ASSUME NEW b \in Browsers, Close(b) PROVE InOrder(c)'
  BY <1>0, <1>1, <1>2, <1>8 DEF Close
<1>9. CASE RestartBackend
  BY <1>2, <1>9 DEF RestartBackend
<1>10. CASE UNCHANGED filterVars \/ Tick
  BY <1>1, <1>10 DEF filterVars, Tick
<1> QED BY <1>3, <1>4, <1>5, <1>6, <1>7, <1>8, <1>9, <1>10 DEF FiltersNext

-------------------------------------------------------------------------------
(* A page that was answered agrees with the backend. *)

\* AnsweredAgree of one browser.
Agrees(b) ==
  Answered(b) =>
    /\ Heard(b) = filters
    /\ updates[b] = <<>> => shown[b] = localFilters[b].list

LEMMA AnsweredStep ==
    FiltersTypeOK /\ RequestsInOrder /\ AnsweredAgree /\ [FiltersNext]_filterVars => AnsweredAgree'
<1> SUFFICES ASSUME FiltersTypeOK, RequestsInOrder, AnsweredAgree, [FiltersNext]_filterVars, NEW c \in Browsers
             PROVE  Agrees(c)'
  BY DEF AnsweredAgree, Agrees
<1>0. /\ Agrees(c) /\ InOrder(c)
      /\ requests[c] \in Seq({SubscribeRequest} \union Proposals) /\ updates[c] \in Seq(FilterLists)
      /\ c \in DOMAIN requests /\ c \in DOMAIN updates /\ c \in DOMAIN shown /\ c \in DOMAIN localFilters
  BY DEF AnsweredAgree, Agrees, RequestsInOrder, InOrder, FiltersTypeOK
<1>1. CASE /\ requests'[c] = requests[c] /\ (c \in subscriptions' <=> c \in subscriptions) /\ filters' = filters
           /\ updates'[c] = updates[c] /\ localFilters'[c] = localFilters[c] /\ shown'[c] = shown[c]
  BY <1>0, <1>1 DEF Agrees, Answered, Heard
<1>2. CASE c \notin subscriptions'
  BY <1>2 DEF Agrees, Answered
<1>3. ASSUME NEW b \in Browsers, Start(b) PROVE Agrees(c)'
  BY <1>0, <1>1, <1>2, <1>3 DEF Start, IsOpen
<1>4. ASSUME NEW b \in Browsers, NEW name \in FilterNames, ChangeFilters(b, name) PROVE Agrees(c)'
  <2>1. CASE c = b
    <3>1. PICK new \in {SubscribeRequest} \union Proposals : requests'[c] = Append(requests[c], new)
      <4> DEFINE list == shown[b]
                 changed == IF name \in list THEN list \ {name} ELSE list \union {name}
                 new == ProposeFilters(localFilters[b], TRUE, changed)
      <4>1. requests'[c] = Append(requests[c], new)
        BY <1>0, <1>4, <2>1 DEF ChangeFilters
      <4>2. changed \in SUBSET FilterNames
        BY DEF FiltersTypeOK
      <4>3. new \in Proposals
        BY <4>2, RequestTypes DEF FiltersTypeOK
      <4> QED BY <4>1, <4>3
    <3>2. \A i \in DOMAIN requests[c] : i \in DOMAIN requests'[c] /\ requests'[c][i] = requests[c][i]
      BY <1>0, <3>1
    <3>3. UNCHANGED <<filters, subscriptions, localFilters, shown, updates>>
      BY <1>4 DEF ChangeFilters
    <3> QED BY <1>0, <3>2, <3>3 DEF Agrees, Answered, Heard
  <2>2. CASE c # b
    BY <1>0, <1>1, <1>4, <2>2 DEF ChangeFilters
  <2> QED BY <2>1, <2>2
<1>5. ASSUME NEW b \in Browsers, VisitFiltersUpdate(b) PROVE Agrees(c)'
  <2>1. CASE c = b
    <3>1. /\ updates[c] # <<>> /\ updates'[c] = Tail(updates[c]) /\ localFilters'[c] = Head(updates[c])
          /\ shown'[c] = localFilters'[c].list /\ UNCHANGED <<filters, subscriptions, requests>>
      BY <1>0, <1>5, <2>1 DEF VisitFiltersUpdate
    <3>2. Heard(c)' = Heard(c)
      <4>1. CASE updates'[c] = <<>>
        <5>1. Len(updates[c]) = 1
          <6>1. Len(Tail(updates[c])) = Len(updates[c]) - 1 /\ Len(updates[c]) \in Nat
            BY <1>0, <3>1, HeadTailProperties
          <6>2. Len(Tail(updates[c])) = 0
            BY <3>1, <4>1, EmptySeq
          <6> QED BY <6>1, <6>2
        <5> QED BY <1>0, <3>1, <4>1, <5>1 DEF Heard, Last
      <4>2. CASE updates'[c] # <<>>
        <5>1. /\ Len(updates'[c]) = Len(updates[c]) - 1 /\ Len(updates'[c]) \in Nat \ {0}
              /\ updates'[c][Len(updates'[c])] = updates[c][Len(updates[c])]
          BY <1>0, <3>1, <4>2
        <5> QED BY <3>1, <4>2, <5>1 DEF Heard, Last
      <4> QED BY <4>1, <4>2
    <3> QED BY <1>0, <3>1, <3>2 DEF Agrees, Answered
  <2>2. CASE c # b
    BY <1>0, <1>1, <1>5, <2>2 DEF VisitFiltersUpdate
  <2> QED BY <2>1, <2>2
<1>6. ASSUME NEW b \in Browsers, HandleSubscribe(b) PROVE Agrees(c)'
  <2>1. /\ TakeFrom(b, "Subscribe") /\ subscriptions' = subscriptions \union {b}
        /\ UNCHANGED <<filters, localFilters, shown, updates>>
    BY <1>6 DEF HandleSubscribe
  <2>2. CASE c = b
    <3>1. /\ Len(requests[c]) >= 2 /\ IsOld(requests[c][2]) /\ Len(requests'[c]) = Len(requests[c]) - 1
          /\ \A i \in DOMAIN requests'[c] : requests'[c][i] = requests[c][i + 1]
          /\ DOMAIN requests'[c] = 1 .. Len(requests'[c])
      BY <1>0, <2>1, <2>2, FirstRequest, TakeFromTypes DEF InOrder
    <3>2. 1 \in DOMAIN requests'[c] /\ IsOld(requests'[c][1])
      BY <1>0, <3>1
    <3> QED BY <3>2 DEF Agrees, Answered, IsOld
  <2>3. CASE c # b
    BY <1>1, <2>1, <2>3, TakeFromTypes
  <2> QED BY <2>2, <2>3
<1>7. ASSUME NEW b \in Browsers, HandleProposeFilters(b) PROVE Agrees(c)'
  <2>1. TakeFrom(b, "ProposeFilters") /\ UNCHANGED <<subscriptions, localFilters, shown>>
    BY <1>7 DEF HandleProposeFilters
  <2>2. CASE c \in subscriptions /\ updates'[c] = Append(updates[c], filters') /\ filters' \in FilterLists
    <3>1. updates'[c] # <<>> /\ Last(updates'[c]) = filters'
      BY <1>0, <2>2 DEF Last
    <3> QED BY <3>1 DEF Agrees, Heard
  <2>3. CASE c \notin subscriptions
    BY <1>2, <2>1, <2>3
  <2>4. CASE c # b /\ filters' = filters /\ updates'[c] = updates[c]
    BY <1>1, <2>1, <2>4, TakeFromTypes
  <2>5. CASE filters \in FilterLists /\ filters' = filters /\ updates' = [updates EXCEPT ![b] = Append(@, filters)]
    BY <1>0, <2>2, <2>3, <2>4, <2>5
  <2>6. CASE /\ filters' \in FilterLists
             /\ updates' = [u \in Browsers |-> IF u \in subscriptions THEN Append(updates[u], filters') ELSE updates[u]]
    BY <2>2, <2>3, <2>6
  <2> QED BY <1>7, <2>5, <2>6, ProposalHandled
<1>8. ASSUME NEW b \in Browsers, Close(b) PROVE Agrees(c)'
  BY <1>0, <1>1, <1>2, <1>8 DEF Close
<1>9. CASE RestartBackend
  BY <1>2, <1>9 DEF RestartBackend
<1>10. CASE UNCHANGED filterVars \/ Tick
  BY <1>1, <1>10 DEF filterVars, Tick
<1> QED BY <1>3, <1>4, <1>5, <1>6, <1>7, <1>8, <1>9, <1>10 DEF FiltersNext

-------------------------------------------------------------------------------
(* A version names one list. *)

\* A list of Circulating, by where it is.
Circulates(v) ==
  \/ v = filters /\ v # NoFilters
  \/ \E b \in Browsers : v = localFilters[b]
  \/ \E b \in Browsers : \E i \in DOMAIN updates[b] : v = updates[b][i]
  \/ \E b \in Browsers : \E i \in DOMAIN requests[b] : IsOld(requests[b][i]) /\ v = Proposed(requests[b][i])

\* VersionsIdentify, by where the lists are.
VersionsAreLists ==
  /\ lastProposed <= second
  /\ ~sameSecond =>
       /\ \A v : Circulates(v) => v.version <= lastProposed
       /\ \A v, w : Circulates(v) /\ Circulates(w) /\ v.version = w.version => v = w

LEMMA CirculatingWhere == VersionsIdentify <=> VersionsAreLists
<1>1. ASSUME NEW v PROVE v \in Circulating <=> Circulates(v)
  <2>1. v \in {filters} \ {NoFilters} <=> (v = filters /\ v # NoFilters)
    OBVIOUS
  <2>2. v \in UNION {{localFilters[b]} \union {updates[b][i] : i \in DOMAIN updates[b]} : b \in Browsers}
          <=> \/ \E b \in Browsers : v = localFilters[b]
              \/ \E b \in Browsers : \E i \in DOMAIN updates[b] : v = updates[b][i]
    OBVIOUS
  <2>3. v \in UNION {{Proposed(requests[b][i]) : i \in {j \in DOMAIN requests[b] : IsOld(requests[b][j])}} : b \in Browsers}
          <=> \E b \in Browsers : \E i \in DOMAIN requests[b] : IsOld(requests[b][i]) /\ v = Proposed(requests[b][i])
    OBVIOUS
  <2> DEFINE mine == {filters} \ {NoFilters}
             theirs == UNION {{localFilters[b]} \union {updates[b][i] : i \in DOMAIN updates[b]} : b \in Browsers}
             old == UNION {{Proposed(requests[b][i]) : i \in {j \in DOMAIN requests[b] : IsOld(requests[b][j])}} : b \in Browsers}
  <2>4. Circulating = mine \union theirs \union old
    BY DEF Circulating
  <2>5. v \in Circulating <=> v \in mine \/ v \in theirs \/ v \in old
    <3> HIDE DEF mine, theirs, old
    <3> QED BY <2>4
  <2> QED BY <2>1, <2>2, <2>3, <2>5, Zenon DEF Circulates
<1> QED BY <1>1, Zenon DEF VersionsIdentify, VersionsAreLists


LEMMA VersionsStep ==
    FiltersTypeOK /\ RequestsInOrder /\ VersionsAreLists /\ [FiltersNext]_filterVars => VersionsAreLists'
<1> SUFFICES ASSUME FiltersTypeOK, RequestsInOrder, VersionsAreLists, [FiltersNext]_filterVars PROVE VersionsAreLists'
  OBVIOUS
<1>0. /\ second \in Nat /\ lastProposed \in Nat /\ lastProposed <= second
      /\ \A b \in Browsers : b \in DOMAIN localFilters /\ b \in DOMAIN updates /\ b \in DOMAIN requests
      /\ \A b \in Browsers : /\ localFilters[b] \in FilterLists /\ updates[b] \in Seq(FilterLists)
                             /\ requests[b] \in Seq({SubscribeRequest} \union Proposals)
  BY DEF FiltersTypeOK, VersionsAreLists
\* No list is new.
<1>1. CASE /\ lastProposed' = lastProposed /\ sameSecond' = sameSecond /\ second' \in Nat /\ second' >= second
           /\ \A v : Circulates(v)' => Circulates(v)
  BY <1>0, <1>1 DEF VersionsAreLists
\* Which is so when all is where it was, or gone.
<1>2. CASE /\ lastProposed' = lastProposed /\ sameSecond' = sameSecond /\ second' = second
           /\ filters' = filters
           /\ \A b \in Browsers :
                /\ Circulates(localFilters'[b])
                /\ \A i \in DOMAIN updates'[b] : Circulates(updates'[b][i])
                /\ \A i \in DOMAIN requests'[b] : IsOld(requests'[b][i]) => Circulates(Proposed(requests'[b][i]))
  <2>1. \A v : Circulates(v)' => Circulates(v)
    BY <1>2 DEF Circulates
  <2> QED BY <1>0, <1>1, <1>2, <2>1
<1>3. ASSUME NEW b \in Browsers
      PROVE  /\ Circulates(localFilters[b])
             /\ \A i \in DOMAIN updates[b] : Circulates(updates[b][i])
             /\ \A i \in DOMAIN requests[b] : IsOld(requests[b][i]) => Circulates(Proposed(requests[b][i]))
  BY DEF Circulates
<1>4. ASSUME NEW b \in Browsers, Start(b) PROVE VersionsAreLists'
  <2> DEFINE old == ProposeFilters(localFilters[b], FALSE, localFilters[b].list)
  <2>1. /\ requests'[b] = <<SubscribeRequest, old>>
        /\ \A c \in Browsers : c # b => requests'[c] = requests[c]
        /\ UNCHANGED <<filters, localFilters, updates, second, lastProposed, sameSecond>>
    BY <1>0, <1>4 DEF Start
  <2>2. Proposed(old) = localFilters[b]
    BY <1>0 DEF Proposed, ProposeFilters, FilterLists
  <2>3. ~IsOld(SubscribeRequest)
    BY RequestTypes DEF IsOld
  <2> HIDE DEF old
  <2>4. \A i \in DOMAIN requests'[b] : IsOld(requests'[b][i]) => Circulates(Proposed(requests'[b][i]))
    BY <1>3, <2>1, <2>2, <2>3
  <2> QED BY <1>2, <1>3, <2>1, <2>4
<1>5. ASSUME NEW b \in Browsers, NEW name \in FilterNames, ChangeFilters(b, name) PROVE VersionsAreLists'
  <2> DEFINE list == shown[b]
             changed == IF name \in list THEN list \ {name} ELSE list \union {name}
             new == ProposeFilters(localFilters[b], TRUE, changed)
  <2>1. /\ requests'[b] = Append(requests[b], new)
        /\ \A c \in Browsers : c # b => requests'[c] = requests[c]
        /\ UNCHANGED <<filters, localFilters, updates, second, lastProposed, sameSecond>>
    BY <1>0, <1>5 DEF ChangeFilters
  <2>2. new \in Proposals /\ ~IsOld(new)
    <3>1. changed \in SUBSET FilterNames
      BY DEF FiltersTypeOK
    <3> QED BY <1>0, <3>1, RequestTypes DEF IsOld
  <2> HIDE DEF new
  <2>3. \A i \in DOMAIN requests'[b] :
           requests'[b][i] = new \/ (i \in DOMAIN requests[b] /\ requests'[b][i] = requests[b][i])
    BY <1>0, <2>1, <2>2
  <2> QED BY <1>2, <1>3, <2>1, <2>2, <2>3
<1>6. ASSUME NEW b \in Browsers, VisitFiltersUpdate(b) PROVE VersionsAreLists'
  <2>1. /\ updates[b] # <<>> /\ updates'[b] = Tail(updates[b]) /\ localFilters'[b] = Head(updates[b])
        /\ \A c \in Browsers : c # b => updates'[c] = updates[c] /\ localFilters'[c] = localFilters[c]
        /\ UNCHANGED <<filters, requests, second, lastProposed, sameSecond>>
    BY <1>0, <1>6 DEF VisitFiltersUpdate
  <2>2. /\ 1 \in DOMAIN updates[b] /\ localFilters'[b] = updates[b][1]
        /\ \A i \in DOMAIN updates'[b] : i + 1 \in DOMAIN updates[b] /\ updates'[b][i] = updates[b][i + 1]
    BY <1>0, <2>1
  <2>3. \A c \in Browsers : Circulates(localFilters'[c]) /\ \A i \in DOMAIN updates'[c] : Circulates(updates'[c][i])
    <3> TAKE c \in Browsers
    <3>1. CASE c = b
      <4>1. Circulates(updates[b][1]) /\ \A i \in DOMAIN updates'[b] : Circulates(updates[b][i + 1])
        BY <1>3, <2>2
      <4> QED BY <2>2, <3>1, <4>1
    <3>2. CASE c # b
      BY <1>3, <2>1, <3>2
    <3> QED BY <3>1, <3>2
  <2> QED BY <1>2, <1>3, <2>1, <2>3
<1>7. ASSUME NEW b \in Browsers, HandleSubscribe(b) PROVE VersionsAreLists'
  <2>1. TakeFrom(b, "Subscribe") /\ UNCHANGED <<filters, localFilters, updates, second, lastProposed, sameSecond>>
    BY <1>7 DEF HandleSubscribe
  <2>2. \A c \in Browsers : \A i \in DOMAIN requests'[c] : \E j \in DOMAIN requests[c] : requests'[c][i] = requests[c][j]
    BY <2>1, TakeFromKeeps
  <2> QED BY <1>2, <1>3, <2>1, <2>2
<1>8. ASSUME NEW b \in Browsers, HandleProposeFilters(b) PROVE VersionsAreLists'
  <2>1. TakeFrom(b, "ProposeFilters") /\ UNCHANGED <<localFilters, second>>
    BY <1>8 DEF HandleProposeFilters
  <2>2. /\ \A c \in Browsers : \A i \in DOMAIN requests'[c] : \E j \in DOMAIN requests[c] : requests'[c][i] = requests[c][j]
        /\ requests[b][1] \in Proposals /\ 1 \in DOMAIN requests[b]
    <3>1. \A c \in Browsers : \A i \in DOMAIN requests'[c] : \E j \in DOMAIN requests[c] : requests'[c][i] = requests[c][j]
      BY <2>1, TakeFromKeeps
    <3>2. requests[b][1] \in Proposals /\ requests[b] # <<>>
      BY <1>8, <2>1, TakeFromTypes, ProposalHandled
    <3>3. 1 \in DOMAIN requests[b]
      BY <1>0, <3>2
    <3> QED BY <3>1, <3>2, <3>3
  <2>3. CASE /\ KeepsOwn(requests[b][1]) /\ filters \in FilterLists
             /\ updates' = [updates EXCEPT ![b] = Append(@, filters)]
             /\ UNCHANGED <<filters, lastProposed, sameSecond>>
    <3>1. Circulates(filters)
      BY <2>3 DEF Circulates, KeepsOwn
    <3>2. \A c \in Browsers : \A i \in DOMAIN updates'[c] :
             updates'[c][i] = filters \/ (i \in DOMAIN updates[c] /\ updates'[c][i] = updates[c][i])
      BY <1>0, <2>3
    <3> QED BY <1>2, <1>3, <2>1, <2>2, <2>3, <3>1, <3>2
  <2>4. CASE /\ filters' \in FilterLists
             /\ updates' = [u \in Browsers |-> IF u \in subscriptions THEN Append(updates[u], filters') ELSE updates[u]]
    <3>1. \A c \in Browsers : \A i \in DOMAIN updates'[c] :
             updates'[c][i] = filters' \/ (i \in DOMAIN updates[c] /\ updates'[c][i] = updates[c][i])
      BY <1>0, <2>4
    <3>2. \A v : Circulates(v)' => v = filters' \/ Circulates(v)
      BY <1>3, <2>1, <2>2, <3>1 DEF Circulates
    <3>3. CASE IsOld(requests[b][1]) /\ filters' = Proposed(requests[b][1]) /\ UNCHANGED <<lastProposed, sameSecond>>
      <4>1. Circulates(filters')
        BY <1>3, <2>2, <3>3
      <4> QED BY <1>0, <1>1, <2>1, <3>2, <3>3, <4>1
    <3>4. CASE /\ filters'.version = second
               /\ lastProposed' = second /\ sameSecond' = (sameSecond \/ lastProposed = second)
      <4> SUFFICES ASSUME ~sameSecond'
                   PROVE  /\ \A v : Circulates(v)' => v.version <= lastProposed'
                          /\ \A v, w : Circulates(v)' /\ Circulates(w)' /\ v.version = w.version => v = w
        BY <1>0, <2>1, <3>4 DEF VersionsAreLists
      <4>1. ~sameSecond /\ lastProposed < second
        <5>1. ~sameSecond /\ lastProposed # second
          BY <3>4, Zenon
        <5> QED BY <1>0, <5>1
      <4>2. \A v : Circulates(v) => v.version <= lastProposed
        BY <4>1 DEF VersionsAreLists
      <4>3. \A v, w : Circulates(v) /\ Circulates(w) /\ v.version = w.version => v = w
        BY <4>1 DEF VersionsAreLists
      <4>4. \A v : Circulates(v) => v.version \in Nat
        <5>1. filters # NoFilters => filters.version \in Nat
          BY DEF FiltersTypeOK, FilterLists
        <5>2. \A v \in FilterLists : v.version \in Nat
          BY DEF FilterLists
        <5>3. \A r : IsOld(r) => Proposed(r).version \in Nat
          BY RequestTypes DEF IsOld, FilterLists
        <5>4. \A c \in Browsers : localFilters[c] \in FilterLists /\ \A i \in DOMAIN updates[c] : updates[c][i] \in FilterLists
          BY <1>0
        <5> QED BY <5>1, <5>2, <5>3, <5>4 DEF Circulates
      <4>5. \A v : Circulates(v) => v.version < filters'.version
        BY <1>0, <3>4, <4>1, <4>2, <4>4
      <4>6. ~(filters'.version < filters'.version) /\ filters'.version <= lastProposed'
        BY <1>0, <3>4
      <4>7. \A v : Circulates(v)' => v.version <= lastProposed'
        BY <1>0, <3>2, <3>4, <4>1, <4>2, <4>4, <4>6
      <4>8. \A v, w : Circulates(v)' /\ Circulates(w)' /\ v.version = w.version => v = w
        BY <3>2, <4>3, <4>5, <4>6
      <4> QED BY <4>7, <4>8
    <3> QED BY <1>8, <2>3, <2>4, <3>3, <3>4, ProposalHandled
  <2> QED BY <1>8, <2>3, <2>4, ProposalHandled
<1>9. ASSUME NEW b \in Browsers, Close(b) PROVE VersionsAreLists'
  <2>1. /\ requests'[b] = <<>> /\ updates'[b] = <<>>
        /\ \A c \in Browsers : c # b => updates'[c] = updates[c] /\ requests'[c] = requests[c]
        /\ UNCHANGED <<filters, localFilters, second, lastProposed, sameSecond>>
    BY <1>0, <1>9 DEF Close
  <2> QED BY <1>2, <1>3, <2>1
<1>10. CASE RestartBackend
  <2>1. /\ filters' = NoFilters /\ \A c \in Browsers : requests'[c] = <<>> /\ updates'[c] = <<>>
        /\ UNCHANGED <<localFilters, second, lastProposed, sameSecond>>
    BY <1>10 DEF RestartBackend
  <2>2. \A v : Circulates(v)' => Circulates(v)
    BY <2>1 DEF Circulates
  <2> QED BY <1>0, <1>1, <2>1, <2>2
<1>11. CASE UNCHANGED filterVars \/ Tick
  <2>1. UNCHANGED <<filters, localFilters, requests, updates, lastProposed, sameSecond>> /\ second' \in {second, second + 1}
    BY <1>11 DEF filterVars, Tick
  <2>2. \A v : Circulates(v)' => Circulates(v)
    BY <2>1 DEF Circulates
  <2> QED BY <1>0, <1>1, <2>1, <2>2
<1> QED BY <1>4, <1>5, <1>6, <1>7, <1>8, <1>9, <1>10, <1>11 DEF FiltersNext

-------------------------------------------------------------------------------
(* The theorem. *)

LEMMA InvariantInitially == FiltersInit => FiltersInvariant
<1> SUFFICES ASSUME FiltersInit PROVE FiltersInvariant
  OBVIOUS
<1>1. FiltersTypeOK
  BY InitialTypes
<1>2. \A b \in Browsers : /\ requests[b] = <<>> /\ updates[b] = <<>> /\ b \notin subscriptions
                          /\ localFilters[b] = [version |-> 0, list |-> {}]
  BY DEF FiltersInit
<1>3. RequestsInOrder /\ AnsweredAgree
  BY <1>2 DEF RequestsInOrder, AnsweredAgree, Answered
<1>4. \A v : Circulates(v) => v = [version |-> 0, list |-> {}]
  BY <1>2 DEF Circulates, FiltersInit
<1>5. [version |-> 0, list |-> {}].version = 0 /\ lastProposed = 0 /\ second = 1
  BY DEF FiltersInit
<1>6. VersionsAreLists
  BY <1>4, <1>5 DEF VersionsAreLists
<1> QED BY <1>1, <1>3, <1>6, CirculatingWhere DEF FiltersInvariant

LEMMA InvariantStep == FiltersInvariant /\ [FiltersNext]_filterVars => FiltersInvariant'
<1>1. (VersionsIdentify <=> VersionsAreLists)'
  BY CirculatingWhere, PTL
<1> QED BY <1>1, CirculatingWhere, TypeStep, OrderStep, AnsweredStep, VersionsStep DEF FiltersInvariant

LEMMA InvariantImplies == FiltersInvariant => FiltersAgree
<1> SUFFICES ASSUME FiltersInvariant PROVE FiltersAgree
  OBVIOUS
<1>1. \A b \in Browsers : Circulates(localFilters[b])
  BY DEF Circulates
<1>2. VersionsAreLists
  BY CirculatingWhere DEF FiltersInvariant
<1> QED BY <1>1, <1>2 DEF FiltersInvariant, AnsweredAgree, VersionsAreLists, FiltersAgree

(* Every page of a user that was answered ends up with the list the backend   *)
(* keeps, in its storage and on the screen; and until two lists are accepted  *)
(* within a second, two browsers with one version have one list: whoever      *)
(* proposes what, closes pages or restarts the backend.                       *)
THEOREM FiltersAgreement == FiltersSpec => []FiltersAgree
<1>1. FiltersSpec => []FiltersInvariant
  BY InvariantInitially, InvariantStep, PTL DEF FiltersSpec
<1> QED BY <1>1, InvariantImplies, PTL

=============================================================================
