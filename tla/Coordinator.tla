----------------------------- MODULE Coordinator ----------------------------
(***************************************************************************)
(* What a page is told about the zgrams it shows: the reactions,           *)
(* revisions, references and plus-plus counts that come with a zgram, and  *)
(* the updates sent when a post of this or any other page changes them.    *)
(* The Coordinator handles one request after another on the Server's       *)
(* thread, what it sends to a page arrives once and in order               *)
(* (SessionProtocol), and what the page makes of it depends on nothing     *)
(* else: the view here is the one the page has when all that was sent has  *)
(* arrived.  What other pages are sent is nothing to this one.  Which      *)
(* zgrams a page asks for and its estimates are Paging's; here it may ask  *)
(* for any number, on either side, at any time.                            *)
(***************************************************************************)
EXTENDS IndexState, Filters

CONSTANTS
  User,        \* whose page this is; a user is the text of a sender's name
  Query,       \* the users whose zgrams the page's query finds
  Drafts,      \* what may be posted: [sender, instance, body]
  Batches,     \* the metadata that may be posted: [poster, records]
  PageSize,    \* the most a page is sent at once
  MaxZgrams, MaxMetadata, MaxLookups   \* bounds

ASSUME CoordinatorAssumption ==
  /\ {User} \union Query \union {d.sender : d \in Drafts} \subseteq DOMAIN WordsOf
  /\ PageSize \in Nat /\ MaxZgrams \in Nat /\ MaxMetadata \in Nat /\ MaxLookups \in Nat

VARIABLES
  displayed,   \* displayed_ of the page's subscription: [first, second], or NotSubscribed
  view,        \* what the page knows once it has heard everything: its Z2kState and ZgramViewModels
  topic,       \* "zgrams" or "filters": what a behaviour is about
  lookups,     \* how many zgrams were asked for one by one, or could not be read
  recounted    \* history: a new index counted differently, and told nobody
zgramVars == <<stateVars, displayed, view, lookups, recounted>>
vars == <<zgramVars, filterVars, topic>>

NotSubscribed == [first |-> -1, second |-> -1]
EmptyView ==
  [zgrams |-> {}, zgramDict |-> {}, reactions |-> {}, revisions |-> Nothing, refersTo |-> Nothing,
   counts |-> Nothing, zmojis |-> NoZmojis]

\* Zgrams and filters share no state: a behaviour is about the ones or the others,
\* so that there are as many states as of both together and not as their product.
Init ==
  /\ topic \in {"zgrams", "filters"}
  /\ FiltersInit
  /\ StateInit
  /\ displayed = NotSubscribed
  /\ view = EmptyView
  /\ lookups = 0 /\ recounted = FALSE

Subscribed == displayed # NotSubscribed
Displays(id) == displayed.first <= id /\ id < displayed.second

-----------------------------------------------------------------------------
(* Messages *)

AckMoreZgrams(ids) == [type |-> "AckMoreZgrams", zgrams |-> ids]
AckSpecificZgrams(ids) == [type |-> "AckSpecificZgrams", zgrams |-> ids]
MetadataUpdate(records) == [type |-> "MetadataUpdate", metadata |-> records]
PlusPlusUpdate(entries) == [type |-> "PlusPlusUpdate", entries |-> entries]

\* A message that would say nothing is not sent.
Unless(empty, message) == IF empty THEN <<>> ELSE <<message>>

-----------------------------------------------------------------------------
(* What the page makes of them *)

\* A zgram that comes for the first time, or once more, has a new view model.
VisitAckMoreZgrams(v, ids) ==
  [v EXCEPT !.zgrams = @ \union ids, !.zgramDict = @ \union ids,
            !.reactions = {r \in @ : r[1] \notin ids},
            !.revisions = [id \in DOMAIN @ \ ids |-> @[id]],
            !.refersTo = [id \in DOMAIN @ \ ids |-> @[id]],
            !.counts = [k \in {c \in DOMAIN @ : c[1] \notin ids} |-> @[k]]]

VisitAckSpecificZgrams(v, ids) == [v EXCEPT !.zgramDict = @ \union ids]

\* One record of metadata; those of a zgram the page does not have are nothing to it.
VisitMetadata(v, r) ==
  CASE r.tag = "zmojis" -> [v EXCEPT !.zmojis = r.zmojis]
    [] r.tag # "zmojis" /\ r.id \notin v.zgramDict -> v
    [] r.tag = "reaction" /\ r.id \in v.zgramDict ->
         [v EXCEPT !.reactions = IF r.value THEN @ \union {<<r.id, r.reaction, r.creator>>}
                                 ELSE @ \ {<<r.id, r.reaction, r.creator>>}]
    [] r.tag = "revision" /\ r.id \in v.zgramDict ->
         [v EXCEPT !.revisions = Put(@, r.id, Append(At(@, r.id, <<>>), <<r.instance, r.body>>))]
    [] r.tag = "refersTo" /\ r.id \in v.zgramDict -> [v EXCEPT !.refersTo = Put(@, r.id, r.target)]

VisitPlusPlusUpdate(v, entries) ==
  LET known == {e \in entries : e[1] \in v.zgramDict}
      new == [k \in {<<e[1], e[2]>> : e \in known} |-> (CHOOSE e \in known : <<e[1], e[2]>> = k)[3]]
  IN  [v EXCEPT !.counts = new @@ @]

HandleDresponse(v, m) ==
  CASE m.type = "AckMoreZgrams" -> VisitAckMoreZgrams(v, m.zgrams)
    [] m.type = "AckSpecificZgrams" -> VisitAckSpecificZgrams(v, m.zgrams)
    [] m.type = "MetadataUpdate" -> FoldLeft(VisitMetadata, v, m.metadata)
    [] m.type = "PlusPlusUpdate" -> VisitPlusPlusUpdate(v, m.entries)

\* These messages are sent to the page.
Send(messages) == view' = FoldLeft(HandleDresponse, view, messages)

-----------------------------------------------------------------------------
(* What comes with a zgram *)

\* All metadata of a zgram, as records.
MetadataFor(id) ==
  LET revs == GetZgramRevsFor(frozen, dynamic, id)
      reactions == SetToSeq({[tag |-> "reaction", id |-> id, reaction |-> rc[1], creator |-> rc[2], value |-> TRUE] :
                               rc \in GetReactionsFor(frozen, dynamic, id)})
      targets == SetToSeq({[tag |-> "refersTo", id |-> id, target |-> t, value |-> TRUE] :
                             t \in GetRefersToFor(frozen, dynamic, id)})
  IN  reactions
        \o [i \in DOMAIN revs |-> [tag |-> "revision", id |-> id, instance |-> revs[i][1], body |-> revs[i][2]]]
        \o targets

\* The page subscribes, to begin at a zgram or at the end, and learns its zmojis.
Subscribe(start) ==
  /\ Running
  /\ ~Subscribed
  /\ displayed' = [first |-> start, second |-> start]
  /\ Send(<<MetadataUpdate(<<[tag |-> "zmojis", creator |-> User, zmojis |-> GetZmojis(frozen, dynamic, User)]>>)>>)
  /\ UNCHANGED <<stateVars, lookups, recounted>>

\* The zgrams the page's query finds on one side of what it displays, nearest first.
Beyond(side) ==
  LET infos == ZgramInfos(frozen, dynamic)
      found == {infos[i].id : i \in {j \in DOMAIN infos :
                  /\ ZgramAt(log, infos[j].location).sender \in Query
                  /\ IF side = "back" THEN infos[j].id >= displayed.second ELSE infos[j].id < displayed.first}}
  IN  IF side = "back" THEN Ascending(found) ELSE Reverse(Ascending(found))

\* Mutant: the range ends at its last zgram.
UpdateDisplayedShort(range, ids) ==
  [first |-> CHOOSE x \in {range.first} \union ids : \A y \in {range.first} \union ids : x <= y,
   second |-> CHOOSE x \in {range.second} \union ids : \A y \in {range.second} \union ids : x >= y]

\* The range grows by what is sent.
UpdateDisplayed(range, ids) ==
  [first |-> CHOOSE x \in {range.first} \union ids : \A y \in {range.first} \union ids : x <= y,
   second |-> LET ends == {range.second} \union {id + 1 : id \in ids}
              IN  CHOOSE x \in ends : \A y \in ends : x >= y]

\* The next zgrams of a side, with all that is known about them.  They count as
\* displayed even if they cannot be read; then nothing is sent but an error.
GetMoreZgrams(side, count) ==
  /\ Running
  /\ Subscribed /\ count <= Len(Beyond(side))
  /\ LET sent == SubSeq(Beyond(side), 1, count)
         ids == ToSet(sent)
         entries == UNION {{<<id, key, GetPlusPlusCountAfter(frozen, dynamic, id, key)>> :
                              key \in GetPlusPlusKeys(frozen, dynamic, id)} : id \in ids}
     IN  /\ displayed' = UpdateDisplayed(displayed, ids)
         /\ \/ /\ Send(<<AckMoreZgrams(ids), MetadataUpdate(FlattenSeq([i \in DOMAIN sent |-> MetadataFor(sent[i])]))>>
                         \o Unless(entries = {}, PlusPlusUpdate(entries)))
               /\ cache' = LookupOrResolve(cache, log, InfosOf(ids)).cache
               /\ UNCHANGED lookups
            \/ /\ lookups < MaxLookups /\ lookups' = lookups + 1
               /\ UNCHANGED <<view, cache>>
  /\ UNCHANGED <<log, day, checkpoint, builds, frozenEnd, frozen, dynamic, disturbed, recounted>>

\* A zgram that another one refers to is sent for itself, without metadata.
GetSpecificZgrams(id) ==
  /\ Running
  /\ Subscribed
  /\ id \in Ids
  /\ lookups < MaxLookups /\ lookups' = lookups + 1
  /\ Send(<<AckSpecificZgrams({id})>>)
  /\ cache' = LookupOrResolve(cache, log, InfosOf({id})).cache
  /\ UNCHANGED <<log, day, checkpoint, builds, frozenEnd, frozen, dynamic, disturbed, displayed, recounted>>

-----------------------------------------------------------------------------
(* What is sent when something changes *)

\* The records about zgrams the page displays, and about its user.
MetadataChanges(records) ==
  LET own == SelectSeq(records, LAMBDA r : IF r.tag = "zmojis" THEN r.creator = User ELSE Displays(r.id))
  IN  Unless(own = <<>>, MetadataUpdate(own))

\* Mutant: the zgrams that only lower a count are forgotten.
DictionariesOfPlusPluses(dyn, key) ==
  {<<FrozenFind(frozen.metadata.plusPluses, key, <<>>) # <<>>,
     {e[1] : e \in ToSet(FrozenFind(frozen.metadata.plusPluses, key, <<>>))}>>,
   <<key \in DOMAIN dyn.metadata.plusPluses, ToSet(At(dyn.metadata.plusPluses, key, <<>>))>>}

\* The zgrams each dictionary has for a key.  A key that is in the frozen string
\* pool is looked up in both frozen ones, any key in both dynamic ones.
Dictionaries(dyn, key) ==
  LET inFrozen(map) == IF key \notin frozen.strings THEN <<TRUE, {}>>
                       ELSE <<FrozenFind(map, key, <<>>) # <<>>, {e[1] : e \in ToSet(FrozenFind(map, key, <<>>))}>>
      inDynamic(map) == <<key \in DOMAIN map, ToSet(At(map, key, <<>>))>>
  IN  {inFrozen(frozen.metadata.plusPluses), inFrozen(frozen.metadata.minusMinuses),
       inDynamic(dyn.metadata.plusPluses), inDynamic(dyn.metadata.minusMinuses)}

\* What the four look-ups give.  Where a key is missing the end of the dictionary
\* is read as if it were an entry: stray stands for what is found there.
Misses(dyn, key) == \E d \in Dictionaries(dyn, key) : ~d[1]
Strays(now) == IF \E k \in DOMAIN now.delta : Misses(now.dynamic, k[1]) THEN SUBSET Ids ELSE {{}}
ZgramsToUpdate(dyn, key, stray) ==
  UNION {d[2] : d \in Dictionaries(dyn, key)} \union IF Misses(dyn, key) THEN stray ELSE {}

\* For each key that changed, the count at the first zgram that changed it, and
\* at every later one that mentions it, as far as it displays them.
PlusPlusChanges(now, stray) ==
  LET Reported(id, key) == <<id, key, GetPlusPlusCountAfter(frozen, now.dynamic, id, key)>>
      first(key) == LET ids == {k[2] : k \in {j \in DOMAIN now.delta : j[1] = key}}
                    IN  CHOOSE x \in ids : \A y \in ids : x <= y
      later(key) == IF first(key) + 1 < displayed.second /\ displayed.first < displayed.second
                    THEN {id \in ZgramsToUpdate(now.dynamic, key, stray) : id > first(key) /\ Displays(id)}
                    ELSE {}
      entries == UNION {{Reported(id, key) : id \in {i \in {first(key)} : Displays(i)} \union later(key)} :
                          key \in {k[1] : k \in DOMAIN now.delta}}
  IN  Unless(entries = {}, PlusPlusUpdate(entries))

\* The records a user may post: reactions of one's own, zmojis, and what is
\* about a zgram one has sent.
Sanitize(now, user, records) ==
  SelectSeq(records, LAMBDA r :
    CASE r.tag = "reaction" -> r.creator = user
      [] r.tag = "zmojis" -> TRUE
      [] OTHER -> /\ FindZgram(frozen, now.dynamic, r.id) # 0
                  /\ LET at == ZgramInfos(frozen, now.dynamic)[FindZgram(frozen, now.dynamic, r.id)].location
                     IN  ZgramAt(now.log, at).sender = user)

\* The page is sent what the posts mean to it.
Notify(news) == IF Subscribed THEN Send(news) ELSE UNCHANGED view

\* A user posts metadata (zmojis that end the process are posted in IndexContents).
PostMetadata(batch) ==
  LET records == Sanitize(Written, batch.poster, batch.records)
  IN  /\ Running
      /\ records # <<>>
      /\ Len(log) - Len(Zgrams) + Len(records) <= MaxMetadata
      /\ CanPlace(records)
      /\ \A i \in DOMAIN records : records[i].tag # "zmojis" => Known(records[i].id)
      /\ \E now \in {AddMetadata(Written, records)} : \E stray \in Strays(now) :
           Write(now) /\ Notify(MetadataChanges(records) \o PlusPlusChanges(now, stray))
      /\ disturbed' = disturbed \union RevisedTwice(records)
      /\ UNCHANGED <<displayed, lookups, recounted>>

\* A user posts a zgram, perhaps in reply to one: the reference is posted as
\* metadata of the new zgram, after the subscribers have heard of the zgram.
PostZgrams(draft, refersTo) ==
  /\ Running
  /\ Len(Zgrams) < MaxZgrams
  /\ \E posted \in {AddZgrams(Written, draft.sender, draft)} :
       LET reply(target) == [tag |-> "refersTo", id |-> ZgramEnd(frozen, dynamic), target |-> target, value |-> TRUE]
           records == Sanitize(posted, draft.sender, SetToSeq({reply(target) : target \in refersTo}))
       IN  \E now \in {AddMetadata(posted, records)} :
             Write(now) /\ Notify(PlusPlusChanges(posted, {}) \o MetadataChanges(records))
  /\ UNCHANGED <<disturbed, displayed, lookups, recounted>>

\* The index is replaced by the one that was built; nobody hears of it.
TryResetIndex ==
  /\ ResetIndex
  /\ recounted' = (recounted \/ \E id \in Ids, key \in UNION {DOMAIN MentionsOf[t] : t \in DOMAIN MentionsOf} :
       frozen'.ok /\ dynamic'.ok /\
       GetPlusPlusCountAfter(frozen', dynamic', id, key) # GetPlusPlusCountAfter(frozen, dynamic, id, key))
  /\ UNCHANGED <<displayed, view, lookups>>

ZgramsNext ==
  \/ \E start \in 0 .. ZgramEnd(frozen, dynamic) : Subscribe(start)
  \/ \E side \in {"front", "back"}, count \in 1 .. PageSize : GetMoreZgrams(side, count)
  \/ \E id \in Ids : GetSpecificZgrams(id)
  \/ \E batch \in Batches : PostMetadata(batch)
  \/ \E draft \in Drafts, refersTo \in {{}} \union {{id} : id \in Ids} : PostZgrams(draft, refersTo)
  \/ StartReindexing /\ UNCHANGED <<displayed, view, lookups, recounted>>
  \/ TryResetIndex

Next ==
  \/ topic = "zgrams" /\ ZgramsNext /\ UNCHANGED <<filterVars, topic>>
  \/ topic = "filters" /\ FiltersNext /\ UNCHANGED <<zgramVars, topic>>

Spec == Init /\ [][Next]_vars

-----------------------------------------------------------------------------

\* However posts, answers and rebuilds follow one another, a page that has heard
\* everything sent to it shows of each zgram in its list the reactions,
\* revisions and references the index has, each revision once, and its user's
\* zmojis: what came with a zgram and the later updates neither leave a gap nor
\* overlap.
PageShowsTheMetadata ==
  Subscribed =>
    /\ \A id \in view.zgrams :
         /\ {<<r[2], r[3]>> : r \in {x \in view.reactions : x[1] = id}} = GetReactionsFor(frozen, dynamic, id)
         /\ At(view.revisions, id, <<>>) = GetZgramRevsFor(frozen, dynamic, id)
         /\ {view.refersTo[k] : k \in {j \in DOMAIN view.refersTo : j = id}} = GetRefersToFor(frozen, dynamic, id)
    /\ view.zmojis = GetZmojis(frozen, dynamic, User)

\* And it shows the plus-plus counts the index has, also those that changed
\* because an older zgram was revised, unless a new index counts differently
\* (tryResetIndex tells nobody).
PageShowsTheCounts ==
  Subscribed /\ ~recounted =>
    /\ \A id \in view.zgrams : \A key \in GetPlusPlusKeys(frozen, dynamic, id) : <<id, key>> \in DOMAIN view.counts
    /\ \A k \in {j \in DOMAIN view.counts : j[1] \in view.zgrams} :
         view.counts[k] = GetPlusPlusCountAfter(frozen, dynamic, k[1], k[2])

=============================================================================
