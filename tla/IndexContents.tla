---------------------------- MODULE IndexContents ---------------------------
(***************************************************************************)
(* What the index says after any sequence of posts, metadata, rebuilds,    *)
(* restarts and look-ups, beside what the logs say.                        *)
(***************************************************************************)
EXTENDS IndexState

CONSTANTS
  Drafts,        \* what may be posted: [instance, body]
  Offers,        \* metadata that may be posted, about zgrams that exist
  Batches,       \* the batches they are posted in
  MaxZgrams, MaxMetadata   \* bounds

ASSUME ContentsAssumption ==
  /\ \A d \in Drafts : {d.instance, d.body} \subseteq DOMAIN WordsOf
  /\ \A o \in Offers : o.tag \in {"reaction", "revision", "refersTo", "zmojis"}
  /\ Batches \subseteq Seq(Offers)
  /\ MaxZgrams \in Nat /\ MaxMetadata \in Nat

Poster == 1
vars == stateVars

PostZgram(draft) ==
  /\ Running
  /\ Len(Zgrams) < MaxZgrams
  /\ \E now \in {AddZgrams(Written, Poster, draft)} : Write(now)
  /\ UNCHANGED disturbed

PostMetadata(records) ==
  /\ Running
  /\ Len(log) - Len(Zgrams) + Len(records) <= MaxMetadata
  /\ CanPlace(records)
  /\ \A i \in DOMAIN records : records[i].tag # "zmojis" => Known(records[i].id)
  /\ \E now \in {AddMetadata(Written, records)} : Write(now)
  /\ disturbed' = disturbed \union RevisedTwice(records)

\* Zmojis are posted before any zgram: an assertion ends the process before it
\* writes anything, and it is started again.
PostBeforeZgrams(records) ==
  /\ Running
  /\ ~CanPlace(records)
  /\ \A i \in DOMAIN records : records[i].tag = "zmojis"
  /\ Restart

\* A page is sent some zgrams, which go through the cache.
LookUp(ids) ==
  /\ Running
  /\ ids # {} /\ \A id \in ids : Known(id)
  /\ cache' = LookupOrResolve(cache, log, InfosOf(ids)).cache
  /\ UNCHANGED <<log, day, checkpoint, builds, frozenEnd, frozen, dynamic, disturbed>>

Next ==
  \/ \E draft \in Drafts : PostZgram(draft)
  \/ \E batch \in Batches : PostMetadata(batch) \/ PostBeforeZgrams(batch)
  \/ StartReindexing
  \/ ResetIndex
  \/ Restart
  \/ LookUp(Ids)

Spec == StateInit /\ [][Next]_vars

-----------------------------------------------------------------------------
(* What the logs say *)

Original(id) == Zgrams[CHOOSE i \in DOMAIN Zgrams : Zgrams[i].rec.id = id].rec

\* The records of the first n log entries that are about one thing.
About(n, Test(_)) ==
  LET own == SelectSeq(SubSeq(log, 1, n), LAMBDA e : Test(e.rec))
  IN  [i \in DOMAIN own |-> own[i].rec]

RevisionsOf(id, n) == About(n, LAMBDA r : r.tag = "revision" /\ r.id = id)

\* What is true of a thing is what the last record about it says.
LastValue(records) == records # <<>> /\ Last(records).value
ReactionHolds(id, reaction, creator) ==
  LastValue(About(Len(log), LAMBDA r : /\ r.tag = "reaction" /\ r.id = id
                                       /\ r.reaction = reaction /\ r.creator = creator))
RefersTo(id, target) ==
  LastValue(About(Len(log), LAMBDA r : r.tag = "refersTo" /\ r.id = id /\ r.target = target))

LastBody(id, n) == IF RevisionsOf(id, n) = <<>> THEN Original(id).body ELSE Last(RevisionsOf(id, n)).body
\* A zgram has references in the frozen index and in the dynamic one.
MixedReferences(id) ==
  /\ FrozenFind(frozen.metadata.zgramRefersTo, id, <<>>) # <<>>
  /\ \E k \in DOMAIN dynamic.metadata.zgramRefersTo : k[1] = id
Mentioned(id, key) == At(MentionsOf[LastBody(id, Len(log))], key, 0)

Reactions == {r.reaction : r \in {o \in Offers : o.tag = "reaction"}}
Targets == {r.target : r \in {o \in Offers : o.tag = "refersTo"}}
Creators == {r.creator : r \in {o \in Offers : o.tag \in {"reaction", "zmojis"}}}
Keys == UNION {DOMAIN MentionsOf[t] : t \in DOMAIN MentionsOf}

-----------------------------------------------------------------------------

\* Reactions, revisions, references and zmojis are what the logs say, whatever
\* part of the records was frozen, read back or added since (but the merge of
\* references drops some, and is excepted), and each frozen map holds its keys
\* in order, as the binary searches need them.
MetadataMatchesLog ==
  Running =>
    /\ \A id \in Ids :
         /\ GetReactionsFor(frozen, dynamic, id) =
              {rc \in Reactions \X Creators : ReactionHolds(id, rc[1], rc[2])}
         /\ LET revs == GetZgramRevsFor(frozen, dynamic, id)
                own == RevisionsOf(id, Len(log))
            IN  /\ Len(revs) = Len(own)
                /\ \A i \in DOMAIN own : revs[i] = <<own[i].instance, own[i].body>>
         /\ (MixedReferences(id) \/ GetRefersToFor(frozen, dynamic, id) = {t \in Targets : RefersTo(id, t)})
    /\ \A creator \in Creators :
         LET own == About(Len(log), LAMBDA r : r.tag = "zmojis" /\ r.creator = creator)
         IN  GetZmojis(frozen, dynamic, creator) = IF own = <<>> THEN NoZmojis ELSE Last(own).zmojis
    /\ \A m \in DOMAIN frozen.metadata : KeysAscend(frozen.metadata[m])

\* A zgram adds to a key's count what its last body mentions, unless the zgram
\* was revised twice in one batch or its revision was read back from the logs.
CountsOf(ids) ==
  \A id \in ids, key \in Keys :
    GetPlusPlusCountAfter(frozen, dynamic, id, key) - GetPlusPlusCountAfter(frozen, dynamic, id - 1, key)
      = Mentioned(id, key)
\* And it is known to depend on every key its last body mentions, even in vain.
PlusPlusCountsMatch ==
  Running =>
    /\ CountsOf(Ids \ disturbed)
    /\ \A id \in Ids :
         DOMAIN MentionsOf[LastBody(id, Len(log))] \subseteq GetPlusPlusKeys(frozen, dynamic, id)

\* The same without the exception: what the manager's comment promises, that
\* the values of the previous modification are subtracted.
PlusPlusAlwaysMatch == Running => CountsOf(Ids)

\* The builder takes every log the server writes, and the dynamic index every
\* rest of it: no shard meets zgrams out of order, no string is missing from
\* the pool, no count is left over when a map has been inflated, whichever of
\* a day's files comes first.  The words of the index are those of its zgrams,
\* field by field, and the tries give each word's places: of a frozen zgram the
\* last body the build saw, of a later one the body it was posted with.
WordsMatchZgrams ==
  /\ Running
  /\ LET infos == ZgramInfos(frozen, dynamic)
        entries == Zgrams
        \* Zgram i as it was indexed.
        Fields(i) ==
          LET z == entries[i].rec
              revs == IF i <= Len(frozen.zgramInfos) THEN RevisionsOf(z.id, frozenEnd) ELSE <<>>
          IN  IF revs = <<>> THEN <<z.sender, z.signature, z.instance, z.body>>
              ELSE <<z.sender, z.signature, Last(revs).instance, Last(revs).body>>
        \* The words of zgram i, each with what the index says of it.
        Words(i) == LET fields == Fields(i)
                        Of(f) == [w \in DOMAIN WordsOf[fields[f]] |-> <<WordsOf[fields[f]][w], i - 1, FieldTags[f]>>]
                    IN  Of(1) \o Of(2) \o Of(3) \o Of(4)
        words == FlattenSeq([i \in DOMAIN entries |-> Words(i)])
        wordInfos == frozen.wordInfos \o dynamic.wordInfos
        places(word) == At(frozen.trie, word, <<>>) \o At(dynamic.trie, word, <<>>)
    IN  /\ Len(infos) = Len(entries)
        /\ \A i \in DOMAIN infos :
             /\ infos[i].startingWordOff = Cardinality({w \in DOMAIN words : words[w][2] < i - 1})
             /\ \A f \in 1 .. 4 : infos[i].lengths[f] = Cardinality({w \in DOMAIN words : Tail(words[w]) = <<i - 1, FieldTags[f]>>})
        /\ wordInfos = [w \in DOMAIN words |-> [zgramOff |-> words[w][2], fieldTag |-> words[w][3]]]
        /\ \A word \in DOMAIN frozen.trie \union DOMAIN dynamic.trie \union {words[w][1] : w \in DOMAIN words} :
             places(word) = Ascending({w \in 0 .. Len(words) - 1 : words[w + 1][1] = word})

\* The zgrams found by a reaction are those that have it.
HavingReactionMatches ==
  Running => \A reaction \in Reactions, forward \in BOOLEAN :
    ToSet(HavingReaction(frozen, dynamic, reaction, forward, IF forward THEN 0 ELSE MaxZgrams, MaxZgrams)) =
      {id \in Ids : \E creator \in Creators : ReactionHolds(id, reaction, creator)}

\* What the cache holds is what the files hold, however it was filled, and it
\* holds no more than it may.
CacheIsTrue ==
  /\ Cardinality(DOMAIN cache) <= CacheCapacity
  /\ \A id \in DOMAIN cache : id \in Ids /\ cache[id] = Original(id)

=============================================================================
