--------------------------- MODULE MetadataIndex ----------------------------
(***************************************************************************)
(* What the consolidated index knows besides the order of the zgrams: the  *)
(* dynamic index with its words and its metadata, the plus-plus manager,   *)
(* the zgram cache, and the questions that are answered from the frozen    *)
(* and the dynamic index together.                                         *)
(***************************************************************************)
EXTENDS IndexBuilder

CONSTANT CacheCapacity   \* how many zgrams the cache keeps

ASSUME CapacityAssumption == CacheCapacity \in Nat

EmptyMetadata ==
  [reactions |-> Nothing, reactionCounts |-> Nothing, zgramRevisions |-> Nothing,
   zgramRefersTo |-> Nothing, zmojis |-> Nothing,
   plusPluses |-> Nothing, minusMinuses |-> Nothing, plusPlusKeys |-> Nothing]
EmptyIndex == [ok |-> TRUE, zgramInfos |-> <<>>, wordInfos |-> <<>>, trie |-> Nothing,
               metadata |-> EmptyMetadata]

-----------------------------------------------------------------------------
(* The dynamic index *)

\* A zgram's words and its info, with the offsets that follow the frozen ones.
AddZgram(frozen, dynamic, zgram, location) ==
  LET fields == <<zgram.sender, zgram.signature, zgram.instance, zgram.body>>
      tags == TagsOf(fields)
      words == WordsIn(fields)
      zgramOff == Len(frozen.zgramInfos) + Len(dynamic.zgramInfos)
      wordOff == Len(frozen.wordInfos) + Len(dynamic.wordInfos)
  IN  IF /\ dynamic.zgramInfos # <<>>
         /\ zgram.id <= Last(dynamic.zgramInfos).id
      THEN Failure
      ELSE [dynamic EXCEPT
              !.wordInfos = @ \o [w \in DOMAIN tags |-> [zgramOff |-> zgramOff, fieldTag |-> tags[w]]],
              !.trie = FoldLeft(LAMBDA t, w : Put(t, words[w], Append(At(t, words[w], <<>>), wordOff + w - 1)),
                                @, [w \in DOMAIN words |-> w]),
              !.zgramInfos = Append(@, [id |-> zgram.id, location |-> location,
                                        startingWordOff |-> wordOff, lengths |-> Lengths(fields)])]

\* Whether a reaction holds: what the dynamic index says dominates.
LookupReaction(frozen, m, r) ==
  IF <<r.id, r.reaction, r.creator>> \in DOMAIN m.reactions
  THEN m.reactions[r.id, r.reaction, r.creator]
  ELSE <<r.creator>> \in ToSet(FrozenFind(FrozenFind(frozen.metadata.reactions, r.id, <<>>),
                                          r.reaction, <<>>))

\* A reaction that changes nothing is dropped; the counts are those of the
\* dynamic index alone, and start from zero.
AddReaction(frozen, m, r) ==
  IF LookupReaction(frozen, m, r) = r.value THEN m
  ELSE [m EXCEPT !.reactions = Put(@, <<r.id, r.reaction, r.creator>>, r.value),
                 !.reactionCounts = Put(@, <<r.reaction, r.id>>,
                    At(@, <<r.reaction, r.id>>, 0) + IF r.value THEN 1 ELSE -1)]

\* One record of metadata joins those of the dynamic index.
AddMetadataRecord(frozen, m, r) ==
  CASE r.tag = "reaction" -> AddReaction(frozen, m, r)
    [] r.tag = "revision" ->
         [m EXCEPT !.zgramRevisions = Put(@, r.id, Append(At(@, r.id, <<>>), <<r.instance, r.body>>))]
    [] r.tag = "refersTo" -> [m EXCEPT !.zgramRefersTo = Put(@, <<r.id, r.target>>, r.value)]
    [] r.tag = "zmojis" -> [m EXCEPT !.zmojis = Put(@, r.creator, r.zmojis)]

\* Log records join the dynamic index one after another.
AddLogRecord(frozen, dynamic, e) ==
  IF ~dynamic.ok THEN dynamic
  ELSE IF e.rec.tag = "zgram" THEN AddZgram(frozen, dynamic, e.rec, e.location)
  ELSE [dynamic EXCEPT !.metadata = AddMetadataRecord(frozen, @, e.rec)]
AddLogRecords(frozen, dynamic, entries) ==
  FoldLeft(LAMBDA d, e : AddLogRecord(frozen, d, e), dynamic, entries)

\* The deltas, a function of keys and zgrams, join the counts.  A vector of
\* zgrams is kept sorted and holds one copy for each plus-plus.
Insert(m, key, id, n) ==
  LET vec == At(m, key, <<>>)
  IN  Put(m, key, RowsAt(vec, {i \in DOMAIN vec : vec[i] <= id}) \o Copies(n, id)
                    \o RowsAt(vec, {i \in DOMAIN vec : vec[i] > id}))
UpdateOne(m, delta, k) ==
  LET key == k[1]
      id == k[2]
      n == delta[k]
      marked == [m EXCEPT !.plusPlusKeys = Put(@, id, At(@, id, {}) \union {key})]
  IN  CASE n > 0 -> [marked EXCEPT !.plusPluses = Insert(@, key, id, n)]
        [] n < 0 -> [marked EXCEPT !.minusMinuses = Insert(@, key, id, - n)]
        [] n = 0 -> [marked EXCEPT !.plusPluses = Insert(@, key, id, 1),
                                   !.minusMinuses = Insert(@, key, id, 1)]
BatchUpdatePlusPlusCounts(dynamic, delta) ==
  [dynamic EXCEPT !.metadata =
     FoldFunctionOnSet(LAMBDA k, m : UpdateOne(m, delta, k), @, [k \in DOMAIN delta |-> k], DOMAIN delta)]

-----------------------------------------------------------------------------
(* Questions asked of both indexes *)

ZgramInfos(frozen, dynamic) == frozen.zgramInfos \o dynamic.zgramInfos

\* The zgrams from an identifier on begin behind those before it, first among
\* the frozen ones, then among the dynamic ones.
LowerBound(infos, id) == Cardinality({i \in DOMAIN infos : \A j \in 1 .. i : infos[j].id < id})
LowerBoundOff(frozen, dynamic, id) ==
  LET f == LowerBound(frozen.zgramInfos, id)
  IN  IF f < Len(frozen.zgramInfos) THEN f ELSE f + LowerBound(dynamic.zgramInfos, id)

\* The place of a zgram, from 1, or 0.
FindZgram(frozen, dynamic, id) ==
  LET infos == ZgramInfos(frozen, dynamic)
      lb == LowerBoundOff(frozen, dynamic, id)
  IN  IF lb < Len(infos) /\ infos[lb + 1].id = id THEN lb + 1 ELSE 0

\* The identifier after the last zgram.
ZgramEnd(frozen, dynamic) ==
  LET infos == ZgramInfos(frozen, dynamic)
  IN  IF infos = <<>> THEN 0 ELSE Last(infos).id + 1

\* The reactions of a zgram: frozen ones the dynamic index does not override.
GetReactionsFor(frozen, dynamic, id) ==
  LET byReaction == FrozenFind(frozen.metadata.reactions, id, <<>>)
      held == UNION {{<<byReaction[i][1], c[1]>> : c \in ToSet(byReaction[i][2])} : i \in DOMAIN byReaction}
      said == {k \in DOMAIN dynamic.metadata.reactions : k[1] = id}
  IN  {rc \in held : <<id, rc[1], rc[2]>> \notin said}
        \union {<<k[2], k[3]>> : k \in {j \in said : dynamic.metadata.reactions[j]}}

\* All revisions, the frozen ones first.
GetZgramRevsFor(frozen, dynamic, id) ==
  FrozenFind(frozen.metadata.zgramRevisions, id, <<>>) \o At(dynamic.metadata.zgramRevisions, id, <<>>)

\* The frozen and the dynamic targets are walked side by side; wherever both
\* lists go on, the frozen one is passed over.
GetRefersToFor(frozen, dynamic, id) ==
  LET f == FrozenFind(frozen.metadata.zgramRefersTo, id, <<>>)
      d == {k[2] : k \in {j \in DOMAIN dynamic.metadata.zgramRefersTo : j[1] = id}}
  IN  {f[i][1] : i \in {j \in DOMAIN f : j > Cardinality(d)}}
        \union {t \in d : dynamic.metadata.zgramRefersTo[id, t]}

NoZmojis == 0
GetZmojis(frozen, dynamic, creator) ==
  At(dynamic.metadata.zmojis, creator, FrozenFind(frozen.metadata.zmojis, creator, NoZmojis))

\* How many entries of a sorted vector are not beyond a zgram.
Rank(vec, id) == Cardinality({i \in DOMAIN vec : \A j \in 1 .. i : vec[j] <= id})
GetPlusPlusCountAfter(frozen, dynamic, id, key) ==
  LET frozenRank(map) == Rank([i \in DOMAIN FrozenFind(map, key, <<>>) |-> FrozenFind(map, key, <<>>)[i][1]], id)
      dynamicRank(map) == Rank(At(map, key, <<>>), id)
  IN  frozenRank(frozen.metadata.plusPluses) - frozenRank(frozen.metadata.minusMinuses)
        + dynamicRank(dynamic.metadata.plusPluses) - dynamicRank(dynamic.metadata.minusMinuses)

GetPlusPlusKeys(frozen, dynamic, id) ==
  {k[1] : k \in ToSet(FrozenFind(frozen.metadata.plusPlusKeys, id, <<>>))}
    \union At(dynamic.metadata.plusPlusKeys, id, {})

\* The zgrams the iterator over a reaction finds from a place on, in either
\* direction, at most capacity of them: the counts of both indexes are merged
\* by zgram, the dynamic one replacing the frozen one.
HavingReaction(frozen, dynamic, reaction, forward, from, capacity) ==
  LET counts == FrozenFind(frozen.metadata.reactionCounts, reaction, <<>>)
      inFrozen == {c[1] : c \in ToSet(counts)}
      inDynamic == {k[2] : k \in {j \in DOMAIN dynamic.metadata.reactionCounts : j[1] = reaction}}
      total(id) == IF id \in inDynamic THEN dynamic.metadata.reactionCounts[reaction, id]
                   ELSE FrozenFind(counts, id, 0)
      found == {id \in inFrozen \union inDynamic :
                  /\ IF forward THEN id >= from ELSE id <= from
                  /\ total(id) # 0
                  /\ FindZgram(frozen, dynamic, id) # 0}
      inOrder == IF forward THEN Ascending(found) ELSE Reverse(Ascending(found))
  IN  SubSeq(inOrder, 1, IF Len(inOrder) < capacity THEN Len(inOrder) ELSE capacity)

-----------------------------------------------------------------------------
(* The zgram cache and the plus-plus manager *)

\* The zgram at a location of the log files.
ZgramAt(log, location) ==
  FileText(log, location)[location.offset + 1].rec

\* A mutant: nothing has to make room.
CachedBeyond(cache, zgram) == Put(cache, zgram.id, zgram)

\* One zgram that was not cached joins the cache if there is room, or in the
\* place of the oldest one if it is younger.
Cached(cache, zgram) ==
  IF Cardinality(DOMAIN cache) < CacheCapacity THEN Put(cache, zgram.id, zgram)
  ELSE LET oldest == Ascending(DOMAIN cache)[1]
       IN  IF DOMAIN cache # {} /\ oldest < zgram.id
           THEN Put([id \in DOMAIN cache \ {oldest} |-> cache[id]], zgram.id, zgram)
           ELSE cache

\* The zgrams of some infos, in their order: what the cache has when the call
\* begins comes from there, the others are read from their files, file by file.
LookupOrResolve(cache, log, infos) ==
  LET hit(i) == infos[i].id \in DOMAIN cache
      todo == StableSort([n \in 1 .. Len(infos) |->
                 <<IF hit(n) THEN 0 ELSE 1, infos[n].location.day, IF infos[n].location.logged THEN 0 ELSE 1, n>>],
                 <<1, 2, 3>>)
      read == RowsAt(todo, {t \in DOMAIN todo : todo[t][1] = 1})
  IN  [zgrams |-> [i \in DOMAIN infos |-> IF hit(i) THEN cache[infos[i].id]
                                          ELSE ZgramAt(log, infos[i].location)],
       cache  |-> FoldLeft(LAMBDA c, t : Cached(c, ZgramAt(log, infos[t[4]].location)), cache, read)]

\* The plus-pluses of a text join the deltas of a zgram, times sign.
Scan(delta, id, body, sign) ==
  [k \in DOMAIN delta \union {<<key, id>> : key \in DOMAIN MentionsOf[body]} |->
     At(delta, k, 0) + IF k[2] = id /\ k[1] \in DOMAIN MentionsOf[body] THEN sign * MentionsOf[body][k[1]] ELSE 0]

\* A new zgram counts in full.  A revision counts in full, and what counted
\* before is taken away: the last revision the index has, or the original,
\* which is looked up at the end.  ppm = [delta, locators].
PpmAdd(frozen, dynamic, ppm, r) ==
  CASE r.tag = "zgram" -> [ppm EXCEPT !.delta = Scan(@, r.id, r.body, 1)]
    [] r.tag = "revision" ->
         LET prior == GetZgramRevsFor(frozen, dynamic, r.id)
             added == [ppm EXCEPT !.delta = Scan(@, r.id, r.body, 1)]
         IN  IF prior # <<>>
             THEN [added EXCEPT !.delta = Scan(@, r.id, Last(prior)[2], -1)]
             ELSE [added EXCEPT !.locators = Append(@, r.id)]
    [] OTHER -> ppm
PpmAddAll(frozen, dynamic, records) ==
  FoldLeft(LAMBDA ppm, r : PpmAdd(frozen, dynamic, ppm, r), [delta |-> Nothing, locators |-> <<>>], records)

\* A mutant: what the originals mentioned stays.
PpmFinishWithOriginals(frozen, dynamic, cache, log, ppm) == [delta |-> ppm.delta, cache |-> cache]

\* The originals are taken away, and the deltas are complete.
PpmFinish(frozen, dynamic, cache, log, ppm) ==
  LET infos == [i \in DOMAIN ppm.locators |->
                  ZgramInfos(frozen, dynamic)[FindZgram(frozen, dynamic, ppm.locators[i])]]
      found == LookupOrResolve(cache, log, infos)
  IN  [delta |-> FoldLeft(LAMBDA d, z : Scan(d, z.id, z.body, -1), ppm.delta, found.zgrams),
       cache |-> found.cache]

=============================================================================
