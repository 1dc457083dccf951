---------------------------- MODULE IndexBuilder ----------------------------
(***************************************************************************)
(* The index builder: from the log files to the frozen index.  The logs    *)
(* are split over shards into one file of rows per kind of record, the     *)
(* rows are sorted, the zgrams are digested shard by shard into            *)
(* infos, words, trie entries and plus-plus entries, the shards are joined *)
(* again, and the metadata are inflated into nested maps.                  *)
(*                                                                         *)
(* A log is a sequence of entries [day, logged, rec]: the file an entry is *)
(* in, and its record.  Names, words, keys and texts are numbers.          *)
(***************************************************************************)
EXTENDS TupleIterators

CONSTANTS
  WordsOf,          \* [text -> Seq(word)]: WordSplitter::split
  MentionsOf,       \* [text -> [keys -> Int]]: what the plus-plus scanner nets
  NumShards,        \* numIndexBuilderShards
  FlushThreshold    \* TrieEntriesWriter::flushThreshold

ASSUME ShardsAssumption == NumShards \in Nat \ {0} /\ FlushThreshold \in Nat \ {0}

Failure == [ok |-> FALSE]

\* The fields that are indexed, in the order their words get their offsets.
FieldTags == <<"sender", "signature", "instance", "body">>

\* The rows one zgram or one record of metadata becomes.
ZephyrgramRow(e, offset) ==
  [id |-> e.rec.id, sender |-> e.rec.sender, signature |-> e.rec.signature,
   instance |-> e.rec.instance, body |-> e.rec.body,
   location |-> [day |-> e.day, logged |-> e.logged, offset |-> offset]]
ReactionByZgramId(r) == <<r.id, r.reaction, r.creator, r.value>>
ReactionByReaction(r) == <<r.reaction, r.id, r.creator, r.value>>
RevisionRow(r) == <<r.id, r.instance, r.body>>
RefersToRow(r) == <<r.id, r.target, r.value>>
ZmojisRow(r) == <<r.creator, r.zmojis>>

-----------------------------------------------------------------------------
(* The splitter *)

\* The text of a file: its records in the order they were appended.
FileText(log, f) == RowsAt(log, {i \in DOMAIN log : log[i].day = f.day /\ log[i].logged = f.logged})

\* All files by day.  The sort is not stable and does not look at the kind, so
\* either file of a day may come first.
AllRanges(log, loggedFirst) ==
  LET files == {[day |-> e.day, logged |-> e.logged] : e \in ToSet(log)}
      Earlier(f, g) == f.day < g.day \/ (f.day = g.day /\ f # g /\ f.logged = loggedFirst)
  IN  Evaluated([p \in 1 .. Cardinality(files) |->
         CHOOSE f \in files : Cardinality({g \in files : Earlier(g, f)}) = p - 1])

\* Where each shard ends among the ranges: the rest is shared out evenly, and
\* the two files of a day stay together.
ShardEnds(ranges) ==
  LET end[i \in 0 .. NumShards] ==
        IF i = 0 THEN 0
        ELSE LET next == end[i - 1] + (Len(ranges) - end[i - 1]) \div (NumShards - i + 1)
             IN  IF /\ next # end[i - 1] /\ next # Len(ranges)
                    /\ ranges[next].day = ranges[next + 1].day
                 THEN next + 1
                 ELSE next
  IN  end

\* The records of one kind in a shard: its files one after another.
RecordsOf(log, files, tag) ==
  LET all == FlattenSeq([i \in DOMAIN files |-> FileText(log, files[i])])
  IN  RowsAt(all, {i \in DOMAIN all : all[i].rec.tag = tag})

\* The zgrams in the files of one kind of a shard, with their places.
ZgramRows(log, files, logged) ==
  LET rows(f) == LET text == FileText(log, f)
                     at == Ascending({i \in DOMAIN text : text[i].rec.tag = "zgram"})
                 IN  [n \in DOMAIN at |-> ZephyrgramRow(text[at[n]], at[n] - 1)]
      own == RowsAt(files, {i \in DOMAIN files : files[i].logged = logged})
  IN  FlattenSeq([i \in DOMAIN own |-> rows(own[i])])

\* The splitter refuses zgrams out of order in one kind of file of a shard, and
\* zgrams in a file of the other kind.
SplitterAccepts(log, files) ==
  /\ \A logged \in BOOLEAN :
       LET rows == ZgramRows(log, files, logged)
       IN  \A i \in DOMAIN rows : i > 1 => rows[i - 1].id < rows[i].id
  /\ \A i \in DOMAIN files : \A e \in ToSet(FileText(log, files[i])) :
       e.rec.tag = "zgram" => e.rec.logged = e.logged

\* The zgrams of every shard, and the sorted rows of each kind of metadata.
Split(log, loggedFirst) ==
  LET ranges == AllRanges(log, loggedFirst)
      ends == ShardEnds(ranges)
      shard == Evaluated([i \in 1 .. NumShards |-> SubSeq(ranges, ends[i - 1] + 1, ends[i])])
      records(tag) == FlattenSeq([i \in 1 .. NumShards |-> RecordsOf(log, shard[i], tag)])
      Gather(tag, Row(_)) == LET all == records(tag) IN [i \in DOMAIN all |-> Row(all[i].rec)]
  IN  IF \E i \in 1 .. NumShards : ~SplitterAccepts(log, shard[i]) THEN Failure
      ELSE [ok |-> TRUE,
            loggedZgrams   |-> Evaluated([i \in 1 .. NumShards |-> ZgramRows(log, shard[i], TRUE)]),
            unloggedZgrams |-> Evaluated([i \in 1 .. NumShards |-> ZgramRows(log, shard[i], FALSE)]),
            reactionsByZgramId  |-> StableSort(Gather("reaction", ReactionByZgramId), <<1, 2, 3>>),
            reactionsByReaction |-> StableSort(Gather("reaction", ReactionByReaction), <<1, 2, 3>>),
            zgramRevisions |-> StableSort(Gather("revision", RevisionRow), <<1>>),
            zgramRefersTo  |-> StableSort(Gather("refersTo", RefersToRow), <<1, 2>>),
            zmojis         |-> StableSort(Gather("zmojis", ZmojisRow), <<1>>)]

-----------------------------------------------------------------------------
(* The digestor *)

\* One shard's zgrams, the logged and the unlogged merged by identifier; it
\* fails when both have one.
MergeZgrams(logged, unlogged) ==
  LET all == logged \o unlogged
      at(i) == Cardinality({j \in DOMAIN all : all[j].id < all[i].id}) + 1
  IN  IF \E a \in ToSet(logged), b \in ToSet(unlogged) : a.id = b.id THEN Failure
      ELSE [ok |-> TRUE,
            rows |-> Evaluated([p \in DOMAIN all |-> all[CHOOSE i \in DOMAIN all : at(i) = p]])]

\* The instance and the body that are indexed: those of the last revision.  lastRevisions are
\* sorted by zgram, one row each, and read once beside the zgrams.
CheckOrAdvance(zgram, lastRevisions) ==
  LET own == RowsAt(lastRevisions, {i \in DOMAIN lastRevisions : lastRevisions[i][1] = zgram.id})
  IN  IF own = <<>> THEN <<zgram.sender, zgram.signature, zgram.instance, zgram.body>>
      ELSE <<zgram.sender, zgram.signature, own[1][2], own[1][3]>>

\* How many words each field has, the fields the words are in, and the words.
Lengths(fields) == <<Len(WordsOf[fields[1]]), Len(WordsOf[fields[2]]), Len(WordsOf[fields[3]]), Len(WordsOf[fields[4]])>>
TagsOf(fields) == FlattenSeq([f \in 1 .. 4 |-> [w \in DOMAIN WordsOf[fields[f]] |-> FieldTags[f]]])
WordsIn(fields) == FlattenSeq([f \in 1 .. 4 |-> WordsOf[fields[f]]])

\* What a zgram's fields add to a shard: word and zgram offsets count from the
\* beginning of the shard.
AddZgramRow(s, zgram, fields) ==
  LET tags == TagsOf(fields)
      words == WordsIn(fields)
  IN  [s EXCEPT !.wordInfos = @ \o [w \in DOMAIN tags |->
                                      [zgramOff |-> Len(s.zgramInfos), fieldTag |-> tags[w]]],
                !.words = @ \o words,
                !.zgramInfos = Append(@, [id |-> zgram.id, location |-> zgram.location,
                                          startingWordOff |-> Len(s.words), lengths |-> Lengths(fields)])]

\* A key that was mentioned in vain gets an entry on both sides, and counts as
\* mentioned.
Copies(n, row) == [i \in 1 .. n |-> row]
AddPlusPluses(s, zgram, body) ==
  LET net == MentionsOf[body]
      keys == Ascending(DOMAIN net)
      plus(k) == IF net[k] > 0 THEN net[k] ELSE IF net[k] = 0 THEN 1 ELSE 0
      minus(k) == IF net[k] < 0 THEN - net[k] ELSE IF net[k] = 0 THEN 1 ELSE 0
  IN  [s EXCEPT
         !.plusPluses   = @ \o FlattenSeq([i \in DOMAIN keys |-> Copies(plus(keys[i]), <<keys[i], zgram.id>>)]),
         !.minusMinuses = @ \o FlattenSeq([i \in DOMAIN keys |-> Copies(minus(keys[i]), <<keys[i], zgram.id>>)]),
         !.plusPlusKeys = @ \o [i \in DOMAIN keys |-> <<zgram.id, keys[i]>>]]

\* What TrieEntriesWriter has flushed when a shard's words are done: rows
\* <<word, shard, offsets>>, in the order of the words within each flush.
TrieEntries(words, shard) ==
  LET flushes == (Len(words) + FlushThreshold - 1) \div FlushThreshold
      Flush(n) ==
        LET offs == {w \in 0 .. Len(words) - 1 : w \div FlushThreshold = n - 1}
            keys == Ascending({words[w + 1] : w \in offs})
        IN  [k \in DOMAIN keys |->
               <<keys[k], shard, Ascending({w \in offs : words[w + 1] = keys[k]})>>]
  IN  FlattenSeq([n \in 1 .. flushes |-> Flush(n)])

EmptyShard == [ok |-> TRUE, zgramInfos |-> <<>>, wordInfos |-> <<>>, words |-> <<>>,
               plusPluses |-> <<>>, minusMinuses |-> <<>>, plusPlusKeys |-> <<>>]

\* One zgram joins a shard.
DigestRow(s, zgram, lastRevisions) ==
  LET fields == CheckOrAdvance(zgram, lastRevisions)
  IN  AddPlusPluses(AddZgramRow(s, zgram, fields), zgram, fields[4])

\* One digester thread: it reads its own zgrams and all the revisions.
DigestShard(split, i) ==
  LET merged == MergeZgrams(split.loggedZgrams[i], split.unloggedZgrams[i])
      last == LastKeeper(split.zgramRevisions, 1)
  IN  IF merged.ok THEN FoldLeft(LAMBDA s, zgram : DigestRow(s, zgram, last), EmptyShard, merged.rows)
      ELSE Failure

\* How many zgrams and how many words the shards before shard i have.
ZgramsBefore(shards, i) == FoldLeft(LAMBDA n, s : n + Len(s.zgramInfos), 0, SubSeq(shards, 1, i - 1))
WordsBefore(shards, i) == FoldLeft(LAMBDA n, s : n + Len(s.wordInfos), 0, SubSeq(shards, 1, i - 1))

\* The infos of all shards: words are numbered through, whatever the shards say.
GatherZgramInfos(shards) ==
  LET all == FlattenSeq([i \in DOMAIN shards |-> shards[i].zgramInfos])
      lengths(n) == FlattenSeq([i \in 1 .. n |-> all[i].lengths])
  IN  Evaluated([n \in DOMAIN all |-> [all[n] EXCEPT !.startingWordOff = FoldLeft(+, 0, lengths(n - 1))]])

\* A mutant: every shard's zgrams are counted from its own beginning.
GatherWordInfosOfShards(shards) == FlattenSeq([i \in DOMAIN shards |-> shards[i].wordInfos])

\* The words of all shards: each shard's zgrams follow those of the one before.
GatherWordInfos(shards) ==
  FlattenSeq([i \in DOMAIN shards |->
    [w \in DOMAIN shards[i].wordInfos |->
       [shards[i].wordInfos[w] EXCEPT !.zgramOff = @ + ZgramsBefore(shards, i)]]])

\* The sorted trie entries with the shards' offsets made absolute: the offsets
\* of each word, which must ascend, or the builder fails.
MakeTrie(shards) ==
  LET entries == StableSort(FlattenSeq([i \in DOMAIN shards |-> TrieEntries(shards[i].words, i)]), <<1, 2>>)
      base(i) == WordsBefore(shards, i)
  IN  FoldLeft(LAMBDA trie, e :
                 Put(trie, e[1], At(trie, e[1], <<>>) \o [k \in DOMAIN e[3] |-> e[3][k] + base(e[2])]),
               Nothing, entries)

Ascends(offsets) == \A i \in DOMAIN offsets : i > 1 => offsets[i - 1] < offsets[i]

\* The digest of all shards, or a failure.
Digest(split) ==
  Then(Evaluated([i \in 1 .. NumShards |-> DigestShard(split, i)]), LAMBDA shards :
    LET infos == GatherZgramInfos(shards)
        trie == MakeTrie(shards)
        Gather(Rows(_), keys) == StableSort(FlattenSeq([i \in 1 .. NumShards |-> Rows(shards[i])]), keys)
    IN  IF \/ \E i \in 1 .. NumShards : ~shards[i].ok
           \/ ~Ascends([n \in DOMAIN infos |-> infos[n].id])
           \/ \E word \in DOMAIN trie : ~Ascends(trie[word])
        THEN Failure
        ELSE [ok |-> TRUE, zgramInfos |-> infos, wordInfos |-> GatherWordInfos(shards), trie |-> trie,
              plusPluses   |-> Gather(LAMBDA s : s.plusPluses, <<1, 2>>),
              minusMinuses |-> Gather(LAMBDA s : s.minusMinuses, <<1, 2>>),
              plusPlusKeys |-> Gather(LAMBDA s : s.plusPlusKeys, <<1, 2>>)])

-----------------------------------------------------------------------------
(* The string pool and the metadata *)

\* Reactions that hold at the end, one row each.
LastReactions(rows) == TrueKeeper(LastKeeper(rows, 3), 3)

\* Every string the metadata will need.
StringPool(split, digest) ==
  LET Strings(rows, cols) == {rows[i][c] : i \in DOMAIN rows, c \in cols}
  IN  UNION {Strings(LastReactions(split.reactionsByZgramId), {2, 3}),
             Strings(split.zgramRevisions, {2, 3}),
             Strings(LastKeeper(split.zmojis, 1), {1, 2}),
             Strings(digest.plusPlusKeys, {2})}

\* The rows of one map, after its filters, whose columns cols are strings,
\* as a tree of height levels.
Freeze(input, cols, height, pool) ==
  Then(input, LAMBDA rows : IF CanFreeze(rows, cols, pool) THEN Inflate(rows, height) ELSE Failure)

MakeReactions(split, pool) ==
  Freeze(PrefixGrabber(LastReactions(split.reactionsByZgramId), 3), {2, 3}, 3, pool)
MakeReactionCounts(split, pool) ==
  Freeze(Counter(PrefixGrabber(LastReactions(split.reactionsByReaction), 2), 2), {1}, 2, pool)
MakeZgramRevisions(split, pool) == Freeze(split.zgramRevisions, {2, 3}, 2, pool)
MakeZgramRefersTos(split) ==
  Freeze(PrefixGrabber(TrueKeeper(LastKeeper(split.zgramRefersTo, 2), 2), 2), {}, 2, {})
MakeZmojis(split, pool) == Freeze(LastKeeper(split.zmojis, 1), {1, 2}, 1, pool)
MakePlusPluses(rows, pool) == Freeze(rows, {1}, 2, pool)
MakePlusPlusKeys(rows, pool) == Freeze(rows, {2}, 2, pool)

MakeMetadata(split, digest, pool) ==
  [reactions      |-> MakeReactions(split, pool),
   reactionCounts |-> MakeReactionCounts(split, pool),
   zgramRevisions |-> MakeZgramRevisions(split, pool),
   zgramRefersTo  |-> MakeZgramRefersTos(split),
   zmojis         |-> MakeZmojis(split, pool),
   plusPluses     |-> MakePlusPluses(digest.plusPluses, pool),
   minusMinuses   |-> MakePlusPluses(digest.minusMinuses, pool),
   plusPlusKeys   |-> MakePlusPlusKeys(digest.plusPlusKeys, pool)]

\* The frozen index of a log, or a failure of one of the stages.
BuildIndex(log, loggedFirst) ==
  Then(Split(log, loggedFirst), LAMBDA split :
    IF ~split.ok THEN Failure
    ELSE Then(Digest(split), LAMBDA digest :
      IF ~digest.ok THEN Failure
      ELSE Then(StringPool(split, digest), LAMBDA pool :
           Then(MakeMetadata(split, digest, pool), LAMBDA maps :
             IF \E m \in DOMAIN maps : ~maps[m].ok THEN Failure
             ELSE [ok |-> TRUE, strings |-> pool,
                   zgramInfos |-> digest.zgramInfos, wordInfos |-> digest.wordInfos, trie |-> digest.trie,
                   metadata |-> [m \in DOMAIN maps |-> maps[m].value]]))))

=============================================================================
