----------------------------- MODULE IndexState -----------------------------
(***************************************************************************)
(* The index of a running backend as it grows with posts and metadata and  *)
(* is replaced by rebuilds, beside the logs it is a reading of.  The       *)
(* frozen index is the builder's answer for a prefix of the logs; the      *)
(* dynamic index was either added to record by record or read back from    *)
(* the rest of the logs.  Which files and offsets are covered, crashes     *)
(* between the steps, and the expiry of graffiti are the business of       *)
(* LogStore.                                                               *)
(***************************************************************************)
EXTENDS MetadataIndex

CONSTANTS
  Graffiti,              \* the instances that are not logged
  MaxBuilds, MaxDays     \* bounds

ASSUME StateAssumption == MaxBuilds \in Nat /\ MaxDays \in Nat

VARIABLES
  log,         \* every record of the log files, in the order it was written
  day,         \* the day of the files that are open
  checkpoint,  \* how much of the log a running build reads, or Idle
  builds,      \* how many builds there were
  frozenEnd,   \* how much of the log the frozen index covers
  frozen, dynamic, cache,
  disturbed    \* history: zgrams whose plus-plus counts met one of two known flaws
stateVars == <<log, day, checkpoint, builds, frozenEnd, frozen, dynamic, cache, disturbed>>

Idle == -1
EmptyLog == <<>>
\* No build has failed, nor has any bootstrap.
Running == frozen.ok /\ dynamic.ok

StateInit ==
  /\ log = EmptyLog /\ day = 0 /\ checkpoint = Idle /\ builds = 0
  /\ frozenEnd = 0 /\ frozen = BuildIndex(EmptyLog, TRUE) /\ dynamic = EmptyIndex
  /\ cache = Nothing /\ disturbed = {}

IsZgram(e) == e.rec.tag = "zgram"
Zgrams == RowsAt(log, {i \in DOMAIN log : IsZgram(log[i])})
Ids == {Zgrams[i].rec.id : i \in DOMAIN Zgrams}
Known(id) == FindZgram(frozen, dynamic, id) # 0

\* What posts change, as one value.
Written == [log |-> log, dynamic |-> dynamic, cache |-> cache]

\* The entry a record makes at the end of an open file.
Entry(now, rec, logged) ==
  [day |-> day, logged |-> logged, rec |-> rec,
   location |-> [day |-> day, logged |-> logged,
                 offset |-> Len(FileText(now.log, [day |-> day, logged |-> logged]))]]

\* A zgram of a user gets its identifier, is written, and joins the dynamic
\* index and the counts.
AddZgrams(now, user, draft) ==
  LET logged == draft.instance \notin Graffiti
      zgram == [tag |-> "zgram", id |-> ZgramEnd(frozen, now.dynamic), sender |-> user, signature |-> user,
                instance |-> draft.instance, body |-> draft.body, logged |-> logged]
      entry == Entry(now, zgram, logged)
      added == AddLogRecord(frozen, now.dynamic, entry)
      ppm == PpmAddAll(frozen, added, <<zgram>>)
  IN  [log |-> Append(now.log, entry), dynamic |-> BatchUpdatePlusPlusCounts(added, ppm.delta),
       cache |-> now.cache, delta |-> ppm.delta]

\* Metadata of a zgram go to the files the zgram is in.  Zmojis, which are about
\* no zgram, go where the first zgram of the index is.
DeterminesFile(dyn, r) == IF r.tag = "zmojis" THEN 1 ELSE FindZgram(frozen, dyn, r.id)
DetermineLogged(dyn, r) == ZgramInfos(frozen, dyn)[DeterminesFile(dyn, r)].location.logged

\* Without a first zgram, zmojis end the process.
CanPlace(records) ==
  ZgramInfos(frozen, dynamic) = <<>> => \A i \in DOMAIN records : records[i].tag # "zmojis"

\* The zgrams that a batch revises more than once.
RevisedTwice(records) ==
  {id \in {records[i].id : i \in {j \in DOMAIN records : records[j].tag = "revision"}} :
     Cardinality({i \in DOMAIN records : records[i].tag = "revision" /\ records[i].id = id}) > 1}

\* A batch of metadata: the counts are computed against the index as it was,
\* then the records are written, the logged ones first, and join the index.
AddMetadata(now, records) ==
  LET ppm == PpmAddAll(frozen, now.dynamic, records)
      Entries(logged) == LET own == RowsAt(records, {i \in DOMAIN records : DetermineLogged(now.dynamic, records[i]) = logged})
                         IN  [i \in DOMAIN own |-> Entry(now, own[i], logged)]
      added == [now.dynamic EXCEPT !.metadata = FoldLeft(LAMBDA m, r : AddMetadataRecord(frozen, m, r), @, records)]
      finished == PpmFinish(frozen, added, now.cache, now.log, ppm)
  IN  [log |-> now.log \o Entries(TRUE) \o Entries(FALSE),
       dynamic |-> BatchUpdatePlusPlusCounts(added, finished.delta),
       cache |-> finished.cache, delta |-> finished.delta]

\* The state after some posts.
Write(now) ==
  /\ log' = now.log /\ dynamic' = now.dynamic /\ cache' = now.cache
  /\ UNCHANGED <<day, checkpoint, builds, frozenEnd, frozen>>

\* The infos of some zgrams.
InfosOf(ids) ==
  [i \in 1 .. Cardinality(ids) |-> ZgramInfos(frozen, dynamic)[FindZgram(frozen, dynamic, Ascending(ids)[i])]]

\* What a bootstrap reads behind the frozen index: the logged files, then the
\* others, zgrams by their identifiers before all metadata.
DynamicRecords(end) ==
  LET rest == SubSeq(log, end + 1, Len(log))
      inFiles == RowsAt(rest, {i \in DOMAIN rest : rest[i].logged}) \o RowsAt(rest, {i \in DOMAIN rest : ~rest[i].logged})
      keyed == [i \in DOMAIN inFiles |->
                  IF IsZgram(inFiles[i]) THEN <<0, inFiles[i].rec.id, i>> ELSE <<1, 0, i>>]
      sorted == StableSort(keyed, <<1, 2>>)
  IN  [i \in DOMAIN sorted |-> inFiles[sorted[i][3]]]

\* The new dynamic index of a bootstrap: all records join it before the counts
\* are computed.
Bootstrapped(newFrozen, end) ==
  LET entries == DynamicRecords(end)
      records == [i \in DOMAIN entries |-> entries[i].rec]
  IN  Then(AddLogRecords(newFrozen, EmptyIndex, entries), LAMBDA added :
        IF ~added.ok THEN [dynamic |-> Failure, cache |-> Nothing]
        ELSE Then(PpmFinish(newFrozen, added, Nothing, log, PpmAddAll(newFrozen, added, records)), LAMBDA finished :
               [dynamic |-> BatchUpdatePlusPlusCounts(added, finished.delta), cache |-> finished.cache]))
Bootstrap(newFrozen, end) ==
  /\ \E b \in {Bootstrapped(newFrozen, end)} : dynamic' = b.dynamic /\ cache' = b.cache
  /\ disturbed' = {log[i].rec.id : i \in {j \in end + 1 .. Len(log) : log[j].rec.tag = "revision"}}

\* The day of the files that a bootstrap opens: today's.
Today == day .. (IF day < MaxDays THEN day + 1 ELSE day)

\* A build begins: it will read what the files hold now.
StartReindexing ==
  /\ Running
  /\ checkpoint = Idle /\ builds < MaxBuilds
  /\ checkpoint' = Len(log) /\ builds' = builds + 1
  /\ UNCHANGED <<log, day, frozenEnd, frozen, dynamic, cache, disturbed>>

\* The build is done and published, and the index is reset to it.
ResetIndex ==
  /\ Running
  /\ checkpoint # Idle
  /\ \E loggedFirst \in BOOLEAN : frozen' = BuildIndex(SubSeq(log, 1, checkpoint), loggedFirst)
  /\ day' \in Today
  /\ frozenEnd' = checkpoint /\ checkpoint' = Idle
  /\ IF frozen'.ok THEN Bootstrap(frozen', checkpoint) ELSE UNCHANGED <<dynamic, cache, disturbed>>
  /\ UNCHANGED <<log, builds>>

\* The process starts again with the index it had published.
Restart ==
  /\ Running
  /\ checkpoint' = Idle
  /\ day' \in Today
  /\ Bootstrap(frozen, frozenEnd)
  /\ UNCHANGED <<log, builds, frozenEnd, frozen>>

=============================================================================
