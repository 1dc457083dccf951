------------------------------ MODULE LogStore ------------------------------
(* The consolidated index over its logs: zgrams and metadata are appended to   *)
(* the log of their kind and added to the dynamic index; every ten minutes a   *)
(* thread builds a new frozen index from the logs up to a checkpoint while the *)
(* Server goes on, and the Server then starts over from the new index and      *)
(* whatever the logs hold beyond it.  The process may die between any two      *)
(* steps.                                                                      *)
EXTENDS Naturals, Sequences, FiniteSetsExt, SequencesExt

CONSTANTS LastDay,         \* a bound on the days
          Lifespan,        \* magicConstants::unloggedLifespan, in days
          Batches,         \* what one PostZgrams may carry: a kind per zgram
          MaxRecords, MaxCrashes, MaxFailures

Kinds == {"logged", "unlogged"}
FirstDay == Lifespan + 1

ASSUME LogStoreAssumption ==
  /\ LastDay \in Nat /\ Lifespan \in Nat /\ FirstDay <= LastDay
  /\ \A batch \in Batches: batch \in Seq(Kinds) /\ batch # <<>>

VARIABLES
  today,
  files,          \* kind -> day -> records: the plaintext files
  published,      \* z2k.index in the index directory
  scratch,        \* z2k.index in the scratch directory
  serving,        \* "down", "serving", or "stopped": the Server thread has ended
  frozen, dynamic,   \* the two parts of the index in memory
  state,          \* kind -> day and size of the open log: loggedState_, unloggedState_
  posting,        \* the Server is between the two writes for these cooked records
  reindexing,     \* the reindexing thread: its step and its ranges
  written, crashes, failures,
  acknowledged,   \* history: zgrams, and metadata, that were accepted
  halfWritten,    \* history: the second write of a batch failed
  quietWeek,      \* history: a lifespan passed without graffiti
  refused         \* history: a start or a build failed

disk == <<files, published, scratch>>
memory == <<frozen, dynamic, state>>
bounds == <<written, crashes, failures>>
history == <<acknowledged, halfWritten, quietWeek, refused>>
vars == <<today, disk, serving, memory, posting, reindexing, bounds, history>>

--------------------------------------------------------------------------------
(* The plaintext logs: one file per day and kind, only ever appended to, and   *)
(* the positions and ranges by which the indices name parts of them.  The      *)
(* offset of a record is its place in the file.                                *)

Position(day, offset) == <<day, offset>>
Zero == Position(0, 0)
Infinity == Position(LastDay + 1, 0)

Before(p, q) == p[1] < q[1] \/ (p[1] = q[1] /\ p[2] < q[2])
Later(p, q) == IF Before(p, q) THEN q ELSE p

InterFileRange(begin, end) == [begin |-> begin, end |-> end]
Everything == InterFileRange(Zero, Infinity)
Within(range, p) == ~Before(p, range.begin) /\ Before(p, range.end)

\* Where a record begins, and where the next one may.
PositionOf(at) == Position(at.day, at.offset)
Behind(at) == Position(at.day, at.offset + 1)

\* The records of a file, each with its location.
ParseLogFile(file, kind, day) ==
  {[record |-> file[i], at |-> [kind |-> kind, day |-> day, offset |-> i - 1]]: i \in 1..Len(file)}

\* What the files of a kind hold.
Contents(logs, kind) == UNION {ParseLogFile(logs[day], kind, day): day \in DOMAIN logs}

\* What they hold in a range: LogAnalyzer finds the part of each file that is in
\* the range, LogParser reads it.
ReadRange(logs, kind, range) == {l \in Contents(logs, kind): Within(range, PositionOf(l.at))}

\* The end of the last part that was found.
EndOf(located) ==
  IF located = {} THEN Zero
  ELSE Behind((CHOOSE l \in located: \A m \in located: ~Before(PositionOf(l.at), PositionOf(m.at))).at)

\* The file exists and its size is the offset, or it does not and is created.
CanAppend(logs, start) == start[1] \in DOMAIN logs => Len(logs[start[1]]) = start[2]
Opened(logs, start) ==
  IF start[1] \in DOMAIN logs THEN logs
  ELSE [day \in DOMAIN logs \union {start[1]} |-> IF day = start[1] THEN <<>> ELSE logs[day]]

--------------------------------------------------------------------------------
NoIndex == [ends |-> [k \in Kinds |-> Zero], zgrams |-> {}, metadata |-> {}, exists |-> FALSE]
Index(ends, zgrams, metadata) ==
  [ends |-> ends, zgrams |-> zgrams, metadata |-> metadata, exists |-> TRUE]
NoDynamic == [zgrams |-> {}, metadata |-> {}]
NotOpen == [k \in Kinds |-> Zero]
NoReindexing == [step |-> "none", ranges |-> [k \in Kinds |-> Everything]]

Zgram(id, body) == [type |-> "zgram", id |-> id, body |-> body]
Metadata(id, body) == [type |-> "metadata", id |-> id, body |-> body]

\* The identifier, what the words say, and where the text is.
ZgramInfo(l) == [id |-> l.record.id, body |-> l.record.body, at |-> l.at]
Infos(located) == {ZgramInfo(l): l \in {m \in located: m.record.type = "zgram"}}
MetadataOf(located) == {l.record: l \in {m \in located: m.record.type = "metadata"}}

\* The identifiers grow from location to location; no two zgrams have the same.
InOrder(infos) == \A a, b \in infos: Before(PositionOf(a.at), PositionOf(b.at)) => a.id < b.id
NoneTwice(infos) == \A a, b \in infos: a.id = b.id => a = b

--------------------------------------------------------------------------------
(* IndexBuilder::tryBuild: the splitter wants the zgrams of each kind in order,  *)
(* the digestor merges the two kinds and wants no identifier twice.              *)
BuildRecords(ranges) == [k \in Kinds |-> ReadRange(files[k], k, ranges[k])]

Together(records) == records["logged"] \union records["unlogged"]

CanBuild(records) ==
  /\ \A k \in Kinds: InOrder(Infos(records[k]))
  /\ NoneTwice(Infos(Together(records)))

Build(records) ==
  Index([k \in Kinds |-> EndOf(records[k])],
        Infos(Together(records)),
        MetadataOf(Together(records)))

(* ConsolidatedIndex::tryCreate: the published index, and what the logs hold     *)
(* beyond it.                                                                    *)

\* Slip: only what was written today.
DynamicRecordsOfToday ==
  [k \in Kinds |-> ReadRange(files[k], k,
     InterFileRange(Later(published.ends[k], Position(today, 0)), Infinity))]

DynamicRecords == [k \in Kinds |-> ReadRange(files[k], k, InterFileRange(published.ends[k], Infinity))]

\* Slip: what was read again is not counted.
CalcStartOfFrozen(records, k) == Later(Position(today, 0), published.ends[k])

CalcStart(records, k) == Later(Later(Position(today, 0), published.ends[k]), EndOf(records[k]))

CanBootstrap(records) ==
  /\ \A k \in Kinds: CanAppend(files[k], CalcStart(records, k))
  /\ NoneTwice(Infos(Together(records)))

Bootstrap(records) ==
  /\ frozen' = published
  /\ dynamic' = [zgrams |-> Infos(Together(records)), metadata |-> MetadataOf(Together(records))]
  /\ state' = [k \in Kinds |-> CalcStart(records, k)]
  /\ files' = [k \in Kinds |-> Opened(files[k], CalcStart(records, k))]

--------------------------------------------------------------------------------
Init ==
  /\ today = FirstDay
  /\ files = [k \in Kinds |-> [day \in {} |-> <<>>]]
  /\ published = NoIndex /\ scratch = NoIndex
  /\ serving = "down"
  /\ frozen = NoIndex /\ dynamic = NoDynamic /\ state = NotOpen
  /\ posting = <<>> /\ reindexing = NoReindexing
  /\ written = 0 /\ crashes = 0 /\ failures = 0
  /\ acknowledged = {} /\ halfWritten = FALSE /\ quietWeek = FALSE /\ refused = FALSE

HasGraffiti(oldest) ==
  \E day \in DOMAIN files["unlogged"]:
    /\ day >= oldest
    /\ \E i \in 1..Len(files["unlogged"][day]): files["unlogged"][day][i].type = "zgram"

\* UTC midnight.  The index is rebuilt every ten minutes, so a lifespan never
\* passes without.  It may pass without graffiti, though there once were some.
NewDay ==
  /\ today < LastDay
  /\ serving = "serving" /\ reindexing.step # "given up" => today < state["unlogged"][1] + Lifespan
  /\ today' = today + 1
  /\ quietWeek' = (quietWeek \/ (HasGraffiti(0) /\ ~HasGraffiti(today + 1 - Lifespan)))
  /\ UNCHANGED <<disk, serving, memory, posting, reindexing, bounds, acknowledged, halfWritten, refused>>

\* tryStartServer without an index file: the first is built from everything.
BuildFirstIndex ==
  /\ serving = "down" /\ ~published.exists
  /\ \E records \in {BuildRecords([k \in Kinds |-> Everything])}:
       IF CanBuild(records)
       THEN published' = Build(records) /\ scratch' = NoIndex /\ UNCHANGED refused
       ELSE refused' = TRUE /\ UNCHANGED <<published, scratch>>
  /\ UNCHANGED <<today, files, serving, memory, posting, reindexing, bounds, acknowledged, halfWritten, quietWeek>>

Start ==
  /\ serving = "down" /\ published.exists
  /\ \E records \in {DynamicRecords}:
       IF CanBootstrap(records)
       THEN Bootstrap(records) /\ serving' = "serving" /\ UNCHANGED refused
       ELSE refused' = TRUE /\ UNCHANGED <<files, memory, serving>>
  /\ UNCHANGED <<today, published, scratch, posting, reindexing, bounds, acknowledged, halfWritten, quietWeek>>

--------------------------------------------------------------------------------
Idle == serving = "serving" /\ posting = <<>> /\ reindexing.step # "reset"

\* The identifier behind the last.
EndId(zgrams) == IF zgrams = {} THEN 0 ELSE Max({z.id: z \in zgrams}) + 1

\* Slip: the frozen index is forgotten.
NextZgramIdOfDynamic == EndId(dynamic.zgrams)

\* The zgrams of the dynamic index follow those of the frozen one.
NextZgramId == IF dynamic.zgrams # {} THEN EndId(dynamic.zgrams) ELSE EndId(frozen.zgrams)

\* Which of the cooked records are of a kind, and these records in their order.
OfKind(cooked, k) == {i \in DOMAIN cooked: cooked[i].at.kind = k}
Ahead(places, i) == Cardinality({j \in places: j < i})
RecordsOf(cooked, k) ==
  LET own == OfKind(cooked, k)
  IN [n \in 1..Cardinality(own) |-> cooked[CHOOSE i \in own: Ahead(own, i) = n - 1].record]

\* Slip: every location is that of the first.
CookInPlace(batch) ==
  [i \in 1..Len(batch) |->
    [record |-> Zgram(NextZgramId + i - 1, written + i),
     at |-> [kind |-> batch[i], day |-> state[batch[i]][1], offset |-> state[batch[i]][2]]]]

\* Each zgram gets its identifier and its location behind what is already written.
Cook(batch) ==
  [i \in 1..Len(batch) |->
    LET k == batch[i]
        ahead == Ahead({j \in DOMAIN batch: batch[j] = k}, i)
    IN [record |-> Zgram(NextZgramId + i - 1, written + i),
        at |-> [kind |-> k, day |-> state[k][1], offset |-> state[k][2] + ahead]]]

AppendAndFlush(k, records) ==
  /\ files' = [files EXCEPT ![k][state[k][1]] = @ \o records]
  /\ state' = [state EXCEPT ![k][2] = @ + Len(records)]

\* tryAddZgramsHelper up to the first write.
Post(batch) ==
  LET cooked == Cook(batch)
  IN /\ Idle /\ written + Len(batch) <= MaxRecords
     /\ AppendAndFlush("logged", RecordsOf(cooked, "logged"))
     /\ posting' = cooked
     /\ written' = written + Len(batch)
     /\ UNCHANGED <<today, published, scratch, serving, frozen, dynamic, reindexing,
                    crashes, failures, history>>

\* The second write and the index; the identifiers follow the last one there is.
FinishPost ==
  /\ serving = "serving" /\ posting # <<>>
  /\ AppendAndFlush("unlogged", RecordsOf(posting, "unlogged"))
  /\ dynamic' = [dynamic EXCEPT !.zgrams = @ \union Infos(ToSet(posting))]
  /\ posting' = <<>>
  /\ acknowledged' = acknowledged \union ToSet(posting)
  /\ UNCHANGED <<today, published, scratch, serving, frozen, reindexing, bounds, halfWritten, quietWeek, refused>>

\* The second write fails: the page gets a GeneralError and the Server goes on.
FailPost ==
  /\ serving = "serving" /\ OfKind(posting, "unlogged") # {} /\ failures < MaxFailures
  /\ posting' = <<>>
  /\ failures' = failures + 1
  /\ halfWritten' = (halfWritten \/ OfKind(posting, "logged") # {})
  /\ UNCHANGED <<today, disk, serving, memory, reindexing, written, crashes, acknowledged, quietWeek, refused>>

\* lowerBound looks in the frozen index first.
Find(id) ==
  LET zgrams == IF \E z \in frozen.zgrams: z.id >= id THEN frozen.zgrams ELSE dynamic.zgrams
  IN {z \in zgrams: z.id = id}

\* Metadata about a zgram go to the log of that zgram's kind, zmojis to that of
\* the first zgram.
DetermineLogged(zgram) == zgram.at.kind

AddMetadata(id) ==
  LET record == Metadata(id, written + 1)
  IN /\ Idle
     /\ written < MaxRecords
     /\ \E zgram \in Find(id):
          /\ AppendAndFlush(DetermineLogged(zgram), <<record>>)
          /\ acknowledged' = acknowledged \union {[record |-> record, at |-> zgram.at]}
     /\ written' = written + 1
     /\ dynamic' = [dynamic EXCEPT !.metadata = @ \union {record}]
     /\ UNCHANGED <<today, published, scratch, serving, frozen, posting, reindexing,
                    crashes, failures, halfWritten, quietWeek, refused>>

--------------------------------------------------------------------------------
(* Server::tryManageReindexing and the reindexing thread.                        *)
To(step) == reindexing' = [reindexing EXCEPT !.step = step]

Checkpoint == state

StartReindexing ==
  /\ Idle /\ reindexing.step = "none"
  /\ reindexing' =
       [step |-> "started",
        ranges |-> [k \in Kinds |->
          InterFileRange(IF k = "logged" THEN Zero ELSE Position(today - Lifespan, 0), Checkpoint[k])]]
  /\ UNCHANGED <<today, disk, serving, memory, posting, bounds, history>>

ClearScratchDirectory ==
  /\ reindexing.step = "started"
  /\ scratch' = NoIndex
  /\ To("cleared")
  /\ UNCHANGED <<today, files, published, serving, memory, posting, bounds, history>>

RunBuild ==
  /\ reindexing.step = "cleared"
  /\ \E records \in {BuildRecords(reindexing.ranges)}:
       IF CanBuild(records)
       THEN scratch' = Build(records) /\ To("built") /\ UNCHANGED refused
       ELSE To("failed") /\ refused' = TRUE /\ UNCHANGED scratch
  /\ UNCHANGED <<today, files, published, serving, memory, posting, bounds, acknowledged, halfWritten, quietWeek>>

PublishBuild ==
  /\ reindexing.step = "built"
  /\ published' = scratch /\ scratch' = NoIndex
  /\ To("done")
  /\ UNCHANGED <<today, files, serving, memory, posting, bounds, history>>

\* A failed build: none is tried for a thousand days.
GiveUp ==
  /\ Idle /\ reindexing.step = "failed"
  /\ To("given up")
  /\ UNCHANGED <<today, disk, serving, memory, posting, bounds, history>>

\* If the new index cannot be loaded the Server thread ends.
ResetIndex ==
  /\ Idle /\ reindexing.step = "done"
  /\ \E records \in {DynamicRecords}:
       IF CanBootstrap(records)
       THEN Bootstrap(records) /\ To("reset") /\ UNCHANGED <<serving, refused>>
       ELSE serving' = "stopped" /\ refused' = TRUE /\ UNCHANGED <<files, memory, reindexing>>
  /\ UNCHANGED <<today, published, scratch, posting, bounds, acknowledged, halfWritten, quietWeek>>

\* Slip: one day too many.
DaysToKeepFewer ==
  {day \in DOMAIN files["unlogged"]: day > reindexing.ranges["unlogged"].begin[1]}

DaysToKeep == {day \in DOMAIN files["unlogged"]: day >= reindexing.ranges["unlogged"].begin[1]}

\* Slip: as after a failure.
RescheduledNever == [NoReindexing EXCEPT !.step = "given up"]

Rescheduled == NoReindexing

Cleanup ==
  /\ serving = "serving" /\ reindexing.step = "reset"
  /\ files' = [files EXCEPT !["unlogged"] = [day \in DaysToKeep |-> @[day]]]
  /\ reindexing' = Rescheduled
  /\ UNCHANGED <<today, published, scratch, serving, memory, posting, bounds, history>>

\* The process dies, or is stopped.
Crash ==
  /\ serving # "down" /\ crashes < MaxCrashes
  /\ serving' = "down"
  /\ frozen' = NoIndex /\ dynamic' = NoDynamic /\ state' = NotOpen
  /\ posting' = <<>> /\ reindexing' = NoReindexing
  /\ crashes' = crashes + 1
  /\ UNCHANGED <<today, disk, written, failures, history>>

--------------------------------------------------------------------------------
Requests ==
  \/ \E batch \in Batches: Post(batch)
  \/ \E id \in 0..MaxRecords - 1: AddMetadata(id)
ServerThread == FinishPost \/ StartReindexing \/ GiveUp \/ ResetIndex \/ Cleanup
ReindexingThread == ClearScratchDirectory \/ RunBuild \/ PublishBuild
Startup == BuildFirstIndex \/ Start

Next == NewDay \/ Startup \/ Requests \/ FailPost \/ ServerThread \/ ReindexingThread \/ Crash

Spec == Init /\ [][Next]_vars

\* The threads run; an administrator starts a process that died.
FairSpec == Spec /\ WF_vars(Startup) /\ WF_vars(ServerThread) /\ WF_vars(ReindexingThread)

--------------------------------------------------------------------------------
(* What the log store keeps, through posts, rebuilds, restarts and crashes, as  *)
(* long as no lifespan passes without graffiti.  When one does, nothing is left *)
(* in the files of how far the unlogged log had come: the next index takes it   *)
(* from the beginning again, and identifiers are given out a second time.       *)

Posted == {a \in acknowledged: a.record.type = "zgram"}
Expired(at) == at.kind = "unlogged" /\ at.day + Lifespan < today
All == frozen.zgrams \union dynamic.zgrams
Has(a) == \E z \in All: z.id = a.record.id /\ z.body = a.record.body

\* "Incoming zephyrgrams are assigned their permanent IDs": an identifier names
\* one zgram for ever, whatever restarts and rebuilds come between, until a
\* lifespan has passed without graffiti.
PermanentIds == ~quietWeek => \A a, b \in Posted: a.record.id = b.record.id => a = b

\* No identifier twice, and the frozen index before the dynamic one.
InTheirOrder == NoneTwice(All) /\ \A f \in frozen.zgrams, d \in dynamic.zgrams: f.id < d.id

\* Whenever the backend serves, its index has every zgram it ever acknowledged,
\* but for graffiti older than their lifespan: nothing falls between the frozen
\* index and the part of the logs that is read again, and nothing is lost to a
\* crash between a write and the next step.  Frozen before dynamic, it is in the
\* order of the identifiers, which is what every search by bisection and every
\* subscription's range rely on.  So it is until a lifespan passes without graffiti.
AcknowledgedKept ==
  serving = "serving" /\ ~quietWeek =>
    /\ \A a \in Posted: Expired(a.at) \/ Has(a)
    /\ halfWritten \/ InTheirOrder

\* What the index says of a zgram is in the file it names, at that offset: the
\* cleanup unlinks nothing that is still referred to, and locations computed
\* before a write are where the write put the text.  So it is until a lifespan
\* passes without graffiti.
LocationsHold ==
  serving = "serving" /\ ~quietWeek =>
    \A z \in All:
      /\ z.at.day \in DOMAIN files[z.at.kind]
      /\ z.at.offset < Len(files[z.at.kind][z.at.day])
      /\ files[z.at.kind][z.at.day][z.at.offset + 1] = Zgram(z.id, z.body)

\* The backend can always be started again, and every rebuild succeeds: the logs
\* never hold what the splitter, the digestor or the dynamic index refuse, unless
\* a write failed half way or a lifespan passed without graffiti.
NeverRefused == ~halfWritten /\ ~quietWeek => ~refused

Zgrams(located) ==
  {[id |-> l.id, body |-> l.body, kind |-> l.at.kind, day |-> l.at.day]: l \in located}

Store == INSTANCE DurableStore WITH
  content <- IF serving = "serving" THEN Zgrams(All) ELSE {},
  acknowledged <- Zgrams({[id |-> a.record.id, body |-> a.record.body, at |-> a.at]: a \in Posted}),
  damaged <- halfWritten \/ quietWeek

\* The log store implements DurableStore; half a write and a lifespan without
\* graffiti are its damage.
ImplementsDurableStore == Store!Spec

\* Graffiti do vanish: a file of unlogged zgrams older than the lifespan is
\* removed in the end, whatever crashes, unless a write failed half way or a
\* lifespan passed without newer graffiti.
GraffitiVanish ==
  \A day \in FirstDay..LastDay:
    day \in DOMAIN files["unlogged"] /\ day + Lifespan < today
      ~> day \notin DOMAIN files["unlogged"] \/ halfWritten \/ quietWeek
=============================================================================
