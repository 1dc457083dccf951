--------------------------- MODULE LogStoreProofs ---------------------------
(* Proofs about the log store: until a lifespan passes without graffiti        *)
(* identifiers are permanent, what was acknowledged is kept until it expires,  *)
(* every location in the index holds, and no start or rebuild is refused       *)
(* unless a write failed half way; all of it implements DurableStore.          *)
EXTENDS LogStore, FiniteSetTheorems, SequenceTheorems, WellFoundedInduction, TLAPS

Positions == Nat \X Nat
Records == [type: {"zgram", "metadata"}, id: Nat, body: Nat]
Locations == [kind: Kinds, day: Nat, offset: Nat]
Located == [record: Records, at: Locations]
ZgramInfos == [id: Nat, body: Nat, at: Locations]
Indices == [ends: [Kinds -> Positions], zgrams: SUBSET ZgramInfos, metadata: SUBSET Records, exists: BOOLEAN]
Steps == {"none", "started", "cleared", "built", "done", "reset", "failed", "given up"}

LogFilesOK(fs, now) == DOMAIN fs \subseteq FirstDay..now /\ fs \in [DOMAIN fs -> Seq(Records)]

LogStoreTypeOK ==
  /\ today \in FirstDay..LastDay
  /\ files = [k \in Kinds |-> files[k]] /\ \A k \in Kinds: LogFilesOK(files[k], today)
  /\ published \in Indices /\ scratch \in Indices /\ frozen \in Indices
  /\ dynamic \in [zgrams: SUBSET ZgramInfos, metadata: SUBSET Records]
  /\ state \in [Kinds -> Positions]
  /\ serving \in {"down", "serving", "stopped"}
  /\ posting \in Seq(Located)
  /\ reindexing \in [step: Steps, ranges: [Kinds -> [begin: Positions, end: Positions]]]
  /\ written \in Nat /\ crashes \in Nat /\ failures \in Nat
  /\ acknowledged \subseteq Located /\ halfWritten \in BOOLEAN /\ refused \in BOOLEAN

Logs(k) == Contents(files[k], k)
LogRecords == Logs("logged") \union Logs("unlogged")
InLogs == Infos(LogRecords)
Accepted == Infos(acknowledged)
OfLog(infos, k) == {z \in infos: z.at.kind = k}
Graffiti == OfLog(Accepted, "unlogged")

\* The zgrams that count: the accepted ones, and what else is in the logs unless
\* a write failed half way.
Known == IF halfWritten THEN Accepted ELSE Accepted \union InLogs

Begins(z) == PositionOf(z.at)
IsBefore(z, ends) == Before(Begins(z), ends[z.at.kind])
IsOld(z, now) == z.at.kind = "unlogged" /\ z.at.day + Lifespan < now

(* The logs, whatever the process does.                                        *)
LogsOK ==
  /\ InOrder(Graffiti) /\ OfLog(InLogs, "unlogged") \subseteq Graffiti
  /\ NoneTwice(Known)
  /\ \A a \in Accepted: a \in InLogs \/ IsOld(a, today)
  /\ \A a \in Accepted: a.at.day <= today
  /\ \A l \in InLogs: l.id < written
  /\ ~halfWritten => InOrder(OfLog(InLogs, "logged")) /\ ~refused

(* Below some ends there is nothing newer than what is behind them, and all that *)
(* was unlinked was below them.                                                  *)
CutsWell(ends, known, accepted, logs) ==
  /\ \A a \in known, l \in logs: IsBefore(a, ends) /\ ~IsBefore(l, ends) => a.id < l.id
  /\ \A a \in accepted: a \in logs \/ IsBefore(a, ends)

(* An index of the logs up to its ends: it has all that is not old, and something *)
(* newer than anything it leaves out.                                             *)
Covers(index, known, now) ==
  \A a \in known: IsBefore(a, index.ends) =>
    a \in index.zgrams \/ (IsOld(a, now) /\ \E z \in index.zgrams: a.id < z.id)

EndsIn(ends, located) ==
  \A k \in Kinds: ends[k] = Zero \/ \E l \in located: l.at.kind = k /\ ends[k] = Behind(l.at)

IndexOK(index, known, accepted, located, now) ==
  /\ index.zgrams \subseteq Infos(located) /\ NoneTwice(index.zgrams)
  /\ \A z \in index.zgrams: IsBefore(z, index.ends)
  /\ CutsWell(index.ends, known, accepted, Infos(located))
  /\ Covers(index, known, now)
  /\ EndsIn(index.ends, located)

PublishedOK == IndexOK(published, Known, Accepted, LogRecords, today)

(* Somebody wrote graffiti lately.  After a rebuild was given up graffiti may go *)
(* to an old file; then no rebuild ever succeeds again.                          *)
Ranges == reindexing.ranges
PartEnds == [k \in Kinds |-> Ranges[k].end]
Oldest == Ranges["unlogged"].begin[1]
InPart(z, ranges) == Within(ranges[z.at.kind], Begins(z))
Spoilt == ~InOrder(OfLog(InLogs, "logged"))
Doomed ==
  IF reindexing.step \in {"started", "cleared"}
  THEN ~InOrder({z \in InLogs: z.at.kind = "logged" /\ InPart(z, Ranges)})
  ELSE reindexing.step \in {"none", "failed", "given up"} /\ Spoilt

NeverQuiet ==
  Graffiti # {} =>
    /\ OfLog(InLogs, "unlogged") # {}
    /\ Doomed \/ \E g \in OfLog(InLogs, "unlogged"): ~IsOld(g, today)

GivenUpOK ==
  reindexing.step \in {"failed", "given up"} => Spoilt \/ OfLog(InLogs, "unlogged") # {}

(* The reindexing.                                                              *)
Building == reindexing.step \in {"started", "cleared", "built"}

Reaches(ranges, ends, known, logs, now) ==
  \A a \in known: IsBefore(a, ends) =>
    \/ a \in logs /\ InPart(a, ranges)
    \/ IsOld(a, now) /\ \E g \in OfLog(logs, "unlogged"): InPart(g, ranges) /\ a.id < g.id

PartsOK ==
  Building =>
    /\ CutsWell(PartEnds, Known, Accepted, InLogs)
    /\ Ranges["logged"].begin = Zero
    /\ \A k \in Kinds: ~Before(state[k], PartEnds[k])
    /\ PartEnds["unlogged"][1] >= Oldest
    /\ Doomed \/ Reaches(Ranges, PartEnds, Known, InLogs, today)

CleansUp(index, oldest, logs) ==
  /\ \A z \in index.zgrams: z.at.kind = "unlogged" => z.at.day >= oldest
  /\ \A l \in OfLog(logs, "unlogged"): IsBefore(l, index.ends) \/ l.at.day >= oldest
  /\ index.ends["unlogged"] = Zero \/ index.ends["unlogged"][1] >= oldest

ReindexingOK ==
  /\ serving = "down" => reindexing.step = "none"
  /\ serving = "stopped" => reindexing.step = "done"
  /\ reindexing.step \in {"started", "cleared", "built", "done", "reset"} =>
       /\ Ranges["unlogged"].begin = Position(Oldest, 0)
       /\ Oldest + Lifespan <= today
       /\ serving = "serving" => Oldest <= state["unlogged"][1]
  /\ reindexing.step = "built" =>
       /\ IndexOK(scratch, Known, Accepted, LogRecords, today) /\ CleansUp(scratch, Oldest, InLogs)
       /\ \A k \in Kinds: ~Before(PartEnds[k], scratch.ends[k])
  /\ reindexing.step \in {"done", "reset"} => CleansUp(published, Oldest, InLogs)
  /\ reindexing.step = "reset" => \A z \in OfLog(All, "unlogged"): z.at.day >= Oldest

(* The backend that serves.                                                     *)
StateOK ==
  \A k \in Kinds:
    /\ state[k][1] \in DOMAIN files[k] /\ Len(files[k][state[k][1]]) = state[k][2]
    /\ \A l \in Logs(k): Before(PositionOf(l.at), state[k])

MemoryOK ==
  /\ \A a \in Graffiti: Before(Begins(a), state["unlogged"])
  /\ reindexing.step # "given up" => today <= state["unlogged"][1] + Lifespan
  /\ All \subseteq InLogs
  /\ \A a \in Accepted: (a \in All \/ IsOld(a, today)) /\ a.id < NextZgramId
  /\ halfWritten \/ InTheirOrder
  /\ halfWritten \/ \A l \in InLogs: l.id < NextZgramId \/ l \in Infos(ToSet(posting))

BehindCuts(at) ==
  /\ ~Before(PositionOf(at), published.ends[at.kind])
  /\ Building => ~Before(PositionOf(at), PartEnds[at.kind])

PostingOK ==
  /\ posting # <<>> => reindexing.step # "reset"
  /\ NextZgramId + Len(posting) <= written
  /\ \A i \in DOMAIN posting:
       LET c == posting[i]
       IN /\ c.record.type = "zgram" /\ c.record.id = NextZgramId + i - 1
          /\ BehindCuts(c.at)
          /\ c.at.kind = "logged" => c \in Logs("logged")
          /\ c.at.kind = "unlogged" =>
               c.at = [kind |-> "unlogged", day |-> state["unlogged"][1],
                       offset |-> state["unlogged"][2] + Ahead(OfKind(posting, "unlogged"), i)]

ServingOK ==
  /\ serving = "serving" => StateOK /\ MemoryOK /\ PostingOK
  /\ serving # "serving" => posting = <<>>

StoreOK ==
  /\ LogStoreTypeOK /\ LogsOK /\ PublishedOK /\ NeverQuiet /\ GivenUpOK
  /\ PartsOK /\ ReindexingOK /\ ServingOK

(* All of it holds until a lifespan passes without graffiti.                     *)
LogStoreInvariant == ~quietWeek => StoreOK

-------------------------------------------------------------------------------
(* Positions.                                                                  *)

LEMMA BeforeIsAnOrder ==
    ASSUME NEW p \in Positions, NEW q \in Positions, NEW r \in Positions
    PROVE  /\ ~Before(p, p)
           /\ Before(p, q) /\ Before(q, r) => Before(p, r)
           /\ Before(p, q) /\ ~Before(r, q) => Before(p, r)
           /\ ~Before(q, p) /\ Before(q, r) => Before(p, r)
           /\ ~Before(q, p) /\ ~Before(r, q) => ~Before(r, p)
           /\ Before(p, q) \/ p = q \/ Before(q, p)
           /\ Before(p, q) => ~Before(q, p)
<1>1. PICK pd \in Nat, po \in Nat : p = <<pd, po>>
  BY DEF Positions
<1>2. PICK qd \in Nat, qo \in Nat : q = <<qd, qo>>
  BY DEF Positions
<1>3. PICK rd \in Nat, ro \in Nat : r = <<rd, ro>>
  BY DEF Positions
<1> QED BY <1>1, <1>2, <1>3 DEF Before

LEMMA LocationsArePositions ==
    ASSUME NEW at \in Locations
    PROVE  /\ PositionOf(at) \in Positions /\ Behind(at) \in Positions
           /\ Before(PositionOf(at), Behind(at)) /\ ~Before(PositionOf(at), Zero)
           /\ \A q \in Positions : Before(PositionOf(at), q) => ~Before(q, Behind(at))
           /\ \A q \in Positions : Before(q, Behind(at)) => ~Before(PositionOf(at), q)
           /\ \A q \in Positions : Before(PositionOf(at), q) => at.day <= q[1]
           /\ \A q \in Positions : ~Before(PositionOf(at), q) => at.day >= q[1]
<1>1. PICK d \in Nat, o \in Nat : at.day = d /\ at.offset = o
  BY DEF Locations
<1>2. ASSUME NEW q \in Positions
      PROVE  /\ Before(PositionOf(at), q) => ~Before(q, Behind(at))
             /\ Before(q, Behind(at)) => ~Before(PositionOf(at), q)
             /\ Before(PositionOf(at), q) => at.day <= q[1]
             /\ ~Before(PositionOf(at), q) => at.day >= q[1]
  <2>1. PICK qd \in Nat, qo \in Nat : q = <<qd, qo>>
    BY DEF Positions
  <2> QED BY <1>1, <2>1 DEF Before, PositionOf, Behind, Position
<1> QED BY <1>1, <1>2 DEF Before, PositionOf, Behind, Position, Positions, Zero

LEMMA LaterIsLater ==
    ASSUME NEW p \in Positions, NEW q \in Positions
    PROVE  /\ Later(p, q) \in {p, q}
           /\ ~Before(Later(p, q), p) /\ ~Before(Later(p, q), q)
BY BeforeIsAnOrder DEF Later

\* Different locations of one kind are in one order or the other.
LEMMA LocationsDiffer ==
    ASSUME NEW a \in Locations, NEW b \in Locations, a.kind = b.kind, a # b
    PROVE  Before(PositionOf(a), PositionOf(b)) \/ Before(PositionOf(b), PositionOf(a))
<1>1. a = [kind |-> a.kind, day |-> a.day, offset |-> a.offset] /\ a.day \in Nat /\ a.offset \in Nat
  BY DEF Locations
<1>2. b = [kind |-> b.kind, day |-> b.day, offset |-> b.offset] /\ b.day \in Nat /\ b.offset \in Nat
  BY DEF Locations
<1>3. a.day # b.day \/ a.offset # b.offset
  BY <1>1, <1>2
<1> QED BY <1>1, <1>2, <1>3 DEF Before, PositionOf, Position
-------------------------------------------------------------------------------
(* The contents of the logs.                                                   *)

LEMMA SmallestElement ==
    ASSUME NEW T \in SUBSET Nat, T # {}
    PROVE  \E x \in T : \A y \in T : x <= y
<1>1. \A x, y \in Nat : <<y, x>> \in OpToRel(<, Nat) => y < x
  BY Zenon DEF OpToRel
<1>2. \A x, y \in Nat : y < x => <<y, x>> \in OpToRel(<, Nat)
  BY Zenon DEF OpToRel
<1>3. PICK R : IsWellFoundedOn(R, Nat) /\ \A x, y \in Nat : <<y, x>> \in R <=> y < x
  BY NatLessThanWellFounded, <1>1, <1>2, Zenon
<1>4. PICK x \in T : \A y \in T : <<y, x>> \notin R
  BY <1>3, WFMin
<1>5. ASSUME NEW y \in T PROVE x <= y
  <2>1. x \in Nat /\ y \in Nat
    OBVIOUS
  <2>2. ~(y < x)
    BY <1>3, <1>4, <2>1, Zenon
  <2> QED BY <2>1, <2>2
<1> QED BY <1>5

LEMMA GreatestElement ==
    ASSUME NEW T \in SUBSET Nat, T # {}, NEW n \in Nat, \A x \in T : x <= n
    PROVE  \E x \in T : \A y \in T : y <= x
<1> DEFINE S == {m \in Nat : \E x \in T : m + x = n}
<1>1. ASSUME NEW x \in T PROVE \E m \in S : m + x = n
  <2>1. x \in Nat /\ x <= n
    OBVIOUS
  <2>2. n - x \in Nat /\ (n - x) + x = n
    BY <2>1
  <2> QED BY <2>2
<1>2. PICK least \in S : \A y \in S : least <= y
  <2>1. S \in SUBSET Nat /\ S # {}
    BY <1>1
  <2> HIDE DEF S
  <2> QED BY <2>1, SmallestElement
<1>3. PICK x \in T : least + x = n
  OBVIOUS
<1>4. ASSUME NEW y \in T PROVE y <= x
  <2>1. PICK m \in S : m + y = n
    BY <1>1
  <2>2. least <= m /\ m \in Nat /\ least \in Nat /\ x \in Nat /\ y \in Nat
    BY <1>2
  <2> QED BY <1>3, <2>1, <2>2
<1> QED BY <1>4

LEMMA OnceKnown ==
    ASSUME LogsOK
    PROVE  (\A a, b \in Accepted : a.id = b.id => a = b) /\ (~halfWritten => NoneTwice(InLogs))
BY DEF LogsOK, Known, NoneTwice

LEMMA KindsAreKinds == "logged" \in Kinds /\ "unlogged" \in Kinds /\ Kinds = {"logged", "unlogged"}
BY DEF Kinds

LEMMA ContentsOfFiles ==
    ASSUME NEW k \in Kinds, NEW now \in Nat, NEW fs, LogFilesOK(fs, now)
    PROVE  /\ \A l \in Contents(fs, k) :
                /\ l \in Located /\ l.at.kind = k
                /\ l.at.day \in DOMAIN fs /\ l.at.day <= now
                /\ l.at.offset < Len(fs[l.at.day]) /\ l.record = fs[l.at.day][l.at.offset + 1]
           /\ \A day \in DOMAIN fs : \A i \in 1..Len(fs[day]) :
                [record |-> fs[day][i], at |-> [kind |-> k, day |-> day, offset |-> i - 1]] \in Contents(fs, k)
           /\ \A day \in DOMAIN fs : day \in Nat /\ FirstDay <= day /\ day <= now /\ fs[day] \in Seq(Records)
<1>1. FirstDay \in Nat
  BY LogStoreAssumption DEF FirstDay
<1>2. \A day \in DOMAIN fs : day \in Nat /\ FirstDay <= day /\ day <= now /\ fs[day] \in Seq(Records)
  BY <1>1 DEF LogFilesOK
<1>3. ASSUME NEW l \in Contents(fs, k)
      PROVE  /\ l \in Located /\ l.at.kind = k
             /\ l.at.day \in DOMAIN fs /\ l.at.day <= now
             /\ l.at.offset < Len(fs[l.at.day]) /\ l.record = fs[l.at.day][l.at.offset + 1]
  <2>1. PICK day \in DOMAIN fs : l \in ParseLogFile(fs[day], k, day)
    BY DEF Contents
  <2>2. PICK i \in 1..Len(fs[day]) :
           l = [record |-> fs[day][i], at |-> [kind |-> k, day |-> day, offset |-> i - 1]]
    BY <2>1 DEF ParseLogFile
  <2>3. fs[day] \in Seq(Records) /\ Len(fs[day]) \in Nat /\ fs[day][i] \in Records /\ day \in Nat
    BY <1>2
  <2>4. i - 1 \in Nat /\ (i - 1) + 1 = i /\ i - 1 < Len(fs[day])
    BY <2>3
  <2> QED BY <1>2, <2>2, <2>3, <2>4 DEF Located, Locations
<1>4. ASSUME NEW day \in DOMAIN fs, NEW i \in 1..Len(fs[day])
      PROVE  [record |-> fs[day][i], at |-> [kind |-> k, day |-> day, offset |-> i - 1]] \in Contents(fs, k)
  <2>1. [record |-> fs[day][i], at |-> [kind |-> k, day |-> day, offset |-> i - 1]] \in ParseLogFile(fs[day], k, day)
    BY DEF ParseLogFile
  <2> QED BY <2>1 DEF Contents
<1> QED BY <1>2, <1>3, <1>4

LEMMA EndOfLocated ==
    ASSUME NEW k \in Kinds, NEW now \in Nat, NEW fs, LogFilesOK(fs, now),
           NEW located \in SUBSET Contents(fs, k)
    PROVE  /\ EndOf(located) \in Positions
           /\ located = {} => EndOf(located) = Zero
           /\ located # {} => \E l \in located : EndOf(located) = Behind(l.at)
           /\ \A l \in located : Before(PositionOf(l.at), EndOf(located))
<1>1. CASE located = {}
  BY <1>1 DEF EndOf, Zero, Position, Positions
<1>2. CASE located # {}
  <2>0. \A l \in located : /\ l \in Located /\ l.at \in Locations /\ l.at.day \in Nat /\ l.at.offset \in Nat
                           /\ l.at.day \in DOMAIN fs /\ l.at.day <= now
                           /\ l.at.offset < Len(fs[l.at.day])
    <3> TAKE l \in located
    <3>1. l \in Contents(fs, k)
      OBVIOUS
    <3>2. /\ l \in Located /\ l.at.day \in DOMAIN fs /\ l.at.day <= now
          /\ l.at.offset < Len(fs[l.at.day])
      BY <3>1, ContentsOfFiles
    <3> QED BY <3>2 DEF Located, Locations
  <2> DEFINE Days == {l.at.day : l \in located}
  <2>1. PICK d \in Days : \A y \in Days : y <= d
    <3>1. Days \in SUBSET Nat /\ Days # {} /\ \A x \in Days : x <= now
      BY <1>2, <2>0
    <3> HIDE DEF Days
    <3> QED BY <3>1, GreatestElement
  <2> DEFINE Offsets == {l.at.offset : l \in {m \in located : m.at.day = d}}
  <2>2. PICK o \in Offsets : \A y \in Offsets : y <= o
    <3>1. Offsets \in SUBSET Nat /\ Offsets # {}
      BY <2>0
    <3>2. d \in DOMAIN fs /\ Len(fs[d]) \in Nat
      BY <2>0, ContentsOfFiles
    <3>3. \A x \in Offsets : x <= Len(fs[d])
      BY <2>0, <3>2
    <3> HIDE DEF Offsets
    <3> QED BY <3>1, <3>2, <3>3, GreatestElement
  <2>3. PICK last \in located : last.at.day = d /\ last.at.offset = o
    OBVIOUS
  <2>4. ASSUME NEW m \in located PROVE ~Before(PositionOf(last.at), PositionOf(m.at))
    <3>1. m.at.day <= d /\ (m.at.day = d => m.at.offset <= o)
      BY <2>1, <2>2
    <3> QED BY <2>0, <2>3, <3>1 DEF Before, PositionOf, Position
  <2> DEFINE chosen == CHOOSE l \in located : \A m \in located : ~Before(PositionOf(l.at), PositionOf(m.at))
  <2>5. chosen \in located /\ \A m \in located : ~Before(PositionOf(chosen.at), PositionOf(m.at))
    BY <2>4
  <2>6. EndOf(located) = Behind(chosen.at)
    BY <1>2 DEF EndOf
  <2> HIDE DEF chosen
  <2>7. Behind(chosen.at) \in Positions
    BY <2>0, <2>5, LocationsArePositions
  <2>8. ASSUME NEW m \in located PROVE Before(PositionOf(m.at), Behind(chosen.at))
    <3>1. /\ PositionOf(m.at) \in Positions /\ PositionOf(chosen.at) \in Positions
          /\ Before(PositionOf(chosen.at), Behind(chosen.at))
      BY <2>0, <2>5, LocationsArePositions
    <3> QED BY <2>5, <2>7, <3>1, BeforeIsAnOrder
  <2> QED BY <1>2, <2>5, <2>6, <2>7, <2>8
<1> QED BY <1>1, <1>2

LEMMA InfosOfLocated ==
    ASSUME NEW located \in SUBSET Located
    PROVE  /\ Infos(located) \subseteq ZgramInfos
           /\ \A l \in located : l.record.type = "zgram" => ZgramInfo(l) \in Infos(located)
           /\ \A z \in Infos(located) : \E l \in located :
                z = ZgramInfo(l) /\ l.at = z.at /\ l.record = Zgram(z.id, z.body)
<1>1. ASSUME NEW l \in located, l.record.type = "zgram"
      PROVE  ZgramInfo(l) \in Infos(located)
  BY <1>1 DEF Infos
<1>2. ASSUME NEW z \in Infos(located)
      PROVE  /\ z \in ZgramInfos
             /\ \E l \in located : z = ZgramInfo(l) /\ l.at = z.at /\ l.record = Zgram(z.id, z.body)
  <2>1. PICK l \in located : l.record.type = "zgram" /\ z = ZgramInfo(l)
    BY DEF Infos
  <2>2. /\ l.at \in Locations /\ l.record.id \in Nat /\ l.record.body \in Nat
        /\ l.record = [type |-> l.record.type, id |-> l.record.id, body |-> l.record.body]
    BY DEF Located, Records
  <2> QED BY <2>1, <2>2 DEF ZgramInfo, ZgramInfos, Zgram
<1> QED BY <1>1, <1>2

\* What the logs hold, in terms of the records and of the zgrams among them.
LEMMA RecordsOfLogs ==
    ASSUME LogStoreTypeOK
    PROVE  /\ LogRecords \subseteq Located /\ InLogs \subseteq ZgramInfos /\ today \in Nat
           /\ \A k \in Kinds : Logs(k) = {l \in LogRecords : l.at.kind = k}
           /\ \A l \in LogRecords : l.at.kind \in Kinds /\ l.at.day <= today
           /\ \A z \in InLogs : z.at \in Locations /\ z.at.kind \in Kinds /\ z.id \in Nat /\ z.at.day <= today
<1>1. today \in Nat /\ \A k \in Kinds : LogFilesOK(files[k], today)
  BY LogStoreAssumption DEF LogStoreTypeOK, FirstDay
<1>2. ASSUME NEW k \in Kinds, NEW l \in Logs(k)
      PROVE  l \in Located /\ l.at.kind = k /\ l.at.day <= today
  <2>1. PICK fs : fs = files[k]
    OBVIOUS
  <2>2. LogFilesOK(fs, today) /\ l \in Contents(fs, k) /\ today \in Nat
    BY <1>1, <2>1 DEF Logs
  <2> QED BY <2>2, ContentsOfFiles
<1>3. \A l \in LogRecords : l \in Located /\ l.at.kind \in Kinds /\ l.at.day <= today
  BY <1>2, KindsAreKinds DEF LogRecords
<1>4. \A k \in Kinds : Logs(k) = {l \in LogRecords : l.at.kind = k}
  BY <1>2, KindsAreKinds DEF LogRecords
<1>5. InLogs \subseteq ZgramInfos
  BY <1>3, InfosOfLocated DEF InLogs
<1>6. ASSUME NEW z \in InLogs
      PROVE  z.at \in Locations /\ z.at.kind \in Kinds /\ z.id \in Nat /\ z.at.day <= today
  <2>1. PICK l \in LogRecords : l.at = z.at
    BY <1>3, InfosOfLocated DEF InLogs
  <2>2. z \in ZgramInfos
    BY <1>5
  <2> QED BY <1>3, <2>1, <2>2 DEF ZgramInfos, Locations
<1> QED BY <1>1, <1>3, <1>4, <1>5, <1>6

LEMMA ReadRecords ==
    ASSUME LogStoreTypeOK, NEW k \in Kinds, NEW range
    PROVE  /\ ReadRange(files[k], k, range) \in SUBSET Contents(files[k], k)
           /\ ReadRange(files[k], k, range) = {l \in LogRecords : l.at.kind = k /\ Within(range, PositionOf(l.at))}
           /\ Infos(ReadRange(files[k], k, range)) = {z \in InLogs : z.at.kind = k /\ Within(range, Begins(z))}
<1>1. ReadRange(files[k], k, range) = {l \in LogRecords : l.at.kind = k /\ Within(range, PositionOf(l.at))}
  BY RecordsOfLogs DEF ReadRange, Logs
<1>2. ReadRange(files[k], k, range) \in SUBSET Contents(files[k], k)
  BY DEF ReadRange
<1> DEFINE read == ReadRange(files[k], k, range)
<1>3. LogRecords \subseteq Located /\ read \subseteq Located /\ read \subseteq LogRecords
  BY <1>1, RecordsOfLogs
<1>4. ASSUME NEW z \in Infos(read) PROVE z \in InLogs /\ z.at.kind = k /\ Within(range, Begins(z))
  <2>1. PICK l \in read : l.record.type = "zgram" /\ z = ZgramInfo(l)
    BY DEF Infos
  <2>2. z \in InLogs
    BY <1>3, <2>1 DEF InLogs, Infos
  <2> QED BY <1>1, <2>1, <2>2 DEF ZgramInfo, Begins
<1>5. ASSUME NEW z \in InLogs, z.at.kind = k, Within(range, Begins(z)) PROVE z \in Infos(read)
  <2>1. PICK l \in LogRecords : l.record.type = "zgram" /\ z = ZgramInfo(l)
    BY DEF InLogs, Infos
  <2>2. l \in read
    BY <1>1, <1>5, <2>1 DEF ZgramInfo, Begins
  <2> QED BY <2>1, <2>2 DEF Infos
<1> QED BY <1>1, <1>2, <1>4, <1>5
-------------------------------------------------------------------------------
(* What a batch writes.                                                        *)

LEMMA AheadCounts ==
    ASSUME NEW n \in Nat, NEW S \in SUBSET (1..n)
    PROVE  /\ Cardinality(S) \in Nat
           /\ \A i \in S : Ahead(S, i) \in Nat /\ Ahead(S, i) < Cardinality(S)
           /\ \A i, j \in S : i < j => Ahead(S, i) < Ahead(S, j)
           /\ \A m \in Nat : m < Cardinality(S) => \E i \in S : Ahead(S, i) = m
<1> DEFINE Below(i) == {j \in S : j < i}
           UpTo(i) == {j \in S : j <= i}
<1>0. S \in SUBSET Nat /\ \A i \in S : i \in Nat /\ i <= n
  OBVIOUS
<1>1. IsFiniteSet(S) /\ Cardinality(S) \in Nat
  <2>1. IsFiniteSet(1..n)
    BY FS_Interval
  <2> QED BY <2>1, FS_Subset, FS_CardinalityType
<1>2. \A T \in SUBSET S : IsFiniteSet(T) /\ Cardinality(T) \in Nat /\ Cardinality(T) <= Cardinality(S)
  BY <1>1, FS_Subset, FS_CardinalityType
<1>3. ASSUME NEW i \in S
      PROVE  /\ Ahead(S, i) = Cardinality(Below(i)) /\ Ahead(S, i) \in Nat
             /\ Cardinality(UpTo(i)) = Ahead(S, i) + 1
  <2>1. UpTo(i) = Below(i) \union {i} /\ i \notin Below(i) /\ Below(i) \in SUBSET S
    <3>1. \A j \in S : j <= i <=> j < i \/ j = i
      BY <1>0
    <3>2. ~(i < i)
      BY <1>0
    <3> QED BY <3>1, <3>2
  <2>2. IsFiniteSet(Below(i)) /\ Cardinality(Below(i)) \in Nat
    BY <1>2, <2>1
  <2>3. Ahead(S, i) = Cardinality(Below(i))
    BY DEF Ahead
  <2> HIDE DEF Below, UpTo
  <2>4. Cardinality(Below(i) \union {i}) = Cardinality(Below(i)) + 1
    BY <2>1, <2>2, FS_AddElement
  <2> QED BY <2>1, <2>2, <2>3, <2>4
<1>4. ASSUME NEW i \in S PROVE Ahead(S, i) < Cardinality(S)
  <2>1. UpTo(i) \in SUBSET S
    OBVIOUS
  <2>2. Cardinality(UpTo(i)) <= Cardinality(S)
    BY <1>2, <2>1
  <2>3. Cardinality(UpTo(i)) = Ahead(S, i) + 1 /\ Ahead(S, i) \in Nat
    BY <1>3
  <2> HIDE DEF UpTo
  <2> QED BY <1>1, <2>2, <2>3
<1>5. ASSUME NEW i \in S, NEW j \in S, i < j PROVE Ahead(S, i) < Ahead(S, j)
  <2>1. UpTo(i) \in SUBSET Below(j) /\ Below(j) \in SUBSET S
    <3>1. \A y \in S : y <= i => y < j
      BY <1>0, <1>5
    <3> QED BY <3>1
  <2>2. IsFiniteSet(Below(j))
    BY <1>2, <2>1
  <2>3. Cardinality(UpTo(i)) <= Cardinality(Below(j))
    BY <2>1, <2>2, FS_Subset
  <2>4. Cardinality(UpTo(i)) = Ahead(S, i) + 1 /\ Ahead(S, i) \in Nat
    BY <1>3
  <2>5. Cardinality(Below(j)) = Ahead(S, j) /\ Ahead(S, j) \in Nat
    BY <1>3
  <2> HIDE DEF UpTo, Below
  <2> QED BY <2>3, <2>4, <2>5
<1>6. ASSUME NEW m \in Nat, m < Cardinality(S) PROVE \E i \in S : Ahead(S, i) = m
  <2>1. S # {}
    BY <1>6, FS_EmptySet
  <2>3. PICK g \in S : \A y \in S : y <= g
    BY <1>0, <2>1, GreatestElement
  <2>4. UpTo(g) = S
    BY <2>3
  <2>5. Ahead(S, g) >= m
    <3>1. Cardinality(S) = Ahead(S, g) + 1 /\ Ahead(S, g) \in Nat
      BY <1>3, <2>4
    <3> HIDE DEF UpTo
    <3> QED BY <1>1, <1>6, <3>1
  <2> DEFINE T == {i \in S : Ahead(S, i) >= m}
  <2>6. PICK i \in T : \A y \in T : i <= y
    <3>1. T \in SUBSET Nat /\ T # {}
      BY <1>0, <2>5
    <3> HIDE DEF T
    <3> QED BY <3>1, SmallestElement
  <2>7. CASE Ahead(S, i) # m
    <3>0. i \in S /\ Ahead(S, i) >= m
      OBVIOUS
    <3>1. Ahead(S, i) = Cardinality(Below(i)) /\ Ahead(S, i) \in Nat /\ Ahead(S, i) > m
      <4>1. Ahead(S, i) = Cardinality(Below(i)) /\ Ahead(S, i) \in Nat
        BY <1>3, <3>0
      <4> HIDE DEF Below
      <4> QED BY <2>7, <3>0, <4>1
    <3>2. Below(i) # {}
      <4> HIDE DEF Below
      <4>1. Cardinality(Below(i)) # 0
        BY <3>1
      <4> QED BY <4>1, FS_EmptySet
    <3>3. Below(i) \in SUBSET Nat /\ \A y \in Below(i) : y <= n
      BY <1>0
    <3>4. PICK h \in Below(i) : \A y \in Below(i) : y <= h
      <4> HIDE DEF Below
      <4> QED BY <3>2, <3>3, GreatestElement
    <3>5. h \in S /\ h < i /\ UpTo(h) = Below(i)
      <4>1. \A y \in S : y < i => y <= h
        BY <3>4
      <4>2. h \in S /\ h < i
        BY <3>4
      <4>3. \A y \in S : y <= h => y < i
        BY <1>0, <3>0, <4>2
      <4> QED BY <4>1, <4>2, <4>3
    <3>6. Ahead(S, h) + 1 = Ahead(S, i) /\ Ahead(S, h) \in Nat
      <4>1. Cardinality(UpTo(h)) = Ahead(S, h) + 1 /\ Ahead(S, h) \in Nat
        BY <1>3, <3>5
      <4> HIDE DEF UpTo, Below
      <4> QED BY <3>1, <3>5, <4>1
    <3>7. h \in T
      BY <3>1, <3>5, <3>6
    <3>8. i <= h
      BY <2>6, <3>7
    <3> QED BY <1>0, <3>0, <3>5, <3>8
  <2> QED BY <2>7
<1> QED BY <1>1, <1>3, <1>4, <1>5, <1>6

LEMMA RecordsOfKind ==
    ASSUME NEW cooked \in Seq(Located), NEW k
    PROVE  /\ RecordsOf(cooked, k) \in Seq(Records)
           /\ \A i \in OfKind(cooked, k) :
                /\ Ahead(OfKind(cooked, k), i) \in Nat
                /\ Ahead(OfKind(cooked, k), i) + 1 \in 1..Len(RecordsOf(cooked, k))
                /\ RecordsOf(cooked, k)[Ahead(OfKind(cooked, k), i) + 1] = cooked[i].record
           /\ \A n \in 1..Len(RecordsOf(cooked, k)) : \E i \in OfKind(cooked, k) :
                Ahead(OfKind(cooked, k), i) + 1 = n /\ RecordsOf(cooked, k)[n] = cooked[i].record
           /\ \A i, j \in OfKind(cooked, k) :
                i < j => Ahead(OfKind(cooked, k), i) < Ahead(OfKind(cooked, k), j)
<1> DEFINE own == OfKind(cooked, k)
           total == Cardinality(own)
           records == RecordsOf(cooked, k)
<1>1. Len(cooked) \in Nat /\ own \in SUBSET (1..Len(cooked)) /\ \A i \in own : cooked[i].record \in Records
  <2>1. DOMAIN cooked = 1..Len(cooked) /\ Len(cooked) \in Nat /\ \A i \in 1..Len(cooked) : cooked[i] \in Located
    BY LenProperties, ElementOfSeq
  <2> QED BY <2>1 DEF OfKind, Located
<1>2. /\ total \in Nat
      /\ \A i \in own : Ahead(own, i) \in Nat /\ Ahead(own, i) < total
      /\ \A i, j \in own : i < j => Ahead(own, i) < Ahead(own, j)
      /\ \A m \in Nat : m < total => \E i \in own : Ahead(own, i) = m
  <2> HIDE DEF own
  <2> QED BY <1>1, AheadCounts
<1>3. records = [n \in 1..total |-> cooked[CHOOSE i \in own : Ahead(own, i) = n - 1].record]
  BY DEF RecordsOf
<1> HIDE DEF own, total, records
<1>4. ASSUME NEW i \in own, NEW j \in own, Ahead(own, i) = Ahead(own, j) PROVE i = j
  <2>1. i \in Nat /\ j \in Nat
    BY <1>1
  <2>2. ~(i < j) /\ ~(j < i)
    BY <1>2, <1>4
  <2> QED BY <2>1, <2>2
<1>5. ASSUME NEW n \in 1..total
      PROVE  \E i \in own : Ahead(own, i) + 1 = n /\ records[n] = cooked[i].record
  <2>1. n - 1 \in Nat /\ n - 1 < total
    BY <1>2
  <2>2. \E i \in own : Ahead(own, i) = n - 1
    BY <1>2, <2>1
  <2>3. PICK i : i = (CHOOSE j \in own : Ahead(own, j) = n - 1)
    OBVIOUS
  <2>4. i \in own /\ Ahead(own, i) = n - 1
    BY <2>2, <2>3
  <2>5. records[n] = cooked[i].record
    BY <1>3, <2>3
  <2>6. Ahead(own, i) + 1 = n
    BY <2>1, <2>4
  <2> QED BY <2>4, <2>5, <2>6
<1>6. ASSUME NEW n \in 1..total PROVE records[n] \in Records
  BY <1>1, <1>5
<1>7. records \in Seq(Records) /\ Len(records) = total
  <2>1. records \in [1..total -> Records]
    BY <1>3, <1>6
  <2> QED BY <1>2, <2>1, LenProperties
<1>8. ASSUME NEW i \in own
      PROVE  Ahead(own, i) + 1 \in 1..total /\ records[Ahead(own, i) + 1] = cooked[i].record
  <2>1. Ahead(own, i) + 1 \in 1..total
    BY <1>2
  <2>2. PICK j \in own : Ahead(own, j) + 1 = Ahead(own, i) + 1 /\ records[Ahead(own, i) + 1] = cooked[j].record
    BY <1>5, <2>1
  <2>3. Ahead(own, j) = Ahead(own, i)
    BY <1>2, <2>2
  <2>4. j = i
    BY <1>4, <2>3
  <2> QED BY <2>1, <2>2, <2>4
<1> QED BY <1>2, <1>5, <1>7, <1>8 DEF own, total, records
-------------------------------------------------------------------------------
(* Appending to a log.                                                         *)

\* Where records appended to a file are.
AppendedTo(k, day, size, records) ==
  {[record |-> records[n], at |-> [kind |-> k, day |-> day, offset |-> size + n - 1]] : n \in 1..Len(records)}
Appended(k, records) == AppendedTo(k, state[k][1], state[k][2], records)

Extends(fs2, fs, day, records) == fs2 = [fs EXCEPT ![day] = @ \o records]

LEMMA AppendedContents ==
    ASSUME NEW k \in Kinds, NEW now \in Nat, NEW fs, LogFilesOK(fs, now),
           NEW d, d \in DOMAIN fs, NEW records \in Seq(Records),
           NEW fs2, Extends(fs2, fs, d, records)
    PROVE  /\ LogFilesOK(fs2, now) /\ DOMAIN fs2 = DOMAIN fs
           /\ Len(fs2[d]) = Len(fs[d]) + Len(records)
           /\ Contents(fs2, k) = Contents(fs, k) \union AppendedTo(k, d, Len(fs[d]), records)
<1> DEFINE new == AppendedTo(k, d, Len(fs[d]), records)
<1> USE DEF AppendedTo
<1>1. fs \in [DOMAIN fs -> Seq(Records)] /\ fs[d] \in Seq(Records) /\ DOMAIN fs \subseteq FirstDay..now
  BY DEF LogFilesOK
<1>2. PICK m \in Nat, n \in Nat : m = Len(fs[d]) /\ n = Len(records)
  BY <1>1, LenProperties
<1>3. /\ fs[d] \o records \in Seq(Records) /\ Len(fs[d] \o records) = m + n
      /\ \A i \in 1..(m + n) : (fs[d] \o records)[i] = IF i <= m THEN fs[d][i] ELSE records[i - m]
  BY <1>1, <1>2, ConcatProperties
<1>4. fs2 \in [DOMAIN fs -> Seq(Records)] /\ fs2[d] = fs[d] \o records /\ \A e \in DOMAIN fs : e # d => fs2[e] = fs[e]
  <2>1. \A e \in DOMAIN fs : fs2[e] \in Seq(Records)
    BY <1>1, <1>3 DEF Extends
  <2> QED BY <1>1, <2>1 DEF Extends
<1>5. LogFilesOK(fs2, now) /\ DOMAIN fs2 = DOMAIN fs /\ Len(fs2[d]) = m + n
  BY <1>1, <1>3, <1>4 DEF LogFilesOK
<1>6. \A e \in DOMAIN fs : e # d => ParseLogFile(fs2[e], k, e) = ParseLogFile(fs[e], k, e)
  BY <1>4
<1>7. ParseLogFile(fs2[d], k, d) = ParseLogFile(fs[d], k, d) \union new
  <2>1. ASSUME NEW l \in ParseLogFile(fs2[d], k, d) PROVE l \in ParseLogFile(fs[d], k, d) \union new
    <3>1. PICK i \in 1..(m + n) : l = [record |-> fs2[d][i], at |-> [kind |-> k, day |-> d, offset |-> i - 1]]
      BY <1>5 DEF ParseLogFile
    <3>2. CASE i <= m
      <4>1. i \in 1..Len(fs[d]) /\ fs2[d][i] = fs[d][i]
        BY <1>2, <1>3, <1>4, <3>2
      <4> QED BY <3>1, <4>1 DEF ParseLogFile
    <3>3. CASE i > m
      <4>1. i - m \in 1..n /\ m + (i - m) - 1 = i - 1
        BY <3>3
      <4>2. fs2[d][i] = records[i - m]
        BY <1>3, <1>4, <3>3
      <4>3. l = [record |-> records[i - m], at |-> [kind |-> k, day |-> d, offset |-> m + (i - m) - 1]]
        BY <3>1, <4>1, <4>2
      <4>4. l \in new
        BY <1>2, <4>1, <4>3
      <4> QED BY <4>4
    <3> QED BY <3>2, <3>3
  <2>2. ASSUME NEW l \in ParseLogFile(fs[d], k, d) PROVE l \in ParseLogFile(fs2[d], k, d)
    <3>1. PICK i \in 1..m : l = [record |-> fs[d][i], at |-> [kind |-> k, day |-> d, offset |-> i - 1]]
      BY <1>2 DEF ParseLogFile
    <3>2. i \in 1..(m + n) /\ fs2[d][i] = fs[d][i]
      BY <1>3, <1>4
    <3> QED BY <1>5, <3>1, <3>2 DEF ParseLogFile
  <2>3. ASSUME NEW l \in new PROVE l \in ParseLogFile(fs2[d], k, d)
    <3>1. PICK i \in 1..n : l = [record |-> records[i], at |-> [kind |-> k, day |-> d, offset |-> m + i - 1]]
      BY <1>2
    <3>2. m + i \in 1..(m + n) /\ fs2[d][m + i] = records[i] /\ m + i - 1 = (m + i) - 1
      <4>1. m + i \in 1..(m + n) /\ ~(m + i <= m) /\ (m + i) - m = i
        OBVIOUS
      <4>2. (fs[d] \o records)[m + i] = IF m + i <= m THEN fs[d][m + i] ELSE records[(m + i) - m]
        BY <1>3, <4>1
      <4>3. (fs[d] \o records)[m + i] = records[i]
        BY <4>1, <4>2
      <4>4. m + i - 1 = (m + i) - 1
        OBVIOUS
      <4> QED BY <1>4, <4>1, <4>3, <4>4
    <3>3. l = [record |-> fs2[d][m + i], at |-> [kind |-> k, day |-> d, offset |-> (m + i) - 1]]
      BY <3>1, <3>2
    <3> QED BY <1>5, <3>2, <3>3 DEF ParseLogFile
  <2> QED BY <2>1, <2>2, <2>3
<1> HIDE DEF new
<1>8. Contents(fs2, k) = Contents(fs, k) \union new
  BY <1>5, <1>6, <1>7 DEF Contents
<1> QED BY <1>2, <1>5, <1>8 DEF new

LEMMA AppendKeepsState ==
    ASSUME LogStoreTypeOK, StateOK, NEW k \in Kinds, NEW records \in Seq(Records),
           AppendAndFlush(k, records), UNCHANGED today
    PROVE  /\ files' = [j \in Kinds |-> files'[j]] /\ \A j \in Kinds : LogFilesOK(files'[j], today')
           /\ state' \in [Kinds -> Positions] /\ StateOK'
           /\ \A j \in Kinds : state'[j][1] = state[j][1] /\ ~Before(state'[j], state[j])
           /\ \A j \in Kinds : j # k => state'[j] = state[j]
           /\ LogRecords' = LogRecords \union Appended(k, records)
           /\ \A l \in Appended(k, records) :
                l \in Located /\ l.at.kind = k /\ l.at.day = state[k][1] /\ ~Before(PositionOf(l.at), state[k])
<1>1. /\ files = [j \in Kinds |-> files[j]] /\ today \in Nat /\ \A j \in Kinds : LogFilesOK(files[j], today)
      /\ state \in [Kinds -> Positions]
  BY RecordsOfLogs DEF LogStoreTypeOK
<1>2. PICK d \in Nat, o \in Nat : state[k] = <<d, o>>
  BY <1>1 DEF Positions
<1>3. PICK total \in Nat : total = Len(records)
  BY LenProperties
<1>4. d \in DOMAIN files[k] /\ Len(files[k][d]) = o
  BY <1>2 DEF StateOK
<1>5. files'[k] = [files[k] EXCEPT ![d] = @ \o records] /\ \A j \in Kinds : j # k => files'[j] = files[j]
  BY <1>1, <1>2 DEF AppendAndFlush
<1>6. files' = [j \in Kinds |-> files'[j]]
  BY <1>1 DEF AppendAndFlush
<1>7. state'[k] = <<d, o + total>> /\ \A j \in Kinds : j # k => state'[j] = state[j]
  BY <1>1, <1>2, <1>3 DEF AppendAndFlush
<1>8. state' \in [Kinds -> Positions]
  <2>1. state' = [j \in Kinds |-> state'[j]]
    BY <1>1 DEF AppendAndFlush
  <2>2. ASSUME NEW j \in Kinds PROVE state'[j] \in Positions
    <3>1. <<d, o + total>> \in Positions
      BY DEF Positions
    <3> QED BY <1>1, <1>7, <3>1
  <2> QED BY <2>1, <2>2
<1> DEFINE new == Appended(k, records)
<1>9. /\ LogFilesOK(files'[k], today) /\ DOMAIN files'[k] = DOMAIN files[k]
      /\ Len(files'[k][d]) = o + total
      /\ Contents(files'[k], k) = Contents(files[k], k) \union new
  <2>1. PICK fs : fs = files[k]
    OBVIOUS
  <2>2. PICK fs2 : fs2 = files'[k]
    OBVIOUS
  <2>3. PICK now \in Nat : now = today
    BY <1>1
  <2>4. LogFilesOK(fs, now) /\ d \in DOMAIN fs /\ Len(fs[d]) = o /\ Extends(fs2, fs, d, records)
    BY <1>1, <1>4, <1>5, <2>1, <2>2, <2>3 DEF Extends
  <2>5. new = AppendedTo(k, d, Len(fs[d]), records)
    BY <1>2, <2>4 DEF Appended
  <2> HIDE DEF new
  <2>6. /\ LogFilesOK(fs2, now) /\ DOMAIN fs2 = DOMAIN fs
        /\ Len(fs2[d]) = Len(fs[d]) + Len(records)
        /\ Contents(fs2, k) = Contents(fs, k) \union AppendedTo(k, d, Len(fs[d]), records)
    BY <2>4, AppendedContents
  <2> QED BY <1>3, <2>1, <2>2, <2>3, <2>4, <2>5, <2>6
<1>10. \A j \in Kinds : Logs(j)' = IF j = k THEN Logs(j) \union new ELSE Logs(j)
  BY <1>5, <1>9 DEF Logs
<1>11. LogRecords' = LogRecords \union new
  BY <1>10, KindsAreKinds DEF LogRecords
<1>12. ASSUME NEW l \in new
       PROVE  /\ l \in Located /\ l.at.kind = k /\ l.at.day = state[k][1] /\ ~Before(PositionOf(l.at), state[k])
              /\ Before(PositionOf(l.at), state'[k])
  <2>1. PICK n \in 1..total : l = [record |-> records[n], at |-> [kind |-> k, day |-> d, offset |-> o + n - 1]]
    BY <1>2, <1>3 DEF Appended, AppendedTo
  <2>2. records[n] \in Records /\ o + n - 1 \in Nat /\ ~(o + n - 1 < o) /\ o + n - 1 < o + total /\ ~(d < d)
    BY <1>3, ElementOfSeq
  <2>3. l \in Located
    BY <2>1, <2>2 DEF Located, Locations
  <2> QED BY <1>2, <1>7, <2>1, <2>2, <2>3 DEF Before, PositionOf, Position
<1>13. \A j \in Kinds : state'[j][1] = state[j][1] /\ ~Before(state'[j], state[j])
  <2> TAKE j \in Kinds
  <2>1. CASE j = k
    BY <1>2, <1>7, <2>1 DEF Before
  <2>2. CASE j # k
    BY <1>1, <1>7, <2>2, BeforeIsAnOrder
  <2> QED BY <2>1, <2>2
<1>14. StateOK'
  <2>1. ASSUME NEW j \in Kinds
        PROVE  /\ state'[j][1] \in DOMAIN files'[j] /\ Len(files'[j][state'[j][1]]) = state'[j][2]
               /\ \A l \in Logs(j)' : Before(PositionOf(l.at), state'[j])
    <3>1. CASE j = k
      <4>1. state'[j][1] = d /\ state'[j][2] = o + total
        BY <1>7, <3>1
      <4>2. ASSUME NEW l \in Logs(j)' PROVE Before(PositionOf(l.at), state'[j])
        <5>1. CASE l \in new
          BY <1>12, <3>1, <5>1
        <5>2. CASE l \notin new
          <6>1. l \in Logs(j) /\ Before(PositionOf(l.at), state[j])
            BY <1>10, <5>2 DEF StateOK
          <6>2. PositionOf(l.at) \in Positions
            BY <6>1, RecordsOfLogs, LocationsArePositions DEF Located
          <6> QED BY <1>1, <1>8, <1>13, <6>1, <6>2, BeforeIsAnOrder
        <5> QED BY <5>1, <5>2
      <4> QED BY <1>4, <1>9, <3>1, <4>1, <4>2
    <3>2. CASE j # k
      BY <1>5, <1>7, <1>10, <3>2 DEF StateOK
    <3> QED BY <3>1, <3>2
  <2> QED BY <2>1 DEF StateOK
<1>15. \A j \in Kinds : LogFilesOK(files'[j], today')
  BY <1>1, <1>5, <1>9
<1> QED BY <1>6, <1>7, <1>8, <1>11, <1>12, <1>13, <1>14, <1>15
-------------------------------------------------------------------------------
(* What a step that only adds to the logs keeps.                               *)

LEMMA EndIdIsBehindAll ==
    ASSUME NEW zgrams \in SUBSET ZgramInfos, NEW n \in Nat, \A z \in zgrams : z.id < n
    PROVE  /\ EndId(zgrams) \in Nat /\ EndId(zgrams) <= n
           /\ \A z \in zgrams : z.id < EndId(zgrams)
           /\ zgrams # {} => \E z \in zgrams : EndId(zgrams) = z.id + 1
<1>1. CASE zgrams = {}
  BY <1>1 DEF EndId
<1>2. CASE zgrams # {}
  <2> DEFINE ids == {z.id : z \in zgrams}
  <2>1. ids \in SUBSET Nat /\ ids # {} /\ \A i \in ids : i <= n
    <3>1. \A z \in zgrams : z.id \in Nat
      BY DEF ZgramInfos
    <3> QED BY <1>2, <3>1
  <2>2. \E x \in ids : \A y \in ids : y <= x
    <3> HIDE DEF ids
    <3> QED BY <2>1, GreatestElement
  <2>3. Max(ids) \in ids /\ \A y \in ids : Max(ids) >= y
    <3>1. \E x \in ids : \A y \in ids : x >= y
      <4> HIDE DEF ids
      <4> QED BY <2>1, <2>2
    <3> HIDE DEF ids
    <3> QED BY <3>1, Zenon DEF Max
  <2>4. EndId(zgrams) = Max(ids) + 1
    BY <1>2 DEF EndId
  <2>5. PICK m \in Nat : m = Max(ids)
    BY <2>1, <2>3
  <2>6. PICK last \in zgrams : m = last.id
    BY <2>3, <2>5
  <2>7. \A z \in zgrams : z.id \in Nat /\ m >= z.id
    BY <2>1, <2>3, <2>5
  <2> HIDE DEF ids
  <2>8. last.id = m /\ m < n /\ EndId(zgrams) = m + 1
    BY <2>4, <2>5, <2>6
  <2>9. \A z \in zgrams : z.id < m + 1
    BY <2>7
  <2> QED BY <2>8, <2>9
<1> QED BY <1>1, <1>2

\* Records are added: new ones, with new identifiers, behind all that was read.
Growth ==
  /\ LogRecords \subseteq LogRecords' /\ today <= today' /\ today' \in Nat
  /\ \A l \in InLogs' : l \in InLogs \/ \A a \in Known : a.id < l.id \/ BehindCuts(a.at)
  /\ \A a \in Accepted' : a \in Accepted \/ a \in InLogs'
  /\ \A a \in Known' : a \in Known \/ BehindCuts(a.at)

LEMMA LogsGrow ==
    ASSUME Growth
    PROVE  InLogs \subseteq InLogs' /\ (Spoilt => Spoilt')
<1>1. InLogs \subseteq InLogs'
  BY DEF Growth, InLogs, Infos
<1> QED BY <1>1 DEF Spoilt, InOrder, OfLog

LEMMA KnownZgrams ==
    ASSUME LogStoreTypeOK
    PROVE  /\ Accepted \subseteq ZgramInfos /\ Known \subseteq ZgramInfos /\ Accepted \subseteq Known
           /\ \A a \in ZgramInfos : a.id \in Nat /\ a.at \in Locations /\ a.at.day \in Nat /\ a.at.kind \in Kinds
           /\ \A a \in ZgramInfos : Begins(a) \in Positions
<1>1. Accepted \subseteq ZgramInfos
  BY InfosOfLocated DEF Accepted, LogStoreTypeOK
<1>2. InLogs \subseteq ZgramInfos
  BY RecordsOfLogs
<1>3. \A a \in ZgramInfos : a.id \in Nat /\ a.at \in Locations /\ a.at.day \in Nat /\ a.at.kind \in Kinds
  BY DEF ZgramInfos, Locations
<1>4. \A a \in ZgramInfos : Begins(a) \in Positions
  BY <1>3, LocationsArePositions DEF Begins
<1> QED BY <1>1, <1>2, <1>3, <1>4 DEF Known

LEMMA OldStaysOld ==
    ASSUME LogStoreTypeOK, Growth, NEW a \in ZgramInfos, IsOld(a, today)
    PROVE  IsOld(a, today')
<1>1. a.at.day \in Nat /\ Lifespan \in Nat /\ today \in Nat
  BY KnownZgrams, RecordsOfLogs, LogStoreAssumption
<1> QED BY <1>1 DEF IsOld, Growth

LEMMA CutsGrow ==
    ASSUME Growth, NEW ends, CutsWell(ends, Known, Accepted, InLogs),
           \A a \in Known \union Known' : BehindCuts(a.at) => ~IsBefore(a, ends)
    PROVE  CutsWell(ends, Known', Accepted', InLogs')
<1>1. ASSUME NEW a \in Known', NEW l \in InLogs', IsBefore(a, ends), ~IsBefore(l, ends) PROVE a.id < l.id
  <2>1. a \in Known /\ ~BehindCuts(a.at)
    BY <1>1 DEF Growth
  <2> QED BY <1>1, <2>1 DEF Growth, CutsWell
<1>2. ASSUME NEW a \in Accepted' PROVE a \in InLogs' \/ IsBefore(a, ends)
  BY LogsGrow DEF Growth, CutsWell
<1> QED BY <1>1, <1>2 DEF CutsWell

LEMMA IndexGrows ==
    ASSUME LogStoreTypeOK, Growth, NEW index, IndexOK(index, Known, Accepted, LogRecords, today),
           \A a \in Known \union Known' : BehindCuts(a.at) => ~IsBefore(a, index.ends)
    PROVE  IndexOK(index, Known', Accepted', LogRecords', today')
<1>1. CutsWell(index.ends, Known', Accepted', InLogs')
  <2>1. CutsWell(index.ends, Known, Accepted, InLogs)
    BY DEF IndexOK, InLogs
  <2> QED BY <2>1, CutsGrow
<1>2. Covers(index, Known', today')
  <2>1. ASSUME NEW a \in Known', IsBefore(a, index.ends)
        PROVE  a \in index.zgrams \/ (IsOld(a, today') /\ \E z \in index.zgrams : a.id < z.id)
    <3>1. a \in Known /\ a \in ZgramInfos
      BY <2>1, KnownZgrams DEF Growth
    <3>2. a \in index.zgrams \/ (IsOld(a, today) /\ \E z \in index.zgrams : a.id < z.id)
      BY <2>1, <3>1 DEF IndexOK, Covers
    <3> QED BY <3>1, <3>2, OldStaysOld
  <2> QED BY <2>1 DEF Covers
<1>3. LogRecords \subseteq LogRecords' /\ Infos(LogRecords) \subseteq Infos(LogRecords')
  BY DEF Growth, Infos
<1>4. EndsIn(index.ends, LogRecords')
  BY <1>3 DEF IndexOK, EndsIn
<1> QED BY <1>1, <1>2, <1>3, <1>4 DEF IndexOK, InLogs

\* The Server goes on with its logs, and the indices on disk stay as they are.
GoesOn ==
  /\ UNCHANGED <<published, scratch, reindexing, serving>>
  /\ LogRecords' \subseteq Located
  /\ state' \in [Kinds -> Positions] /\ \A k \in Kinds : ~Before(state'[k], state[k])
  /\ \A l \in OfLog(InLogs', "unlogged") :
       l \in InLogs \/ (serving = "serving" /\ l.at.day >= state["unlogged"][1])
  /\ reindexing.step = "reset" => UNCHANGED All

LEMMA PositionsOfPositions ==
    ASSUME NEW p \in Positions, NEW q \in Positions, ~Before(p, q)
    PROVE  p[1] \in Nat /\ q[1] \in Nat /\ q[1] <= p[1]
<1>1. PICK pd \in Nat, po \in Nat : p = <<pd, po>>
  BY DEF Positions
<1>2. PICK qd \in Nat, qo \in Nat : q = <<qd, qo>>
  BY DEF Positions
<1> QED BY <1>1, <1>2 DEF Before

LEMMA EndsArePositions ==
    ASSUME LogStoreTypeOK
    PROVE  /\ PartEnds \in [Kinds -> Positions] /\ state \in [Kinds -> Positions]
           /\ published.ends \in [Kinds -> Positions] /\ scratch.ends \in [Kinds -> Positions]
           /\ frozen.ends \in [Kinds -> Positions]
           /\ \A k \in Kinds : Ranges[k].begin \in Positions /\ Ranges[k].end \in Positions
           /\ Oldest \in Nat /\ state["unlogged"][1] \in Nat
           /\ published.zgrams \subseteq ZgramInfos /\ frozen.zgrams \subseteq ZgramInfos
           /\ dynamic.zgrams \subseteq ZgramInfos /\ scratch.zgrams \subseteq ZgramInfos
           /\ All \subseteq ZgramInfos
<1>1. Ranges \in [Kinds -> [begin : Positions, end : Positions]]
  BY DEF LogStoreTypeOK, Ranges
<1>2. \A k \in Kinds : Ranges[k].begin \in Positions /\ Ranges[k].end \in Positions
  BY <1>1
<1>3. PartEnds \in [Kinds -> Positions]
  BY <1>2 DEF PartEnds
<1>4. state \in [Kinds -> Positions]
  BY DEF LogStoreTypeOK
<1>5. \A p \in Positions : p[1] \in Nat
  BY DEF Positions
<1>6. Oldest \in Nat /\ state["unlogged"][1] \in Nat
  BY <1>2, <1>4, <1>5, KindsAreKinds DEF Oldest
<1>7. /\ published.ends \in [Kinds -> Positions] /\ scratch.ends \in [Kinds -> Positions]
      /\ frozen.ends \in [Kinds -> Positions]
      /\ published.zgrams \subseteq ZgramInfos /\ frozen.zgrams \subseteq ZgramInfos
      /\ dynamic.zgrams \subseteq ZgramInfos /\ scratch.zgrams \subseteq ZgramInfos
  BY DEF LogStoreTypeOK, Indices
<1> QED BY <1>2, <1>3, <1>4, <1>6, <1>7 DEF All

LEMMA DoomedStays ==
    ASSUME LogStoreTypeOK, Growth, UNCHANGED reindexing, Doomed
    PROVE  Doomed'
<1>1. InLogs \subseteq InLogs' /\ (Spoilt => Spoilt') /\ Ranges' = Ranges /\ reindexing' = reindexing
  BY LogsGrow DEF Ranges
<1>2. CASE reindexing.step \in {"started", "cleared"}
  <2>1. ~InOrder({z \in InLogs : z.at.kind = "logged" /\ InPart(z, Ranges)})
    BY <1>2 DEF Doomed
  <2>2. ~InOrder({z \in InLogs' : z.at.kind = "logged" /\ InPart(z, Ranges)})
    BY <1>1, <2>1 DEF InOrder
  <2> QED BY <1>1, <1>2, <2>2 DEF Doomed
<1>3. CASE reindexing.step \notin {"started", "cleared"}
  BY <1>1, <1>3 DEF Doomed
<1> QED BY <1>2, <1>3

LEMMA GrowthKeepsIndices ==
    ASSUME StoreOK, Growth, GoesOn
    PROVE  PublishedOK' /\ GivenUpOK'
<1>1. LogStoreTypeOK /\ PublishedOK /\ GivenUpOK
  BY DEF StoreOK
<1>2. \A a \in Known \union Known' : BehindCuts(a.at) => ~IsBefore(a, published.ends)
  BY DEF BehindCuts, IsBefore, Begins
<1>3. PublishedOK'
  <2>1. IndexOK(published, Known', Accepted', LogRecords', today')
    BY <1>1, <1>2, IndexGrows DEF PublishedOK
  <2> QED BY <2>1 DEF PublishedOK, GoesOn
<1>4. GivenUpOK'
  BY <1>1, LogsGrow DEF GivenUpOK, GoesOn, OfLog
<1> QED BY <1>3, <1>4

LEMMA GrowthKeepsParts ==
    ASSUME StoreOK, Growth, GoesOn
    PROVE  PartsOK'
<1>1. LogStoreTypeOK /\ PartsOK
  BY DEF StoreOK
<1>2. /\ (Building' <=> Building) /\ PartEnds' = PartEnds /\ Ranges' = Ranges /\ Oldest' = Oldest
      /\ UNCHANGED reindexing
  BY DEF GoesOn, Building, PartEnds, Ranges, Oldest
<1>3. SUFFICES ASSUME Building
               PROVE  /\ CutsWell(PartEnds, Known', Accepted', InLogs')
                      /\ \A k \in Kinds : ~Before(state'[k], PartEnds[k])
                      /\ Doomed' \/ Reaches(Ranges, PartEnds, Known', InLogs', today')
  BY <1>1, <1>2 DEF PartsOK
<1>4. \A a \in Known \union Known' : BehindCuts(a.at) => ~IsBefore(a, PartEnds)
  BY <1>3 DEF BehindCuts, IsBefore, Begins
<1>5. CutsWell(PartEnds, Known', Accepted', InLogs')
  BY <1>1, <1>3, <1>4, CutsGrow DEF PartsOK
<1>6. ASSUME NEW k \in Kinds PROVE ~Before(state'[k], PartEnds[k])
  <2>1. /\ state'[k] \in Positions /\ state[k] \in Positions /\ PartEnds[k] \in Positions
        /\ ~Before(state'[k], state[k])
    BY <1>1, EndsArePositions DEF GoesOn
  <2>2. ~Before(state[k], PartEnds[k])
    BY <1>1, <1>3 DEF PartsOK
  <2> QED BY <2>1, <2>2, BeforeIsAnOrder
<1>7. CASE Doomed
  BY <1>1, <1>2, <1>5, <1>6, <1>7, DoomedStays
<1>8. CASE ~Doomed
  <2>1. Reaches(Ranges, PartEnds, Known, InLogs, today)
    BY <1>1, <1>3, <1>8 DEF PartsOK
  <2>2. ASSUME NEW a \in Known', IsBefore(a, PartEnds)
        PROVE  \/ a \in InLogs' /\ InPart(a, Ranges)
               \/ IsOld(a, today') /\ \E g \in OfLog(InLogs', "unlogged") : InPart(g, Ranges) /\ a.id < g.id
    <3>1. a \in Known /\ a \in ZgramInfos
      BY <1>1, <1>4, <2>2, KnownZgrams DEF Growth
    <3>2. IsOld(a, today) => IsOld(a, today')
      BY <1>1, <3>1, OldStaysOld
    <3> QED BY <2>1, <2>2, <3>1, <3>2, LogsGrow DEF Reaches, OfLog
  <2>3. Reaches(Ranges, PartEnds, Known', InLogs', today')
    BY <2>2 DEF Reaches
  <2> QED BY <1>5, <1>6, <2>3
<1> QED BY <1>7, <1>8

LEMMA CleansUpStill ==
    ASSUME StoreOK, Growth, GoesOn, NEW index, CleansUp(index, Oldest, InLogs),
           serving = "serving" => Oldest <= state["unlogged"][1]
    PROVE  CleansUp(index, Oldest, InLogs')
<1>1. LogStoreTypeOK
  BY DEF StoreOK
<1>2. ASSUME NEW l \in OfLog(InLogs', "unlogged") PROVE IsBefore(l, index.ends) \/ l.at.day >= Oldest
  <2>1. CASE l \in InLogs
    BY <2>1 DEF CleansUp, OfLog
  <2>2. CASE l \notin InLogs
    <3>1. serving = "serving" /\ l.at.day >= state["unlogged"][1]
      BY <2>2 DEF GoesOn
    <3>2. l.at.day \in Nat
      <4>1. l \in InLogs'
        BY DEF OfLog
      <4>2. \E m \in LogRecords' : m.at = l.at /\ m \in Located
        <5>1. PICK m \in LogRecords' : m.at = l.at
          BY <4>1 DEF InLogs, Infos, ZgramInfo
        <5> QED BY <5>1 DEF GoesOn
      <4> QED BY <4>2 DEF Located, Locations
    <3> QED BY <1>1, <3>1, <3>2, EndsArePositions
  <2> QED BY <2>1, <2>2
<1> QED BY <1>2 DEF CleansUp

LEMMA GrowthKeepsReindexing ==
    ASSUME StoreOK, Growth, GoesOn
    PROVE  ReindexingOK'
<1>1. LogStoreTypeOK /\ ReindexingOK
  BY DEF StoreOK
<1>2. /\ PartEnds' = PartEnds /\ Ranges' = Ranges /\ Oldest' = Oldest
      /\ UNCHANGED <<published, scratch, reindexing, serving>>
  BY DEF GoesOn, PartEnds, Ranges, Oldest
<1>3. /\ serving = "down" => reindexing.step = "none"
      /\ serving = "stopped" => reindexing.step = "done"
  BY <1>1 DEF ReindexingOK
<1>4. ASSUME reindexing.step \in {"started", "cleared", "built", "done", "reset"}
      PROVE  /\ Ranges["unlogged"].begin = Position(Oldest, 0)
             /\ Oldest + Lifespan <= today'
             /\ serving = "serving" => Oldest <= state'["unlogged"][1] /\ Oldest <= state["unlogged"][1]
  <2>1. /\ Ranges["unlogged"].begin = Position(Oldest, 0)
        /\ Oldest + Lifespan <= today
        /\ serving = "serving" => Oldest <= state["unlogged"][1]
    BY <1>1, <1>4 DEF ReindexingOK
  <2>2. Oldest \in Nat /\ Lifespan \in Nat /\ today \in Nat /\ today' \in Nat /\ today <= today'
    BY <1>1, EndsArePositions, RecordsOfLogs, LogStoreAssumption DEF Growth
  <2>3. /\ state["unlogged"][1] \in Nat /\ state'["unlogged"][1] \in Nat
        /\ state["unlogged"][1] <= state'["unlogged"][1]
    BY <1>1, EndsArePositions, PositionsOfPositions, KindsAreKinds DEF GoesOn
  <2> QED BY <2>1, <2>2, <2>3
<1>5. ASSUME reindexing.step = "built"
      PROVE  /\ IndexOK(scratch, Known', Accepted', LogRecords', today')
             /\ CleansUp(scratch, Oldest, InLogs')
             /\ \A k \in Kinds : ~Before(PartEnds[k], scratch.ends[k])
  <2>1. /\ IndexOK(scratch, Known, Accepted, LogRecords, today) /\ CleansUp(scratch, Oldest, InLogs)
        /\ \A k \in Kinds : ~Before(PartEnds[k], scratch.ends[k])
    BY <1>1, <1>5 DEF ReindexingOK
  <2>2. CleansUp(scratch, Oldest, InLogs')
    BY <1>4, <1>5, <2>1, CleansUpStill
  <2>3. ASSUME NEW a \in Known \union Known', BehindCuts(a.at) PROVE ~IsBefore(a, scratch.ends)
    <3>1. ~Before(PositionOf(a.at), PartEnds[a.at.kind])
      BY <1>5, <2>3 DEF BehindCuts, Building
    <3>2. a \in ZgramInfos
      <4>1. a \in Accepted' \/ a \in InLogs' \/ a \in Known
        BY DEF Known
      <4>2. a \in InLogs' \/ a \in Known
        BY <1>1, <4>1, KnownZgrams DEF Growth
      <4>3. InLogs' \subseteq ZgramInfos
        BY InfosOfLocated DEF GoesOn, InLogs
      <4> QED BY <1>1, <4>2, <4>3, KnownZgrams
    <3>3. /\ PositionOf(a.at) \in Positions /\ PartEnds[a.at.kind] \in Positions
          /\ scratch.ends[a.at.kind] \in Positions /\ a.at.kind \in Kinds
      BY <1>1, <3>2, KnownZgrams, EndsArePositions DEF Begins
    <3> QED BY <2>1, <3>1, <3>3, BeforeIsAnOrder DEF IsBefore, Begins
  <2>4. IndexOK(scratch, Known', Accepted', LogRecords', today')
    BY <1>1, <2>1, <2>3, IndexGrows
  <2> QED BY <2>1, <2>2, <2>4
<1>6. ASSUME reindexing.step \in {"done", "reset"}
      PROVE  CleansUp(published, Oldest, InLogs')
  BY <1>1, <1>4, <1>6, CleansUpStill DEF ReindexingOK
<1>7. reindexing.step = "reset" => \A z \in OfLog(All', "unlogged") : z.at.day >= Oldest
  BY <1>1 DEF GoesOn, ReindexingOK
<1> QED BY <1>2, <1>3, <1>4, <1>5, <1>6, <1>7 DEF ReindexingOK
-------------------------------------------------------------------------------
(* The steps that only add.                                                    *)

LEMMA SameLogs ==
    ASSUME UNCHANGED <<files, acknowledged, halfWritten>>
    PROVE  /\ UNCHANGED LogRecords /\ UNCHANGED InLogs /\ UNCHANGED Accepted
           /\ UNCHANGED Graffiti /\ UNCHANGED Known /\ (Spoilt' <=> Spoilt)
           /\ \A k \in Kinds : UNCHANGED Logs(k)
<1>1. \A k \in Kinds : UNCHANGED Logs(k)
  BY DEF Logs
<1>2. UNCHANGED LogRecords
  BY DEF LogRecords, Logs
<1>3. UNCHANGED InLogs /\ UNCHANGED Accepted
  BY <1>2 DEF InLogs, Accepted
<1> QED BY <1>1, <1>2, <1>3 DEF Graffiti, Known, Spoilt

LEMMA SameMemory ==
    ASSUME UNCHANGED memory
    PROVE  /\ UNCHANGED All /\ UNCHANGED NextZgramId /\ (InTheirOrder' <=> InTheirOrder)
           /\ UNCHANGED frozen /\ UNCHANGED dynamic /\ UNCHANGED state
<1>1. UNCHANGED frozen /\ UNCHANGED dynamic /\ UNCHANGED state
  BY DEF memory
<1>2. UNCHANGED All
  BY <1>1 DEF All
<1>3. UNCHANGED NextZgramId
  BY <1>1 DEF NextZgramId
<1> QED BY <1>1, <1>2, <1>3 DEF InTheirOrder

LEMMA NewDayKeeps ==
    ASSUME ~quietWeek', StoreOK, NewDay
    PROVE  StoreOK'
<1>1. /\ LogStoreTypeOK /\ LogsOK /\ NeverQuiet /\ ServingOK
  BY DEF StoreOK
<1>2. /\ today' = today + 1 /\ today < LastDay /\ UNCHANGED memory
      /\ UNCHANGED <<files, published, scratch, serving, posting, reindexing,
                     written, crashes, failures, acknowledged, halfWritten, refused>>
  BY DEF NewDay, disk, bounds, history
<1>3. /\ today \in Nat /\ today' \in Nat /\ today <= today' /\ Lifespan \in Nat /\ LastDay \in Nat /\ FirstDay \in Nat
      /\ today \in FirstDay..LastDay /\ today' \in FirstDay..LastDay
  <2>1. today \in FirstDay..LastDay /\ LastDay \in Nat /\ FirstDay \in Nat /\ Lifespan \in Nat
    BY <1>1, LogStoreAssumption DEF LogStoreTypeOK, FirstDay
  <2> QED BY <1>2, <2>1
<1>4. /\ UNCHANGED LogRecords /\ UNCHANGED InLogs /\ UNCHANGED Accepted
      /\ UNCHANGED Graffiti /\ UNCHANGED Known /\ (Spoilt' <=> Spoilt)
      /\ \A k \in Kinds : UNCHANGED Logs(k)
  BY <1>2, SameLogs
<1>5. /\ UNCHANGED All /\ UNCHANGED NextZgramId /\ (InTheirOrder' <=> InTheirOrder)
      /\ UNCHANGED frozen /\ UNCHANGED dynamic /\ UNCHANGED state
  BY <1>2, SameMemory
<1>6. LogStoreTypeOK'
  <2>1. \A k \in Kinds : LogFilesOK(files[k], today')
    <3>1. \A k \in Kinds : LogFilesOK(files[k], today)
      BY <1>1 DEF LogStoreTypeOK
    <3>2. FirstDay..today \subseteq FirstDay..today'
      BY <1>3
    <3> QED BY <3>1, <3>2 DEF LogFilesOK
  <2> QED BY <1>1, <1>2, <1>3, <1>5, <2>1 DEF LogStoreTypeOK
<1>7. Growth
  BY <1>3, <1>4 DEF Growth
<1>8. GoesOn
  <2>1. LogRecords' \subseteq Located
    BY <1>1, <1>4, RecordsOfLogs
  <2>2. \A k \in Kinds : ~Before(state'[k], state[k])
    BY <1>1, <1>5, EndsArePositions, BeforeIsAnOrder
  <2> QED BY <1>1, <1>2, <1>4, <1>5, <2>1, <2>2, EndsArePositions DEF GoesOn, OfLog
<1>9. \A a \in ZgramInfos : IsOld(a, today) => IsOld(a, today')
  BY <1>1, <1>7, OldStaysOld
<1>10. LogsOK'
  <2>1. \A a \in Accepted : a \in InLogs \/ IsOld(a, today')
    BY <1>1, <1>9, KnownZgrams DEF LogsOK
  <2>2. \A a \in Accepted : a.at.day <= today'
    BY <1>1, <1>3, KnownZgrams DEF LogsOK
  <2> QED BY <1>1, <1>2, <1>4, <2>1, <2>2 DEF LogsOK
<1>11. NeverQuiet'
  <2>1. SUFFICES ASSUME Graffiti # {}
                 PROVE  OfLog(InLogs, "unlogged") # {} /\ \E g \in OfLog(InLogs, "unlogged") : ~IsOld(g, today')
    BY <1>4 DEF NeverQuiet
  <2>2. OfLog(InLogs, "unlogged") # {}
    BY <1>1, <2>1 DEF NeverQuiet
  <2>3. /\ LogFilesOK(files["unlogged"], today) /\ Logs("unlogged") = {l \in LogRecords : l.at.kind = "unlogged"}
        /\ LogRecords \subseteq Located
    BY <1>1, RecordsOfLogs, KindsAreKinds DEF LogStoreTypeOK
  <2>4. HasGraffiti(0)
    <3>1. PICK g \in OfLog(InLogs, "unlogged") : TRUE
      BY <2>2
    <3>2. PICK l \in LogRecords : l.record.type = "zgram" /\ l.at = g.at /\ l.at.kind = "unlogged"
      BY <3>1 DEF OfLog, InLogs, Infos, ZgramInfo
    <3>3. l \in Contents(files["unlogged"], "unlogged")
      BY <2>3, <3>2 DEF Logs
    <3>4. PICK fs : fs = files["unlogged"]
      OBVIOUS
    <3>5. /\ l.at.day \in DOMAIN fs /\ l.at.offset < Len(fs[l.at.day]) /\ l.record = fs[l.at.day][l.at.offset + 1]
          /\ l.at.day \in Nat /\ l \in Located /\ fs[l.at.day] \in Seq(Records)
      BY <1>3, <2>3, <3>3, <3>4, ContentsOfFiles, KindsAreKinds
    <3>6. l.at.offset \in Nat /\ Len(fs[l.at.day]) \in Nat
      BY <3>5, LenProperties DEF Located, Locations
    <3>7. l.at.offset + 1 \in 1..Len(fs[l.at.day])
      BY <3>5, <3>6
    <3> QED BY <3>2, <3>4, <3>5, <3>7 DEF HasGraffiti
  <2>5. HasGraffiti(today + 1 - Lifespan)
    BY <2>4 DEF NewDay
  <2>6. PICK day \in DOMAIN files["unlogged"] :
          /\ day >= today + 1 - Lifespan
          /\ \E i \in 1..Len(files["unlogged"][day]) : files["unlogged"][day][i].type = "zgram"
    BY <2>5 DEF HasGraffiti
  <2>7. PICK i \in 1..Len(files["unlogged"][day]) : files["unlogged"][day][i].type = "zgram"
    BY <2>6
  <2>8. day \in Nat
    BY <1>3, <2>3, ContentsOfFiles, KindsAreKinds
  <2>9. PICK l : l = [record |-> files["unlogged"][day][i], at |-> [kind |-> "unlogged", day |-> day, offset |-> i - 1]]
    OBVIOUS
  <2>10. l \in LogRecords
    <3>1. l \in Contents(files["unlogged"], "unlogged")
      BY <1>3, <2>3, <2>9, ContentsOfFiles, KindsAreKinds
    <3> QED BY <2>3, <3>1 DEF Logs
  <2>11. ZgramInfo(l) \in OfLog(InLogs, "unlogged") /\ ZgramInfo(l).at.day = day
    BY <2>7, <2>9, <2>10 DEF OfLog, InLogs, Infos, ZgramInfo
  <2>12. ~(day + Lifespan < today')
    BY <1>2, <1>3, <2>6, <2>8
  <2>13. ~IsOld(ZgramInfo(l), today')
    BY <2>11, <2>12 DEF IsOld
  <2> QED BY <2>2, <2>11, <2>13
<1>12. ServingOK'
  <2>1. serving # "serving" => posting = <<>>
    BY <1>1 DEF ServingOK
  <2>2. SUFFICES ASSUME serving = "serving" PROVE StateOK' /\ MemoryOK' /\ PostingOK'
    BY <1>2, <2>1 DEF ServingOK
  <2>3. StateOK /\ MemoryOK /\ PostingOK
    BY <1>1, <2>2 DEF ServingOK
  <2>4. StateOK'
    BY <1>2, <1>4, <1>5, <2>3 DEF StateOK
  <2>5. reindexing.step # "given up" => today' <= state["unlogged"][1] + Lifespan
    <3>1. PICK open \in Nat, now \in Nat, span \in Nat :
            open = state["unlogged"][1] /\ now = today /\ span = Lifespan
      BY <1>1, <1>3, EndsArePositions
    <3>2. ASSUME reindexing.step # "given up" PROVE now < open + span
      BY <2>2, <3>1, <3>2 DEF NewDay
    <3>3. now < open + span => now + 1 <= open + span
      OBVIOUS
    <3> QED BY <1>2, <3>1, <3>2, <3>3
  <2>6. \A a \in Accepted : (a \in All \/ IsOld(a, today')) /\ a.id < NextZgramId
    BY <1>1, <1>9, <2>3, KnownZgrams DEF MemoryOK
  <2>7. MemoryOK'
    BY <1>2, <1>4, <1>5, <2>3, <2>5, <2>6 DEF MemoryOK
  <2>8. (Building' <=> Building) /\ PartEnds' = PartEnds
    BY <1>2 DEF Building, PartEnds, Ranges
  <2>9. \A at : BehindCuts(at) => BehindCuts(at)'
    BY <1>2, <2>8 DEF BehindCuts
  <2>10. PostingOK'
    BY <1>2, <1>4, <1>5, <2>3, <2>9, KindsAreKinds DEF PostingOK
  <2> QED BY <2>4, <2>7, <2>10
<1> QED BY <1>6, <1>7, <1>8, <1>10, <1>11, <1>12, GrowthKeepsIndices, GrowthKeepsParts, GrowthKeepsReindexing
     DEF StoreOK

LEMMA InfosOfUnion ==
    ASSUME NEW A, NEW B
    PROVE  Infos(A \union B) = Infos(A) \union Infos(B)
BY DEF Infos

LEMMA EndsAreBehind ==
    ASSUME LogStoreTypeOK, StateOK, NEW ends, EndsIn(ends, LogRecords), NEW k \in Kinds
    PROVE  ends[k] \in Positions /\ ~Before(state[k], ends[k])
<1>1. state[k] \in Positions
  BY EndsArePositions
<1>2. CASE ends[k] = Zero
  <2>1. PICK d \in Nat, o \in Nat : state[k] = <<d, o>>
    BY <1>1 DEF Positions
  <2> QED BY <1>2, <2>1 DEF Before, Zero, Position, Positions
<1>3. CASE ends[k] # Zero
  <2>1. PICK l \in LogRecords : l.at.kind = k /\ ends[k] = Behind(l.at)
    BY <1>3 DEF EndsIn
  <2>2. l \in Logs(k) /\ l.at \in Locations
    BY <2>1, RecordsOfLogs DEF Located
  <2>3. Before(PositionOf(l.at), state[k])
    BY <2>2 DEF StateOK
  <2> QED BY <1>1, <2>1, <2>2, <2>3, LocationsArePositions
<1> QED BY <1>2, <1>3

LEMMA NewIsBehindCuts ==
    ASSUME StoreOK, serving = "serving", NEW at \in Locations,
           ~Before(PositionOf(at), state[at.kind])
    PROVE  BehindCuts(at)
<1>1. LogStoreTypeOK /\ StateOK /\ PublishedOK /\ PartsOK
  BY DEF StoreOK, ServingOK
<1>2. at.kind \in Kinds /\ PositionOf(at) \in Positions /\ state[at.kind] \in Positions
  BY <1>1, EndsArePositions, LocationsArePositions DEF Locations
<1>3. published.ends[at.kind] \in Positions /\ ~Before(state[at.kind], published.ends[at.kind])
  <2>1. EndsIn(published.ends, LogRecords)
    BY <1>1 DEF PublishedOK, IndexOK
  <2> QED BY <1>1, <1>2, <2>1, EndsAreBehind
<1>4. Building => PartEnds[at.kind] \in Positions /\ ~Before(state[at.kind], PartEnds[at.kind])
  BY <1>1, <1>2, EndsArePositions DEF PartsOK
<1> QED BY <1>2, <1>3, <1>4, BeforeIsAnOrder DEF BehindCuts

LEMMA AppendGoesOn ==
    ASSUME StoreOK, serving = "serving", NEW k \in Kinds, NEW records \in Seq(Records),
           AppendAndFlush(k, records), UNCHANGED <<today, published, scratch, reindexing, serving>>,
           reindexing.step # "reset"
    PROVE  GoesOn /\ StateOK' /\ LogRecords \subseteq LogRecords' /\ InLogs' = InLogs \union Infos(Appended(k, records))
<1>1. LogStoreTypeOK /\ StateOK
  BY DEF StoreOK, ServingOK
<1>2. /\ state' \in [Kinds -> Positions] /\ StateOK'
      /\ \A j \in Kinds : ~Before(state'[j], state[j])
      /\ LogRecords' = LogRecords \union Appended(k, records)
      /\ \A l \in Appended(k, records) :
           l \in Located /\ l.at.kind = k /\ l.at.day = state[k][1] /\ ~Before(PositionOf(l.at), state[k])
  BY <1>1, AppendKeepsState
<1>3. LogRecords' \subseteq Located /\ LogRecords \subseteq LogRecords'
  BY <1>1, <1>2, RecordsOfLogs
<1>4. InLogs' = InLogs \union Infos(Appended(k, records))
  BY <1>2, InfosOfUnion DEF InLogs
<1>5. ASSUME NEW l \in OfLog(InLogs', "unlogged")
      PROVE  l \in InLogs \/ (serving = "serving" /\ l.at.day >= state["unlogged"][1])
  <2>1. ASSUME l \in Infos(Appended(k, records)) PROVE l.at.day >= state["unlogged"][1]
    <3>1. PICK m \in Appended(k, records) : l.at = m.at
      BY <2>1 DEF Infos, ZgramInfo
    <3>2. l.at.kind = "unlogged"
      BY DEF OfLog
    <3>3. l.at.day = state["unlogged"][1] /\ state["unlogged"][1] \in Nat
      BY <1>1, <1>2, <3>1, <3>2, EndsArePositions
    <3> QED BY <3>3
  <2> QED BY <1>4, <2>1 DEF OfLog
<1> QED BY <1>2, <1>3, <1>4, <1>5 DEF GoesOn

\* What the Server holds: the zgrams are in the logs.
LEMMA InMemory ==
    ASSUME StoreOK, serving = "serving"
    PROVE  /\ LogStoreTypeOK /\ LogsOK /\ NeverQuiet /\ StateOK /\ MemoryOK /\ PostingOK
           /\ All \subseteq InLogs /\ NextZgramId \in Nat
           /\ written \in Nat /\ NextZgramId <= written
           /\ \A z \in dynamic.zgrams : dynamic.zgrams # {} => z.id < NextZgramId
           /\ \A z \in frozen.zgrams : dynamic.zgrams = {} => z.id < NextZgramId
<1>1. /\ LogStoreTypeOK /\ LogsOK /\ NeverQuiet /\ StateOK /\ MemoryOK /\ PostingOK
      /\ All \subseteq InLogs /\ written \in Nat
  BY DEF StoreOK, ServingOK, MemoryOK, LogStoreTypeOK
<1>2. /\ frozen.zgrams \in SUBSET ZgramInfos /\ dynamic.zgrams \in SUBSET ZgramInfos
      /\ \A z \in frozen.zgrams : z.id < written
      /\ \A z \in dynamic.zgrams : z.id < written
  BY <1>1, EndsArePositions DEF LogsOK, All
<1>3. CASE dynamic.zgrams = {}
  <2>1. NextZgramId = EndId(frozen.zgrams)
    BY <1>3 DEF NextZgramId
  <2>2. /\ EndId(frozen.zgrams) \in Nat /\ EndId(frozen.zgrams) <= written
        /\ \A z \in frozen.zgrams : z.id < EndId(frozen.zgrams)
    BY <1>1, <1>2, EndIdIsBehindAll
  <2> QED BY <1>1, <1>3, <2>1, <2>2
<1>4. CASE dynamic.zgrams # {}
  <2>1. NextZgramId = EndId(dynamic.zgrams)
    BY <1>4 DEF NextZgramId
  <2>2. /\ EndId(dynamic.zgrams) \in Nat /\ EndId(dynamic.zgrams) <= written
        /\ \A z \in dynamic.zgrams : z.id < EndId(dynamic.zgrams)
    BY <1>1, <1>2, EndIdIsBehindAll
  <2> QED BY <1>1, <1>4, <2>1, <2>2
<1> QED BY <1>3, <1>4

LEMMA AddMetadataKeeps ==
    ASSUME StoreOK, NEW id, AddMetadata(id)
    PROVE  StoreOK'
<1>1. serving = "serving" /\ posting = <<>> /\ reindexing.step # "reset"
  BY DEF AddMetadata, Idle
<1>2. /\ LogStoreTypeOK /\ LogsOK /\ NeverQuiet /\ StateOK /\ MemoryOK /\ PostingOK
      /\ All \subseteq InLogs /\ written \in Nat /\ NextZgramId \in Nat
  BY <1>1, InMemory
<1>3. PICK record : record = Metadata(id, written + 1)
  OBVIOUS
<1>4. PICK zgram \in Find(id) :
        /\ AppendAndFlush(DetermineLogged(zgram), <<record>>)
        /\ acknowledged' = acknowledged \union {[record |-> record, at |-> zgram.at]}
  BY <1>3 DEF AddMetadata
<1>5. /\ written' = written + 1
      /\ dynamic' = [dynamic EXCEPT !.metadata = @ \union {record}]
      /\ UNCHANGED <<today, published, scratch, serving, frozen, posting, reindexing,
                    crashes, failures, halfWritten, refused>>
  BY <1>3 DEF AddMetadata
<1>6. PICK k \in Kinds : k = DetermineLogged(zgram)
  <2>1. zgram \in All
    BY DEF Find, All
  <2> QED BY <1>2, <2>1, KnownZgrams, EndsArePositions DEF DetermineLogged
<1>7. /\ record \in Records /\ record.type = "metadata" /\ <<record>> \in Seq(Records)
      /\ [record |-> record, at |-> zgram.at] \in Located
  <2>1. zgram \in ZgramInfos /\ zgram.id = id
    BY <1>2, EndsArePositions DEF Find, All
  <2>2. id \in Nat /\ zgram.at \in Locations
    BY <2>1, KnownZgrams, <1>2
  <2>3. record \in Records /\ record.type = "metadata"
    BY <1>2, <1>3, <2>2 DEF Metadata, Records
  <2> QED BY <2>2, <2>3 DEF Located
<1>8. AppendAndFlush(k, <<record>>)
  BY <1>4, <1>6
<1>9. /\ GoesOn /\ StateOK' /\ LogRecords \subseteq LogRecords'
      /\ InLogs' = InLogs \union Infos(Appended(k, <<record>>))
  BY <1>1, <1>5, <1>7, <1>8, AppendGoesOn
<1>10. InLogs' = InLogs
  <2>1. \A l \in Appended(k, <<record>>) : l.record = record
    BY DEF Appended, AppendedTo
  <2>2. Infos(Appended(k, <<record>>)) = {}
    BY <1>7, <2>1 DEF Infos
  <2> QED BY <1>9, <2>2
<1>11. /\ files' = [j \in Kinds |-> files'[j]] /\ \A j \in Kinds : LogFilesOK(files'[j], today')
       /\ state' \in [Kinds -> Positions]
       /\ \A j \in Kinds : state'[j][1] = state[j][1] /\ ~Before(state'[j], state[j])
  BY <1>2, <1>5, <1>7, <1>8, AppendKeepsState
<1>12. Accepted' = Accepted
  <2>1. Infos({[record |-> record, at |-> zgram.at]}) = {}
    BY <1>7 DEF Infos
  <2>2. PICK new : new = {[record |-> record, at |-> zgram.at]}
    OBVIOUS
  <2>3. acknowledged' = acknowledged \union new /\ Infos(new) = {}
    BY <1>4, <2>1, <2>2
  <2> QED BY <2>3, InfosOfUnion DEF Accepted
<1>13. Graffiti' = Graffiti /\ Known' = Known /\ (Spoilt' <=> Spoilt)
  BY <1>5, <1>10, <1>12 DEF Graffiti, Known, Spoilt
<1>14. /\ dynamic' \in [zgrams : SUBSET ZgramInfos, metadata : SUBSET Records]
       /\ dynamic'.zgrams = dynamic.zgrams
  BY <1>2, <1>5, <1>7 DEF LogStoreTypeOK
<1>15. All' = All /\ NextZgramId' = NextZgramId /\ (InTheirOrder' <=> InTheirOrder)
  BY <1>5, <1>14 DEF All, NextZgramId, InTheirOrder
<1>16. LogStoreTypeOK'
  <2>1. acknowledged' \subseteq Located
    BY <1>2, <1>4, <1>7 DEF LogStoreTypeOK
  <2>2. /\ today' \in FirstDay..LastDay
        /\ published' \in Indices /\ scratch' \in Indices /\ frozen' \in Indices
        /\ serving' \in {"down", "serving", "stopped"}
        /\ posting' \in Seq(Located)
        /\ reindexing' \in [step: Steps, ranges: [Kinds -> [begin: Positions, end: Positions]]]
        /\ crashes' \in Nat /\ failures' \in Nat /\ halfWritten' \in BOOLEAN /\ refused' \in BOOLEAN
    BY <1>2, <1>5 DEF LogStoreTypeOK
  <2>3. written' \in Nat
    BY <1>2, <1>5
  <2> QED BY <1>11, <1>14, <2>1, <2>2, <2>3 DEF LogStoreTypeOK
<1>17. today \in Nat /\ today' = today
  BY <1>2, <1>5, RecordsOfLogs
<1>18. Growth
  BY <1>9, <1>10, <1>12, <1>13, <1>17 DEF Growth
<1>19. LogsOK'
  <2>1. \A l \in InLogs : l.id < written + 1
    BY <1>2, RecordsOfLogs DEF LogsOK
  <2> QED BY <1>2, <1>5, <1>10, <1>12, <1>13, <2>1 DEF LogsOK
<1>20. NeverQuiet'
  <2>1. Doomed' <=> Doomed
    BY <1>5, <1>10, <1>13 DEF Doomed, Ranges
  <2> QED BY <1>2, <1>5, <1>10, <1>13, <2>1 DEF NeverQuiet
<1>21. ServingOK'
  <2>1. \A a \in Graffiti : Before(Begins(a), state'["unlogged"])
    <3> TAKE a \in Graffiti
    <3>1. Before(Begins(a), state["unlogged"]) /\ ~Before(state'["unlogged"], state["unlogged"])
      BY <1>2, <1>11, KindsAreKinds DEF MemoryOK
    <3>2. Begins(a) \in Positions /\ state["unlogged"] \in Positions /\ state'["unlogged"] \in Positions
      BY <1>2, <1>11, KnownZgrams, EndsArePositions, KindsAreKinds DEF Graffiti, OfLog
    <3> QED BY <3>1, <3>2, BeforeIsAnOrder
  <2>2. MemoryOK'
    BY <1>2, <1>5, <1>10, <1>11, <1>12, <1>13, <1>15, <2>1, KindsAreKinds DEF MemoryOK
  <2>3. PostingOK'
    <3>1. NextZgramId + 0 <= written
      BY <1>1, <1>2 DEF PostingOK
    <3>2. NextZgramId + 0 <= written + 1
      BY <1>2, <3>1
    <3> QED BY <1>1, <1>5, <1>15, <3>2 DEF PostingOK
  <2> QED BY <1>1, <1>5, <1>9, <2>2, <2>3 DEF ServingOK
<1> QED BY <1>9, <1>16, <1>18, <1>19, <1>20, <1>21, GrowthKeepsIndices, GrowthKeepsParts, GrowthKeepsReindexing
     DEF StoreOK

\* Appending the records of a kind puts the cooked ones where they say they are.
LEMMA CookedAreAppended ==
    ASSUME NEW cooked \in Seq(Located), NEW k \in Kinds, state[k] \in Positions,
           \A i \in OfKind(cooked, k) :
             cooked[i].at = [kind |-> k, day |-> state[k][1],
                             offset |-> state[k][2] + Ahead(OfKind(cooked, k), i)]
    PROVE  /\ RecordsOf(cooked, k) \in Seq(Records)
           /\ Appended(k, RecordsOf(cooked, k)) = {cooked[i] : i \in OfKind(cooked, k)}
<1>1. PICK own : own = OfKind(cooked, k)
  OBVIOUS
<1>2. PICK records : records = RecordsOf(cooked, k)
  OBVIOUS
<1>3. PICK total \in Nat : total = Len(records)
  BY <1>2, RecordsOfKind, LenProperties
<1>4. /\ records \in Seq(Records) /\ Len(records) = total
      /\ \A i \in own : Ahead(own, i) + 1 \in 1..total /\ records[Ahead(own, i) + 1] = cooked[i].record
      /\ \A n \in 1..total : \E i \in own : Ahead(own, i) + 1 = n /\ records[n] = cooked[i].record
      /\ \A i \in own : Ahead(own, i) \in Nat
  BY <1>1, <1>2, <1>3, RecordsOfKind
<1>5. PICK d \in Nat, o \in Nat : state[k] = <<d, o>>
  BY DEF Positions
<1>6. \A i \in own : cooked[i] = [record |-> cooked[i].record,
                                  at |-> [kind |-> k, day |-> d, offset |-> o + Ahead(own, i)]]
  <2> TAKE i \in own
  <2>1. i \in DOMAIN cooked
    BY <1>1 DEF OfKind
  <2>2. cooked[i] \in Located
    BY <2>1, ElementOfSeq
  <2>3. cooked[i].at = [kind |-> k, day |-> state[k][1], offset |-> state[k][2] + Ahead(own, i)]
    BY <1>1
  <2>4. state[k][1] = d /\ state[k][2] = o
    BY <1>5
  <2>5. cooked[i].at = [kind |-> k, day |-> d, offset |-> o + Ahead(own, i)]
    BY <2>3, <2>4
  <2> QED BY <2>2, <2>5 DEF Located
<1>7. Appended(k, records)
        = {[record |-> records[n], at |-> [kind |-> k, day |-> d, offset |-> o + n - 1]] : n \in 1..total}
  BY <1>4, <1>5 DEF Appended, AppendedTo
<1>8. ASSUME NEW i \in own PROVE cooked[i] \in Appended(k, records)
  <2>1. PICK a \in Nat : a = Ahead(own, i)
    BY <1>4
  <2>2. a + 1 \in 1..total /\ records[a + 1] = cooked[i].record /\ o + (a + 1) - 1 = o + a
    BY <1>4, <2>1
  <2>3. cooked[i] = [record |-> records[a + 1], at |-> [kind |-> k, day |-> d, offset |-> o + (a + 1) - 1]]
    BY <1>6, <2>1, <2>2
  <2> QED BY <1>7, <2>2, <2>3
<1>9. ASSUME NEW l \in Appended(k, records) PROVE l \in {cooked[i] : i \in own}
  <2>1. PICK n \in 1..total : l = [record |-> records[n], at |-> [kind |-> k, day |-> d, offset |-> o + n - 1]]
    BY <1>7
  <2>2. PICK i \in own : Ahead(own, i) + 1 = n /\ records[n] = cooked[i].record
    BY <1>4
  <2>3. PICK a \in Nat : a = Ahead(own, i)
    BY <1>4
  <2>4. o + n - 1 = o + a
    BY <2>2, <2>3
  <2>5. l = cooked[i]
    BY <1>6, <2>1, <2>2, <2>3, <2>4
  <2> QED BY <2>5
<1> QED BY <1>1, <1>2, <1>4, <1>8, <1>9

LEMMA CookedWhere ==
    ASSUME NEW batch \in Seq(Kinds), NEW first \in Nat, first = NextZgramId, written \in Nat,
           state \in [Kinds -> Positions]
    PROVE  /\ Cook(batch) \in Seq(Located) /\ Len(batch) \in Nat /\ DOMAIN Cook(batch) = 1..Len(batch)
           /\ Len(Cook(batch)) = Len(batch)
           /\ \A i \in 1..Len(batch) :
                LET k == batch[i]
                IN /\ k \in Kinds /\ Cook(batch)[i].record = Zgram(first + i - 1, written + i)
                   /\ Cook(batch)[i].at = [kind |-> k, day |-> state[k][1],
                                           offset |-> state[k][2] + Ahead(OfKind(Cook(batch), k), i)]
                   /\ Ahead(OfKind(Cook(batch), k), i) \in Nat
                   /\ ~Before(PositionOf(Cook(batch)[i].at), state[k])
<1>1. PICK n \in Nat : n = Len(batch)
  BY LenProperties
<1>2. PICK cooked : cooked = Cook(batch)
  OBVIOUS
<1>3. DOMAIN batch = 1..n /\ \A i \in 1..n : batch[i] \in Kinds
  BY <1>1, LenProperties, ElementOfSeq
<1>4. cooked = [i \in 1..n |->
        [record |-> Zgram(first + i - 1, written + i),
         at |-> [kind |-> batch[i], day |-> state[batch[i]][1],
                 offset |-> state[batch[i]][2] + Ahead({j \in 1..n : batch[j] = batch[i]}, i)]]]
  BY <1>1, <1>2, <1>3 DEF Cook
<1>5. \A k : OfKind(cooked, k) = {j \in 1..n : batch[j] = k}
  BY <1>4 DEF OfKind
<1>6. ASSUME NEW i \in 1..n
      PROVE  /\ cooked[i] \in Located /\ batch[i] \in Kinds
             /\ cooked[i].record = Zgram(first + i - 1, written + i)
             /\ cooked[i].at = [kind |-> batch[i], day |-> state[batch[i]][1],
                                offset |-> state[batch[i]][2] + Ahead(OfKind(cooked, batch[i]), i)]
             /\ Ahead(OfKind(cooked, batch[i]), i) \in Nat
             /\ ~Before(PositionOf(cooked[i].at), state[batch[i]])
  <2>1. PICK k \in Kinds : k = batch[i]
    BY <1>3
  <2>2. PICK own : own = OfKind(cooked, k)
    OBVIOUS
  <2>3. own = {j \in 1..n : batch[j] = k} /\ i \in own /\ own \in SUBSET (1..n)
    BY <1>5, <2>1, <2>2
  <2>4. Ahead(own, i) \in Nat
    BY <2>3, AheadCounts
  <2>5. PICK d \in Nat, o \in Nat : state[k] = <<d, o>>
    BY <2>1 DEF Positions
  <2>6. PICK a \in Nat : a = Ahead(own, i)
    BY <2>4
  <2>7. cooked[i] = [record |-> Zgram(first + i - 1, written + i),
                     at |-> [kind |-> k, day |-> d, offset |-> o + a]]
    BY <1>4, <2>1, <2>3, <2>5, <2>6
  <2>8. Zgram(first + i - 1, written + i) \in Records
    <3>1. first + i - 1 \in Nat /\ written + i \in Nat
      OBVIOUS
    <3> QED BY <3>1 DEF Zgram, Records
  <2>9. cooked[i] \in Located
    BY <2>7, <2>8 DEF Located, Locations
  <2>10. ~Before(PositionOf(cooked[i].at), state[k])
    BY <2>5, <2>7 DEF Before, PositionOf, Position
  <2> QED BY <2>1, <2>2, <2>4, <2>5, <2>6, <2>7, <2>9, <2>10
<1>7. cooked \in Seq(Located) /\ Len(cooked) = n /\ DOMAIN cooked = 1..n
  <2>1. cooked \in [1..n -> Located] /\ DOMAIN cooked = 1..n
    BY <1>4, <1>6
  <2>2. cooked \in Seq(Located)
    BY <2>1, SeqDef
  <2> QED BY <2>1, <2>2, LenProperties
<1> QED BY <1>1, <1>2, <1>6, <1>7

\* After the first write: what a batch added to the logged log.
LEMMA PostWrites ==
    ASSUME StoreOK, NEW batch \in Batches, Post(batch), NEW first, first = NextZgramId
    PROVE  /\ GoesOn /\ StateOK' /\ LogRecords \subseteq LogRecords'
           /\ files' = [j \in Kinds |-> files'[j]] /\ \A j \in Kinds : LogFilesOK(files'[j], today')
           /\ state' \in [Kinds -> Positions] /\ state'["unlogged"] = state["unlogged"]
           /\ posting' \in Seq(Located) /\ Len(posting') = Len(batch) /\ Len(batch) \in Nat
           /\ DOMAIN posting' = 1..Len(batch)
           /\ \A i \in 1..Len(batch) :
                /\ posting'[i].record = Zgram(first + i - 1, written + i)
                /\ BehindCuts(posting'[i].at) /\ posting'[i].at.kind \in Kinds
                /\ posting'[i].at.kind = "logged" =>
                     posting'[i] \in Logs("logged")' /\ ~Before(PositionOf(posting'[i].at), state["logged"])
                /\ posting'[i].at.kind = "unlogged" =>
                     posting'[i].at = [kind |-> "unlogged", day |-> state["unlogged"][1],
                                       offset |-> state["unlogged"][2] + Ahead(OfKind(posting', "unlogged"), i)]
           /\ InLogs' = InLogs \union {ZgramInfo(posting'[i]) : i \in OfKind(posting', "logged")}
           /\ \A i, j \in OfKind(posting', "logged") :
                Before(PositionOf(posting'[i].at), PositionOf(posting'[j].at)) => i < j
<1>1. serving = "serving" /\ posting = <<>> /\ reindexing.step # "reset"
  BY DEF Post, Idle
<1>2. /\ LogStoreTypeOK /\ StateOK /\ written \in Nat /\ first \in Nat
      /\ state \in [Kinds -> Positions] /\ batch \in Seq(Kinds)
  BY <1>1, InMemory, EndsArePositions, LogStoreAssumption
<1>3. PICK cooked : cooked = Cook(batch)
  OBVIOUS
<1>4. PICK records : records = RecordsOf(cooked, "logged")
  OBVIOUS
<1>5. /\ posting' = cooked /\ AppendAndFlush("logged", records)
      /\ UNCHANGED <<today, published, scratch, reindexing, serving>>
  BY <1>3, <1>4 DEF Post
<1>6. /\ cooked \in Seq(Located) /\ Len(batch) \in Nat /\ DOMAIN cooked = 1..Len(batch)
      /\ Len(cooked) = Len(batch)
      /\ \A i \in 1..Len(batch) :
           /\ cooked[i].record = Zgram(first + i - 1, written + i)
           /\ batch[i] \in Kinds
           /\ cooked[i].at = [kind |-> batch[i], day |-> state[batch[i]][1],
                              offset |-> state[batch[i]][2] + Ahead(OfKind(cooked, batch[i]), i)]
           /\ Ahead(OfKind(cooked, batch[i]), i) \in Nat
           /\ ~Before(PositionOf(cooked[i].at), state[batch[i]])
  BY <1>2, <1>3, CookedWhere
<1>7. ASSUME NEW i \in 1..Len(batch) PROVE cooked[i].at.kind = batch[i] /\ cooked[i] \in Located
  <2>1. cooked[i].at = [kind |-> batch[i], day |-> state[batch[i]][1],
                        offset |-> state[batch[i]][2] + Ahead(OfKind(cooked, batch[i]), i)]
    BY <1>6
  <2>2. cooked[i] \in Located
    BY <1>6, ElementOfSeq
  <2> QED BY <2>1, <2>2
<1>8. /\ records \in Seq(Records)
      /\ Appended("logged", records) = {cooked[i] : i \in OfKind(cooked, "logged")}
  <2>1. \A i \in OfKind(cooked, "logged") :
          cooked[i].at = [kind |-> "logged", day |-> state["logged"][1],
                          offset |-> state["logged"][2] + Ahead(OfKind(cooked, "logged"), i)]
    <3> TAKE i \in OfKind(cooked, "logged")
    <3>1. i \in 1..Len(batch) /\ cooked[i].at.kind = "logged"
      BY <1>6 DEF OfKind
    <3> QED BY <1>6, <1>7, <3>1
  <2> QED BY <1>2, <1>4, <1>6, <2>1, CookedAreAppended, KindsAreKinds
<1>9. /\ GoesOn /\ StateOK' /\ LogRecords \subseteq LogRecords'
      /\ InLogs' = InLogs \union Infos(Appended("logged", records))
  BY <1>1, <1>5, <1>8, AppendGoesOn, KindsAreKinds
<1>10. /\ files' = [j \in Kinds |-> files'[j]] /\ \A j \in Kinds : LogFilesOK(files'[j], today')
       /\ state' \in [Kinds -> Positions] /\ state'["unlogged"] = state["unlogged"]
       /\ LogRecords' = LogRecords \union Appended("logged", records)
  BY <1>2, <1>5, <1>8, AppendKeepsState, KindsAreKinds
<1>11. ASSUME NEW i \in OfKind(cooked, "logged") PROVE cooked[i].record.type = "zgram"
  <2>1. i \in 1..Len(batch)
    BY <1>6 DEF OfKind
  <2>2. cooked[i].record = Zgram(first + i - 1, written + i)
    BY <1>6, <2>1
  <2> QED BY <2>2 DEF Zgram
<1>12. InLogs' = InLogs \union {ZgramInfo(cooked[i]) : i \in OfKind(cooked, "logged")}
  <2>1. Infos({cooked[i] : i \in OfKind(cooked, "logged")}) = {ZgramInfo(cooked[i]) : i \in OfKind(cooked, "logged")}
    BY <1>11 DEF Infos
  <2> QED BY <1>8, <1>9, <2>1
<1>13. ASSUME NEW i \in 1..Len(batch)
       PROVE  /\ BehindCuts(cooked[i].at) /\ cooked[i].at.kind \in Kinds
              /\ cooked[i].at.kind = "logged" =>
                   cooked[i] \in Logs("logged")' /\ ~Before(PositionOf(cooked[i].at), state["logged"])
              /\ cooked[i].at.kind = "unlogged" =>
                   cooked[i].at = [kind |-> "unlogged", day |-> state["unlogged"][1],
                                   offset |-> state["unlogged"][2] + Ahead(OfKind(cooked, "unlogged"), i)]
  <2>1. cooked[i].at \in Locations /\ ~Before(PositionOf(cooked[i].at), state[cooked[i].at.kind])
    BY <1>6, <1>7 DEF Located
  <2>2. BehindCuts(cooked[i].at)
    BY <1>1, <2>1, NewIsBehindCuts
  <2>3. ASSUME cooked[i].at.kind = "logged" PROVE cooked[i] \in Logs("logged")'
    <3>1. cooked[i] \in Appended("logged", records)
      BY <1>6, <1>8, <2>3 DEF OfKind
    <3>2. Contents(files'["logged"], "logged") = {l \in LogRecords' : l.at.kind = "logged"}
      <4>1. \A l \in Contents(files'["logged"], "logged") : l.at.kind = "logged"
        BY DEF Contents, ParseLogFile
      <4>2. \A l \in Contents(files'["unlogged"], "unlogged") : l.at.kind = "unlogged"
        BY DEF Contents, ParseLogFile
      <4> QED BY <4>1, <4>2 DEF LogRecords, Logs
    <3> QED BY <1>10, <2>3, <3>1, <3>2 DEF Logs
  <2> QED BY <1>6, <1>7, <2>1, <2>2, <2>3 
<1>14. ASSUME NEW i \in OfKind(cooked, "logged"), NEW j \in OfKind(cooked, "logged"),
              Before(PositionOf(cooked[i].at), PositionOf(cooked[j].at))
       PROVE  i < j
  <2>1. PICK own : own = OfKind(cooked, "logged")
    OBVIOUS
  <2>2. PICK d \in Nat, o \in Nat : state["logged"] = <<d, o>>
    BY <1>2, KindsAreKinds DEF Positions
  <2>3. i \in 1..Len(batch) /\ j \in 1..Len(batch) /\ batch[i] = "logged" /\ batch[j] = "logged"
    BY <1>6, <1>7 DEF OfKind
  <2>4. PICK a \in Nat, b \in Nat : a = Ahead(own, i) /\ b = Ahead(own, j)
    BY <1>6, <2>1, <2>3
  <2>5. /\ cooked[i].at = [kind |-> "logged", day |-> d, offset |-> o + a]
        /\ cooked[j].at = [kind |-> "logged", day |-> d, offset |-> o + b]
    <3>1. state["logged"][1] = d /\ state["logged"][2] = o
      BY <2>2
    <3>2. ASSUME NEW n \in 1..Len(batch), batch[n] = "logged"
          PROVE  cooked[n].at = [kind |-> "logged", day |-> d, offset |-> o + Ahead(own, n)]
      <4>1. cooked[n].at = [kind |-> batch[n], day |-> state[batch[n]][1],
                            offset |-> state[batch[n]][2] + Ahead(OfKind(cooked, batch[n]), n)]
        BY <1>6
      <4> QED BY <2>1, <3>1, <3>2, <4>1
    <3> QED BY <2>3, <2>4, <3>2
  <2>6. a < b
    BY <1>14, <2>5 DEF Before, PositionOf, Position
  <2>7. ASSUME j < i PROVE b < a
    BY <1>6, <2>1, <2>4, <2>7, RecordsOfKind
  <2>8. i # j
    BY <2>4, <2>6
  <2> QED BY <2>3, <2>6, <2>7, <2>8
<1> QED BY <1>5, <1>6, <1>9, <1>10, <1>12, <1>13, <1>14

LEMMA PostKeeps ==
    ASSUME StoreOK, NEW batch \in Batches, Post(batch)
    PROVE  StoreOK'
<1>1. serving = "serving" /\ posting = <<>> /\ reindexing.step # "reset"
  BY DEF Post, Idle
<1>2. /\ LogStoreTypeOK /\ LogsOK /\ NeverQuiet /\ StateOK /\ MemoryOK /\ PostingOK
      /\ All \subseteq InLogs /\ written \in Nat /\ NextZgramId \in Nat /\ NextZgramId <= written
  BY <1>1, InMemory
<1>3. PICK first \in Nat : first = NextZgramId
  BY <1>2
<1>4. PICK n \in Nat : n = Len(batch)
  BY <1>3, PostWrites
<1>5. PICK cooked : cooked = posting'
  OBVIOUS
<1>6. /\ GoesOn /\ StateOK' /\ LogRecords \subseteq LogRecords'
      /\ files' = [j \in Kinds |-> files'[j]] /\ \A j \in Kinds : LogFilesOK(files'[j], today')
      /\ state' \in [Kinds -> Positions] /\ state'["unlogged"] = state["unlogged"]
      /\ cooked \in Seq(Located) /\ Len(cooked) = n /\ DOMAIN cooked = 1..n
      /\ \A i \in 1..n :
           /\ cooked[i].record = Zgram(first + i - 1, written + i)
           /\ BehindCuts(cooked[i].at) /\ cooked[i].at.kind \in Kinds
           /\ cooked[i].at.kind = "logged" =>
                cooked[i] \in Logs("logged")' /\ ~Before(PositionOf(cooked[i].at), state["logged"])
           /\ cooked[i].at.kind = "unlogged" =>
                cooked[i].at = [kind |-> "unlogged", day |-> state["unlogged"][1],
                                offset |-> state["unlogged"][2] + Ahead(OfKind(cooked, "unlogged"), i)]
      /\ InLogs' = InLogs \union {ZgramInfo(cooked[i]) : i \in OfKind(cooked, "logged")}
      /\ \A i, j \in OfKind(cooked, "logged") :
           Before(PositionOf(cooked[i].at), PositionOf(cooked[j].at)) => i < j
  BY <1>3, <1>4, <1>5, PostWrites
<1>7. /\ posting' = cooked /\ written' = written + n
      /\ UNCHANGED <<today, published, scratch, serving, frozen, dynamic, reindexing, crashes, failures>>
      /\ UNCHANGED <<acknowledged, halfWritten, refused>>
  BY <1>4, <1>5 DEF Post, history
<1>8. PICK new : new = {ZgramInfo(cooked[i]) : i \in OfKind(cooked, "logged")}
  OBVIOUS
<1>9. \A z \in new : \E i \in 1..n :
        /\ i \in OfKind(cooked, "logged") /\ z = ZgramInfo(cooked[i]) /\ z.id = first + i - 1
        /\ z.at = cooked[i].at /\ z.at.kind = "logged" /\ Begins(z) = PositionOf(cooked[i].at)
  <2> TAKE z \in new
  <2>1. PICK i \in OfKind(cooked, "logged") : z = ZgramInfo(cooked[i])
    BY <1>8
  <2>2. i \in 1..n /\ cooked[i].at.kind = "logged"
    BY <1>6 DEF OfKind
  <2>3. cooked[i].record = Zgram(first + i - 1, written + i)
    BY <1>6, <2>2
  <2>4. cooked[i].record.id = first + i - 1
    BY <2>3 DEF Zgram
  <2> QED BY <2>1, <2>2, <2>4 DEF ZgramInfo, Begins
<1>10. InLogs' = InLogs \union new /\ InLogs \subseteq ZgramInfos /\ new \subseteq ZgramInfos
  <2>1. InLogs' = InLogs \union new
    BY <1>6, <1>8
  <2>2. InLogs' \subseteq ZgramInfos
    BY <1>6, InfosOfLocated DEF GoesOn, InLogs
  <2> QED BY <2>1, <2>2
<1>11. \A z \in new : /\ first <= z.id /\ z.id < written + n /\ z.at.kind = "logged" /\ BehindCuts(z.at)
                      /\ ~Before(Begins(z), state["logged"])
  <2> TAKE z \in new
  <2>1. PICK i \in 1..n : /\ i \in OfKind(cooked, "logged") /\ z.id = first + i - 1
                          /\ z.at = cooked[i].at /\ z.at.kind = "logged" /\ Begins(z) = PositionOf(cooked[i].at)
    BY <1>9
  <2>2. first <= written
    BY <1>2, <1>3
  <2>3. first <= z.id /\ z.id < written + n
    BY <1>2, <2>1, <2>2
  <2>4. BehindCuts(z.at) /\ ~Before(Begins(z), state["logged"])
    BY <1>6, <2>1
  <2> QED BY <2>1, <2>3, <2>4
<1>12. Accepted' = Accepted /\ Graffiti' = Graffiti
  BY <1>7 DEF Accepted, Graffiti
<1>13. All' = All /\ NextZgramId' = first /\ (InTheirOrder' <=> InTheirOrder)
  BY <1>3, <1>7 DEF All, NextZgramId, InTheirOrder
<1>14. Known \subseteq Known' /\ Known' \subseteq Known \union (IF halfWritten THEN {} ELSE new)
  BY <1>7, <1>10, <1>12 DEF Known
<1>15. halfWritten \/ \A l \in InLogs : l.id < first
  <2>1. Infos(ToSet(posting)) = {}
    BY <1>1 DEF Infos, ToSet
  <2> QED BY <1>2, <1>3, <2>1 DEF MemoryOK
<1>16. \A a \in Known : a.id < first /\ a.id \in Nat
  <2>1. \A a \in Accepted : a.id < first
    BY <1>2, <1>3 DEF MemoryOK
  <2>2. \A a \in Known : a.id \in Nat
    BY <1>2, KnownZgrams
  <2> QED BY <1>15, <2>1, <2>2 DEF Known
<1>17. today \in Nat /\ today' = today
  BY <1>2, <1>7, RecordsOfLogs
<1>18. Growth
  <2>1. \A l \in InLogs' : l \in InLogs \/ \A a \in Known : a.id < l.id
    <3>1. ASSUME NEW l \in new, NEW a \in Known PROVE a.id < l.id
      <4>1. a.id < first /\ a.id \in Nat /\ first <= l.id /\ l.id \in Nat
        BY <1>10, <1>11, <1>16, KnownZgrams, <1>2
      <4> QED BY <4>1
    <3> QED BY <1>10, <3>1
  <2>2. \A a \in Known' : a \in Known \/ BehindCuts(a.at)
    BY <1>11, <1>14
  <2> QED BY <1>6, <1>12, <1>17, <2>1, <2>2 DEF Growth
<1>19. OfLog(InLogs', "unlogged") = OfLog(InLogs, "unlogged")
  BY <1>10, <1>11 DEF OfLog
<1>20. LogStoreTypeOK'
  <2>1. posting' \in Seq(Located) /\ written' \in Nat
    BY <1>2, <1>6, <1>7
  <2>2. /\ today' \in FirstDay..LastDay
        /\ published' \in Indices /\ scratch' \in Indices /\ frozen' \in Indices
        /\ dynamic' \in [zgrams: SUBSET ZgramInfos, metadata: SUBSET Records]
        /\ serving' \in {"down", "serving", "stopped"}
        /\ reindexing' \in [step: Steps, ranges: [Kinds -> [begin: Positions, end: Positions]]]
        /\ crashes' \in Nat /\ failures' \in Nat /\ halfWritten' \in BOOLEAN /\ refused' \in BOOLEAN
        /\ acknowledged' \subseteq Located
    BY <1>2, <1>7 DEF LogStoreTypeOK
  <2> QED BY <1>6, <2>1, <2>2 DEF LogStoreTypeOK
<1>21. ~halfWritten => InOrder(OfLog(InLogs', "logged")) /\ NoneTwice(Known \union new)
  <2>0. SUFFICES ASSUME ~halfWritten PROVE InOrder(OfLog(InLogs', "logged")) /\ NoneTwice(Known \union new)
    OBVIOUS
  <2>1. InOrder(OfLog(InLogs, "logged")) /\ NoneTwice(Known)
    BY <1>2, <2>0 DEF LogsOK
  <2>2. ASSUME NEW a \in InLogs, NEW b \in new PROVE a.id < b.id /\ (a.at.kind = "logged" => ~Before(Begins(b), Begins(a)))
    <3>1. a.id < first /\ a.id \in Nat /\ first <= b.id /\ b.id \in Nat
      BY <1>2, <1>10, <1>11, <1>15, <2>0, KnownZgrams
    <3>2. ASSUME a.at.kind = "logged" PROVE ~Before(Begins(b), Begins(a))
      <4>1. PICK l \in LogRecords : l.at = a.at
        BY DEF InLogs, Infos, ZgramInfo
      <4>2. l \in Logs("logged")
        BY <1>2, <3>2, <4>1, RecordsOfLogs, KindsAreKinds
      <4>3. Before(Begins(a), state["logged"])
        BY <1>2, <4>1, <4>2, KindsAreKinds DEF StateOK, Begins
      <4>4. ~Before(Begins(b), state["logged"])
        BY <1>11
      <4>5. Begins(a) \in Positions /\ Begins(b) \in Positions /\ state["logged"] \in Positions
        BY <1>2, <1>10, KnownZgrams, EndsArePositions, KindsAreKinds
      <4> QED BY <4>3, <4>4, <4>5, BeforeIsAnOrder
    <3> QED BY <3>1, <3>2
  <2>3. ASSUME NEW a \in new, NEW b \in new
        PROVE  (Before(Begins(a), Begins(b)) => a.id < b.id) /\ (a.id = b.id => a = b)
    <3>1. PICK i \in 1..n : /\ i \in OfKind(cooked, "logged") /\ a = ZgramInfo(cooked[i]) /\ a.id = first + i - 1
                            /\ Begins(a) = PositionOf(cooked[i].at)
      BY <1>9
    <3>2. PICK j \in 1..n : /\ j \in OfKind(cooked, "logged") /\ b = ZgramInfo(cooked[j]) /\ b.id = first + j - 1
                            /\ Begins(b) = PositionOf(cooked[j].at)
      BY <1>9
    <3>3. Before(Begins(a), Begins(b)) => i < j
      BY <1>6, <3>1, <3>2
    <3>4. i < j => a.id < b.id
      BY <3>1, <3>2
    <3>5. a.id = b.id => i = j
      BY <3>1, <3>2
    <3> QED BY <3>1, <3>2, <3>3, <3>4, <3>5
  <2>4. InOrder(OfLog(InLogs', "logged"))
    <3>1. ASSUME NEW a \in OfLog(InLogs', "logged"), NEW b \in OfLog(InLogs', "logged"), Before(Begins(a), Begins(b))
          PROVE  a.id < b.id
      <4>1. a.at.kind = "logged" /\ b.at.kind = "logged" /\ a \in InLogs \union new /\ b \in InLogs \union new
        BY <1>10 DEF OfLog
      <4>2. CASE a \in InLogs /\ b \in InLogs
        BY <2>1, <3>1, <4>1, <4>2 DEF InOrder, OfLog, Begins
      <4>3. CASE a \in InLogs /\ b \in new
        BY <2>2, <4>3
      <4>4. CASE a \in new /\ b \in InLogs
        BY <2>2, <3>1, <4>1, <4>4
      <4>5. CASE a \in new /\ b \in new
        BY <2>3, <3>1, <4>5
      <4> QED BY <4>1, <4>2, <4>3, <4>4, <4>5
    <3> QED BY <3>1 DEF InOrder, Begins
  <2>5. ASSUME NEW a \in Known, NEW b \in new PROVE a.id # b.id
    <3>1. a.id < first /\ a.id \in Nat
      <4>1. a \in Accepted => a.id < first
        BY <1>2, <1>3 DEF MemoryOK
      <4> QED BY <1>2, <1>15, <2>0, <4>1, KnownZgrams DEF Known
    <3>2. first <= b.id /\ b.id \in Nat
      BY <1>10, <1>11, <1>15, <1>2, KnownZgrams
    <3> QED BY <3>1, <3>2
  <2>6. NoneTwice(Known \union new)
    BY <2>1, <2>3, <2>5 DEF NoneTwice
  <2> QED BY <2>4, <2>6
<1>22. LogsOK'
  <2>1. \A l \in InLogs' : l.id < written'
    <3>1. \A l \in InLogs : l.id < written /\ l.id \in Nat
      BY <1>2, RecordsOfLogs DEF LogsOK
    <3>2. \A l \in InLogs : l.id < written + n
      BY <1>2, <3>1
    <3> QED BY <1>7, <1>10, <1>11, <3>2
  <2>2. \A a \in Accepted' : a \in InLogs' \/ IsOld(a, today')
    BY <1>2, <1>10, <1>12, <1>17 DEF LogsOK
  <2>3. ~halfWritten' => InOrder(OfLog(InLogs', "logged")) /\ ~refused'
    BY <1>2, <1>7, <1>21 DEF LogsOK
  <2>4. NoneTwice(Known')
    <3>1. Known' \subseteq IF halfWritten THEN Known ELSE Known \union new
      BY <1>7, <1>10, <1>12 DEF Known
    <3> QED BY <1>2, <1>21, <3>1 DEF LogsOK, NoneTwice
  <2> QED BY <1>2, <1>12, <1>17, <1>19, <2>1, <2>2, <2>3, <2>4 DEF LogsOK
<1>23. NeverQuiet'
  <2>1. Doomed => Doomed'
    BY <1>2, <1>7, <1>18, DoomedStays
  <2> QED BY <1>2, <1>12, <1>17, <1>19, <2>1 DEF NeverQuiet
<1>24. MemoryOK'
  <2>1. ASSUME NEW l \in InLogs' PROVE halfWritten \/ l.id < first \/ l \in Infos(ToSet(cooked))
    <3>1. CASE l \in InLogs
      BY <1>15, <3>1
    <3>2. CASE l \in new
      <4>1. PICK i \in 1..n : i \in OfKind(cooked, "logged") /\ l = ZgramInfo(cooked[i])
        BY <1>9, <3>2
      <4>2. cooked[i].record = Zgram(first + i - 1, written + i)
        BY <1>6
      <4>3. cooked[i].record.type = "zgram" /\ cooked[i] \in ToSet(cooked)
        BY <1>6, <4>2 DEF Zgram, ToSet
      <4> QED BY <4>1, <4>3 DEF Infos
    <3> QED BY <1>10, <3>1, <3>2
  <2>2. All' \subseteq InLogs'
    BY <1>2, <1>10, <1>13
  <2>3. \A a \in Accepted' : (a \in All' \/ IsOld(a, today')) /\ a.id < NextZgramId'
    BY <1>2, <1>3, <1>12, <1>13, <1>17 DEF MemoryOK
  <2>4. /\ \A a \in Graffiti' : Before(Begins(a), state'["unlogged"])
        /\ reindexing'.step # "given up" => today' <= state'["unlogged"][1] + Lifespan
        /\ halfWritten' \/ InTheirOrder'
    BY <1>2, <1>6, <1>7, <1>12, <1>13, <1>17 DEF MemoryOK
  <2>5. halfWritten' \/ \A l \in InLogs' : l.id < NextZgramId' \/ l \in Infos(ToSet(posting'))
    BY <1>7, <1>13, <2>1
  <2> QED BY <2>2, <2>3, <2>4, <2>5 DEF MemoryOK
<1>25. PostingOK'
  <2>1. first + n <= written + n
    BY <1>2, <1>3
  <2>2. (Building' <=> Building) /\ PartEnds' = PartEnds
    BY <1>7 DEF Building, PartEnds, Ranges
  <2>3. \A at : BehindCuts(at) => BehindCuts(at)'
    BY <1>7, <2>2 DEF BehindCuts
  <2>4. ASSUME NEW i \in DOMAIN cooked
        PROVE  /\ cooked[i].record.type = "zgram" /\ cooked[i].record.id = first + i - 1
               /\ BehindCuts(cooked[i].at)'
               /\ cooked[i].at.kind = "logged" => cooked[i] \in Logs("logged")'
               /\ cooked[i].at.kind = "unlogged" =>
                    cooked[i].at = [kind |-> "unlogged", day |-> state'["unlogged"][1],
                                    offset |-> state'["unlogged"][2] + Ahead(OfKind(cooked, "unlogged"), i)]
    <3>1. i \in 1..n /\ cooked[i].record = Zgram(first + i - 1, written + i) /\ BehindCuts(cooked[i].at)
      BY <1>6
    <3>2. PICK at : at = cooked[i].at
      OBVIOUS
    <3>3. BehindCuts(at)'
      BY <2>3, <3>1, <3>2
    <3>4. cooked[i].record.type = "zgram" /\ cooked[i].record.id = first + i - 1
      BY <3>1 DEF Zgram
    <3> QED BY <1>6, <3>1, <3>2, <3>3, <3>4
  <2> QED BY <1>1, <1>6, <1>7, <1>13, <2>1, <2>4 DEF PostingOK
<1>26. ServingOK'
  BY <1>1, <1>6, <1>7, <1>24, <1>25 DEF ServingOK
<1> QED BY <1>6, <1>18, <1>20, <1>22, <1>23, <1>26, GrowthKeepsIndices, GrowthKeepsParts, GrowthKeepsReindexing
     DEF StoreOK

LEMMA FailPostKeeps ==
    ASSUME StoreOK, FailPost
    PROVE  StoreOK'
<1>1. serving = "serving" /\ OfKind(posting, "unlogged") # {}
  BY DEF FailPost
<1>2. /\ LogStoreTypeOK /\ LogsOK /\ NeverQuiet /\ StateOK /\ MemoryOK /\ PostingOK
      /\ All \subseteq InLogs /\ written \in Nat /\ NextZgramId \in Nat /\ NextZgramId <= written
  BY <1>1, InMemory
<1>3. /\ posting' = <<>> /\ failures' = failures + 1
      /\ halfWritten' = (halfWritten \/ OfKind(posting, "logged") # {})
      /\ UNCHANGED memory
      /\ UNCHANGED <<today, files, published, scratch, serving, reindexing, written, crashes, acknowledged, refused>>
  BY DEF FailPost, disk
<1>4. /\ UNCHANGED LogRecords /\ UNCHANGED InLogs /\ UNCHANGED Accepted
      /\ UNCHANGED Graffiti /\ (Spoilt' <=> Spoilt)
      /\ \A k \in Kinds : UNCHANGED Logs(k)
  <2>1. \A k \in Kinds : UNCHANGED Logs(k)
    BY <1>3 DEF Logs
  <2>2. UNCHANGED LogRecords
    BY <1>3 DEF LogRecords, Logs
  <2>3. UNCHANGED InLogs /\ UNCHANGED Accepted
    BY <1>3, <2>2 DEF InLogs, Accepted
  <2> QED BY <2>1, <2>2, <2>3 DEF Graffiti, Spoilt
<1>5. /\ UNCHANGED All /\ UNCHANGED NextZgramId /\ (InTheirOrder' <=> InTheirOrder)
      /\ UNCHANGED frozen /\ UNCHANGED dynamic /\ UNCHANGED state
  BY <1>3, SameMemory
<1>6. today \in Nat /\ today' = today
  BY <1>2, <1>3, RecordsOfLogs
<1>7. /\ halfWritten' \in BOOLEAN /\ (halfWritten => halfWritten')
      /\ (OfKind(posting, "logged") # {} => halfWritten')
  BY <1>3, Zenon
<1>8. Known' \subseteq Known
  BY <1>4, <1>7 DEF Known
<1>9. LogStoreTypeOK'
  <2>1. posting' \in Seq(Located)
    BY <1>3
  <2>2. failures' \in Nat
    BY <1>2, <1>3 DEF LogStoreTypeOK
  <2> QED BY <1>2, <1>3, <1>5, <1>7, <2>1, <2>2 DEF LogStoreTypeOK
<1>10. Growth
  BY <1>4, <1>6, <1>8 DEF Growth
<1>11. posting # <<>> /\ reindexing.step # "reset"
  <2>1. posting # <<>>
    BY <1>1 DEF OfKind
  <2> QED BY <1>2, <2>1 DEF PostingOK
<1>12. GoesOn
  <2>1. LogRecords' \subseteq Located
    BY <1>2, <1>4, RecordsOfLogs
  <2>2. \A k \in Kinds : ~Before(state'[k], state[k])
    BY <1>2, <1>5, EndsArePositions, BeforeIsAnOrder
  <2> QED BY <1>2, <1>3, <1>4, <1>5, <2>1, <2>2, EndsArePositions DEF GoesOn, OfLog
<1>13. LogsOK'
  <2>1. NoneTwice(Known')
    BY <1>2, <1>8 DEF LogsOK, NoneTwice
  <2> QED BY <1>2, <1>3, <1>4, <1>7, <2>1 DEF LogsOK
<1>14. NeverQuiet'
  <2>1. Doomed => Doomed'
    BY <1>2, <1>3, <1>10, DoomedStays
  <2> QED BY <1>2, <1>3, <1>4, <2>1 DEF NeverQuiet
<1>15. MemoryOK'
  <2>1. ASSUME ~halfWritten', NEW l \in InLogs PROVE l.id < NextZgramId
    <3>1. OfKind(posting, "logged") = {} /\ ~halfWritten
      BY <1>7, <2>1
    <3>2. ASSUME l \in Infos(ToSet(posting)) PROVE FALSE
      <4>1. PICK i \in DOMAIN posting : l.at = posting[i].at
        BY <3>2 DEF Infos, ZgramInfo, ToSet
      <4>2. posting[i].at.kind \in Kinds /\ posting[i].at.kind # "logged"
        <5>1. posting[i] \in Located
          BY <1>2, LenProperties, ElementOfSeq DEF LogStoreTypeOK
        <5> QED BY <3>1, <5>1 DEF OfKind, Located, Locations
      <4>3. posting[i].at.kind = "unlogged" /\ i \in OfKind(posting, "unlogged")
        BY <4>2, KindsAreKinds DEF OfKind
      <4>4. /\ posting[i].at.day = state["unlogged"][1]
            /\ posting[i].at.offset = state["unlogged"][2] + Ahead(OfKind(posting, "unlogged"), i)
            /\ Ahead(OfKind(posting, "unlogged"), i) \in Nat
        <5>1. Ahead(OfKind(posting, "unlogged"), i) \in Nat
          BY <1>2, <4>3, RecordsOfKind DEF LogStoreTypeOK
        <5>2. PICK at : at = posting[i].at
          OBVIOUS
        <5>3. at = [kind |-> "unlogged", day |-> state["unlogged"][1],
                    offset |-> state["unlogged"][2] + Ahead(OfKind(posting, "unlogged"), i)]
          BY <1>2, <4>3, <5>2 DEF PostingOK
        <5> QED BY <5>1, <5>2, <5>3
      <4>5. PICK d \in Nat, o \in Nat : state["unlogged"] = <<d, o>>
        BY <1>2, EndsArePositions, KindsAreKinds DEF Positions
      <4>6. ~Before(PositionOf(l.at), state["unlogged"])
        BY <4>1, <4>4, <4>5 DEF Before, PositionOf, Position
      <4>7. PICK m \in LogRecords : m.at = l.at
        BY DEF InLogs, Infos, ZgramInfo
      <4>8. m \in Logs("unlogged")
        BY <1>2, <4>1, <4>3, <4>7, RecordsOfLogs, KindsAreKinds
      <4> QED BY <1>2, <4>6, <4>7, <4>8, KindsAreKinds DEF StateOK
    <3> QED BY <1>2, <3>1, <3>2 DEF MemoryOK
  <2>2. halfWritten' \/ \A l \in InLogs' : l.id < NextZgramId' \/ l \in Infos(ToSet(posting'))
    BY <1>4, <1>5, <2>1
  <2>3. halfWritten' \/ InTheirOrder'
    BY <1>2, <1>5, <1>7 DEF MemoryOK
  <2> QED BY <1>2, <1>3, <1>4, <1>5, <2>2, <2>3 DEF MemoryOK
<1>16. PostingOK'
  <2>1. NextZgramId + 0 <= written
    BY <1>2
  <2> QED BY <1>3, <1>5, <1>11, <2>1 DEF PostingOK
<1>17. StateOK'
  BY <1>2, <1>3, <1>4, <1>5 DEF StateOK
<1>18. ServingOK'
  BY <1>1, <1>3, <1>15, <1>16, <1>17 DEF ServingOK
<1> QED BY <1>9, <1>10, <1>12, <1>13, <1>14, <1>18, GrowthKeepsIndices, GrowthKeepsParts, GrowthKeepsReindexing
     DEF StoreOK

NewGraffiti(cooked) == {ZgramInfo(cooked[i]) : i \in OfKind(cooked, "unlogged")}

\* After the second write: the batch, in the logs and in the index.
LEMMA SecondWrite ==
    ASSUME StoreOK, FinishPost, NEW first, first = NextZgramId,
           NEW new, new = NewGraffiti(posting),
           NEW posted, posted = Infos(ToSet(posting)), NEW n, n = Len(posting)
    PROVE  /\ GoesOn /\ StateOK' /\ LogRecords \subseteq LogRecords' /\ InLogs' = InLogs \union new
           /\ files' = [j \in Kinds |-> files'[j]] /\ \A j \in Kinds : LogFilesOK(files'[j], today')
           /\ state' \in [Kinds -> Positions] /\ \A j \in Kinds : state'[j][1] = state[j][1]
           /\ new \subseteq posted /\ posted \subseteq InLogs' /\ posted \subseteq ZgramInfos
           /\ \A p \in posted : p.at.kind = "unlogged" => p \in new
           /\ \A p \in posted : /\ first <= p.id /\ p.id < first + n /\ BehindCuts(p.at)
                                /\ p.at.day <= today
           /\ \A p \in new : /\ p.at.kind = "unlogged" /\ p.at.day = state["unlogged"][1]
                             /\ ~Before(Begins(p), state["unlogged"])
           /\ \A p, q \in posted : p.id = q.id => p = q
           /\ \A p, q \in new : Before(Begins(p), Begins(q)) => p.id < q.id
           /\ \E p \in posted : p.id + 1 = first + n
<1>1. serving = "serving" /\ posting # <<>>
  BY DEF FinishPost
<1>2. /\ LogStoreTypeOK /\ LogsOK /\ StateOK /\ PostingOK
      /\ written \in Nat /\ first \in Nat
      /\ state \in [Kinds -> Positions]
  BY <1>1, InMemory, EndsArePositions
<1>3. PICK cooked \in Seq(Located) : cooked = posting
  BY <1>2 DEF LogStoreTypeOK
<1>4. n \in Nat /\ n = Len(cooked)
  BY <1>3, LenProperties
<1>5. DOMAIN cooked = 1..n /\ \A i \in 1..n : cooked[i] \in Located
  BY <1>4, LenProperties, ElementOfSeq
<1>6. PICK own : own = OfKind(cooked, "unlogged")
  OBVIOUS
<1>7. reindexing.step # "reset"
  BY <1>1, <1>2 DEF PostingOK
<1>8. \A i \in 1..n :
        /\ cooked[i].record.type = "zgram" /\ cooked[i].record.id = first + i - 1
        /\ BehindCuts(cooked[i].at)
        /\ cooked[i].at.kind = "logged" => cooked[i] \in Logs("logged")
        /\ cooked[i].at.kind = "unlogged" =>
             cooked[i].at = [kind |-> "unlogged", day |-> state["unlogged"][1],
                             offset |-> state["unlogged"][2] + Ahead(own, i)]
  BY <1>2, <1>3, <1>5, <1>6 DEF PostingOK
<1>9. PICK records : records = RecordsOf(cooked, "unlogged")
  OBVIOUS
<1>10. /\ AppendAndFlush("unlogged", records)
       /\ UNCHANGED <<today, published, scratch, reindexing, serving>>
  BY <1>3, <1>9 DEF FinishPost
<1>11. /\ records \in Seq(Records) /\ Appended("unlogged", records) = {cooked[i] : i \in own}
  <2>1. ASSUME NEW i \in own
        PROVE  cooked[i].at = [kind |-> "unlogged", day |-> state["unlogged"][1],
                               offset |-> state["unlogged"][2] + Ahead(own, i)]
    <3>1. i \in 1..n /\ cooked[i].at.kind = "unlogged"
      BY <1>5, <1>6 DEF OfKind
    <3> QED BY <1>8, <3>1
  <2> QED BY <1>2, <1>6, <1>9, <2>1, CookedAreAppended, KindsAreKinds
<1>12. /\ GoesOn /\ StateOK' /\ LogRecords \subseteq LogRecords'
       /\ InLogs' = InLogs \union Infos(Appended("unlogged", records))
  BY <1>1, <1>7, <1>10, <1>11, AppendGoesOn, KindsAreKinds
<1>13. /\ files' = [j \in Kinds |-> files'[j]] /\ \A j \in Kinds : LogFilesOK(files'[j], today')
       /\ state' \in [Kinds -> Positions] /\ \A j \in Kinds : state'[j][1] = state[j][1]
  BY <1>2, <1>10, <1>11, AppendKeepsState, KindsAreKinds
<1>14. \A p \in posted : \E i \in 1..n : p = ZgramInfo(cooked[i]) /\ p.at = cooked[i].at /\ p.id = cooked[i].record.id
  BY <1>3, <1>5 DEF Infos, ToSet, ZgramInfo
<1>15. \A i \in 1..n : ZgramInfo(cooked[i]) \in posted
  BY <1>3, <1>5, <1>8 DEF Infos, ToSet
<1>16. \A i \in own : i \in 1..n /\ cooked[i].at.kind = "unlogged"
  BY <1>5, <1>6 DEF OfKind
<1>17. new = {ZgramInfo(cooked[i]) : i \in own}
  BY <1>3, <1>6 DEF NewGraffiti
<1>18. new \subseteq posted
  BY <1>15, <1>16, <1>17
<1>19. InLogs' = InLogs \union new
  <2>1. Infos({cooked[i] : i \in own}) = {ZgramInfo(cooked[i]) : i \in own}
    BY <1>8, <1>16 DEF Infos
  <2> QED BY <1>11, <1>12, <1>17, <2>1
<1>20. posted \subseteq ZgramInfos
  <2>1. ToSet(cooked) \subseteq Located
    BY <1>5 DEF ToSet
  <2> QED BY <1>3, <2>1, InfosOfLocated
<1>21. \A p \in posted : p.at.kind = "unlogged" => p \in new
  <2> TAKE p \in posted
  <2>1. PICK i \in 1..n : p = ZgramInfo(cooked[i]) /\ p.at = cooked[i].at
    BY <1>14
  <2>2. p.at.kind = "unlogged" => i \in own
    BY <1>5, <1>6, <2>1 DEF OfKind
  <2> QED BY <1>17, <2>1, <2>2
<1>22. ASSUME NEW p \in posted PROVE p \in InLogs'
  <2>1. PICK i \in 1..n : p = ZgramInfo(cooked[i]) /\ p.at = cooked[i].at
    BY <1>14
  <2>2. CASE p.at.kind = "unlogged"
    BY <1>19, <1>21, <2>2
  <2>3. CASE p.at.kind # "unlogged"
    <3>1. p.at.kind = "logged"
      BY <1>20, <2>3, KnownZgrams, <1>2, KindsAreKinds
    <3>2. cooked[i] \in LogRecords /\ cooked[i].record.type = "zgram"
      BY <1>8, <2>1, <3>1 DEF LogRecords
    <3>3. p \in InLogs
      BY <2>1, <3>2 DEF InLogs, Infos
    <3> QED BY <1>19, <3>3
  <2> QED BY <2>2, <2>3
<1>23. \A p \in new : /\ p.at.kind = "unlogged" /\ p.at.day = state["unlogged"][1]
                      /\ ~Before(Begins(p), state["unlogged"])
  <2> TAKE p \in new
  <2>1. PICK i \in own : p = ZgramInfo(cooked[i])
    BY <1>17
  <2>2. i \in 1..n /\ cooked[i].at.kind = "unlogged" /\ p.at = cooked[i].at
    BY <1>16, <2>1 DEF ZgramInfo
  <2>3. p.at = [kind |-> "unlogged", day |-> state["unlogged"][1],
                offset |-> state["unlogged"][2] + Ahead(own, i)]
    BY <1>8, <2>2
  <2>4. PICK a \in Nat : a = Ahead(own, i)
    BY <1>6, RecordsOfKind
  <2>5. PICK d \in Nat, o \in Nat : state["unlogged"] = <<d, o>>
    BY <1>2, KindsAreKinds DEF Positions
  <2>6. p.at = [kind |-> "unlogged", day |-> d, offset |-> o + a]
    BY <2>3, <2>4, <2>5
  <2>7. ~Before(Begins(p), state["unlogged"])
    BY <2>5, <2>6 DEF Before, Begins, PositionOf, Position
  <2> QED BY <2>5, <2>6, <2>7
<1>24. \A p \in posted : /\ first <= p.id /\ p.id < first + n /\ BehindCuts(p.at) /\ p.at.day <= today
  <2> TAKE p \in posted
  <2>1. PICK i \in 1..n : p = ZgramInfo(cooked[i]) /\ p.at = cooked[i].at /\ p.id = first + i - 1
    BY <1>4, <1>8, <1>14
  <2>2. first <= p.id /\ p.id < first + n
    BY <1>2, <2>1
  <2>3. p.at.day <= today
    <3>1. CASE p \in new
      <4>1. state["unlogged"][1] \in DOMAIN files["unlogged"] /\ LogFilesOK(files["unlogged"], today) /\ today \in Nat
        BY <1>2, KindsAreKinds, RecordsOfLogs DEF StateOK, LogStoreTypeOK
      <4>2. PICK fs : fs = files["unlogged"]
        OBVIOUS
      <4>3. \A day \in DOMAIN fs : day <= today
        BY <4>1, <4>2, ContentsOfFiles, KindsAreKinds
      <4> QED BY <1>23, <3>1, <4>1, <4>2, <4>3
    <3>2. CASE p \notin new
      BY <1>2, <1>19, <1>22, <3>2, RecordsOfLogs
    <3> QED BY <3>1, <3>2
  <2> QED BY <1>8, <2>1, <2>2, <2>3
<1>25. \A p, q \in posted : p.id = q.id => p = q
  <2> TAKE p, q \in posted
  <2>1. PICK i \in 1..n : p = ZgramInfo(cooked[i]) /\ p.id = first + i - 1
    BY <1>4, <1>8, <1>14
  <2>2. PICK j \in 1..n : q = ZgramInfo(cooked[j]) /\ q.id = first + j - 1
    BY <1>4, <1>8, <1>14
  <2>3. p.id = q.id => i = j
    BY <1>2, <2>1, <2>2
  <2> QED BY <2>1, <2>2, <2>3
<1>26. \A p, q \in new : Before(Begins(p), Begins(q)) => p.id < q.id
  <2> TAKE p, q \in new
  <2>0. SUFFICES ASSUME Before(Begins(p), Begins(q)) PROVE p.id < q.id
    OBVIOUS
  <2>1. PICK i \in own : p = ZgramInfo(cooked[i])
    BY <1>17
  <2>2. PICK j \in own : q = ZgramInfo(cooked[j])
    BY <1>17
  <2>3. /\ i \in 1..n /\ cooked[i].at.kind = "unlogged" /\ p.at = cooked[i].at /\ p.id = first + i - 1
        /\ j \in 1..n /\ cooked[j].at.kind = "unlogged" /\ q.at = cooked[j].at /\ q.id = first + j - 1
    BY <1>8, <1>16, <2>1, <2>2 DEF ZgramInfo
  <2>4. PICK a \in Nat, b \in Nat : a = Ahead(own, i) /\ b = Ahead(own, j)
    BY <1>6, RecordsOfKind
  <2>5. PICK d \in Nat, o \in Nat : state["unlogged"] = <<d, o>>
    BY <1>2, KindsAreKinds DEF Positions
  <2>6. p.at.day = d /\ p.at.offset = o + a /\ q.at.day = d /\ q.at.offset = o + b
    <3>1. p.at = [kind |-> "unlogged", day |-> d, offset |-> o + a]
      BY <1>8, <2>3, <2>4, <2>5
    <3>2. q.at = [kind |-> "unlogged", day |-> d, offset |-> o + b]
      BY <1>8, <2>3, <2>4, <2>5
    <3> QED BY <3>1, <3>2
  <2>7. a < b
    BY <2>0, <2>6 DEF Before, Begins, PositionOf, Position
  <2>8. ASSUME j < i PROVE b < a
    BY <1>6, <2>4, <2>8, RecordsOfKind
  <2>9. i < j
    BY <2>3, <2>4, <2>7, <2>8
  <2> QED BY <1>2, <2>3, <2>9
<1>27. \E p \in posted : p.id + 1 = first + n
  <2>1. n \in 1..n
    <3>1. n # 0
      BY <1>1, <1>3, <1>4, EmptySeq
    <3> QED BY <3>1
  <2>2. ZgramInfo(cooked[n]) \in posted /\ ZgramInfo(cooked[n]).id = first + n - 1
    BY <1>8, <1>15, <2>1 DEF ZgramInfo
  <2> QED BY <1>2, <2>2
<1> QED BY <1>3, <1>4, <1>12, <1>13, <1>18, <1>19, <1>20, <1>21, <1>22, <1>23, <1>24, <1>25, <1>26, <1>27

LEMMA AllAreBefore ==
    ASSUME StoreOK, serving = "serving"
    PROVE  /\ \A z \in dynamic.zgrams : z.id < NextZgramId
           /\ ~halfWritten => \A z \in All : z.id < NextZgramId
<1>1. /\ LogStoreTypeOK /\ MemoryOK /\ NextZgramId \in Nat
      /\ \A z \in dynamic.zgrams : dynamic.zgrams # {} => z.id < NextZgramId
      /\ \A z \in frozen.zgrams : dynamic.zgrams = {} => z.id < NextZgramId
  BY InMemory
<1>2. ASSUME ~halfWritten, NEW f \in frozen.zgrams PROVE f.id < NextZgramId
  <2>1. CASE dynamic.zgrams = {}
    BY <1>1, <2>1
  <2>2. CASE dynamic.zgrams # {}
    <3>1. PICK d \in dynamic.zgrams : TRUE
      BY <2>2
    <3>2. f.id < d.id /\ d.id < NextZgramId
      BY <1>1, <1>2, <3>1 DEF MemoryOK, InTheirOrder
    <3>3. f.id \in Nat /\ d.id \in Nat
      BY <1>1, <3>1, EndsArePositions, KnownZgrams
    <3> QED BY <1>1, <3>2, <3>3
  <2> QED BY <2>1, <2>2
<1> QED BY <1>1, <1>2 DEF All

LEMMA FinishPostKeeps ==
    ASSUME StoreOK, FinishPost
    PROVE  StoreOK'
<1>1. serving = "serving" /\ posting # <<>>
  BY DEF FinishPost
<1>2. /\ LogStoreTypeOK /\ LogsOK /\ NeverQuiet /\ StateOK /\ MemoryOK /\ PostingOK
      /\ All \subseteq InLogs /\ written \in Nat /\ NextZgramId \in Nat /\ NextZgramId <= written
  BY <1>1, InMemory
<1>3. PICK first \in Nat : first = NextZgramId
  BY <1>2
<1>4. PICK n \in Nat : n = Len(posting)
  BY <1>2, LenProperties DEF LogStoreTypeOK
<1>5. PICK new : new = NewGraffiti(posting)
  OBVIOUS
<1>6. PICK posted : posted = Infos(ToSet(posting))
  OBVIOUS
<1>7. /\ GoesOn /\ StateOK' /\ LogRecords \subseteq LogRecords' /\ InLogs' = InLogs \union new
      /\ files' = [j \in Kinds |-> files'[j]] /\ \A j \in Kinds : LogFilesOK(files'[j], today')
      /\ state' \in [Kinds -> Positions] /\ \A j \in Kinds : state'[j][1] = state[j][1]
      /\ new \subseteq posted /\ posted \subseteq InLogs' /\ posted \subseteq ZgramInfos
      /\ \A p \in posted : p.at.kind = "unlogged" => p \in new
      /\ \A p \in posted : /\ first <= p.id /\ p.id < first + n /\ BehindCuts(p.at) /\ p.at.day <= today
      /\ \A p \in new : /\ p.at.kind = "unlogged" /\ p.at.day = state["unlogged"][1]
                        /\ ~Before(Begins(p), state["unlogged"])
      /\ \A p, q \in posted : p.id = q.id => p = q
      /\ \A p, q \in new : Before(Begins(p), Begins(q)) => p.id < q.id
      /\ \E p \in posted : p.id + 1 = first + n
  <2>1. /\ GoesOn /\ StateOK' /\ LogRecords \subseteq LogRecords' /\ InLogs' = InLogs \union new
        /\ files' = [j \in Kinds |-> files'[j]] /\ \A j \in Kinds : LogFilesOK(files'[j], today')
        /\ state' \in [Kinds -> Positions] /\ \A j \in Kinds : state'[j][1] = state[j][1]
    BY <1>3, <1>4, <1>5, <1>6, SecondWrite
  <2>2. /\ new \subseteq posted /\ posted \subseteq InLogs' /\ posted \subseteq ZgramInfos
        /\ \A p \in posted : p.at.kind = "unlogged" => p \in new
        /\ \A p \in posted : /\ first <= p.id /\ p.id < first + n /\ BehindCuts(p.at) /\ p.at.day <= today
        /\ \A p \in new : /\ p.at.kind = "unlogged" /\ p.at.day = state["unlogged"][1]
                          /\ ~Before(Begins(p), state["unlogged"])
        /\ \A p, q \in posted : p.id = q.id => p = q
        /\ \A p, q \in new : Before(Begins(p), Begins(q)) => p.id < q.id
        /\ \E p \in posted : p.id + 1 = first + n
    BY <1>3, <1>4, <1>5, <1>6, SecondWrite
  <2> QED BY <2>1, <2>2
<1>8. /\ UNCHANGED <<today, published, scratch, serving, frozen, reindexing, written, crashes, failures,
                    halfWritten, refused>>
      /\ posting' = <<>>
      /\ dynamic' = [dynamic EXCEPT !.zgrams = @ \union posted]
      /\ acknowledged' = acknowledged \union ToSet(posting)
  BY <1>6 DEF FinishPost, bounds
<1>9. /\ dynamic' \in [zgrams: SUBSET ZgramInfos, metadata: SUBSET Records]
      /\ dynamic'.zgrams = dynamic.zgrams \union posted
  BY <1>2, <1>7, <1>8 DEF LogStoreTypeOK
<1>10. /\ Accepted' = Accepted \union posted /\ acknowledged' \subseteq Located
  <2>1. posting \in Seq(Located) /\ acknowledged \subseteq Located
    BY <1>2 DEF LogStoreTypeOK
  <2>2. ToSet(posting) \subseteq Located
    BY <2>1, LenProperties, ElementOfSeq DEF ToSet
  <2>3. Infos(acknowledged') = Infos(acknowledged) \union Infos(ToSet(posting))
    BY <1>8, InfosOfUnion
  <2> QED BY <1>6, <1>8, <2>1, <2>2, <2>3 DEF Accepted
<1>11. All' = All \union posted
  BY <1>8, <1>9 DEF All
<1>12. Graffiti' = Graffiti \union new
  <2>1. OfLog(posted, "unlogged") = new
    BY <1>7 DEF OfLog
  <2> QED BY <1>10, <2>1 DEF Graffiti, OfLog
<1>13. today \in Nat /\ today' = today
  BY <1>2, <1>8, RecordsOfLogs
<1>14. \A a \in Accepted : a.id < first /\ a.id \in Nat
  BY <1>2, <1>3, KnownZgrams DEF MemoryOK
<1>15. \A l \in InLogs : halfWritten \/ l.id < first \/ l \in posted
  BY <1>2, <1>3, <1>6 DEF MemoryOK
<1>16. \A p \in posted : p.id \in Nat
  BY <1>7, <1>2, KnownZgrams
<1>17. \A z \in dynamic.zgrams : z.id < first /\ z.id \in Nat
  BY <1>1, <1>2, <1>3, AllAreBefore, KnownZgrams, EndsArePositions
<1>18. NextZgramId' = first + n
  <2>1. PICK zgrams : zgrams = dynamic'.zgrams
    OBVIOUS
  <2>2. zgrams \in SUBSET ZgramInfos
    BY <1>9, <2>1
  <2>3. PICK last \in zgrams : last.id + 1 = first + n
    BY <1>7, <1>9, <2>1
  <2>4. \A z \in zgrams : z.id < first + n
    <3>1. ASSUME NEW z \in dynamic.zgrams PROVE z.id < first + n
      <4>1. z.id < first /\ z.id \in Nat
        BY <1>17
      <4> QED BY <4>1
    <3> QED BY <1>7, <1>9, <2>1, <3>1
  <2>5. /\ EndId(zgrams) \in Nat /\ EndId(zgrams) <= first + n
        /\ last.id < EndId(zgrams)
    <3>1. first + n \in Nat
      OBVIOUS
    <3> QED BY <2>2, <2>3, <2>4, <3>1, EndIdIsBehindAll
  <2>6. last.id \in Nat
    BY <2>2, <2>3 DEF ZgramInfos
  <2>7. EndId(zgrams) = first + n
    BY <2>3, <2>5, <2>6
  <2> QED BY <2>1, <2>3, <2>7 DEF NextZgramId
<1>19. \A a \in Known' : a \in Known \/ a \in posted
  BY <1>7, <1>8, <1>10 DEF Known
<1>20. Growth
  <2>1. ASSUME NEW l \in new, NEW a \in Known PROVE a.id < l.id \/ BehindCuts(a.at)
    <3>1. CASE a \in posted
      BY <1>7, <3>1
    <3>2. CASE a \notin posted
      <4>1. a.id < first /\ a.id \in Nat
        BY <1>2, <1>14, <1>15, <3>2, KnownZgrams DEF Known
      <4>2. first <= l.id /\ l.id \in Nat
        BY <1>7, <1>16
      <4> QED BY <4>1, <4>2
    <3> QED BY <3>1, <3>2
  <2>2. \A l \in InLogs' : l \in InLogs \/ \A a \in Known : a.id < l.id \/ BehindCuts(a.at)
    BY <1>7, <2>1
  <2>3. \A a \in Accepted' : a \in Accepted \/ a \in InLogs'
    BY <1>7, <1>10
  <2>4. \A a \in Known' : a \in Known \/ BehindCuts(a.at)
    BY <1>7, <1>19
  <2> QED BY <1>7, <1>13, <2>2, <2>3, <2>4 DEF Growth
<1>21. LogStoreTypeOK'
  <2>1. posting' \in Seq(Located)
    BY <1>8
  <2>2. /\ today' \in FirstDay..LastDay
        /\ published' \in Indices /\ scratch' \in Indices /\ frozen' \in Indices
        /\ serving' \in {"down", "serving", "stopped"}
        /\ reindexing' \in [step: Steps, ranges: [Kinds -> [begin: Positions, end: Positions]]]
        /\ written' \in Nat
        /\ crashes' \in Nat /\ failures' \in Nat /\ halfWritten' \in BOOLEAN /\ refused' \in BOOLEAN
    BY <1>2, <1>8 DEF LogStoreTypeOK
  <2> QED BY <1>7, <1>9, <1>10, <2>1, <2>2 DEF LogStoreTypeOK
<1>22. LogsOK'
  <2>1. InOrder(Graffiti')
    <3>1. ASSUME NEW a \in Graffiti, NEW p \in new
          PROVE  a.id < p.id /\ ~Before(Begins(p), Begins(a))
      <4>1. Before(Begins(a), state["unlogged"]) /\ ~Before(Begins(p), state["unlogged"])
        BY <1>2, <1>7 DEF MemoryOK
      <4>2. Begins(a) \in Positions /\ Begins(p) \in Positions /\ state["unlogged"] \in Positions
        BY <1>2, <1>7, KnownZgrams, EndsArePositions, KindsAreKinds DEF Graffiti, OfLog
      <4>3. a.id < first /\ a.id \in Nat /\ first <= p.id /\ p.id \in Nat
        BY <1>7, <1>14, <1>16 DEF Graffiti, OfLog
      <4> QED BY <4>1, <4>2, <4>3, BeforeIsAnOrder
    <3>2. \A a, b \in Graffiti : Before(Begins(a), Begins(b)) => a.id < b.id
      BY <1>2 DEF LogsOK, InOrder, Begins
    <3>3. \A a, b \in Graffiti \union new : Before(Begins(a), Begins(b)) => a.id < b.id
      BY <1>7, <3>1, <3>2
    <3> QED BY <1>12, <3>3 DEF InOrder, Begins
  <2>2. OfLog(InLogs', "unlogged") \subseteq Graffiti'
    BY <1>2, <1>7, <1>12 DEF LogsOK, OfLog
  <2>3. NoneTwice(Known')
    <3>1. ASSUME NEW a \in Known, NEW p \in posted, a.id = p.id PROVE a = p
      <4>1. first <= p.id /\ p.id \in Nat /\ first \in Nat
        BY <1>7, <1>16
      <4>2. CASE a \in Accepted
        <5>1. a.id < first
          BY <1>14, <4>2
        <5> QED BY <3>1, <4>1, <5>1
      <4>3. CASE a \in InLogs /\ ~halfWritten /\ a \notin posted
        <5>1. a.id < first
          BY <1>7, <1>15, <4>3
        <5> QED BY <3>1, <4>1, <5>1
      <4>4. CASE a \in posted
        BY <1>7, <3>1, <4>4
      <4> QED BY <4>2, <4>3, <4>4 DEF Known
    <3>2. NoneTwice(Known)
      BY <1>2 DEF LogsOK
    <3>3. Known' \subseteq Known \union posted
      BY <1>7, <1>8, <1>10 DEF Known
    <3> QED BY <1>7, <3>1, <3>2, <3>3 DEF NoneTwice
  <2>4. \A a \in Accepted' : (a \in InLogs' \/ IsOld(a, today')) /\ a.at.day <= today'
    BY <1>2, <1>7, <1>10, <1>13 DEF LogsOK
  <2>5. \A l \in InLogs' : l.id < written'
    <3>1. ASSUME NEW p \in new PROVE p.id < written
      <4>1. p.id < first + n /\ first + n <= written /\ p.id \in Nat
        BY <1>2, <1>3, <1>4, <1>7, <1>16 DEF PostingOK
      <4> QED BY <1>2, <4>1
    <3> QED BY <1>2, <1>7, <1>8, <3>1 DEF LogsOK
  <2>6. ASSUME ~halfWritten PROVE InOrder(OfLog(InLogs', "logged")) /\ ~refused
    <3>1. OfLog(InLogs', "logged") = OfLog(InLogs, "logged")
      BY <1>7 DEF OfLog
    <3> QED BY <1>2, <2>6, <3>1 DEF LogsOK
  <2> QED BY <1>8, <2>1, <2>2, <2>3, <2>4, <2>5, <2>6 DEF LogsOK
<1>23. NeverQuiet'
  <2>1. Doomed => Doomed'
    BY <1>2, <1>8, <1>20, DoomedStays
  <2>2. OfLog(InLogs, "unlogged") \subseteq OfLog(InLogs', "unlogged") /\ new \subseteq OfLog(InLogs', "unlogged")
    BY <1>7 DEF OfLog
  <2>3. CASE Graffiti # {}
    BY <1>2, <1>13, <2>1, <2>2, <2>3 DEF NeverQuiet
  <2>4. CASE Graffiti = {} /\ new # {}
    <3>1. PICK p \in new : p.at.day = state["unlogged"][1]
      BY <1>7, <2>4
    <3>2. ASSUME reindexing.step # "given up" PROVE ~IsOld(p, today)
      <4>1. today <= state["unlogged"][1] + Lifespan
        BY <1>2, <3>2 DEF MemoryOK
      <4>2. state["unlogged"][1] \in Nat /\ Lifespan \in Nat
        BY <1>2, EndsArePositions, LogStoreAssumption
      <4> QED BY <1>13, <3>1, <4>1, <4>2 DEF IsOld
    <3>3. ASSUME reindexing.step = "given up" PROVE Doomed
      <4>1. OfLog(InLogs, "unlogged") = {}
        BY <1>2, <2>4 DEF LogsOK
      <4>2. Spoilt
        BY <3>3, <4>1 DEF StoreOK, GivenUpOK
      <4> QED BY <3>3, <4>2 DEF Doomed
    <3> QED BY <1>13, <2>1, <2>2, <3>1, <3>2, <3>3 DEF NeverQuiet
  <2>5. CASE Graffiti = {} /\ new = {}
    BY <1>12, <2>5 DEF NeverQuiet
  <2> QED BY <2>3, <2>4, <2>5
<1>24. MemoryOK'
  <2>1. \A a \in Graffiti' : Before(Begins(a), state'["unlogged"])
    <3>1. ASSUME NEW a \in Graffiti PROVE Before(Begins(a), state'["unlogged"])
      <4>1. Before(Begins(a), state["unlogged"]) /\ ~Before(state'["unlogged"], state["unlogged"])
        BY <1>2, <1>7, KindsAreKinds DEF MemoryOK, GoesOn
      <4>2. Begins(a) \in Positions /\ state["unlogged"] \in Positions /\ state'["unlogged"] \in Positions
        BY <1>2, <1>7, KnownZgrams, EndsArePositions, KindsAreKinds DEF Graffiti, OfLog
      <4> QED BY <4>1, <4>2, BeforeIsAnOrder
    <3>2. ASSUME NEW a \in new PROVE Before(Begins(a), state'["unlogged"])
      <4>1. a \in InLogs' /\ a.at.kind = "unlogged"
        BY <1>7
      <4>2. PICK l \in LogRecords' : l.at = a.at
        BY <4>1 DEF InLogs, Infos, ZgramInfo
      <4>3. l \in Logs("unlogged")'
        <5>1. \A m \in Contents(files'["logged"], "logged") : m.at.kind = "logged"
          BY DEF Contents, ParseLogFile
        <5> QED BY <4>1, <4>2, <5>1 DEF LogRecords, Logs
      <4> QED BY <1>7, <4>2, <4>3, KindsAreKinds DEF StateOK, Begins
    <3> QED BY <1>12, <3>1, <3>2
  <2>2. reindexing'.step # "given up" => today' <= state'["unlogged"][1] + Lifespan
    BY <1>2, <1>7, <1>8, <1>13, KindsAreKinds DEF MemoryOK
  <2>3. All' \subseteq InLogs'
    BY <1>2, <1>7, <1>11
  <2>4. ASSUME NEW a \in Accepted' PROVE (a \in All' \/ IsOld(a, today')) /\ a.id < NextZgramId'
    <3>1. CASE a \in Accepted
      <4>1. a \in All \/ IsOld(a, today)
        BY <1>2, <3>1 DEF MemoryOK
      <4>2. a.id < first + n
        BY <1>14, <3>1
      <4> QED BY <1>11, <1>13, <1>18, <4>1, <4>2
    <3>2. CASE a \in posted
      BY <1>7, <1>11, <1>18, <3>2
    <3> QED BY <1>10, <3>1, <3>2
  <2>5. halfWritten' \/ InTheirOrder'
    <3>1. SUFFICES ASSUME ~halfWritten PROVE InTheirOrder'
      BY <1>8
    <3>2. \A z \in All : z.id < first /\ z.id \in Nat
      BY <1>1, <1>2, <1>3, <3>1, AllAreBefore, EndsArePositions, KnownZgrams
    <3>3. NoneTwice(All) /\ \A f \in frozen.zgrams, d \in dynamic.zgrams : f.id < d.id
      BY <1>2, <3>1 DEF MemoryOK, InTheirOrder
    <3>4. ASSUME NEW z \in All, NEW p \in posted PROVE z.id < p.id /\ z.id # p.id
      <4>1. z.id < first /\ z.id \in Nat /\ first <= p.id /\ p.id \in Nat
        BY <1>7, <1>16, <3>2
      <4> QED BY <4>1
    <3>5. NoneTwice(All \union posted)
      BY <1>7, <3>3, <3>4 DEF NoneTwice
    <3>6. \A f \in frozen.zgrams, d \in dynamic.zgrams \union posted : f.id < d.id
      BY <3>3, <3>4 DEF All
    <3> QED BY <1>8, <1>9, <1>11, <3>5, <3>6 DEF InTheirOrder
  <2>6. ASSUME NEW l \in InLogs' PROVE halfWritten' \/ l.id < NextZgramId' \/ l \in Infos(ToSet(posting'))
    <3>1. ASSUME l \in InLogs PROVE halfWritten \/ l.id < first + n
      <4>1. l.id \in Nat
        BY <1>2, <3>1, RecordsOfLogs
      <4> QED BY <1>7, <1>15, <3>1, <4>1
    <3> QED BY <1>7, <1>8, <1>18, <3>1
  <2> QED BY <2>1, <2>2, <2>3, <2>4, <2>5, <2>6 DEF MemoryOK
<1>25. PostingOK'
  <2>1. first + n + 0 <= written
    BY <1>2, <1>3, <1>4 DEF PostingOK
  <2> QED BY <1>8, <1>18, <2>1 DEF PostingOK
<1>26. ServingOK'
  BY <1>1, <1>7, <1>8, <1>24, <1>25 DEF ServingOK
<1> QED BY <1>7, <1>20, <1>21, <1>22, <1>23, <1>26, GrowthKeepsIndices, GrowthKeepsParts, GrowthKeepsReindexing
     DEF StoreOK
-------------------------------------------------------------------------------
(* The steps that leave the logs as they are.                                  *)

LEMMA SteadyLogs ==
    ASSUME LogsOK, UNCHANGED <<today, acknowledged, halfWritten, written>>, UNCHANGED LogRecords,
           ~halfWritten => ~refused'
    PROVE  /\ UNCHANGED InLogs /\ UNCHANGED Accepted /\ UNCHANGED Graffiti /\ UNCHANGED Known
           /\ (Spoilt' <=> Spoilt) /\ LogsOK'
<1>1. UNCHANGED InLogs /\ UNCHANGED Accepted
  BY DEF InLogs, Accepted
<1>2. UNCHANGED Graffiti /\ UNCHANGED Known /\ (Spoilt' <=> Spoilt)
  BY <1>1 DEF Graffiti, Known, Spoilt
<1> QED BY <1>1, <1>2 DEF LogsOK

\* What a build reads.
LEMMA BuildReads ==
    ASSUME LogStoreTypeOK, NEW ranges \in [Kinds -> [begin: Positions, end: Positions]],
           NEW records, records = BuildRecords(ranges)
    PROVE  /\ \A k \in Kinds :
                /\ records[k] = {l \in LogRecords : l.at.kind = k /\ Within(ranges[k], PositionOf(l.at))}
                /\ records[k] \in SUBSET Contents(files[k], k)
                /\ Infos(records[k]) = {z \in InLogs : z.at.kind = k /\ InPart(z, ranges)}
           /\ Together(records) \subseteq LogRecords
           /\ Infos(Together(records)) = {z \in InLogs : InPart(z, ranges)}
<1>1. ASSUME NEW k \in Kinds
      PROVE  /\ records[k] = {l \in LogRecords : l.at.kind = k /\ Within(ranges[k], PositionOf(l.at))}
             /\ records[k] \in SUBSET Contents(files[k], k)
             /\ Infos(records[k]) = {z \in InLogs : z.at.kind = k /\ InPart(z, ranges)}
  <2>1. PICK range : range = ranges[k]
    OBVIOUS
  <2>2. records[k] = ReadRange(files[k], k, range)
    BY <2>1 DEF BuildRecords
  <2>3. /\ records[k] \in SUBSET Contents(files[k], k)
        /\ records[k] = {l \in LogRecords : l.at.kind = k /\ Within(range, PositionOf(l.at))}
        /\ Infos(records[k]) = {z \in InLogs : z.at.kind = k /\ Within(range, Begins(z))}
    BY <2>2, ReadRecords
  <2>4. \A z \in InLogs : z.at.kind = k => (InPart(z, ranges) <=> Within(range, Begins(z)))
    BY <2>1 DEF InPart
  <2> QED BY <2>1, <2>3, <2>4
<1>2. Together(records) \subseteq LogRecords
  BY <1>1, KindsAreKinds DEF Together
<1>3. Infos(Together(records)) = Infos(records["logged"]) \union Infos(records["unlogged"])
  BY InfosOfUnion DEF Together
<1>4. \A z \in InLogs : z.at.kind \in {"logged", "unlogged"}
  BY RecordsOfLogs, KindsAreKinds
<1>5. Infos(Together(records)) = {z \in InLogs : InPart(z, ranges)}
  BY <1>1, <1>3, <1>4, KindsAreKinds
<1> QED BY <1>1, <1>2, <1>5

\* A build fails only on what a write that failed half way left behind.
LEMMA CanBuildUnlessHalfWritten ==
    ASSUME LogStoreTypeOK, LogsOK, NEW ranges \in [Kinds -> [begin: Positions, end: Positions]],
           NEW records, records = BuildRecords(ranges)
    PROVE  /\ ~halfWritten => CanBuild(records)
           /\ ~InOrder({z \in InLogs : z.at.kind = "logged" /\ InPart(z, ranges)}) => ~CanBuild(records)
           /\ ~CanBuild(records) => Spoilt \/ OfLog(InLogs, "unlogged") # {}
<1>1. /\ \A k \in Kinds : Infos(records[k]) = {z \in InLogs : z.at.kind = k /\ InPart(z, ranges)}
      /\ Infos(Together(records)) = {z \in InLogs : InPart(z, ranges)}
  BY BuildReads
<1>2. InOrder(Infos(records["unlogged"]))
  BY <1>1, KindsAreKinds DEF LogsOK, InOrder, OfLog
<1>3. ~Spoilt => InOrder(Infos(records["logged"]))
  BY <1>1, KindsAreKinds DEF Spoilt, InOrder, OfLog
<1>4. NoneTwice(InLogs) => NoneTwice(Infos(Together(records)))
  BY <1>1 DEF NoneTwice
<1>5. CanBuild(records) <=> InOrder(Infos(records["logged"])) /\ NoneTwice(Infos(Together(records)))
  BY <1>2, KindsAreKinds DEF CanBuild
<1>6. ~halfWritten => CanBuild(records)
  BY <1>3, <1>4, <1>5, OnceKnown DEF LogsOK, Spoilt
<1>7. ~InOrder({z \in InLogs : z.at.kind = "logged" /\ InPart(z, ranges)}) => ~CanBuild(records)
  BY <1>1, <1>5, KindsAreKinds
<1>8. ASSUME ~Spoilt, OfLog(InLogs, "unlogged") = {} PROVE NoneTwice(InLogs)
  <2>1. ASSUME NEW a \in InLogs, NEW b \in InLogs, a.id = b.id, a # b PROVE FALSE
    <3>1. a.at.kind = "logged" /\ b.at.kind = "logged" /\ a.at \in Locations /\ b.at \in Locations /\ a.id \in Nat
      BY <1>8, RecordsOfLogs, KindsAreKinds DEF OfLog
    <3>2. PICK l \in LogRecords : a = ZgramInfo(l) /\ l.at = a.at
      BY DEF InLogs, Infos, ZgramInfo
    <3>3. PICK m \in LogRecords : b = ZgramInfo(m) /\ m.at = b.at
      BY DEF InLogs, Infos, ZgramInfo
    <3>4. PICK fs : fs = files["logged"]
      OBVIOUS
    <3>5. l \in Contents(fs, "logged") /\ m \in Contents(fs, "logged")
      BY <3>1, <3>2, <3>3, <3>4, RecordsOfLogs, KindsAreKinds DEF Logs
    <3>6. today \in Nat /\ LogFilesOK(fs, today)
      BY <3>4, RecordsOfLogs, KindsAreKinds DEF LogStoreTypeOK
    <3>7. \A c \in Contents(fs, "logged") : c.record = fs[c.at.day][c.at.offset + 1]
      BY <3>6, ContentsOfFiles, KindsAreKinds
    <3>8. l.at # m.at
      BY <2>1, <3>2, <3>3, <3>5, <3>7 DEF ZgramInfo
    <3>9. Before(Begins(a), Begins(b)) \/ Before(Begins(b), Begins(a))
      BY <3>1, <3>2, <3>3, <3>8, LocationsDiffer DEF Begins
    <3>10. a.id < b.id \/ b.id < a.id
      BY <1>8, <3>1, <3>9 DEF Spoilt, InOrder, OfLog, Begins
    <3> QED BY <2>1, <3>1, <3>10
  <2> QED BY <2>1 DEF NoneTwice
<1> QED BY <1>3, <1>4, <1>5, <1>6, <1>7, <1>8

\* A build of ranges that reach all that was known when they were drawn up is an
\* index of the logs, and lets the cleanup remove what lies before them.
LEMMA BuildIsGood ==
    ASSUME LogStoreTypeOK, LogsOK, NEW ranges \in [Kinds -> [begin: Positions, end: Positions]],
           NEW records, records = BuildRecords(ranges), CanBuild(records),
           NEW ends \in [Kinds -> Positions], \A k \in Kinds : ends[k] = ranges[k].end,
           NEW oldest \in Nat, ranges["logged"].begin = Zero, ranges["unlogged"].begin = Position(oldest, 0),
           ends["unlogged"][1] >= oldest,
           CutsWell(ends, Known, Accepted, InLogs), Reaches(ranges, ends, Known, InLogs, today)
    PROVE  /\ Build(records) \in Indices /\ IndexOK(Build(records), Known, Accepted, LogRecords, today)
           /\ CleansUp(Build(records), oldest, InLogs)
           /\ \A k \in Kinds : ~Before(ends[k], Build(records).ends[k])
<1>1. PICK index : index = Build(records)
  OBVIOUS
<1>2. /\ \A k \in Kinds :
           /\ records[k] = {l \in LogRecords : l.at.kind = k /\ Within(ranges[k], PositionOf(l.at))}
           /\ records[k] \in SUBSET Contents(files[k], k)
      /\ Together(records) \subseteq LogRecords
      /\ Infos(Together(records)) = {z \in InLogs : InPart(z, ranges)}
  BY BuildReads
<1>3. /\ index.ends = [k \in Kinds |-> EndOf(records[k])]
      /\ index.zgrams = {z \in InLogs : InPart(z, ranges)}
      /\ index.metadata = MetadataOf(Together(records)) /\ index.exists = TRUE
      /\ index = [ends |-> index.ends, zgrams |-> index.zgrams, metadata |-> index.metadata, exists |-> index.exists]
  BY <1>1, <1>2 DEF Build, Index
<1>4. ASSUME NEW k \in Kinds
      PROVE  /\ index.ends[k] \in Positions
             /\ records[k] = {} => index.ends[k] = Zero
             /\ records[k] # {} => \E l \in records[k] : index.ends[k] = Behind(l.at)
             /\ \A l \in records[k] : Before(PositionOf(l.at), index.ends[k])
  <2>1. PICK fs, located : fs = files[k] /\ located = records[k]
    OBVIOUS
  <2>2. today \in Nat /\ LogFilesOK(fs, today) /\ located \in SUBSET Contents(fs, k)
    BY <1>2, <2>1, RecordsOfLogs DEF LogStoreTypeOK
  <2>3. /\ EndOf(located) \in Positions
        /\ located = {} => EndOf(located) = Zero
        /\ located # {} => \E l \in located : EndOf(located) = Behind(l.at)
        /\ \A l \in located : Before(PositionOf(l.at), EndOf(located))
    BY <2>2, EndOfLocated
  <2>4. index.ends[k] = EndOf(located)
    BY <1>3, <2>1
  <2> QED BY <2>1, <2>3, <2>4
<1>5. LogRecords \subseteq Located /\ InLogs \subseteq ZgramInfos /\ \A l \in Located : l.at \in Locations
  BY RecordsOfLogs DEF Located
<1>6. index \in Indices
  <2>1. index.ends \in [Kinds -> Positions]
    BY <1>3, <1>4
  <2>2. index.metadata \subseteq Records
    <3>1. \A l \in Together(records) : l.record \in Records
      BY <1>2, <1>5 DEF Located
    <3> QED BY <1>3, <3>1 DEF MetadataOf
  <2> QED BY <1>3, <1>5, <2>1, <2>2 DEF Indices
<1>7. \A z \in InLogs : /\ z \in ZgramInfos /\ z.at \in Locations /\ z.at.kind \in Kinds
                        /\ Begins(z) \in Positions /\ z.id \in Nat /\ z.at.day \in Nat
  BY <1>5, KnownZgrams
<1>8. ASSUME NEW z \in index.zgrams PROVE IsBefore(z, index.ends) /\ IsBefore(z, ends)
  <2>1. z \in InLogs /\ InPart(z, ranges)
    BY <1>3
  <2>2. PICK l \in LogRecords : l.at = z.at
    BY <2>1 DEF InLogs, Infos, ZgramInfo
  <2>3. l \in records[z.at.kind]
    BY <1>2, <1>7, <2>1, <2>2 DEF InPart, Begins
  <2>4. IsBefore(z, index.ends)
    BY <1>4, <1>7, <2>1, <2>2, <2>3 DEF IsBefore, Begins
  <2>5. IsBefore(z, ends)
    BY <1>7, <2>1 DEF InPart, Within, IsBefore
  <2> QED BY <2>4, <2>5
<1>9. \A k \in Kinds : ~Before(ends[k], index.ends[k])
  <2> TAKE k \in Kinds
  <2>1. ends[k] \in Positions /\ index.ends[k] \in Positions
    BY <1>4
  <2>2. CASE records[k] = {}
    <3>1. PICK d \in Nat, o \in Nat : ends[k] = <<d, o>>
      BY <2>1 DEF Positions
    <3> QED BY <1>4, <2>2, <3>1 DEF Before, Zero, Position
  <2>3. CASE records[k] # {}
    <3>1. PICK l \in records[k] : index.ends[k] = Behind(l.at)
      BY <1>4, <2>3
    <3>2. l.at \in Locations /\ Before(PositionOf(l.at), ends[k])
      BY <1>2, <1>5, <3>1 DEF Within
    <3> QED BY <2>1, <3>1, <3>2, LocationsArePositions
  <2> QED BY <2>2, <2>3
<1>10. ASSUME NEW a \in ZgramInfos, IsBefore(a, index.ends) PROVE IsBefore(a, ends)
  <2>1. /\ Begins(a) \in Positions /\ a.at.kind \in Kinds /\ ends[a.at.kind] \in Positions
        /\ index.ends[a.at.kind] \in Positions
    BY <1>4, KnownZgrams
  <2> QED BY <1>9, <1>10, <2>1, BeforeIsAnOrder DEF IsBefore
<1>11. \A a \in Known : a \in ZgramInfos /\ Begins(a) \in Positions /\ a.at.kind \in Kinds /\ a.id \in Nat /\ a.at.day \in Nat
  BY KnownZgrams
\* Graffiti, and something newer in the part.
<1>12. ASSUME NEW a \in Graffiti, NEW g \in OfLog(InLogs, "unlogged"), InPart(g, ranges), a.id < g.id
       PROVE  IsBefore(a, index.ends)
  <2>1. g \in Graffiti /\ g \in InLogs /\ a \in ZgramInfos /\ a.at.kind = "unlogged" /\ g.at.kind = "unlogged"
    BY <1>11, KnownZgrams DEF LogsOK, OfLog, Graffiti
  <2>2. /\ Begins(a) \in Positions /\ Begins(g) \in Positions /\ index.ends["unlogged"] \in Positions
        /\ a.id \in Nat /\ g.id \in Nat
    BY <1>4, <1>7, <2>1, KnownZgrams, KindsAreKinds
  <2>3. ~Before(Begins(g), Begins(a))
    <3>1. Before(Begins(g), Begins(a)) => g.id < a.id
      BY <2>1 DEF LogsOK, InOrder, Begins
    <3> QED BY <1>12, <2>2, <3>1
  <2>4. Before(Begins(g), index.ends["unlogged"])
    BY <1>3, <1>8, <1>12, <2>1 DEF IsBefore
  <2> QED BY <2>1, <2>2, <2>3, <2>4, BeforeIsAnOrder DEF IsBefore
<1>13. \A z \in InLogs : z.at.kind = "unlogged" => (InPart(z, ranges) <=> z.at.day >= oldest /\ IsBefore(z, ends))
  <2> TAKE z \in InLogs
  <2>1. z.at.day \in Nat /\ z.at.offset \in Nat
    BY <1>7 DEF Locations
  <2>2. ~Before(PositionOf(z.at), Position(oldest, 0)) <=> z.at.day >= oldest
    BY <2>1 DEF Before, PositionOf, Position
  <2> QED BY <2>2, KindsAreKinds DEF InPart, Within, Begins, IsBefore
<1>14. \A z \in InLogs : z.at.kind = "logged" => (InPart(z, ranges) <=> IsBefore(z, ends))
  <2> TAKE z \in InLogs
  <2>1. ~Before(Begins(z), Zero)
    BY <1>7, LocationsArePositions DEF Begins
  <2> QED BY <2>1, KindsAreKinds DEF InPart, Within, IsBefore
<1>15. \A z \in OfLog(InLogs, "unlogged") : z \in Graffiti /\ z \in Known
  BY KnownZgrams DEF LogsOK, Graffiti, OfLog
\* What is before the part lies below the ends of the index.
<1>16. ASSUME NEW z \in InLogs, ~IsBefore(z, index.ends) PROVE ~IsBefore(z, ends) /\ (z.at.kind = "unlogged" => z.at.day >= oldest)
  <2>1. ~InPart(z, ranges)
    BY <1>3, <1>8, <1>16
  <2>2. CASE z.at.kind = "logged"
    BY <1>14, <2>1, <2>2
  <2>3. CASE z.at.kind = "unlogged"
    <3>1. z \in Graffiti /\ z \in Known
      BY <1>15, <2>3 DEF OfLog
    <3>2. ~IsBefore(z, ends)
      <4>1. ASSUME IsBefore(z, ends) PROVE FALSE
        <5>1. PICK g \in OfLog(InLogs, "unlogged") : InPart(g, ranges) /\ z.id < g.id
          BY <2>1, <3>1, <4>1 DEF Reaches
        <5> QED BY <1>12, <1>16, <3>1, <5>1
      <4> QED BY <4>1
    <3>3. z.at.day >= oldest
      <4>1. ~Before(PositionOf(z.at), ends["unlogged"]) /\ ends["unlogged"] \in Positions
        BY <2>3, <3>2, KindsAreKinds DEF IsBefore, Begins
      <4>2. PICK d \in Nat, o \in Nat : ends["unlogged"] = <<d, o>>
        BY <4>1 DEF Positions
      <4>3. z.at.day >= d
        BY <1>7, <4>1, <4>2, LocationsArePositions
      <4>4. d >= oldest
        BY <4>2
      <4> QED BY <1>7, <4>2, <4>3, <4>4
    <3> QED BY <3>2, <3>3
  <2> QED BY <1>7, <2>2, <2>3, KindsAreKinds
<1>17. CutsWell(index.ends, Known, Accepted, InLogs)
  <2>1. ASSUME NEW a \in Known, NEW l \in InLogs, IsBefore(a, index.ends), ~IsBefore(l, index.ends)
        PROVE  a.id < l.id
    BY <1>10, <1>11, <1>16, <2>1 DEF CutsWell
  <2>2. ASSUME NEW a \in Accepted PROVE a \in InLogs \/ IsBefore(a, index.ends)
    <3>1. SUFFICES ASSUME a \notin InLogs PROVE IsBefore(a, index.ends)
      OBVIOUS
    <3>2. a \in Known /\ IsBefore(a, ends)
      BY <3>1, KnownZgrams DEF CutsWell
    <3>3. IsOld(a, today) /\ \E g \in OfLog(InLogs, "unlogged") : InPart(g, ranges) /\ a.id < g.id
      BY <3>1, <3>2 DEF Reaches
    <3>4. a \in Graffiti
      BY <3>3 DEF IsOld, Graffiti, OfLog
    <3> QED BY <1>12, <3>3, <3>4
  <2> QED BY <2>1, <2>2 DEF CutsWell
<1>18. Covers(index, Known, today)
  <2>1. ASSUME NEW a \in Known, IsBefore(a, index.ends)
        PROVE  a \in index.zgrams \/ (IsOld(a, today) /\ \E z \in index.zgrams : a.id < z.id)
    BY <1>3, <1>10, <1>11, <2>1 DEF Reaches, OfLog
  <2> QED BY <2>1 DEF Covers
<1>19. EndsIn(index.ends, LogRecords)
  <2>1. ASSUME NEW k \in Kinds PROVE index.ends[k] = Zero \/ \E l \in LogRecords : l.at.kind = k /\ index.ends[k] = Behind(l.at)
    BY <1>2, <1>4
  <2> QED BY <2>1 DEF EndsIn
<1>20. IndexOK(index, Known, Accepted, LogRecords, today)
  <2>1. index.zgrams \subseteq Infos(LogRecords)
    BY <1>3 DEF InLogs
  <2>2. NoneTwice(index.zgrams)
    BY <1>2, <1>3 DEF CanBuild
  <2> QED BY <1>8, <1>17, <1>18, <1>19, <2>1, <2>2 DEF IndexOK, InLogs
<1>21. CleansUp(index, oldest, InLogs)
  <2>1. \A z \in index.zgrams : z.at.kind = "unlogged" => z.at.day >= oldest
    BY <1>3, <1>13
  <2>2. \A l \in OfLog(InLogs, "unlogged") : IsBefore(l, index.ends) \/ l.at.day >= oldest
    BY <1>16 DEF OfLog
  <2>3. index.ends["unlogged"] = Zero \/ index.ends["unlogged"][1] >= oldest
    <3>1. CASE records["unlogged"] = {}
      BY <1>4, <3>1, KindsAreKinds
    <3>2. CASE records["unlogged"] # {}
      <4>1. PICK l \in records["unlogged"] : index.ends["unlogged"] = Behind(l.at)
        BY <1>4, <3>2, KindsAreKinds
      <4>2. l.at \in Locations /\ ~Before(PositionOf(l.at), Position(oldest, 0))
        BY <1>2, <1>5, <4>1, KindsAreKinds DEF Within
      <4>3. Position(oldest, 0) \in Positions /\ Position(oldest, 0)[1] = oldest
        BY DEF Position, Positions
      <4>4. l.at.day >= oldest
        BY <4>2, <4>3, LocationsArePositions
      <4> QED BY <4>1, <4>4 DEF Behind, Position
    <3> QED BY <3>1, <3>2
  <2> QED BY <2>1, <2>2, <2>3 DEF CleansUp
<1> QED BY <1>1, <1>6, <1>9, <1>20, <1>21

\* What the indices on disk keep when the logs stay as they are.
LEMMA SteadyIndex ==
    ASSUME StoreOK, UNCHANGED <<published, today>>, UNCHANGED LogRecords, UNCHANGED Known, UNCHANGED Accepted
    PROVE  PublishedOK'
BY DEF StoreOK, PublishedOK

LEMMA EverythingIsRead ==
    ASSUME LogStoreTypeOK, LogsOK, NeverQuiet, NEW ranges, ranges = [k \in Kinds |-> Everything]
    PROVE  /\ ranges \in [Kinds -> [begin: Positions, end: Positions]]
           /\ \A z \in InLogs : InPart(z, ranges)
           /\ \A a \in Known : Before(Begins(a), Infinity)
           /\ Infinity \in Positions /\ Infinity[1] \in Nat
<1>1. LastDay \in Nat /\ today \in Nat /\ today <= LastDay /\ FirstDay \in Nat
  BY LogStoreAssumption, RecordsOfLogs DEF LogStoreTypeOK, FirstDay
<1>2. Infinity \in Positions /\ Zero \in Positions /\ Infinity[1] \in Nat
  BY <1>1 DEF Infinity, Zero, Position, Positions
<1>3. ranges \in [Kinds -> [begin: Positions, end: Positions]]
  BY <1>2 DEF Everything, InterFileRange
<1>4. ASSUME NEW z \in ZgramInfos, z.at.day <= today PROVE Before(Begins(z), Infinity) /\ ~Before(Begins(z), Zero)
  <2>1. z.at \in Locations /\ z.at.day \in Nat
    BY KnownZgrams
  <2>2. z.at.day < LastDay + 1
    BY <1>1, <1>4, <2>1
  <2> QED BY <2>1, <2>2, LocationsArePositions DEF Before, Begins, PositionOf, Position, Infinity
<1>5. \A z \in InLogs : InPart(z, ranges)
  BY <1>4, RecordsOfLogs DEF InPart, Within, Everything, InterFileRange
<1>6. \A a \in Known : Before(Begins(a), Infinity)
  BY <1>4, RecordsOfLogs, KnownZgrams DEF Known, LogsOK
<1> QED BY <1>2, <1>3, <1>5, <1>6

LEMMA BuildFirstIndexKeeps ==
    ASSUME StoreOK, BuildFirstIndex
    PROVE  StoreOK'
<1>1. LogStoreTypeOK /\ LogsOK /\ NeverQuiet /\ ReindexingOK /\ ServingOK
  BY DEF StoreOK
<1>2. serving = "down" /\ reindexing.step = "none" /\ posting = <<>>
  BY <1>1 DEF BuildFirstIndex, ReindexingOK, ServingOK
<1>3. /\ UNCHANGED memory
      /\ UNCHANGED <<today, files, serving, posting, reindexing, written, crashes, failures, acknowledged, halfWritten>>
  BY DEF BuildFirstIndex, bounds
<1>4. PICK ranges : ranges = [k \in Kinds |-> Everything]
  OBVIOUS
<1>5. PICK records : records = BuildRecords(ranges)
  OBVIOUS
<1>6. /\ CanBuild(records) => published' = Build(records) /\ scratch' = NoIndex /\ UNCHANGED refused
      /\ ~CanBuild(records) => refused' = TRUE /\ UNCHANGED <<published, scratch>>
  BY <1>4, <1>5 DEF BuildFirstIndex
<1>7. ranges \in [Kinds -> [begin: Positions, end: Positions]] /\ (~halfWritten => CanBuild(records))
  BY <1>1, <1>4, <1>5, EverythingIsRead, CanBuildUnlessHalfWritten
<1>8. ~halfWritten => ~refused'
  BY <1>1, <1>6, <1>7 DEF LogsOK
<1>9. UNCHANGED LogRecords
  BY <1>3, SameLogs
<1>10. /\ UNCHANGED InLogs /\ UNCHANGED Accepted /\ UNCHANGED Graffiti /\ UNCHANGED Known
       /\ (Spoilt' <=> Spoilt) /\ LogsOK'
  BY <1>1, <1>3, <1>8, <1>9, SteadyLogs
<1>11. CanBuild(records) => Build(records) \in Indices /\ IndexOK(Build(records), Known, Accepted, LogRecords, today)
  <2>0. SUFFICES ASSUME CanBuild(records)
                 PROVE  Build(records) \in Indices /\ IndexOK(Build(records), Known, Accepted, LogRecords, today)
    OBVIOUS
  <2>1. PICK ends : ends = [k \in Kinds |-> Infinity]
    OBVIOUS
  <2>2. /\ \A z \in InLogs : InPart(z, ranges)
        /\ \A a \in Known : Before(Begins(a), Infinity)
        /\ Infinity \in Positions /\ Infinity[1] \in Nat
    BY <1>1, <1>4, EverythingIsRead
  <2>3. ends \in [Kinds -> Positions] /\ \A k \in Kinds : ends[k] = ranges[k].end
    BY <1>4, <2>1, <2>2 DEF Everything, InterFileRange
  <2>4. ranges["logged"].begin = Zero /\ ranges["unlogged"].begin = Position(0, 0) /\ ends["unlogged"][1] >= 0
    BY <1>4, <2>1, <2>2, KindsAreKinds DEF Everything, InterFileRange, Zero
  <2>5. ~Spoilt
    <3>1. InOrder(Infos(records["logged"])) /\ Infos(records["logged"]) = {z \in InLogs : z.at.kind = "logged" /\ InPart(z, ranges)}
      BY <1>1, <1>5, <1>7, <2>0, BuildReads, KindsAreKinds DEF CanBuild
    <3>2. OfLog(InLogs, "logged") = Infos(records["logged"])
      BY <2>2, <3>1 DEF OfLog
    <3> QED BY <3>1, <3>2 DEF Spoilt
  <2>6. ASSUME NEW a \in Accepted, a \notin InLogs
        PROVE  IsOld(a, today) /\ \E g \in OfLog(InLogs, "unlogged") : a.id < g.id
    <3>1. IsOld(a, today) /\ a \in Graffiti
      BY <1>1, <2>6 DEF LogsOK, IsOld, Graffiti, OfLog
    <3>2. PICK g \in OfLog(InLogs, "unlogged") : ~IsOld(g, today)
      BY <1>1, <1>2, <2>5, <3>1 DEF NeverQuiet, Doomed
    <3>3. g \in Graffiti /\ g.at.kind = "unlogged"
      BY <1>1, <3>2 DEF LogsOK, Graffiti, OfLog
    <3>4. a.at.day \in Nat /\ g.at.day \in Nat /\ Lifespan \in Nat /\ today \in Nat
      BY <1>1, <3>1, <3>3, KnownZgrams, RecordsOfLogs, LogStoreAssumption DEF Graffiti, OfLog
    <3>5. a.at.day < g.at.day
      BY <3>1, <3>2, <3>3, <3>4 DEF IsOld
    <3>6. a.id < g.id
      BY <1>1, <3>1, <3>3, <3>5 DEF LogsOK, InOrder, Before, PositionOf, Position
    <3> QED BY <3>1, <3>2, <3>6
  <2>7. Reaches(ranges, ends, Known, InLogs, today)
    <3>1. ASSUME NEW a \in Known
          PROVE  \/ a \in InLogs /\ InPart(a, ranges)
                 \/ IsOld(a, today) /\ \E g \in OfLog(InLogs, "unlogged") : InPart(g, ranges) /\ a.id < g.id
      BY <2>2, <2>6 DEF Known, OfLog
    <3> QED BY <3>1 DEF Reaches
  <2>8. CutsWell(ends, Known, Accepted, InLogs)
    <3>1. \A a \in Known : a \in ZgramInfos /\ a.at.kind \in Kinds
      BY <1>1, KnownZgrams
    <3>2. \A a \in Known : IsBefore(a, ends)
      BY <2>1, <2>2, <3>1 DEF IsBefore
    <3>3. \A l \in InLogs : IsBefore(l, ends)
      BY <1>4, <2>1, <2>2, <1>1, RecordsOfLogs DEF IsBefore, InPart, Within, Everything, InterFileRange
    <3> QED BY <1>1, <3>2, <3>3, KnownZgrams DEF CutsWell
  <2> QED BY <1>1, <1>5, <1>7, <2>0, <2>3, <2>4, <2>7, <2>8, BuildIsGood
<1>12. PublishedOK'
  <2>1. CASE CanBuild(records)
    BY <1>3, <1>6, <1>9, <1>10, <1>11, <2>1 DEF PublishedOK
  <2>2. CASE ~CanBuild(records)
    BY <1>3, <1>6, <1>9, <1>10, <2>2, SteadyIndex
  <2> QED BY <2>1, <2>2
<1>13. NoIndex \in Indices
  BY DEF NoIndex, Indices, Zero, Position, Positions
<1>14. LogStoreTypeOK'
  <2>1. published' \in Indices /\ scratch' \in Indices /\ refused' \in BOOLEAN
    BY <1>1, <1>6, <1>11, <1>13, Zenon DEF LogStoreTypeOK
  <2> QED BY <1>1, <1>3, <2>1 DEF LogStoreTypeOK, memory
<1>15. NeverQuiet' /\ GivenUpOK' /\ PartsOK' /\ ReindexingOK' /\ ServingOK'
  <2>1. NeverQuiet'
    BY <1>1, <1>2, <1>3, <1>10 DEF NeverQuiet, Doomed
  <2> QED BY <1>2, <1>3, <2>1 DEF GivenUpOK, PartsOK, Building, ReindexingOK, ServingOK
<1> QED BY <1>10, <1>12, <1>14, <1>15 DEF StoreOK

LEMMA ServerStays ==
    ASSUME StoreOK, UNCHANGED memory,
           UNCHANGED <<today, files, serving, posting, written, acknowledged, halfWritten>>,
           reindexing'.step # "given up" => reindexing.step # "given up",
           posting # <<>> => reindexing'.step # "reset",
           \A i \in DOMAIN posting : BehindCuts(posting[i].at) => BehindCuts(posting[i].at)'
    PROVE  ServingOK'
<1>1. ServingOK
  BY DEF StoreOK
<1>2. SUFFICES ASSUME serving = "serving" PROVE StateOK' /\ MemoryOK' /\ PostingOK'
  BY <1>1 DEF ServingOK
<1>3. StateOK /\ MemoryOK /\ PostingOK
  BY <1>1, <1>2 DEF ServingOK
<1>4. /\ UNCHANGED InLogs /\ UNCHANGED Accepted /\ UNCHANGED Graffiti
      /\ \A k \in Kinds : UNCHANGED Logs(k)
  BY SameLogs
<1>5. /\ UNCHANGED All /\ UNCHANGED NextZgramId /\ (InTheirOrder' <=> InTheirOrder) /\ UNCHANGED state
  BY SameMemory
<1>6. StateOK'
  BY <1>3, <1>4, <1>5 DEF StateOK
<1>7. MemoryOK'
  BY <1>3, <1>4, <1>5 DEF MemoryOK
<1>8. ASSUME NEW i \in DOMAIN posting
      PROVE  /\ posting[i].record.type = "zgram" /\ posting[i].record.id = NextZgramId' + i - 1
             /\ BehindCuts(posting[i].at)'
             /\ posting[i].at.kind = "logged" => posting[i] \in Logs("logged")'
             /\ posting[i].at.kind = "unlogged" =>
                  posting[i].at = [kind |-> "unlogged", day |-> state'["unlogged"][1],
                                   offset |-> state'["unlogged"][2] + Ahead(OfKind(posting, "unlogged"), i)]
  BY <1>3, <1>4, <1>5, KindsAreKinds DEF PostingOK
<1>9. PostingOK'
  <2>1. NextZgramId' + Len(posting) <= written
    BY <1>3, <1>5 DEF PostingOK
  <2> QED BY <1>8, <2>1 DEF PostingOK
<1> QED BY <1>6, <1>7, <1>9

LEMMA GiveUpKeeps ==
    ASSUME StoreOK, GiveUp
    PROVE  StoreOK'
<1>1. LogStoreTypeOK /\ LogsOK /\ NeverQuiet /\ ServingOK /\ GivenUpOK
  BY DEF StoreOK
<1>2. /\ serving = "serving" /\ posting = <<>> /\ reindexing.step = "failed"
      /\ reindexing' = [reindexing EXCEPT !.step = "given up"]
      /\ UNCHANGED memory
      /\ UNCHANGED <<today, files, published, scratch, serving, posting, written, crashes, failures,
                     acknowledged, halfWritten, refused>>
  BY DEF GiveUp, Idle, To, disk, bounds, history
<1>3. /\ reindexing' \in [step: Steps, ranges: [Kinds -> [begin: Positions, end: Positions]]]
      /\ reindexing'.step = "given up"
  BY <1>1, <1>2 DEF LogStoreTypeOK, Steps
<1>4. LogStoreTypeOK'
  BY <1>1, <1>2, <1>3 DEF LogStoreTypeOK, memory
<1>5. UNCHANGED LogRecords
  BY <1>2, SameLogs
<1>6. ~halfWritten => ~refused'
  BY <1>1, <1>2 DEF LogsOK
<1>7. /\ UNCHANGED InLogs /\ UNCHANGED Accepted /\ UNCHANGED Graffiti /\ UNCHANGED Known
      /\ (Spoilt' <=> Spoilt) /\ LogsOK'
  BY <1>1, <1>2, <1>5, <1>6, SteadyLogs
<1>8. PublishedOK'
  BY <1>2, <1>5, <1>7, SteadyIndex
<1>9. NeverQuiet'
  BY <1>1, <1>2, <1>3, <1>7 DEF NeverQuiet, Doomed
<1>10. GivenUpOK' /\ PartsOK' /\ ReindexingOK'
  BY <1>1, <1>2, <1>3, <1>7 DEF GivenUpOK, PartsOK, Building, ReindexingOK
<1>11. ServingOK'
  <2>1. StateOK' /\ MemoryOK' /\ PostingOK'
    <3>1. StateOK /\ MemoryOK /\ PostingOK
      BY <1>1, <1>2 DEF ServingOK
    <3>2. \A k \in Kinds : UNCHANGED Logs(k)
      BY <1>2, SameLogs
    <3>3. /\ UNCHANGED All /\ UNCHANGED NextZgramId /\ (InTheirOrder' <=> InTheirOrder) /\ UNCHANGED state
      BY <1>2, SameMemory
    <3>4. StateOK'
      BY <1>2, <3>1, <3>2, <3>3 DEF StateOK
    <3>5. MemoryOK'
      BY <1>2, <1>3, <1>7, <3>1, <3>3 DEF MemoryOK
    <3>6. PostingOK'
      <4>1. NextZgramId + 0 <= written
        BY <1>2, <3>1 DEF PostingOK
      <4>2. posting' = <<>> /\ NextZgramId' = NextZgramId /\ written' = written
        BY <1>2, <3>3
      <4> QED BY <4>1, <4>2 DEF PostingOK
    <3> QED BY <3>4, <3>5, <3>6
  <2> QED BY <1>2, <2>1 DEF ServingOK
<1> QED BY <1>4, <1>7, <1>8, <1>9, <1>10, <1>11 DEF StoreOK

LEMMA ClearScratchKeeps ==
    ASSUME StoreOK, ClearScratchDirectory
    PROVE  StoreOK'
<1>1. LogStoreTypeOK /\ LogsOK /\ NeverQuiet /\ ServingOK /\ PartsOK /\ ReindexingOK
  BY DEF StoreOK
<1>2. /\ reindexing.step = "started" /\ scratch' = NoIndex
      /\ reindexing' = [reindexing EXCEPT !.step = "cleared"]
      /\ UNCHANGED memory
      /\ UNCHANGED <<today, files, published, serving, posting, written, crashes, failures,
                     acknowledged, halfWritten, refused>>
  BY DEF ClearScratchDirectory, To, bounds, history
<1>3. /\ reindexing' \in [step: Steps, ranges: [Kinds -> [begin: Positions, end: Positions]]]
      /\ reindexing'.step = "cleared" /\ reindexing'.ranges = reindexing.ranges
  BY <1>1, <1>2 DEF LogStoreTypeOK, Steps
<1>4. LogStoreTypeOK'
  <2>1. NoIndex \in Indices
    BY DEF NoIndex, Indices, Zero, Position, Positions
  <2> QED BY <1>1, <1>2, <1>3, <2>1 DEF LogStoreTypeOK, memory
<1>5. UNCHANGED LogRecords /\ UNCHANGED state
  BY <1>2, SameLogs, SameMemory
<1>6. ~halfWritten => ~refused'
  BY <1>1, <1>2 DEF LogsOK
<1>7. /\ UNCHANGED InLogs /\ UNCHANGED Accepted /\ UNCHANGED Graffiti /\ UNCHANGED Known
      /\ (Spoilt' <=> Spoilt) /\ LogsOK'
  BY <1>1, <1>2, <1>5, <1>6, SteadyLogs
<1>8. PublishedOK'
  BY <1>2, <1>5, <1>7, SteadyIndex
<1>9. UNCHANGED Ranges /\ UNCHANGED PartEnds /\ UNCHANGED Oldest
  BY <1>3 DEF Ranges, PartEnds, Oldest
<1>10. Building /\ Building' /\ (Doomed' <=> Doomed)
  BY <1>2, <1>3, <1>7, <1>9 DEF Building, Doomed
<1>11. NeverQuiet'
  BY <1>1, <1>2, <1>7, <1>10 DEF NeverQuiet
<1>12. PartsOK'
  BY <1>1, <1>2, <1>5, <1>7, <1>9, <1>10 DEF PartsOK
<1>13. GivenUpOK' /\ ReindexingOK'
  BY <1>1, <1>2, <1>3, <1>5, <1>9 DEF GivenUpOK, ReindexingOK
<1>14. ServingOK'
  <2>1. \A i \in DOMAIN posting : BehindCuts(posting[i].at) => BehindCuts(posting[i].at)'
    BY <1>2, <1>9, <1>10 DEF BehindCuts
  <2> QED BY <1>2, <1>3, <2>1, ServerStays
<1> QED BY <1>4, <1>7, <1>8, <1>11, <1>12, <1>13, <1>14 DEF StoreOK

LEMMA PublishBuildKeeps ==
    ASSUME StoreOK, PublishBuild
    PROVE  StoreOK'
<1>1. LogStoreTypeOK /\ LogsOK /\ NeverQuiet /\ ServingOK /\ PartsOK /\ ReindexingOK
  BY DEF StoreOK
<1>2. /\ reindexing.step = "built" /\ published' = scratch /\ scratch' = NoIndex
      /\ reindexing' = [reindexing EXCEPT !.step = "done"]
      /\ UNCHANGED memory
      /\ UNCHANGED <<today, files, serving, posting, written, crashes, failures,
                     acknowledged, halfWritten, refused>>
  BY DEF PublishBuild, To, bounds, history
<1>3. /\ reindexing' \in [step: Steps, ranges: [Kinds -> [begin: Positions, end: Positions]]]
      /\ reindexing'.step = "done" /\ reindexing'.ranges = reindexing.ranges
  BY <1>1, <1>2 DEF LogStoreTypeOK, Steps
<1>4. LogStoreTypeOK'
  <2>1. NoIndex \in Indices
    BY DEF NoIndex, Indices, Zero, Position, Positions
  <2> QED BY <1>1, <1>2, <1>3, <2>1 DEF LogStoreTypeOK, memory
<1>5. UNCHANGED LogRecords /\ UNCHANGED state
  BY <1>2, SameLogs, SameMemory
<1>6. ~halfWritten => ~refused'
  BY <1>1, <1>2 DEF LogsOK
<1>7. /\ UNCHANGED InLogs /\ UNCHANGED Accepted /\ UNCHANGED Graffiti /\ UNCHANGED Known
      /\ (Spoilt' <=> Spoilt) /\ LogsOK'
  BY <1>1, <1>2, <1>5, <1>6, SteadyLogs
<1>8. /\ IndexOK(scratch, Known, Accepted, LogRecords, today) /\ CleansUp(scratch, Oldest, InLogs)
      /\ \A k \in Kinds : ~Before(PartEnds[k], scratch.ends[k])
  BY <1>1, <1>2 DEF ReindexingOK
<1>9. PublishedOK'
  BY <1>2, <1>5, <1>7, <1>8 DEF PublishedOK
<1>10. UNCHANGED Ranges /\ UNCHANGED Oldest
  BY <1>3 DEF Ranges, Oldest
<1>11. NeverQuiet'
  BY <1>1, <1>2, <1>3, <1>7 DEF NeverQuiet, Doomed
<1>12. PartsOK' /\ GivenUpOK'
  BY <1>3 DEF PartsOK, Building, GivenUpOK
<1>13. ReindexingOK'
  BY <1>1, <1>2, <1>3, <1>5, <1>7, <1>8, <1>10 DEF ReindexingOK
<1>14. ServingOK'
  <2>1. ASSUME NEW i \in DOMAIN posting, BehindCuts(posting[i].at) PROVE BehindCuts(posting[i].at)'
    <3>1. PICK at : at = posting[i].at
      OBVIOUS
    <3>2. at \in Locations
      <4>1. posting[i] \in Located
        BY <1>1, LenProperties, ElementOfSeq DEF LogStoreTypeOK
      <4> QED BY <3>1, <4>1 DEF Located
    <3>3. /\ PositionOf(at) \in Positions /\ at.kind \in Kinds
          /\ PartEnds[at.kind] \in Positions /\ scratch.ends[at.kind] \in Positions
      BY <1>1, <3>2, LocationsArePositions, EndsArePositions DEF Locations
    <3>4. ~Before(PositionOf(at), PartEnds[at.kind])
      BY <1>2, <2>1, <3>1 DEF BehindCuts, Building
    <3>5. ~Before(PositionOf(at), scratch.ends[at.kind])
      BY <1>8, <3>3, <3>4, BeforeIsAnOrder
    <3>6. BehindCuts(at)'
      BY <1>2, <1>3, <3>5 DEF BehindCuts, Building
    <3> QED BY <1>2, <3>1, <3>6
  <2> QED BY <1>2, <1>3, <2>1, ServerStays
<1> QED BY <1>4, <1>7, <1>9, <1>11, <1>12, <1>13, <1>14 DEF StoreOK

LEMMA StartReindexingKeeps ==
    ASSUME StoreOK, StartReindexing
    PROVE  StoreOK'
<1>1. serving = "serving" /\ posting = <<>> /\ reindexing.step = "none"
  BY DEF StartReindexing, Idle
<1>2. LogStoreTypeOK /\ LogsOK /\ NeverQuiet /\ StateOK /\ MemoryOK /\ ServingOK
  BY <1>1, InMemory DEF StoreOK
<1>3. PICK oldest : oldest = today - Lifespan
  OBVIOUS
<1>4. /\ oldest \in Nat /\ oldest + Lifespan = today /\ oldest <= state["unlogged"][1]
      /\ Lifespan \in Nat /\ today \in Nat
  <2>1. Lifespan \in Nat /\ LastDay \in Nat /\ today \in Lifespan + 1 .. LastDay
    BY <1>2, LogStoreAssumption DEF LogStoreTypeOK, FirstDay
  <2>2. today <= state["unlogged"][1] + Lifespan /\ state["unlogged"][1] \in Nat
    BY <1>1, <1>2, EndsArePositions DEF MemoryOK
  <2> QED BY <1>3, <2>1, <2>2
<1>5. /\ reindexing' =
           [step |-> "started",
            ranges |-> [k \in Kinds |->
              [begin |-> IF k = "logged" THEN Zero ELSE Position(oldest, 0), end |-> state[k]]]]
      /\ UNCHANGED memory
      /\ UNCHANGED <<today, files, published, scratch, serving, posting, written, crashes, failures,
                     acknowledged, halfWritten, refused>>
  BY <1>3 DEF StartReindexing, Checkpoint, InterFileRange, disk, bounds, history
<1>6. state \in [Kinds -> Positions] /\ Position(oldest, 0) \in Positions /\ Zero \in Positions
  BY <1>2, <1>4, EndsArePositions DEF Position, Positions, Zero
<1>7. /\ reindexing' \in [step: Steps, ranges: [Kinds -> [begin: Positions, end: Positions]]]
      /\ reindexing'.step = "started"
  BY <1>5, <1>6 DEF Steps
<1>8. /\ Ranges'["logged"].begin = Zero /\ Ranges'["unlogged"].begin = Position(oldest, 0)
      /\ \A k \in Kinds : Ranges'[k].end = state[k]
      /\ PartEnds' = state /\ Oldest' = oldest
  <2>1. /\ Ranges'["logged"].begin = Zero /\ Ranges'["unlogged"].begin = Position(oldest, 0)
        /\ \A k \in Kinds : Ranges'[k].end = state[k]
    BY <1>5, KindsAreKinds DEF Ranges
  <2>2. PartEnds' = state
    BY <1>6, <2>1 DEF PartEnds
  <2> QED BY <2>1, <2>2 DEF Oldest, Position
<1>9. LogStoreTypeOK'
  BY <1>2, <1>5, <1>7 DEF LogStoreTypeOK, memory
<1>10. UNCHANGED LogRecords /\ UNCHANGED state
  BY <1>5, SameLogs, SameMemory
<1>11. ~halfWritten => ~refused'
  BY <1>2, <1>5 DEF LogsOK
<1>12. /\ UNCHANGED InLogs /\ UNCHANGED Accepted /\ UNCHANGED Graffiti /\ UNCHANGED Known
       /\ (Spoilt' <=> Spoilt) /\ LogsOK'
  BY <1>2, <1>5, <1>10, <1>11, SteadyLogs
<1>13. PublishedOK'
  BY <1>5, <1>10, <1>12, SteadyIndex
<1>14. ASSUME NEW z \in InLogs
       PROVE  /\ IsBefore(z, state) /\ z.at \in Locations /\ z.at.kind \in Kinds /\ z.at.day \in Nat /\ z.at.offset \in Nat
              /\ z.at.kind = "logged" => InPart(z, Ranges')
              /\ z.at.kind = "unlogged" => (InPart(z, Ranges') <=> z.at.day >= oldest)
  <2>1. z.at \in Locations /\ z.at.kind \in Kinds /\ z.at.day \in Nat /\ z.at.offset \in Nat
    BY <1>2, RecordsOfLogs DEF Locations
  <2>2. PICK l \in LogRecords : l.at = z.at
    BY DEF InLogs, Infos, ZgramInfo
  <2>3. IsBefore(z, state)
    BY <1>2, <2>1, <2>2, RecordsOfLogs DEF StateOK, IsBefore, Begins
  <2>4. ~Before(PositionOf(z.at), Zero)
    BY <2>1, LocationsArePositions
  <2>5. ~Before(PositionOf(z.at), Position(oldest, 0)) <=> z.at.day >= oldest
    BY <1>4, <2>1 DEF Before, PositionOf, Position
  <2> QED BY <1>8, <2>1, <2>3, <2>4, <2>5, KindsAreKinds DEF InPart, Within, IsBefore, Begins
<1>15. Doomed' <=> Spoilt
  <2>1. {z \in InLogs : z.at.kind = "logged" /\ InPart(z, Ranges')} = OfLog(InLogs, "logged")
    BY <1>14 DEF OfLog
  <2> QED BY <1>7, <1>12, <2>1 DEF Doomed, Spoilt
<1>16. NeverQuiet'
  BY <1>1, <1>2, <1>5, <1>12, <1>15 DEF NeverQuiet, Doomed
<1>17. ASSUME ~Spoilt PROVE Reaches(Ranges', state, Known, InLogs, today)
  <2>1. ASSUME NEW a \in Known, ~(a \in InLogs /\ InPart(a, Ranges'))
        PROVE  IsOld(a, today) /\ \E g \in OfLog(InLogs, "unlogged") : InPart(g, Ranges') /\ a.id < g.id
    <3>1. IsOld(a, today) /\ a \in Graffiti
      <4>1. CASE a \in InLogs
        <5>1. a.at.kind = "unlogged" /\ a.at.day < oldest
          BY <1>4, <1>14, <2>1, <4>1, KindsAreKinds
        <5>2. IsOld(a, today)
          BY <1>4, <1>14, <4>1, <5>1 DEF IsOld
        <5> QED BY <1>2, <4>1, <5>1, <5>2 DEF LogsOK, OfLog
      <4>2. CASE a \notin InLogs
        <5>1. a \in Accepted
          BY <4>2 DEF Known
        <5>2. IsOld(a, today)
          BY <1>2, <4>2, <5>1 DEF LogsOK
        <5> QED BY <5>1, <5>2 DEF IsOld, Graffiti, OfLog
      <4> QED BY <4>1, <4>2
    <3>2. PICK g \in OfLog(InLogs, "unlogged") : ~IsOld(g, today)
      BY <1>1, <1>2, <1>17, <3>1 DEF NeverQuiet, Doomed
    <3>3. g \in InLogs /\ g \in Graffiti /\ g.at.kind = "unlogged" /\ g.at.day \in Nat
      BY <1>2, <1>14, <3>2 DEF LogsOK, OfLog
    <3>4. g.at.day >= oldest
      BY <1>4, <3>2, <3>3 DEF IsOld
    <3>5. a.at.day \in Nat
      BY <1>2, <2>1, KnownZgrams
    <3>6. a.at.day < g.at.day
      BY <1>4, <3>1, <3>3, <3>4, <3>5 DEF IsOld
    <3>7. a.id < g.id
      BY <1>2, <3>1, <3>3, <3>6 DEF LogsOK, InOrder, Before, PositionOf, Position
    <3> QED BY <1>14, <3>1, <3>2, <3>3, <3>4, <3>7
  <2> QED BY <2>1 DEF Reaches
<1>18. CutsWell(state, Known, Accepted, InLogs)
  <2>1. ASSUME NEW a \in Accepted, a \notin InLogs PROVE IsBefore(a, state)
    <3>1. a \in Graffiti /\ a.at.kind = "unlogged"
      BY <1>2, <2>1 DEF LogsOK, IsOld, Graffiti, OfLog
    <3> QED BY <1>2, <3>1 DEF MemoryOK, IsBefore
  <2> QED BY <1>14, <2>1 DEF CutsWell
<1>19. PartsOK'
  <2>1. \A k \in Kinds : ~Before(state[k], state[k])
    BY <1>6, BeforeIsAnOrder
  <2> QED BY <1>4, <1>5, <1>8, <1>10, <1>12, <1>15, <1>17, <1>18, <2>1 DEF PartsOK
<1>20. GivenUpOK' /\ ReindexingOK'
  <2>1. GivenUpOK'
    BY <1>7 DEF GivenUpOK
  <2> QED BY <1>1, <1>4, <1>5, <1>7, <1>8, <1>10, <2>1 DEF ReindexingOK
<1>21. ServingOK'
  <2>1. DOMAIN posting = {}
    BY <1>1
  <2> QED BY <1>1, <1>5, <1>7, <2>1, ServerStays
<1> QED BY <1>9, <1>12, <1>13, <1>16, <1>19, <1>20, <1>21 DEF StoreOK

LEMMA RunBuildKeeps ==
    ASSUME StoreOK, RunBuild
    PROVE  StoreOK'
<1>1. LogStoreTypeOK /\ LogsOK /\ NeverQuiet /\ ServingOK /\ PartsOK /\ ReindexingOK
  BY DEF StoreOK
<1>2. /\ reindexing.step = "cleared" /\ UNCHANGED memory
      /\ UNCHANGED <<today, files, published, serving, posting, written, crashes, failures,
                     acknowledged, halfWritten>>
  BY DEF RunBuild, bounds
<1>3. PICK ranges : ranges = Ranges
  OBVIOUS
<1>4. PICK records : records = BuildRecords(ranges)
  OBVIOUS
<1>5. IF CanBuild(records)
      THEN scratch' = Build(records) /\ reindexing' = [reindexing EXCEPT !.step = "built"] /\ UNCHANGED refused
      ELSE reindexing' = [reindexing EXCEPT !.step = "failed"] /\ refused' = TRUE /\ UNCHANGED scratch
  BY <1>3, <1>4 DEF RunBuild, Ranges, To
<1>6. /\ ranges \in [Kinds -> [begin: Positions, end: Positions]]
      /\ PartEnds \in [Kinds -> Positions] /\ \A k \in Kinds : PartEnds[k] = ranges[k].end
  BY <1>1, <1>3, EndsArePositions DEF LogStoreTypeOK, Ranges, PartEnds
<1>7. /\ ~halfWritten => CanBuild(records)
      /\ ~InOrder({z \in InLogs : z.at.kind = "logged" /\ InPart(z, ranges)}) => ~CanBuild(records)
      /\ ~CanBuild(records) => Spoilt \/ OfLog(InLogs, "unlogged") # {}
  BY <1>1, <1>4, <1>6, CanBuildUnlessHalfWritten
<1>8. UNCHANGED LogRecords /\ UNCHANGED state
  BY <1>2, SameLogs, SameMemory
<1>9. ~halfWritten => ~refused'
  BY <1>1, <1>5, <1>7 DEF LogsOK
<1>10. /\ UNCHANGED InLogs /\ UNCHANGED Accepted /\ UNCHANGED Graffiti /\ UNCHANGED Known
       /\ (Spoilt' <=> Spoilt) /\ LogsOK'
  BY <1>1, <1>2, <1>8, <1>9, SteadyLogs
<1>11. PublishedOK'
  BY <1>2, <1>8, <1>10, SteadyIndex
<1>12. /\ reindexing' \in [step: Steps, ranges: [Kinds -> [begin: Positions, end: Positions]]]
       /\ reindexing'.step = IF CanBuild(records) THEN "built" ELSE "failed"
       /\ reindexing'.ranges = reindexing.ranges
  BY <1>1, <1>5 DEF LogStoreTypeOK, Steps
<1>13. UNCHANGED Ranges /\ UNCHANGED Oldest /\ UNCHANGED PartEnds
  BY <1>12 DEF Ranges, Oldest, PartEnds
<1>14. Building /\ (Doomed <=> ~InOrder({z \in InLogs : z.at.kind = "logged" /\ InPart(z, ranges)}))
  BY <1>2, <1>3 DEF Building, Doomed
<1>15. CASE CanBuild(records)
  <2>1. ~Doomed /\ Reaches(ranges, PartEnds, Known, InLogs, today)
    BY <1>1, <1>3, <1>7, <1>14, <1>15 DEF PartsOK
  <2>2. /\ Oldest \in Nat /\ ranges["logged"].begin = Zero /\ ranges["unlogged"].begin = Position(Oldest, 0)
        /\ PartEnds["unlogged"][1] >= Oldest /\ CutsWell(PartEnds, Known, Accepted, InLogs)
    BY <1>1, <1>2, <1>3, <1>14, EndsArePositions DEF PartsOK, ReindexingOK
  <2>3. PICK ends, oldest : ends = PartEnds /\ oldest = Oldest
    OBVIOUS
  <2>4. /\ Build(records) \in Indices /\ IndexOK(Build(records), Known, Accepted, LogRecords, today)
        /\ CleansUp(Build(records), oldest, InLogs)
        /\ \A k \in Kinds : ~Before(ends[k], Build(records).ends[k])
    BY <1>1, <1>4, <1>6, <1>15, <2>1, <2>2, <2>3, BuildIsGood
  <2>5. LogStoreTypeOK'
    <3>1. scratch' \in Indices /\ refused' \in BOOLEAN
      BY <1>1, <1>5, <1>15, <2>4 DEF LogStoreTypeOK
    <3> QED BY <1>1, <1>2, <1>12, <3>1 DEF LogStoreTypeOK, memory
  <2>6. NeverQuiet'
    BY <1>1, <1>2, <1>10, <2>1 DEF NeverQuiet
  <2>7. PartsOK'
    BY <1>1, <1>2, <1>3, <1>8, <1>10, <1>13, <1>14, <2>1 DEF PartsOK
  <2>8. GivenUpOK' /\ ReindexingOK'
    <3>1. reindexing'.step = "built" /\ scratch' = Build(records)
      BY <1>5, <1>12, <1>15
    <3>2. /\ IndexOK(scratch', Known', Accepted', LogRecords', today') /\ CleansUp(scratch', Oldest', InLogs')
          /\ \A k \in Kinds : ~Before(PartEnds'[k], scratch'.ends[k])
      BY <1>2, <1>8, <1>10, <1>13, <2>3, <2>4, <3>1
    <3>3. /\ Ranges["unlogged"].begin = Position(Oldest, 0)
          /\ Oldest + Lifespan <= today
          /\ serving = "serving" => Oldest <= state["unlogged"][1]
          /\ serving # "down" /\ serving # "stopped"
      BY <1>1, <1>2 DEF ReindexingOK
    <3> QED BY <1>2, <1>8, <1>13, <3>1, <3>2, <3>3 DEF GivenUpOK, ReindexingOK
  <2>9. ServingOK'
    <3>1. Building'
      BY <1>12, <1>15 DEF Building
    <3>2. \A i \in DOMAIN posting : BehindCuts(posting[i].at) => BehindCuts(posting[i].at)'
      BY <1>2, <1>13, <1>14, <3>1 DEF BehindCuts
    <3> QED BY <1>2, <1>12, <1>15, <3>2, ServerStays
  <2> QED BY <1>10, <1>11, <2>5, <2>6, <2>7, <2>8, <2>9 DEF StoreOK
<1>16. CASE ~CanBuild(records)
  <2>1. LogStoreTypeOK'
    <3>1. scratch' \in Indices /\ refused' \in BOOLEAN
      BY <1>1, <1>5, <1>16 DEF LogStoreTypeOK
    <3> QED BY <1>1, <1>2, <1>12, <3>1 DEF LogStoreTypeOK, memory
  <2>2. reindexing'.step = "failed"
    BY <1>12, <1>16
  <2>3. NeverQuiet'
    <3>1. Doomed => Spoilt
      BY <1>14 DEF Spoilt, InOrder, OfLog
    <3> QED BY <1>1, <1>2, <1>10, <2>2, <3>1 DEF NeverQuiet, Doomed
  <2>4. GivenUpOK' /\ PartsOK'
    BY <1>7, <1>10, <1>16, <2>2 DEF GivenUpOK, PartsOK, Building
  <2>5. ReindexingOK'
    BY <1>1, <1>2, <2>2 DEF ReindexingOK
  <2>6. ServingOK'
    <3>1. \A i \in DOMAIN posting : BehindCuts(posting[i].at) => BehindCuts(posting[i].at)'
      BY <1>2, <2>2 DEF BehindCuts, Building
    <3> QED BY <1>2, <2>2, <3>1, ServerStays
  <2> QED BY <1>10, <1>11, <2>1, <2>3, <2>4, <2>5, <2>6 DEF StoreOK
<1> QED BY <1>15, <1>16

LEMMA CrashKeeps ==
    ASSUME StoreOK, Crash
    PROVE  StoreOK'
<1>1. LogStoreTypeOK /\ LogsOK /\ NeverQuiet
  BY DEF StoreOK
<1>2. /\ serving' = "down" /\ posting' = <<>> /\ reindexing' = NoReindexing
      /\ frozen' = NoIndex /\ dynamic' = NoDynamic /\ state' = NotOpen
      /\ crashes' = crashes + 1
      /\ UNCHANGED <<today, files, published, scratch, written, failures, acknowledged, halfWritten, refused>>
  BY DEF Crash, disk, history
<1>3. Zero \in Positions /\ Infinity \in Positions
  <2>1. LastDay \in Nat
    BY LogStoreAssumption
  <2> QED BY <2>1 DEF Zero, Infinity, Position, Positions
<1>4. LogStoreTypeOK'
  <2>1. NoIndex \in Indices /\ NoDynamic \in [zgrams: SUBSET ZgramInfos, metadata: SUBSET Records]
        /\ NotOpen \in [Kinds -> Positions]
        /\ NoReindexing \in [step: Steps, ranges: [Kinds -> [begin: Positions, end: Positions]]]
    BY <1>3 DEF NoIndex, Indices, NoDynamic, NotOpen, NoReindexing, Everything, InterFileRange, Steps
  <2>2. crashes' \in Nat
    BY <1>1, <1>2 DEF LogStoreTypeOK
  <2>3. posting' \in Seq(Located)
    BY <1>2
  <2> QED BY <1>1, <1>2, <2>1, <2>2, <2>3 DEF LogStoreTypeOK
<1>5. UNCHANGED LogRecords
  BY <1>2, SameLogs
<1>6. ~halfWritten => ~refused'
  BY <1>1, <1>2 DEF LogsOK
<1>7. /\ UNCHANGED InLogs /\ UNCHANGED Accepted /\ UNCHANGED Graffiti /\ UNCHANGED Known
      /\ (Spoilt' <=> Spoilt) /\ LogsOK'
  BY <1>1, <1>2, <1>5, <1>6, SteadyLogs
<1>8. PublishedOK'
  BY <1>2, <1>5, <1>7, SteadyIndex
<1>9. reindexing'.step = "none"
  BY <1>2 DEF NoReindexing
<1>10. NeverQuiet'
  <2>1. Doomed => Spoilt
    BY DEF Doomed, Spoilt, InOrder, OfLog
  <2> QED BY <1>1, <1>2, <1>7, <1>9, <2>1 DEF NeverQuiet, Doomed
<1>11. GivenUpOK' /\ PartsOK' /\ ReindexingOK' /\ ServingOK'
  BY <1>2, <1>9 DEF GivenUpOK, PartsOK, Building, ReindexingOK, ServingOK
<1> QED BY <1>4, <1>7, <1>8, <1>10, <1>11 DEF StoreOK

LEMMA CleanupKeeps ==
    ASSUME StoreOK, Cleanup
    PROVE  StoreOK'
<1>1. serving = "serving" /\ reindexing.step = "reset"
  BY DEF Cleanup
<1>2. /\ LogStoreTypeOK /\ LogsOK /\ NeverQuiet /\ StateOK /\ MemoryOK /\ PostingOK
      /\ PublishedOK /\ ReindexingOK /\ NextZgramId \in Nat
  BY <1>1, InMemory DEF StoreOK
<1>3. posting = <<>>
  BY <1>1, <1>2 DEF PostingOK
<1>4. PICK oldest \in Nat : oldest = Oldest
  BY <1>2, EndsArePositions
<1>5. /\ oldest + Lifespan <= today /\ oldest <= state["unlogged"][1] /\ CleansUp(published, oldest, InLogs)
      /\ \A z \in OfLog(All, "unlogged") : z.at.day >= oldest
  BY <1>1, <1>2, <1>4 DEF ReindexingOK
<1>6. /\ files' = [files EXCEPT !["unlogged"] = [day \in {d \in DOMAIN files["unlogged"] : d >= oldest} |-> @[day]]]
      /\ reindexing' = NoReindexing /\ UNCHANGED memory
      /\ UNCHANGED <<today, published, scratch, serving, posting, written, crashes, failures,
                     acknowledged, halfWritten, refused>>
  BY <1>4 DEF Cleanup, DaysToKeep, Oldest, Ranges, Rescheduled, bounds, history
<1>7. files = [k \in Kinds |-> files[k]] /\ \A k \in Kinds : LogFilesOK(files[k], today)
  BY <1>2 DEF LogStoreTypeOK
<1>8. /\ files' = [k \in Kinds |-> files'[k]] /\ files'["logged"] = files["logged"]
      /\ files'["unlogged"] = [day \in {d \in DOMAIN files["unlogged"] : d >= oldest} |-> files["unlogged"][day]]
  BY <1>6, <1>7, KindsAreKinds
<1>9. \A k \in Kinds : LogFilesOK(files'[k], today)
  BY <1>7, <1>8, KindsAreKinds DEF LogFilesOK
<1>10. Logs("unlogged")' = {l \in Logs("unlogged") : l.at.day >= oldest} /\ Logs("logged")' = Logs("logged")
  <2>1. \A d \in DOMAIN files'["unlogged"] : files'["unlogged"][d] = files["unlogged"][d]
    BY <1>8
  <2>2. DOMAIN files'["unlogged"] = {d \in DOMAIN files["unlogged"] : d >= oldest}
    BY <1>8
  <2>3. \A d : \A l \in ParseLogFile(files["unlogged"][d], "unlogged", d) : l.at.day = d
    BY DEF ParseLogFile
  <2>4. Contents(files'["unlogged"], "unlogged") = {l \in Contents(files["unlogged"], "unlogged") : l.at.day >= oldest}
    <3>1. PICK fs, fs2 : fs = files["unlogged"] /\ fs2 = files'["unlogged"]
      OBVIOUS
    <3>2. ASSUME NEW l \in Contents(fs, "unlogged"), l.at.day >= oldest PROVE l \in Contents(fs2, "unlogged")
      <4>1. PICK d \in DOMAIN fs : l \in ParseLogFile(fs[d], "unlogged", d)
        BY DEF Contents
      <4>2. d \in DOMAIN fs2 /\ fs2[d] = fs[d]
        BY <2>1, <2>2, <2>3, <3>1, <3>2, <4>1
      <4> QED BY <4>1, <4>2 DEF Contents
    <3>3. ASSUME NEW l \in Contents(fs2, "unlogged") PROVE l \in Contents(fs, "unlogged") /\ l.at.day >= oldest
      <4>1. PICK d \in DOMAIN fs2 : l \in ParseLogFile(fs2[d], "unlogged", d)
        BY DEF Contents
      <4>2. d \in DOMAIN fs /\ fs2[d] = fs[d] /\ d >= oldest
        BY <2>1, <2>2, <3>1
      <4>3. l.at.day = d
        BY <2>3, <3>1, <4>1, <4>2
      <4> QED BY <4>1, <4>2, <4>3 DEF Contents
    <3> QED BY <3>1, <3>2, <3>3
  <2> QED BY <1>8, <2>4 DEF Logs
<1>11. LogRecords' = {l \in LogRecords : l.at.kind = "logged" \/ l.at.day >= oldest}
  <2>1. \A l \in Logs("logged") : l.at.kind = "logged"
    BY <1>2, RecordsOfLogs, KindsAreKinds
  <2>2. \A l \in Logs("unlogged") : l.at.kind = "unlogged"
    BY <1>2, RecordsOfLogs, KindsAreKinds
  <2> QED BY <1>10, <2>1, <2>2 DEF LogRecords
<1>12. InLogs' = {z \in InLogs : z.at.kind = "logged" \/ z.at.day >= oldest}
  <2>1. \A l : ZgramInfo(l).at = l.at
    BY DEF ZgramInfo
  <2> QED BY <1>11, <2>1 DEF InLogs, Infos
<1>13. UNCHANGED Accepted /\ UNCHANGED Graffiti
  BY <1>6 DEF Accepted, Graffiti
<1>14. /\ UNCHANGED All /\ UNCHANGED NextZgramId /\ (InTheirOrder' <=> InTheirOrder) /\ UNCHANGED state
  BY <1>6, SameMemory
<1>15. /\ today \in Nat /\ Lifespan \in Nat /\ state["unlogged"][1] \in Nat /\ today' = today
       /\ \A z \in InLogs : z.at.day \in Nat /\ z.at.kind \in Kinds
       /\ \A a \in Known : a.at.day \in Nat /\ a.at.kind \in Kinds
       /\ \A l \in LogRecords : l.at.day \in Nat
  <2>1. \A l \in LogRecords : l.at.day \in Nat
    BY <1>2, RecordsOfLogs DEF Located, Locations
  <2>2. \A z \in InLogs : z.at.day \in Nat /\ z.at.kind \in Kinds
    BY <1>2, RecordsOfLogs DEF Locations
  <2> QED BY <1>2, <1>6, <2>1, <2>2, RecordsOfLogs, LogStoreAssumption, EndsArePositions, KnownZgrams
<1>16. reindexing'.step = "none"
  BY <1>6 DEF NoReindexing
<1>17. LogStoreTypeOK'
  <2>1. reindexing' \in [step: Steps, ranges: [Kinds -> [begin: Positions, end: Positions]]]
    <3>1. Zero \in Positions /\ Infinity \in Positions
      BY LogStoreAssumption DEF Zero, Infinity, Position, Positions
    <3> QED BY <1>6, <3>1 DEF NoReindexing, Everything, InterFileRange, Steps
  <2> QED BY <1>2, <1>6, <1>8, <1>9, <2>1 DEF LogStoreTypeOK, memory
<1>18. Known' \subseteq Known /\ InLogs' \subseteq InLogs
  BY <1>6, <1>12, <1>13 DEF Known
<1>19. ASSUME NEW a \in Known, a \in InLogs, a \notin InLogs'
       PROVE  a.at.kind = "unlogged" /\ a.at.day < oldest /\ IsOld(a, today)
  <2>1. a.at.kind = "unlogged" /\ a.at.day < oldest
    BY <1>12, <1>15, <1>19, KindsAreKinds
  <2> QED BY <1>5, <1>15, <2>1 DEF IsOld
<1>20. Accepted \subseteq Known
  BY <1>2, KnownZgrams
<1>21. LogsOK'
  <2>1. OfLog(InLogs', "unlogged") \subseteq Graffiti
    BY <1>2, <1>18 DEF LogsOK, OfLog
  <2>2. \A a \in Accepted : a \in InLogs' \/ IsOld(a, today)
    BY <1>2, <1>19, <1>20 DEF LogsOK
  <2>3. OfLog(InLogs', "logged") = OfLog(InLogs, "logged")
    BY <1>12 DEF OfLog
  <2>4. NoneTwice(Known')
    BY <1>2, <1>18 DEF LogsOK, NoneTwice
  <2>5. \A l \in InLogs' : l.id < written
    BY <1>2, <1>18 DEF LogsOK
  <2> QED BY <1>2, <1>6, <1>13, <2>1, <2>2, <2>3, <2>4, <2>5 DEF LogsOK
<1>22. PublishedOK'
  <2>0. IndexOK(published, Known, Accepted, LogRecords, today)
    BY <1>2 DEF PublishedOK
  <2>1. published.zgrams \subseteq InLogs'
    <3>1. \A z \in published.zgrams : z \in InLogs /\ (z.at.kind = "unlogged" => z.at.day >= oldest)
      BY <1>5, <2>0 DEF IndexOK, CleansUp, InLogs
    <3> QED BY <1>12, <1>15, <3>1, KindsAreKinds
  <2>2. CutsWell(published.ends, Known', Accepted, InLogs')
    <3>1. CutsWell(published.ends, Known, Accepted, InLogs)
      BY <2>0 DEF IndexOK, InLogs
    <3>2. ASSUME NEW a \in Accepted PROVE a \in InLogs' \/ IsBefore(a, published.ends)
      <4>1. CASE a \in InLogs /\ a \notin InLogs'
        <5>1. a \in OfLog(InLogs, "unlogged") /\ ~(a.at.day >= oldest)
          BY <1>15, <1>19, <1>20, <4>1 DEF OfLog
        <5> QED BY <1>5, <5>1 DEF CleansUp
      <4>2. CASE a \notin InLogs
        BY <3>1, <4>2 DEF CutsWell
      <4> QED BY <4>1, <4>2
    <3> QED BY <1>18, <3>1, <3>2 DEF CutsWell
  <2>3. Covers(published, Known', today)
    BY <1>18, <2>0 DEF IndexOK, Covers
  <2>4. EndsIn(published.ends, LogRecords')
    <3>1. ASSUME NEW k \in Kinds, published.ends[k] # Zero
          PROVE  \E l \in LogRecords' : l.at.kind = k /\ published.ends[k] = Behind(l.at)
      <4>1. PICK l \in LogRecords : l.at.kind = k /\ published.ends[k] = Behind(l.at)
        BY <2>0, <3>1 DEF IndexOK, EndsIn
      <4>2. k = "unlogged" => l.at.day >= oldest
        <5>1. Behind(l.at)[1] = l.at.day
          BY DEF Behind, Position
        <5>2. published.ends["unlogged"] = Zero \/ published.ends["unlogged"][1] >= oldest
          BY <1>5 DEF CleansUp
        <5> QED BY <3>1, <4>1, <5>1, <5>2
      <4>3. l \in LogRecords'
        BY <1>11, <4>1, <4>2, KindsAreKinds
      <4> QED BY <4>1, <4>3
    <3> QED BY <3>1 DEF EndsIn
  <2> QED BY <1>6, <1>13, <1>15, <2>0, <2>1, <2>2, <2>3, <2>4 DEF PublishedOK, IndexOK, InLogs
<1>23. NeverQuiet'
  <2>1. ASSUME Graffiti # {} PROVE \E g \in OfLog(InLogs', "unlogged") : ~IsOld(g, today)
    <3>1. PICK g \in OfLog(InLogs, "unlogged") : ~IsOld(g, today)
      BY <1>1, <1>2, <2>1 DEF NeverQuiet, Doomed
    <3>2. g \in InLogs /\ g.at.kind = "unlogged" /\ g.at.day \in Nat
      BY <1>15 DEF OfLog
    <3>3. g.at.day >= oldest
      BY <1>5, <1>15, <3>1, <3>2 DEF IsOld
    <3>4. g \in OfLog(InLogs', "unlogged")
      BY <1>12, <3>2, <3>3 DEF OfLog
    <3> QED BY <3>1, <3>4
  <2> QED BY <1>13, <1>15, <2>1 DEF NeverQuiet
<1>24. GivenUpOK' /\ PartsOK' /\ ReindexingOK'
  BY <1>1, <1>6, <1>16 DEF GivenUpOK, PartsOK, Building, ReindexingOK
<1>25. StateOK'
  <2>1. \A k \in Kinds : state[k][1] \in DOMAIN files'[k] /\ files'[k][state[k][1]] = files[k][state[k][1]]
    BY <1>2, <1>5, <1>8, KindsAreKinds DEF StateOK
  <2>2. \A k \in Kinds : Logs(k)' \subseteq Logs(k)
    BY <1>10, KindsAreKinds
  <2> QED BY <1>2, <1>14, <2>1, <2>2 DEF StateOK
<1>26. MemoryOK'
  <2>1. All \subseteq InLogs'
    <3>1. \A z \in All : z \in InLogs /\ (z.at.kind = "unlogged" => z.at.day >= oldest)
      BY <1>2, <1>5 DEF MemoryOK, OfLog
    <3> QED BY <1>12, <1>15, <3>1, KindsAreKinds
  <2>2. today <= state["unlogged"][1] + Lifespan
    BY <1>1, <1>2 DEF MemoryOK
  <2> QED BY <1>2, <1>6, <1>13, <1>14, <1>18, <2>1, <2>2 DEF MemoryOK
<1>27. PostingOK'
  <2>1. NextZgramId + 0 <= written
    BY <1>2, <1>3 DEF PostingOK
  <2>2. posting' = <<>> /\ NextZgramId' = NextZgramId /\ written' = written
    BY <1>3, <1>6, <1>14
  <2> QED BY <2>1, <2>2 DEF PostingOK
<1>28. ServingOK'
  BY <1>1, <1>6, <1>25, <1>26, <1>27 DEF ServingOK
<1> QED BY <1>17, <1>21, <1>22, <1>23, <1>24, <1>28 DEF StoreOK
\* What a start reads again: all that is not before the ends of the published index.
LEMMA BootstrapReads ==
    ASSUME StoreOK, NEW records, records = DynamicRecords
    PROVE  /\ \A k \in Kinds :
                /\ records[k] = {l \in LogRecords : l.at.kind = k /\ ~Before(PositionOf(l.at), published.ends[k])}
                /\ records[k] \in SUBSET Contents(files[k], k)
           /\ Together(records) \subseteq LogRecords
           /\ Infos(Together(records)) = {z \in InLogs : ~IsBefore(z, published.ends)}
<1>1. LogStoreTypeOK /\ LogsOK /\ NeverQuiet
  BY DEF StoreOK
<1>2. PICK ranges : ranges = [k \in Kinds |-> InterFileRange(published.ends[k], Infinity)]
  OBVIOUS
<1>3. published.ends \in [Kinds -> Positions] /\ Infinity \in Positions
  BY <1>1, EndsArePositions, EverythingIsRead
<1>4. ranges \in [Kinds -> [begin: Positions, end: Positions]]
  BY <1>2, <1>3 DEF InterFileRange
<1>5. records = BuildRecords(ranges)
  BY <1>2 DEF DynamicRecords, BuildRecords
<1>6. ASSUME NEW l \in LogRecords PROVE Before(PositionOf(l.at), Infinity) /\ l.at \in Locations /\ l.at.kind \in Kinds
  <2>1. LastDay \in Nat /\ today <= LastDay /\ today \in Nat
    BY <1>1, LogStoreAssumption, RecordsOfLogs DEF LogStoreTypeOK
  <2>2. l.at \in Locations /\ l.at.day \in Nat /\ l.at.day <= today /\ l.at.kind \in Kinds
    BY <1>1, RecordsOfLogs DEF Located, Locations
  <2>3. l.at.day < LastDay + 1
    BY <2>1, <2>2
  <2> QED BY <2>2, <2>3 DEF Before, PositionOf, Position, Infinity
<1>7. \A k \in Kinds : \A p : Before(p, Infinity) => (Within(ranges[k], p) <=> ~Before(p, published.ends[k]))
  BY <1>2 DEF Within, InterFileRange
<1>8. /\ \A k \in Kinds :
           /\ records[k] = {l \in LogRecords : l.at.kind = k /\ Within(ranges[k], PositionOf(l.at))}
           /\ records[k] \in SUBSET Contents(files[k], k)
      /\ Together(records) \subseteq LogRecords
      /\ Infos(Together(records)) = {z \in InLogs : InPart(z, ranges)}
  BY <1>1, <1>4, <1>5, BuildReads
<1>9. ASSUME NEW k \in Kinds
      PROVE  records[k] = {l \in LogRecords : l.at.kind = k /\ ~Before(PositionOf(l.at), published.ends[k])}
  BY <1>6, <1>7, <1>8
<1>10. \A z \in InLogs : z.at.kind \in Kinds /\ Before(Begins(z), Infinity)
  <2>1. \A z \in InLogs : \E l \in LogRecords : l.at = z.at
    BY <1>1, RecordsOfLogs, InfosOfLocated DEF InLogs
  <2> QED BY <1>6, <2>1 DEF Begins
<1>11. Infos(Together(records)) = {z \in InLogs : ~IsBefore(z, published.ends)}
  BY <1>7, <1>8, <1>10 DEF InPart, IsBefore
<1> QED BY <1>8, <1>9, <1>11

\* It goes on where the file of today ends, or with a new one.
LEMMA StartsWhereLogsEnd ==
    ASSUME StoreOK, NEW records, records = DynamicRecords, NEW k \in Kinds,
           NEW start, start = CalcStart(records, k)
    PROVE  /\ start \in Positions /\ start[1] = today /\ start[2] \in Nat
           /\ ~Before(start, published.ends[k])
           /\ \A l \in Logs(k) : Before(PositionOf(l.at), start)
           /\ start = Position(today, 0) \/ \E l \in Logs(k) : start = Behind(l.at)
           /\ CanAppend(files[k], start)
<1>1. LogStoreTypeOK /\ PublishedOK /\ LogFilesOK(files[k], today) /\ today \in Nat
  BY RecordsOfLogs DEF StoreOK, LogStoreTypeOK
<1>2. PICK midnight, begin, end :
         midnight = Position(today, 0) /\ begin = published.ends[k] /\ end = EndOf(records[k])
  OBVIOUS
<1>3. start = Later(Later(midnight, begin), end)
  BY <1>2 DEF CalcStart
<1>4. Logs(k) = {l \in LogRecords : l.at.kind = k} /\ Logs(k) \subseteq Located
  BY <1>1, RecordsOfLogs
<1>5. records[k] = {l \in Logs(k) : ~Before(PositionOf(l.at), begin)} /\ records[k] \in SUBSET Contents(files[k], k)
  BY <1>2, <1>4, BootstrapReads
<1>6. /\ end \in Positions /\ \A l \in records[k] : Before(PositionOf(l.at), end)
      /\ end = Zero \/ \E l \in Logs(k) : end = Behind(l.at)
  BY <1>1, <1>2, <1>5, EndOfLocated
<1>7. begin \in Positions /\ (begin = Zero \/ \E l \in Logs(k) : begin = Behind(l.at))
  BY <1>1, <1>2, <1>4, EndsArePositions DEF PublishedOK, IndexOK, EndsIn
<1>8. midnight \in Positions
  BY <1>1, <1>2 DEF Position, Positions
<1>9. Later(midnight, begin) \in Positions
  BY <1>7, <1>8, LaterIsLater
<1>10. start \in {midnight, begin, end} /\ start \in Positions
  BY <1>3, <1>6, <1>7, <1>8, <1>9, LaterIsLater
<1>11. ~Before(start, midnight) /\ ~Before(start, begin) /\ ~Before(start, end)
  <2>1. ~Before(start, Later(midnight, begin)) /\ ~Before(start, end)
    BY <1>3, <1>6, <1>9, LaterIsLater
  <2>2. ~Before(Later(midnight, begin), midnight) /\ ~Before(Later(midnight, begin), begin)
    BY <1>7, <1>8, LaterIsLater
  <2> QED BY <1>7, <1>8, <1>9, <1>10, <2>1, <2>2, BeforeIsAnOrder
<1>12. ASSUME NEW l \in Logs(k) PROVE Before(PositionOf(l.at), start)
  <2>0. PositionOf(l.at) \in Positions
    BY <1>4, LocationsArePositions DEF Located
  <2>1. CASE Before(PositionOf(l.at), begin)
    BY <1>7, <1>10, <1>11, <2>0, <2>1, BeforeIsAnOrder
  <2>2. CASE ~Before(PositionOf(l.at), begin)
    <3>1. Before(PositionOf(l.at), end)
      BY <1>5, <1>6, <2>2
    <3> QED BY <1>6, <1>10, <1>11, <2>0, <3>1, BeforeIsAnOrder
  <2> QED BY <2>1, <2>2
<1>13. start[1] >= today /\ start[1] \in Nat /\ start[2] \in Nat
  <2>1. PICK d \in Nat, o \in Nat : start = <<d, o>>
    BY <1>10 DEF Positions
  <2> QED BY <1>1, <1>2, <1>11, <2>1 DEF Before, Position
<1>14. start = Position(today, 0) \/ \E l \in Logs(k) : start = Behind(l.at)
  <2>1. start # Zero
    <3>1. today > 0
      BY <1>1, LogStoreAssumption DEF LogStoreTypeOK, FirstDay
    <3> QED BY <1>1, <1>13, <3>1 DEF Zero, Position
  <2> QED BY <1>2, <1>6, <1>7, <1>10, <2>1
<1>15. \A l \in Logs(k) : /\ l \in Located /\ l.at.kind = k /\ l.at.day <= today /\ l.at.day \in Nat /\ l.at.offset \in Nat
                          /\ l.at.day \in DOMAIN files[k] /\ l.at.offset < Len(files[k][l.at.day])
  BY <1>1, <1>4, ContentsOfFiles DEF Logs, Located, Locations
<1>16. start[1] = today
  <2>1. start[1] <= today
    BY <1>1, <1>14, <1>15 DEF Behind, Position
  <2> QED BY <1>1, <1>13, <2>1
<1>17. ASSUME start[1] \in DOMAIN files[k] PROVE Len(files[k][start[1]]) = start[2]
  <2>1. PICK n : n = Len(files[k][start[1]])
    OBVIOUS
  <2>2. n \in Nat
    BY <1>1, <1>17, <2>1, ContentsOfFiles
  <2>3. start[2] <= n
    <3>1. CASE start = Position(today, 0)
      BY <2>2, <3>1 DEF Position
    <3>2. CASE \E l \in Logs(k) : start = Behind(l.at)
      <4>1. PICK l \in Logs(k) : start = Behind(l.at)
        BY <3>2
      <4>2. start[1] = l.at.day /\ start[2] = l.at.offset + 1
        BY <4>1 DEF Behind, Position
      <4>3. l.at.offset < n /\ l.at.offset \in Nat
        BY <1>15, <2>1, <4>2
      <4> QED BY <2>2, <4>2, <4>3
    <3> QED BY <1>14, <3>1, <3>2
  <2>4. n <= start[2]
    <3>1. CASE n = 0
      BY <1>13, <3>1
    <3>2. CASE n # 0
      <4>1. n \in 1..Len(files[k][start[1]]) /\ n - 1 \in Nat
        BY <2>1, <2>2, <3>2
      <4>2. PICK l : l = [record |-> files[k][start[1]][n], at |-> [kind |-> k, day |-> start[1], offset |-> n - 1]]
        OBVIOUS
      <4>3. l \in Logs(k)
        BY <1>1, <1>17, <4>1, <4>2, ContentsOfFiles DEF Logs
      <4>4. l.at.day = start[1] /\ l.at.offset = n - 1
        BY <4>2
      <4>5. Before(<<start[1], n - 1>>, start)
        BY <1>12, <4>3, <4>4 DEF PositionOf, Position
      <4>6. n - 1 < start[2]
        BY <1>13, <4>1, <4>5 DEF Before
      <4> QED BY <1>13, <2>2, <4>6
    <3> QED BY <3>1, <3>2
  <2> QED BY <1>13, <2>1, <2>2, <2>3, <2>4
<1>18. CanAppend(files[k], start)
  BY <1>17 DEF CanAppend
<1>19. ~Before(start, published.ends[k])
  BY <1>2, <1>11
<1> QED BY <1>10, <1>12, <1>13, <1>14, <1>16, <1>18, <1>19, Zenon
\* A file that is opened holds nothing if it is new.
LEMMA OpenedContents ==
    ASSUME NEW k \in Kinds, NEW now \in Nat, FirstDay <= now, NEW fs, LogFilesOK(fs, now),
           NEW start, start[1] = now, start[2] \in Nat, CanAppend(fs, start),
           now \in DOMAIN fs \/ start[2] = 0
    PROVE  /\ LogFilesOK(Opened(fs, start), now) /\ now \in DOMAIN Opened(fs, start)
           /\ Len(Opened(fs, start)[now]) = start[2]
           /\ Contents(Opened(fs, start), k) = Contents(fs, k)
<1>1. CASE now \in DOMAIN fs
  BY <1>1 DEF Opened, CanAppend
<1>2. CASE now \notin DOMAIN fs
  <2>1. PICK fs2 : fs2 = [day \in DOMAIN fs \union {now} |-> IF day = now THEN <<>> ELSE fs[day]]
    OBVIOUS
  <2>2. Opened(fs, start) = fs2
    BY <1>2, <2>1 DEF Opened
  <2>3. DOMAIN fs2 = DOMAIN fs \union {now} /\ fs2[now] = <<>> /\ \A day \in DOMAIN fs : fs2[day] = fs[day]
    BY <1>2, <2>1
  <2>4. LogFilesOK(fs2, now)
    <3>1. FirstDay \in Nat /\ now \in FirstDay..now
      BY LogStoreAssumption DEF FirstDay
    <3>2. DOMAIN fs2 \subseteq FirstDay..now
      BY <2>3, <3>1 DEF LogFilesOK
    <3>3. \A day \in DOMAIN fs2 : fs2[day] \in Seq(Records)
      <4>1. \A day \in DOMAIN fs : fs[day] \in Seq(Records)
        BY DEF LogFilesOK
      <4>2. fs2[now] \in Seq(Records)
        BY <2>3
      <4> QED BY <2>3, <4>1, <4>2
    <3>4. fs2 = [day \in DOMAIN fs2 |-> fs2[day]]
      BY <2>1
    <3> QED BY <3>2, <3>3, <3>4 DEF LogFilesOK
  <2>5. ParseLogFile(fs2[now], k, now) = {}
    BY <2>3 DEF ParseLogFile
  <2>6. Contents(fs2, k) = Contents(fs, k)
    BY <1>2, <2>3, <2>5 DEF Contents
  <2>7. Len(fs2[now]) = start[2]
    BY <1>2, <2>3
  <2> QED BY <2>2, <2>3, <2>4, <2>6, <2>7
<1> QED BY <1>1, <1>2

LEMMA OpensLogs ==
    ASSUME StoreOK, NEW records, records = DynamicRecords, Bootstrap(records), UNCHANGED today
    PROVE  /\ files' = [k \in Kinds |-> files'[k]] /\ \A k \in Kinds : LogFilesOK(files'[k], today')
           /\ state' \in [Kinds -> Positions] /\ StateOK' /\ UNCHANGED LogRecords
           /\ \A k \in Kinds : UNCHANGED Logs(k)
           /\ \A k \in Kinds : state'[k][1] = today /\ ~Before(state'[k], published.ends[k])
<1>1. LogStoreTypeOK /\ \A k \in Kinds : LogFilesOK(files[k], today)
  BY DEF StoreOK, LogStoreTypeOK
<1>2. today \in Nat /\ FirstDay <= today
  BY <1>1, RecordsOfLogs, LogStoreAssumption DEF LogStoreTypeOK, FirstDay
<1>3. PICK starts : starts = [k \in Kinds |-> CalcStart(records, k)]
  OBVIOUS
<1>4. state' = starts /\ files' = [k \in Kinds |-> Opened(files[k], starts[k])]
  BY <1>3 DEF Bootstrap
<1>5. ASSUME NEW k \in Kinds
      PROVE  /\ starts[k] \in Positions /\ starts[k][1] = today /\ ~Before(starts[k], published.ends[k])
             /\ \A l \in Logs(k) : Before(PositionOf(l.at), starts[k])
             /\ LogFilesOK(Opened(files[k], starts[k]), today) /\ today \in DOMAIN Opened(files[k], starts[k])
             /\ Len(Opened(files[k], starts[k])[today]) = starts[k][2]
             /\ Contents(Opened(files[k], starts[k]), k) = Logs(k)
  <2>1. PICK start : start = CalcStart(records, k)
    OBVIOUS
  <2>2. /\ start \in Positions /\ start[1] = today /\ start[2] \in Nat
        /\ ~Before(start, published.ends[k])
        /\ \A l \in Logs(k) : Before(PositionOf(l.at), start)
        /\ start = Position(today, 0) \/ \E l \in Logs(k) : start = Behind(l.at)
        /\ CanAppend(files[k], start)
    BY <2>1, StartsWhereLogsEnd
  <2>3. today \in DOMAIN files[k] \/ start[2] = 0
    <3>1. CASE start = Position(today, 0)
      BY <3>1 DEF Position
    <3>2. CASE \E l \in Logs(k) : start = Behind(l.at)
      <4>1. PICK l \in Logs(k) : start = Behind(l.at)
        BY <3>2
      <4>2. l.at.day = today
        BY <2>2, <4>1 DEF Behind, Position
      <4> QED BY <1>1, <1>2, <4>2, ContentsOfFiles DEF Logs
    <3> QED BY <2>2, <3>1, <3>2
  <2>4. /\ LogFilesOK(Opened(files[k], start), today) /\ today \in DOMAIN Opened(files[k], start)
        /\ Len(Opened(files[k], start)[today]) = start[2]
        /\ Contents(Opened(files[k], start), k) = Contents(files[k], k)
    BY <1>1, <1>2, <2>2, <2>3, OpenedContents
  <2>5. starts[k] = start
    BY <1>3, <2>1
  <2> QED BY <2>2, <2>4, <2>5 DEF Logs
<1>6. \A k \in Kinds : files'[k] = Opened(files[k], starts[k])
  BY <1>4
<1>7. \A k \in Kinds : Logs(k)' = Logs(k)
  BY <1>5, <1>6 DEF Logs
<1>8. UNCHANGED LogRecords
  BY <1>7, KindsAreKinds DEF LogRecords
<1>9. state' \in [Kinds -> Positions]
  BY <1>3, <1>4, <1>5
<1>10. StateOK'
  BY <1>4, <1>5, <1>6, <1>7 DEF StateOK
<1>11. files' = [k \in Kinds |-> files'[k]]
  BY <1>4
<1>12. \A k \in Kinds : LogFilesOK(files'[k], today')
  BY <1>5, <1>6
<1> QED BY <1>4, <1>5, <1>7, <1>8, <1>9, <1>10, <1>11, <1>12
\* What the index was published with and what was read again are all there is.
LEMMA BootstrapServes ==
    ASSUME StoreOK, NEW records, records = DynamicRecords, Bootstrap(records),
           UNCHANGED <<today, published, written, acknowledged, halfWritten>>,
           posting' = <<>>
    PROVE  /\ StateOK' /\ MemoryOK' /\ PostingOK'
           /\ All' = published.zgrams \union {z \in InLogs : ~IsBefore(z, published.ends)}
<1>1. LogStoreTypeOK /\ LogsOK /\ IndexOK(published, Known, Accepted, LogRecords, today)
  BY DEF StoreOK, PublishedOK
<1>2. PICK P, D, ends : P = published.zgrams /\ D = Infos(Together(records)) /\ ends = published.ends
  OBVIOUS
<1>3. D = {z \in InLogs : ~IsBefore(z, ends)}
  BY <1>2, BootstrapReads
<1>4. frozen' = published /\ dynamic'.zgrams = D
  BY <1>2 DEF Bootstrap
<1>5. All' = P \union D
  BY <1>2, <1>4 DEF All
<1>6. NextZgramId' = IF D # {} THEN EndId(D) ELSE EndId(P)
  BY <1>2, <1>4 DEF NextZgramId
<1>7. /\ StateOK' /\ UNCHANGED LogRecords
      /\ state'["unlogged"][1] = today /\ state' \in [Kinds -> Positions]
      /\ \A k \in Kinds : ~Before(state'[k], ends[k])
  BY <1>2, OpensLogs, KindsAreKinds
<1>8. /\ UNCHANGED InLogs /\ UNCHANGED Accepted /\ UNCHANGED Graffiti /\ UNCHANGED Known
  BY <1>7 DEF InLogs, Accepted, Graffiti, Known
<1>9. /\ P \subseteq InLogs /\ (\A z \in P : IsBefore(z, ends))
      /\ CutsWell(ends, Known, Accepted, InLogs) /\ Covers(published, Known, today)
  BY <1>1, <1>2 DEF IndexOK, InLogs
<1>10. All' \subseteq InLogs
  BY <1>3, <1>5, <1>9
<1>11. /\ InLogs \subseteq ZgramInfos /\ Known \subseteq ZgramInfos /\ Accepted \subseteq Known
       /\ \A z \in ZgramInfos : z.id \in Nat /\ z.at \in Locations /\ z.at.kind \in Kinds /\ Begins(z) \in Positions
       /\ written \in Nat /\ \A z \in InLogs : z.id < written
  BY <1>1, RecordsOfLogs, KnownZgrams DEF LogStoreTypeOK, LogsOK
<1>12. /\ EndId(D) \in Nat /\ EndId(D) <= written /\ \A z \in D : z.id < EndId(D)
       /\ EndId(P) \in Nat /\ EndId(P) <= written /\ \A z \in P : z.id < EndId(P)
  <2>1. D \in SUBSET ZgramInfos /\ \A z \in D : z.id < written
    BY <1>3, <1>11
  <2>2. P \in SUBSET ZgramInfos /\ \A z \in P : z.id < written
    BY <1>9, <1>11
  <2> QED BY <1>11, <2>1, <2>2, EndIdIsBehindAll
<1>13. ASSUME NEW a \in Known PROVE a \in D \/ IsBefore(a, ends)
  BY <1>3, <1>9 DEF Known, CutsWell
<1>14. ASSUME NEW a \in Known PROVE a.id < NextZgramId'
  <2>0. a.id \in Nat
    BY <1>11
  <2>1. CASE a \in D
    BY <1>6, <1>12, <2>1
  <2>2. CASE IsBefore(a, ends) /\ D # {}
    <3>1. PICK d \in D : TRUE
      BY <2>2
    <3>2. a.id < d.id /\ d.id \in Nat
      BY <1>3, <1>9, <1>11, <2>2, <3>1 DEF CutsWell
    <3> QED BY <1>6, <1>12, <2>0, <2>2, <3>1, <3>2
  <2>3. CASE IsBefore(a, ends) /\ D = {}
    <3>1. a \in P \/ \E z \in P : a.id < z.id
      BY <1>2, <1>9, <2>3 DEF Covers
    <3>2. \A z \in P : z.id \in Nat
      BY <1>9, <1>11
    <3> QED BY <1>6, <1>12, <2>0, <2>3, <3>1, <3>2
  <2> QED BY <1>13, <2>1, <2>2, <2>3
<1>15. ASSUME NEW a \in Accepted PROVE a \in All' \/ IsOld(a, today)
  BY <1>2, <1>5, <1>9, <1>11, <1>13 DEF Covers
<1>16. ASSUME NEW a \in Graffiti PROVE Before(Begins(a), state'["unlogged"])
  <2>0. a \in Known /\ a.at.kind = "unlogged" /\ Begins(a) \in Positions
    BY <1>11, <1>16 DEF Graffiti, OfLog
  <2>1. CASE a \in D
    <3>1. PICK l \in LogRecords : l.at = a.at
      BY <1>1, <1>3, <2>1, RecordsOfLogs, InfosOfLocated DEF InLogs
    <3>2. l \in Logs("unlogged")
      BY <1>1, <2>0, <3>1, RecordsOfLogs, KindsAreKinds
    <3>3. l \in Logs("unlogged")'
      BY <3>2, OpensLogs, KindsAreKinds
    <3> QED BY <1>7, <3>1, <3>3, KindsAreKinds DEF StateOK, Begins
  <2>2. CASE IsBefore(a, ends)
    <3>1. Before(Begins(a), ends["unlogged"]) /\ ends["unlogged"] \in Positions
      BY <1>1, <1>2, <2>0, <2>2, EndsArePositions, KindsAreKinds DEF IsBefore
    <3>2. ~Before(state'["unlogged"], ends["unlogged"]) /\ state'["unlogged"] \in Positions
      BY <1>7, KindsAreKinds
    <3> QED BY <2>0, <3>1, <3>2, BeforeIsAnOrder
  <2> QED BY <1>13, <2>0, <2>1, <2>2
<1>17. ASSUME ~halfWritten PROVE InTheirOrder'
  <2>1. NoneTwice(P \union D)
    BY <1>1, <1>5, <1>10, <1>17, OnceKnown DEF NoneTwice
  <2>2. \A f \in P, d \in D : f.id < d.id
    BY <1>3, <1>9, <1>17 DEF CutsWell, Known
  <2> QED BY <1>2, <1>4, <1>5, <2>1, <2>2 DEF InTheirOrder
<1>18. MemoryOK'
  <2>1. today <= today + Lifespan
    BY <1>1, RecordsOfLogs, LogStoreAssumption
  <2>2. ~halfWritten => \A l \in InLogs : l.id < NextZgramId'
    BY <1>14 DEF Known
  <2> QED BY <1>7, <1>8, <1>10, <1>11, <1>14, <1>15, <1>16, <1>17, <2>1, <2>2 DEF MemoryOK
<1>19. PostingOK'
  <2>1. NextZgramId' + 0 <= written'
    BY <1>6, <1>11, <1>12
  <2> QED BY <2>1 DEF PostingOK
<1> QED BY <1>2, <1>3, <1>5, <1>7, <1>18, <1>19
LEMMA CanBootstrapUnlessHalfWritten ==
    ASSUME StoreOK, NEW records, records = DynamicRecords
    PROVE  ~halfWritten => CanBootstrap(records)
<1>1. \A k \in Kinds : CanAppend(files[k], CalcStart(records, k))
  BY StartsWhereLogsEnd
<1>2. ~halfWritten => NoneTwice(Infos(Together(records)))
  BY BootstrapReads, OnceKnown DEF StoreOK, NoneTwice
<1> QED BY <1>1, <1>2 DEF CanBootstrap

LEMMA BootstrapKeepsTypes ==
    ASSUME StoreOK, NEW records, records = DynamicRecords, Bootstrap(records), UNCHANGED today
    PROVE  /\ frozen' \in Indices /\ dynamic' \in [zgrams: SUBSET ZgramInfos, metadata: SUBSET Records]
           /\ state' \in [Kinds -> Positions]
           /\ files' = [k \in Kinds |-> files'[k]] /\ \A k \in Kinds : LogFilesOK(files'[k], today')
<1>1. LogStoreTypeOK
  BY DEF StoreOK
<1>2. PICK infos, metadata : infos = Infos(Together(records)) /\ metadata = MetadataOf(Together(records))
  OBVIOUS
<1>3. dynamic' = [zgrams |-> infos, metadata |-> metadata] /\ frozen' = published
  BY <1>2 DEF Bootstrap
<1>4. Together(records) \in SUBSET Located
  BY <1>1, BootstrapReads, RecordsOfLogs
<1>5. infos \subseteq ZgramInfos
  BY <1>2, <1>4, InfosOfLocated
<1>6. metadata \subseteq Records
  BY <1>2, <1>4 DEF MetadataOf, Located
<1>7. frozen' \in Indices
  BY <1>1, <1>3 DEF LogStoreTypeOK
<1>8. dynamic' \in [zgrams: SUBSET ZgramInfos, metadata: SUBSET Records]
  BY <1>3, <1>5, <1>6
<1> QED BY <1>7, <1>8, OpensLogs

LEMMA StartKeeps ==
    ASSUME StoreOK, Start
    PROVE  StoreOK'
<1>1. /\ LogStoreTypeOK /\ LogsOK /\ NeverQuiet /\ GivenUpOK /\ ReindexingOK /\ ServingOK
  BY DEF StoreOK
<1>2. serving = "down" /\ reindexing.step = "none" /\ posting = <<>>
  BY <1>1 DEF Start, ReindexingOK, ServingOK
<1>3. UNCHANGED <<today, published, scratch, posting, reindexing, written, crashes, failures, acknowledged, halfWritten>>
  BY DEF Start, bounds
<1>4. PICK records : records = DynamicRecords
  OBVIOUS
<1>5. /\ CanBootstrap(records) => Bootstrap(records) /\ serving' = "serving" /\ UNCHANGED refused
      /\ ~CanBootstrap(records) => refused' = TRUE /\ UNCHANGED <<files, serving>> /\ UNCHANGED memory
  BY <1>4 DEF Start
<1>6. ~halfWritten => ~refused'
  BY <1>1, <1>4, <1>5, CanBootstrapUnlessHalfWritten DEF LogsOK
<1>7. UNCHANGED LogRecords
  <2>1. CASE CanBootstrap(records)
    BY <1>3, <1>4, <1>5, <2>1, OpensLogs
  <2>2. CASE ~CanBootstrap(records)
    BY <1>3, <1>5, <2>2, SameLogs
  <2> QED BY <2>1, <2>2
<1>8. /\ UNCHANGED InLogs /\ UNCHANGED Accepted /\ UNCHANGED Graffiti /\ UNCHANGED Known
      /\ (Spoilt' <=> Spoilt) /\ LogsOK'
  BY <1>1, <1>3, <1>6, <1>7, SteadyLogs
<1>9. PublishedOK'
  BY <1>3, <1>7, <1>8, SteadyIndex
<1>10. LogStoreTypeOK'
  <2>0. refused' \in BOOLEAN
    BY <1>1, <1>5 DEF LogStoreTypeOK
  <2>1. CASE CanBootstrap(records)
    <3>1. /\ frozen' \in Indices /\ dynamic' \in [zgrams: SUBSET ZgramInfos, metadata: SUBSET Records]
          /\ state' \in [Kinds -> Positions]
          /\ files' = [k \in Kinds |-> files'[k]] /\ \A k \in Kinds : LogFilesOK(files'[k], today')
      BY <1>3, <1>4, <1>5, <2>1, BootstrapKeepsTypes
    <3>2. serving' = "serving"
      BY <1>5, <2>1
    <3> QED BY <1>1, <1>3, <2>0, <3>1, <3>2 DEF LogStoreTypeOK
  <2>2. CASE ~CanBootstrap(records)
    BY <1>1, <1>3, <1>5, <2>0, <2>2 DEF LogStoreTypeOK, memory
  <2> QED BY <2>1, <2>2
<1>11. NeverQuiet' /\ GivenUpOK' /\ PartsOK' /\ ReindexingOK'
  <2>1. NeverQuiet'
    BY <1>1, <1>2, <1>3, <1>8 DEF NeverQuiet, Doomed
  <2>2. serving' # "stopped"
    BY <1>2, <1>5
  <2> QED BY <1>2, <1>3, <2>1, <2>2 DEF GivenUpOK, PartsOK, Building, ReindexingOK
<1>12. ServingOK'
  <2>1. CASE CanBootstrap(records)
    BY <1>2, <1>3, <1>4, <1>5, <2>1, BootstrapServes DEF ServingOK
  <2>2. CASE ~CanBootstrap(records)
    BY <1>2, <1>3, <1>5, <2>2 DEF ServingOK
  <2> QED BY <2>1, <2>2
<1> QED BY <1>8, <1>9, <1>10, <1>11, <1>12 DEF StoreOK

LEMMA ResetIndexKeeps ==
    ASSUME StoreOK, ResetIndex
    PROVE  StoreOK'
<1>1. /\ LogStoreTypeOK /\ LogsOK /\ NeverQuiet /\ GivenUpOK /\ ReindexingOK /\ ServingOK
  BY DEF StoreOK
<1>2. serving = "serving" /\ reindexing.step = "done" /\ posting = <<>>
  BY DEF ResetIndex, Idle
<1>3. UNCHANGED <<today, published, scratch, posting, written, crashes, failures, acknowledged, halfWritten>>
  BY DEF ResetIndex, bounds
<1>4. PICK records : records = DynamicRecords
  OBVIOUS
<1>5. /\ CanBootstrap(records) =>
           Bootstrap(records) /\ reindexing' = [reindexing EXCEPT !.step = "reset"] /\ UNCHANGED <<serving, refused>>
      /\ ~CanBootstrap(records) =>
           refused' = TRUE /\ serving' = "stopped" /\ UNCHANGED <<files, reindexing>> /\ UNCHANGED memory
  BY <1>4 DEF ResetIndex, To
<1>6. ~halfWritten => ~refused'
  BY <1>1, <1>4, <1>5, CanBootstrapUnlessHalfWritten DEF LogsOK
<1>7. UNCHANGED LogRecords
  <2>1. CASE CanBootstrap(records)
    BY <1>3, <1>4, <1>5, <2>1, OpensLogs
  <2>2. CASE ~CanBootstrap(records)
    BY <1>3, <1>5, <2>2, SameLogs
  <2> QED BY <2>1, <2>2
<1>8. /\ UNCHANGED InLogs /\ UNCHANGED Accepted /\ UNCHANGED Graffiti /\ UNCHANGED Known
      /\ (Spoilt' <=> Spoilt) /\ LogsOK'
  BY <1>1, <1>3, <1>6, <1>7, SteadyLogs
<1>9. PublishedOK'
  BY <1>3, <1>7, <1>8, SteadyIndex
<1>10. /\ reindexing' \in [step: Steps, ranges: [Kinds -> [begin: Positions, end: Positions]]]
       /\ reindexing'.step = IF CanBootstrap(records) THEN "reset" ELSE "done"
       /\ UNCHANGED Ranges /\ UNCHANGED Oldest
  <2>1. reindexing \in [step: Steps, ranges: [Kinds -> [begin: Positions, end: Positions]]]
    BY <1>1 DEF LogStoreTypeOK
  <2>2. /\ reindexing' \in [step: Steps, ranges: [Kinds -> [begin: Positions, end: Positions]]]
        /\ reindexing'.step = IF CanBootstrap(records) THEN "reset" ELSE "done"
        /\ reindexing'.ranges = reindexing.ranges
    BY <1>2, <1>5, <2>1 DEF Steps
  <2> QED BY <2>2 DEF Ranges, Oldest
<1>11. LogStoreTypeOK'
  <2>0. refused' \in BOOLEAN
    BY <1>1, <1>5 DEF LogStoreTypeOK
  <2>1. CASE CanBootstrap(records)
    <3>1. /\ frozen' \in Indices /\ dynamic' \in [zgrams: SUBSET ZgramInfos, metadata: SUBSET Records]
          /\ state' \in [Kinds -> Positions]
          /\ files' = [k \in Kinds |-> files'[k]] /\ \A k \in Kinds : LogFilesOK(files'[k], today')
      BY <1>3, <1>4, <1>5, <2>1, BootstrapKeepsTypes
    <3>2. UNCHANGED serving
      BY <1>5, <2>1
    <3> QED BY <1>1, <1>3, <1>10, <2>0, <3>1, <3>2 DEF LogStoreTypeOK
  <2>2. CASE ~CanBootstrap(records)
    <3>1. UNCHANGED memory /\ UNCHANGED files /\ serving' = "stopped"
      BY <1>5, <2>2
    <3> QED BY <1>1, <1>3, <1>10, <2>0, <3>1 DEF LogStoreTypeOK, memory
  <2> QED BY <2>1, <2>2
<1>12. NeverQuiet' /\ GivenUpOK' /\ PartsOK'
  <2>1. NeverQuiet'
    BY <1>1, <1>2, <1>3, <1>8 DEF NeverQuiet, Doomed
  <2> QED BY <1>10, <2>1 DEF GivenUpOK, PartsOK, Building
<1>13. ServingOK' /\ (CanBootstrap(records) =>
          All' = published.zgrams \union {z \in InLogs : ~IsBefore(z, published.ends)})
  <2>1. CASE CanBootstrap(records)
    BY <1>2, <1>3, <1>4, <1>5, <2>1, BootstrapServes DEF ServingOK
  <2>2. CASE ~CanBootstrap(records)
    BY <1>2, <1>3, <1>5, <2>2 DEF ServingOK
  <2> QED BY <2>1, <2>2
<1>14. ReindexingOK'
  <2>1. /\ Ranges["unlogged"].begin = Position(Oldest, 0) /\ Oldest + Lifespan <= today
        /\ CleansUp(published, Oldest, InLogs)
    BY <1>1, <1>2 DEF ReindexingOK
  <2>2. Oldest <= today
    BY <1>1, <2>1, EndsArePositions, RecordsOfLogs, LogStoreAssumption
  <2>3. CASE CanBootstrap(records)
    <3>1. state'["unlogged"][1] = today
      BY <1>3, <1>4, <1>5, <2>3, OpensLogs, KindsAreKinds
    <3>2. \A z \in OfLog(All', "unlogged") : z.at.day >= Oldest
      BY <1>13, <2>1, <2>3 DEF CleansUp, OfLog
    <3> QED BY <1>2, <1>3, <1>5, <1>8, <1>10, <2>1, <2>2, <2>3, <3>1, <3>2 DEF ReindexingOK
  <2>4. CASE ~CanBootstrap(records)
    BY <1>3, <1>5, <1>8, <1>10, <2>1, <2>4 DEF ReindexingOK
  <2> QED BY <2>3, <2>4
<1> QED BY <1>8, <1>9, <1>11, <1>12, <1>13, <1>14 DEF StoreOK
-------------------------------------------------------------------------------
(* The log store.                                                              *)

LEMMA InitHolds == Init => StoreOK
<1> SUFFICES ASSUME Init PROVE StoreOK
  OBVIOUS
<1>1. FirstDay \in Nat /\ LastDay \in Nat /\ FirstDay <= LastDay /\ FirstDay \in FirstDay..LastDay
  BY LogStoreAssumption DEF FirstDay
<1>2. \A k \in Kinds : DOMAIN files[k] = {}
  BY DEF Init
<1>3. Zero \in Positions /\ Infinity \in Positions
  BY <1>1 DEF Zero, Infinity, Position, Positions
<1>4. NoIndex \in Indices
  BY <1>3 DEF NoIndex, Indices
<1>5. LogStoreTypeOK
  <2>1. files = [k \in Kinds |-> files[k]]
    BY DEF Init
  <2>2. \A k \in Kinds : LogFilesOK(files[k], today)
    <3> TAKE k \in Kinds
    <3>1. files[k] = [day \in {} |-> <<>>]
      BY DEF Init
    <3> QED BY <3>1 DEF LogFilesOK
  <2>3. published \in Indices /\ scratch \in Indices /\ frozen \in Indices
    BY <1>4 DEF Init
  <2>4. reindexing \in [step: Steps, ranges: [Kinds -> [begin: Positions, end: Positions]]]
    BY <1>3 DEF Init, NoReindexing, Everything, InterFileRange, Steps
  <2>5. dynamic \in [zgrams: SUBSET ZgramInfos, metadata: SUBSET Records] /\ state \in [Kinds -> Positions]
    BY <1>3 DEF Init, NoDynamic, NotOpen
  <2>6. /\ today \in FirstDay..LastDay /\ serving \in {"down", "serving", "stopped"}
        /\ written \in Nat /\ crashes \in Nat /\ failures \in Nat
        /\ halfWritten \in BOOLEAN /\ refused \in BOOLEAN
    BY <1>1 DEF Init
  <2>7. posting \in Seq(Located) /\ acknowledged \subseteq Located
    BY DEF Init
  <2> QED BY <2>1, <2>2, <2>3, <2>4, <2>5, <2>6, <2>7 DEF LogStoreTypeOK
<1>6. LogRecords = {}
  BY <1>2, KindsAreKinds DEF LogRecords, Logs, Contents
<1>7. InLogs = {} /\ Accepted = {} /\ Known = {} /\ Graffiti = {}
  BY <1>6 DEF InLogs, Accepted, Known, Graffiti, Infos, OfLog, Init
<1>8. LogsOK
  BY <1>7 DEF LogsOK, InOrder, NoneTwice, OfLog, Init
<1>9. PublishedOK
  BY <1>7 DEF PublishedOK, IndexOK, NoneTwice, CutsWell, Covers, EndsIn, NoIndex, Init
<1>10. NeverQuiet /\ GivenUpOK /\ PartsOK /\ ReindexingOK /\ ServingOK
  <2>1. reindexing.step = "none"
    BY DEF Init, NoReindexing
  <2> QED BY <1>7, <2>1 DEF NeverQuiet, GivenUpOK, PartsOK, Building, ReindexingOK, ServingOK, Init
<1> QED BY <1>5, <1>8, <1>9, <1>10 DEF StoreOK

LEMMA StutterKeeps ==
    ASSUME StoreOK, UNCHANGED vars
    PROVE  StoreOK'
<1>1. /\ LogStoreTypeOK /\ LogsOK /\ PublishedOK /\ NeverQuiet /\ GivenUpOK
      /\ PartsOK /\ ReindexingOK /\ ServingOK
  BY DEF StoreOK
<1>2. /\ UNCHANGED memory
      /\ UNCHANGED <<today, files, published, scratch, serving, posting, reindexing,
                     written, crashes, failures, acknowledged, halfWritten, refused>>
  BY DEF vars, disk, bounds, history
<1>3. /\ UNCHANGED LogRecords /\ UNCHANGED InLogs /\ UNCHANGED Accepted
      /\ UNCHANGED Graffiti /\ UNCHANGED Known /\ (Spoilt' <=> Spoilt)
  BY <1>2, SameLogs
<1>4. UNCHANGED Ranges /\ UNCHANGED Oldest /\ UNCHANGED PartEnds /\ (Doomed' <=> Doomed)
  <2>1. UNCHANGED Ranges /\ UNCHANGED Oldest /\ UNCHANGED PartEnds
    BY <1>2 DEF Ranges, Oldest, PartEnds
  <2> QED BY <1>2, <1>3, <2>1 DEF Doomed
<1>5. LogStoreTypeOK'
  BY <1>1, <1>2 DEF LogStoreTypeOK, memory
<1>6. LogsOK' /\ PublishedOK' /\ NeverQuiet' /\ GivenUpOK'
  <2>1. ~halfWritten => ~refused'
    BY <1>1, <1>2 DEF LogsOK
  <2>2. LogsOK'
    BY <1>1, <1>2, <1>3, <2>1, SteadyLogs
  <2> QED BY <1>1, <1>2, <1>3, <1>4, <2>2 DEF PublishedOK, NeverQuiet, GivenUpOK
<1>7. UNCHANGED All /\ UNCHANGED state
  BY <1>2, SameMemory
<1>8. PartsOK' /\ ReindexingOK'
  <2>1. PartsOK'
    BY <1>1, <1>2, <1>3, <1>4, <1>7 DEF PartsOK, Building
  <2>2. ReindexingOK'
    BY <1>1, <1>2, <1>3, <1>4, <1>7 DEF ReindexingOK
  <2> QED BY <2>1, <2>2
<1>9. ServingOK'
  <2>1. \A i \in DOMAIN posting : BehindCuts(posting[i].at) => BehindCuts(posting[i].at)'
    BY <1>2, <1>4 DEF BehindCuts, Building
  <2>2. posting # <<>> => reindexing'.step # "reset"
    BY <1>1, <1>2 DEF ServingOK, PostingOK
  <2> QED BY <1>2, <2>1, <2>2, ServerStays
<1> QED BY <1>5, <1>6, <1>8, <1>9 DEF StoreOK

LEMMA NextKeeps ==
    ASSUME ~quietWeek', StoreOK, [Next]_vars
    PROVE  StoreOK'
<1>1. CASE NewDay
  BY <1>1, NewDayKeeps
<1>2. CASE Startup
  BY <1>2, BuildFirstIndexKeeps, StartKeeps DEF Startup
<1>3. CASE Requests
  <2>1. CASE \E batch \in Batches : Post(batch)
    BY <2>1, PostKeeps
  <2>2. CASE \E id \in 0..MaxRecords - 1 : AddMetadata(id)
    BY <2>2, AddMetadataKeeps
  <2> QED BY <1>3, <2>1, <2>2 DEF Requests
<1>4. CASE FailPost
  BY <1>4, FailPostKeeps
<1>5. CASE ServerThread
  BY <1>5, FinishPostKeeps, StartReindexingKeeps, GiveUpKeeps, ResetIndexKeeps, CleanupKeeps DEF ServerThread
<1>6. CASE ReindexingThread
  BY <1>6, ClearScratchKeeps, RunBuildKeeps, PublishBuildKeeps DEF ReindexingThread
<1>7. CASE Crash
  BY <1>7, CrashKeeps
<1>8. CASE UNCHANGED vars
  BY <1>8, StutterKeeps
<1> QED BY <1>1, <1>2, <1>3, <1>4, <1>5, <1>6, <1>7, <1>8 DEF Next

\* A lifespan that passed without graffiti stays noted.
LEMMA QuietWeekStays ==
    ASSUME [Next]_vars, quietWeek
    PROVE  quietWeek'
<1>1. CASE NewDay
  BY <1>1 DEF NewDay
<1>2. CASE Next /\ ~NewDay
  <2>1. UNCHANGED quietWeek
    BY <1>2 DEF Next, Startup, Requests, ServerThread, ReindexingThread, BuildFirstIndex, Start, Post, AddMetadata,
                FailPost, FinishPost, StartReindexing, GiveUp, ResetIndex, Cleanup, ClearScratchDirectory, RunBuild,
                PublishBuild, Crash, history
  <2> QED BY <2>1
<1>3. CASE UNCHANGED vars
  BY <1>3 DEF vars, history
<1> QED BY <1>1, <1>2, <1>3

(* Until a lifespan passes without graffiti: the logs, the published index, the  *)
(* one that is built and the one in memory belong together, through posts,       *)
(* rebuilds, restarts and crashes.                                               *)
THEOREM TheStoreHoldsTogether == Spec => []LogStoreInvariant
<1>1. Init => LogStoreInvariant
  BY InitHolds DEF LogStoreInvariant
<1>2. LogStoreInvariant /\ [Next]_vars => LogStoreInvariant'
  BY NextKeeps, QuietWeekStays DEF LogStoreInvariant
<1> QED BY <1>1, <1>2, PTL DEF Spec

(* An identifier names one zgram for ever (tryAddZgrams, tryCreate).             *)
THEOREM IdsArePermanent == Spec => []PermanentIds
<1>1. LogStoreInvariant => PermanentIds
  <2> SUFFICES ASSUME LogStoreInvariant, ~quietWeek, NEW a \in Posted, NEW b \in Posted, a.record.id = b.record.id
               PROVE  a = b
    BY DEF PermanentIds
  <2>1. LogStoreTypeOK /\ LogsOK
    BY DEF LogStoreInvariant, StoreOK
  <2>2. a \in acknowledged /\ b \in acknowledged /\ a.record.type = "zgram" /\ b.record.type = "zgram"
    BY DEF Posted
  <2>3. a \in Located /\ b \in Located
    BY <2>1, <2>2 DEF LogStoreTypeOK
  <2>4. ZgramInfo(a) \in Accepted /\ ZgramInfo(b) \in Accepted
    BY <2>2 DEF Accepted, Infos
  <2>5. ZgramInfo(a).id = a.record.id /\ ZgramInfo(b).id = b.record.id
    BY DEF ZgramInfo
  <2>6. ZgramInfo(a) = ZgramInfo(b)
    BY <2>1, <2>4, <2>5, OnceKnown
  <2>7. a.at = b.at /\ a.record.body = b.record.body
    BY <2>6 DEF ZgramInfo
  <2>8. /\ a = [record |-> a.record, at |-> a.at] /\ a.record \in Records
        /\ b = [record |-> b.record, at |-> b.at] /\ b.record \in Records
    BY <2>3 DEF Located
  <2>9. /\ a.record = [type |-> a.record.type, id |-> a.record.id, body |-> a.record.body]
        /\ b.record = [type |-> b.record.type, id |-> b.record.id, body |-> b.record.body]
    BY <2>8 DEF Records
  <2>10. a.record = b.record
    BY <2>2, <2>7, <2>9
  <2> QED BY <2>7, <2>8, <2>10
<1> QED BY <1>1, TheStoreHoldsTogether, PTL

(* Whenever the backend serves, its index has every zgram that was acknowledged  *)
(* and did not expire, the frozen ones before the dynamic ones.                  *)
THEOREM NothingIsLost == Spec => []AcknowledgedKept
<1>1. LogStoreInvariant => AcknowledgedKept
  <2> SUFFICES ASSUME LogStoreInvariant, ~quietWeek, serving = "serving"
               PROVE  (\A a \in Posted : Expired(a.at) \/ Has(a)) /\ (halfWritten \/ InTheirOrder)
    BY DEF AcknowledgedKept
  <2>1. MemoryOK
    BY DEF LogStoreInvariant, StoreOK, ServingOK
  <2>2. ASSUME NEW a \in Posted PROVE Expired(a.at) \/ Has(a)
    <3>1. PICK z : z = ZgramInfo(a)
      OBVIOUS
    <3>2. z.id = a.record.id /\ z.body = a.record.body /\ z.at = a.at
      BY <3>1 DEF ZgramInfo
    <3>3. z \in Accepted
      BY <3>1 DEF Posted, Accepted, Infos
    <3>4. z \in All \/ IsOld(z, today)
      BY <2>1, <3>3 DEF MemoryOK
    <3> QED BY <3>2, <3>4 DEF Has, IsOld, Expired
  <2> QED BY <2>1, <2>2 DEF MemoryOK
<1> QED BY <1>1, TheStoreHoldsTogether, PTL

(* What the index says of a zgram is in the file it names, at that offset.       *)
THEOREM LocationsAlwaysHold == Spec => []LocationsHold
<1>1. LogStoreInvariant => LocationsHold
  <2> SUFFICES ASSUME LogStoreInvariant, ~quietWeek, serving = "serving", NEW z \in All
               PROVE  /\ z.at.day \in DOMAIN files[z.at.kind]
                      /\ z.at.offset < Len(files[z.at.kind][z.at.day])
                      /\ files[z.at.kind][z.at.day][z.at.offset + 1] = Zgram(z.id, z.body)
    BY DEF LocationsHold
  <2>1. LogStoreTypeOK /\ z \in InLogs /\ today \in Nat
    BY RecordsOfLogs DEF LogStoreInvariant, StoreOK, ServingOK, MemoryOK
  <2>2. PICK l \in LogRecords : l.at = z.at /\ l.record = Zgram(z.id, z.body)
    BY <2>1, RecordsOfLogs, InfosOfLocated DEF InLogs
  <2>3. PICK k \in Kinds : l \in Contents(files[k], k)
    BY <2>2, KindsAreKinds DEF LogRecords, Logs
  <2>4. LogFilesOK(files[k], today)
    BY <2>1 DEF LogStoreTypeOK
  <2>5. /\ l.at.kind = k /\ l.at.day \in DOMAIN files[k]
        /\ l.at.offset < Len(files[k][l.at.day]) /\ l.record = files[k][l.at.day][l.at.offset + 1]
    BY <2>1, <2>3, <2>4, ContentsOfFiles
  <2> QED BY <2>2, <2>5
<1> QED BY <1>1, TheStoreHoldsTogether, PTL

(* No start and no rebuild is refused, unless a write failed half way.           *)
THEOREM NoneIsRefused == Spec => []NeverRefused
<1>1. LogStoreInvariant => NeverRefused
  BY DEF LogStoreInvariant, StoreOK, LogsOK, NeverRefused
<1> QED BY <1>1, TheStoreHoldsTogether, PTL
-------------------------------------------------------------------------------
(* The refinement of DurableStore.                                             *)

Content == IF serving = "serving" THEN Zgrams(All) ELSE {}
Promised == Zgrams({[id |-> a.record.id, body |-> a.record.body, at |-> a.at]: a \in Posted})

LEMMA InfosArePromised ==
    ASSUME NEW S
    PROVE  {[id |-> a.record.id, body |-> a.record.body, at |-> a.at]: a \in {m \in S: m.record.type = "zgram"}}
             = Infos(S)
BY DEF Infos, ZgramInfo

LEMMA AcceptedIsPromised == Promised = Zgrams(Accepted) /\ Promised' = Zgrams(Accepted')
BY InfosArePromised DEF Promised, Accepted, Posted

LEMMA ZgramsOfInfos ==
    ASSUME NEW A, NEW B
    PROVE  /\ Zgrams(A \union B) = Zgrams(A) \union Zgrams(B) /\ Zgrams({}) = {}
           /\ \A z \in A : /\ [id |-> z.id, body |-> z.body, kind |-> z.at.kind, day |-> z.at.day] \in Zgrams(A)
           /\ \A c \in Zgrams(A) : \E z \in A :
                c = [id |-> z.id, body |-> z.body, kind |-> z.at.kind, day |-> z.at.day]
BY DEF Zgrams

LEMMA InitRefines == Init => Store!Init
<1> SUFFICES ASSUME Init PROVE Store!Init
  OBVIOUS
<1>1. serving = "down" /\ halfWritten = FALSE /\ quietWeek = FALSE /\ acknowledged = {} /\ today \in Nat
  BY LogStoreAssumption DEF Init, FirstDay
<1>2. Posted = {}
  BY <1>1 DEF Posted
<1>3. Content = {} /\ Promised = {}
  BY <1>1, <1>2 DEF Content, Promised, Zgrams
<1> QED BY <1>1, <1>3 DEF Store!Init, Content, Promised

\* What the backend has and what it promised stay as they are.
LEMMA NothingShows ==
    ASSUME UNCHANGED <<today, serving, halfWritten, quietWeek>>, UNCHANGED Accepted,
           serving = "serving" => UNCHANGED All
    PROVE  UNCHANGED Store!vars
<1>1. UNCHANGED Promised
  BY AcceptedIsPromised
<1>2. UNCHANGED Content
  BY DEF Content
<1> QED BY <1>1, <1>2 DEF Store!vars, Content, Promised

\* A start, or a new index, brings back what was promised.
LEMMA LoadRefines ==
    ASSUME StoreOK, StoreOK', ~halfWritten', serving' = "serving",
           UNCHANGED <<today, halfWritten, quietWeek>>, UNCHANGED Accepted
    PROVE  Store!Load(Content')
<1>1. MemoryOK' /\ LogsOK'
  BY DEF StoreOK, ServingOK
<1>2. PICK all, accepted : all = All' /\ accepted = Accepted'
  OBVIOUS
<1>3. Content' = Zgrams(all) /\ Promised = Zgrams(accepted) /\ Promised' = Zgrams(accepted)
  BY <1>2, AcceptedIsPromised DEF Content
<1>4. all \subseteq Known' /\ accepted \subseteq Known' /\ NoneTwice(Known')
  BY <1>1, <1>2 DEF MemoryOK, LogsOK, Known
<1>5. \A a \in accepted : a \in all \/ IsOld(a, today)
  BY <1>1, <1>2 DEF MemoryOK
<1>6. ASSUME NEW c \in Zgrams(accepted) PROVE Store!Expired(c) \/ c \in Zgrams(all)
  <2>1. PICK a \in accepted : c = [id |-> a.id, body |-> a.body, kind |-> a.at.kind, day |-> a.at.day]
    BY ZgramsOfInfos
  <2>2. c.kind = a.at.kind /\ c.day = a.at.day
    BY <2>1
  <2>3. CASE a \in all
    BY <2>1, <2>3, ZgramsOfInfos
  <2>4. CASE IsOld(a, today)
    BY <2>2, <2>4 DEF IsOld, Store!Expired
  <2> QED BY <1>5, <2>3, <2>4
<1>7. Store!Distinct(Zgrams(all), Zgrams(accepted))
  <2>1. ASSUME NEW c \in Zgrams(all), NEW d \in Zgrams(accepted), c.id = d.id PROVE c = d
    <3>1. PICK z \in all : c = [id |-> z.id, body |-> z.body, kind |-> z.at.kind, day |-> z.at.day]
      BY ZgramsOfInfos
    <3>2. PICK a \in accepted : d = [id |-> a.id, body |-> a.body, kind |-> a.at.kind, day |-> a.at.day]
      BY ZgramsOfInfos
    <3>3. z.id = a.id
      BY <2>1, <3>1, <3>2
    <3>4. z = a
      BY <1>4, <3>3 DEF NoneTwice
    <3> QED BY <3>1, <3>2, <3>4
  <2> QED BY <2>1 DEF Store!Distinct
<1> QED BY <1>3, <1>6, <1>7 DEF Store!Load, Content, Promised
\* A batch that is written is a batch of new zgrams.
LEMMA AcceptRefines ==
    ASSUME StoreOK, FinishPost, ~halfWritten
    PROVE  Store!Accept(Promised' \ Promised)
<1>1. serving = "serving"
  BY DEF FinishPost
<1>2. LogStoreTypeOK /\ MemoryOK /\ NextZgramId \in Nat
  BY <1>1, InMemory
<1>3. PICK first \in Nat : first = NextZgramId
  BY <1>2
<1>4. PICK posted, new, n : posted = Infos(ToSet(posting)) /\ new = NewGraffiti(posting) /\ n = Len(posting)
  OBVIOUS
<1>5. posted \subseteq ZgramInfos /\ \A p \in posted : first <= p.id
  BY <1>3, <1>4, SecondWrite
<1>6. PICK all, accepted : all = All /\ accepted = Accepted
  OBVIOUS
<1>7. /\ UNCHANGED <<today, serving, frozen, halfWritten, quietWeek>>
      /\ dynamic' = [dynamic EXCEPT !.zgrams = @ \union posted]
      /\ acknowledged' = acknowledged \union ToSet(posting)
  BY <1>4 DEF FinishPost
<1>8. All' = all \union posted /\ Accepted' = accepted \union posted
  <2>1. dynamic'.zgrams = dynamic.zgrams \union posted
    BY <1>2, <1>7 DEF LogStoreTypeOK
  <2>2. Accepted' = accepted \union posted
    BY <1>4, <1>6, <1>7, InfosOfUnion DEF Accepted
  <2> QED BY <1>6, <1>7, <2>1, <2>2 DEF All
<1>9. /\ \A z \in all : z.id < first /\ z.id \in Nat
      /\ \A a \in accepted : a.id < first /\ a.id \in Nat
      /\ \A p \in posted : first <= p.id /\ p.id \in Nat
  <2>1. \A z \in all : z.id < first /\ z.id \in Nat
    BY <1>1, <1>2, <1>3, <1>6, AllAreBefore, EndsArePositions, KnownZgrams
  <2>2. \A a \in accepted : a.id < first /\ a.id \in Nat
    BY <1>2, <1>3, <1>6, KnownZgrams DEF MemoryOK
  <2> QED BY <1>2, <1>5, <2>1, <2>2, KnownZgrams
<1>10. /\ Content = Zgrams(all) /\ Content' = Zgrams(all) \union Zgrams(posted)
       /\ Promised = Zgrams(accepted) /\ Promised' = Zgrams(accepted) \union Zgrams(posted)
  <2>1. Content' = Zgrams(all \union posted) /\ Content = Zgrams(all)
    BY <1>1, <1>6, <1>7, <1>8 DEF Content
  <2>2. Promised' = Zgrams(accepted \union posted) /\ Promised = Zgrams(accepted)
    BY <1>6, <1>8, AcceptedIsPromised
  <2> QED BY <2>1, <2>2, ZgramsOfInfos
<1>11. ASSUME NEW c \in Zgrams(posted), NEW d \in Zgrams(accepted) \union Zgrams(all) PROVE c.id # d.id
  <2>1. PICK p \in posted : c = [id |-> p.id, body |-> p.body, kind |-> p.at.kind, day |-> p.at.day]
    BY ZgramsOfInfos
  <2>2. PICK z \in accepted \union all : d = [id |-> z.id, body |-> z.body, kind |-> z.at.kind, day |-> z.at.day]
    BY ZgramsOfInfos
  <2>3. z.id < first /\ z.id \in Nat /\ first <= p.id /\ p.id \in Nat
    BY <1>9
  <2> QED BY <2>1, <2>2, <2>3
<1>12. PICK zs : zs = Promised' \ Promised
  OBVIOUS
<1>13. zs = Zgrams(posted)
  BY <1>10, <1>11, <1>12
<1>14. Store!Distinct(zs, Promised \union Content)
  BY <1>10, <1>11, <1>13 DEF Store!Distinct
<1>15. Promised' = Promised \union zs /\ Content' = Content \union zs
  BY <1>10, <1>13
<1>16. Store!Accept(zs)
  BY <1>1, <1>7, <1>14, <1>15 DEF Store!Accept, Content, Promised
<1> QED BY <1>12, <1>16

LEMMA StepRefines ==
    ASSUME LogStoreInvariant, LogStoreInvariant', [Next]_vars
    PROVE  [Store!Next]_Store!vars
<1>1. CASE halfWritten' \/ quietWeek'
  BY <1>1 DEF Store!Next, Store!Damage
<1>2. CASE ~halfWritten' /\ ~quietWeek'
  <2>0. ~quietWeek /\ StoreOK /\ StoreOK'
    BY <1>2, QuietWeekStays DEF LogStoreInvariant
  <2>1. ASSUME UNCHANGED <<today, serving, halfWritten, quietWeek>>, UNCHANGED Accepted,
               serving = "serving" => UNCHANGED All
        PROVE  UNCHANGED Store!vars
    BY <2>1, NothingShows
  <2>2. ASSUME UNCHANGED acknowledged PROVE UNCHANGED Accepted
    BY <2>2 DEF Accepted
  <2>3. CASE NewDay
    <3>1. UNCHANGED <<serving, memory, acknowledged, halfWritten>> /\ today' = today + 1
      BY <2>3 DEF NewDay
    <3>2. UNCHANGED Content /\ UNCHANGED Promised
      BY <2>2, <3>1, SameMemory, AcceptedIsPromised DEF Content
    <3>3. (halfWritten \/ quietWeek)' = (halfWritten \/ quietWeek)
      BY <1>2, <2>0, <3>1
    <3> QED BY <3>1, <3>2, <3>3 DEF Store!Next, Store!NewDay, Content, Promised
  <2>4. CASE BuildFirstIndex
    <3>1. UNCHANGED <<today, serving, halfWritten, acknowledged, quietWeek>> /\ serving = "down"
      BY <2>4 DEF BuildFirstIndex
    <3> QED BY <2>1, <2>2, <3>1
  <2>5. CASE Start
    <3>1. UNCHANGED <<today, halfWritten, quietWeek, acknowledged>> /\ serving = "down"
      BY <2>5 DEF Start
    <3>2. serving' = "serving" \/ UNCHANGED serving
      BY <2>5 DEF Start
    <3>3. CASE serving' = "serving"
      <4>1. Store!Load(Content')
        BY <1>2, <2>0, <2>2, <3>1, <3>3, LoadRefines
      <4> QED BY <4>1 DEF Store!Next, Content
    <3>4. CASE UNCHANGED serving
      BY <2>1, <2>2, <3>1, <3>4
    <3> QED BY <3>2, <3>3, <3>4
  <2>6. CASE \E batch \in Batches : Post(batch)
    <3>1. UNCHANGED <<today, serving, frozen, dynamic, acknowledged, halfWritten, quietWeek>>
      BY <2>6 DEF Post, history
    <3>2. UNCHANGED All
      BY <3>1 DEF All
    <3> QED BY <2>1, <2>2, <3>1, <3>2
  <2>7. CASE \E id \in 0..MaxRecords - 1 : AddMetadata(id)
    <3>1. PICK id : AddMetadata(id)
      BY <2>7
    <3>2. PICK record : record = Metadata(id, written + 1)
      OBVIOUS
    <3>3. /\ UNCHANGED <<today, serving, frozen, halfWritten, quietWeek>>
          /\ dynamic' = [dynamic EXCEPT !.metadata = @ \union {record}]
      BY <3>1, <3>2 DEF AddMetadata
    <3>4. dynamic \in [zgrams: SUBSET ZgramInfos, metadata: SUBSET Records]
      BY <2>0 DEF StoreOK, LogStoreTypeOK
    <3>5. UNCHANGED All
      BY <3>3, <3>4 DEF All
    <3>6. UNCHANGED Accepted
      <4>1. PICK at : acknowledged' = acknowledged \union {[record |-> record, at |-> at]}
        BY <3>1, <3>2 DEF AddMetadata
      <4>2. record.type # "zgram"
        BY <3>2 DEF Metadata
      <4> QED BY <4>1, <4>2 DEF Accepted, Infos
    <3> QED BY <2>1, <3>3, <3>5, <3>6
  <2>8. CASE FinishPost
    <3>1. ~halfWritten
      BY <1>2, <2>8 DEF FinishPost
    <3>2. Store!Accept(Promised' \ Promised)
      BY <2>0, <2>8, <3>1, AcceptRefines
    <3> QED BY <3>2 DEF Store!Next, Promised
  <2>9. CASE FailPost
    <3>1. UNCHANGED <<today, serving, memory, acknowledged, quietWeek>> /\ halfWritten' = (halfWritten \/ OfKind(posting, "logged") # {})
      BY <2>9 DEF FailPost
    <3>2. UNCHANGED halfWritten
      <4>1. halfWritten \in BOOLEAN /\ ~halfWritten
        BY <1>2, <2>0, <3>1 DEF StoreOK, LogStoreTypeOK
      <4>2. halfWritten' \in BOOLEAN
        BY <2>0 DEF StoreOK, LogStoreTypeOK
      <4> QED BY <1>2, <4>1, <4>2
    <3> QED BY <2>1, <2>2, <3>1, <3>2, SameMemory
  <2>10. CASE StartReindexing \/ GiveUp \/ ClearScratchDirectory \/ RunBuild \/ PublishBuild \/ Cleanup
    <3>1. UNCHANGED <<today, serving, memory, acknowledged, halfWritten, quietWeek>>
      BY <2>10 DEF StartReindexing, GiveUp, ClearScratchDirectory, RunBuild, PublishBuild, Cleanup, history
    <3> QED BY <2>1, <2>2, <3>1, SameMemory
  <2>11. CASE ResetIndex
    <3>1. UNCHANGED <<today, halfWritten, quietWeek, acknowledged>> /\ serving = "serving"
      BY <2>11 DEF ResetIndex, Idle
    <3>2. UNCHANGED serving \/ refused'
      BY <2>11 DEF ResetIndex
    <3>3. ~refused'
      BY <1>2, <2>0 DEF StoreOK, LogsOK
    <3>4. Store!Load(Content')
      BY <1>2, <2>0, <2>2, <3>1, <3>2, <3>3, LoadRefines
    <3> QED BY <3>4 DEF Store!Next, Content
  <2>12. CASE Crash
    <3>1. UNCHANGED <<today, acknowledged, halfWritten, quietWeek>> /\ serving' = "down"
      BY <2>12 DEF Crash, history
    <3>2. Content' = {} /\ UNCHANGED Promised
      BY <2>2, <3>1, AcceptedIsPromised DEF Content
    <3>3. Store!Stop
      BY <3>1, <3>2 DEF Store!Stop, Content, Promised
    <3> QED BY <3>3 DEF Store!Next
  <2>13. CASE UNCHANGED vars
    <3>1. UNCHANGED <<today, serving, memory, acknowledged, halfWritten, quietWeek>>
      BY <2>13 DEF vars, history
    <3> QED BY <2>1, <2>2, <3>1, SameMemory
  <2> QED
    BY <2>3, <2>4, <2>5, <2>6, <2>7, <2>8, <2>9, <2>10, <2>11, <2>12, <2>13
    DEF Next, Startup, Requests, ServerThread, ReindexingThread
<1> QED BY <1>1, <1>2

(* The log store implements DurableStore: posts, rebuilds, restarts and crashes  *)
(* are steps of a store that accepts, stops and brings back all it promised.     *)
THEOREM ImplementsTheStore == Spec => ImplementsDurableStore
<1>1. Init => Store!Init
  BY InitRefines
<1>2. LogStoreInvariant /\ LogStoreInvariant' /\ [Next]_vars => [Store!Next]_Store!vars
  BY StepRefines
<1> QED BY <1>1, <1>2, TheStoreHoldsTogether, PTL DEF Spec, ImplementsDurableStore, Store!Spec
=============================================================================
