# Z2K Plus+ in TLA+

A verification development for Z2K Plus+, a group chat with a search engine in
it: a C++ backend, a Node middleware and a browser page. The modules here are
translated from the source; every definition is mapped to its lines in
`PROJECT.json` (`map`).

    tlc -workers 2 -config SessionSafety.cfg SessionInvariant.tla
    tlc -workers 2 -config LogStore.cfg MCLogStore.tla
    tlc -workers 2 -config Channels.cfg MCChannelThreads.tla
    tlapm SessionProofs.tla
    tlapm SessionStreamProofs.tla
    tlapm PagingProofs.tla
    tlapm ChannelProofs.tla
    tlapm FiltersProofs.tla
    tlapm LogStoreProofs.tla
    tlapm TextProofs.tla
    tlapm ContentsProofs.tla

## The system

    page (SessionManager, Z2kState)
      | WebSocket
    middleware (client_manager.ts, backend_manager.ts)
      | TCP, one connection per page connection, Hello first
    backend
      Channel          two threads per connection: reader, writer
      Communicator     listener thread, Processor thread
      Session          Robustifier: serial numbers, unacknowledged responses
      Server           one thread: requests, reindexing, responses
      Coordinator      subscriptions, posts, metadata, filters
      ConsolidatedIndex = frozen index (mapped file) + dynamic index (memory)
                       log files (plaintext, appended), zgram cache
      IndexBuilder     its own thread: log files -> new frozen index

| Component | State | Operations | What is hard about it |
|---|---|---|---|
| Session client (`session_manager.ts`) | state, current WebSocket, session guid, next request id, next expected response id, unacknowledged requests | connect, reconnect, onopen, onclose/onerror, three kinds of response, sendDRequest | handlers of forgotten sockets act on the current one; a broken connection delivered an unknown prefix; timers |
| Middleware (`client_manager.ts`, `backend_manager.ts`) | a pair of connections, a chunker each | Hello, forward, close both when one closes | a close on one side while the other still delivers |
| Channel (`channel.cc`) | socket, to-do buffer, shutdown flag; reader, writer | create, send, requestShutdown, read loop, write loop | three threads share the socket; descriptor closed under a reader; shutdown reported before start-up |
| Message buffer (`message_buffer.h`) | queue, shutdown and interrupt flags, condition variable | append, interrupt, shutdown, waitForDataAndSwap | lost wake-ups, timeouts |
| Communicator (`communicator.cc`) | pending profiles, channel-to-session and guid-to-session maps, channels | Hello, CreateSession, AttachToSession, PackagedRequest | one failing handler ends the thread that serves everybody; the maps only grow |
| Session (`session.h`, `robustifier.cc`) | channel, next serial numbers, unacknowledged responses | noteIncoming, trySend, swapChannel, tryCatchup | Server and Processor use it without a common lock |
| Server (`server.cc`) | to-do buffer, subscriptions of sessions, reindexing state, next reindexing time | process requests, respond, manage reindexing | a reindexing thread beside it; any failure ends the thread |
| Coordinator (`coordinator.cc`) | subscriptions, filters, the index | subscribe, getMoreZgrams, postZgrams, postMetadata, getSpecificZgrams, proposeFilters, ping, tryResetIndex | one request changes what every other subscriber must be told; several steps of which a later one may fail |
| Subscription (`subscription.cc`) | displayed range, residual and exhaustion of each side, last estimates | topUp, updateEstimates, updateDisplayed, resetIndex | the index changes under its iterators |
| Page state (`z2kstate.ts`) | zgrams shown, appetites, estimates, request outstanding | responses, sendMoreIfThereIsSufficientAppetite | it asks again only when a response makes it |
| Consolidated index (`consolidated_index.cc`) | frozen index, dynamic index, two open log files, cache | tryCreate (bootstrap), tryAddZgrams, tryAddMetadata, tryCheckpoint, lookups | write ahead to two files, then the index; restart from the files; reindexing in the background; merging frozen with dynamic |
| Index builder (`reverse_index/builder`) | scratch files | tryBuild over a range of the logs, publish | must compute what the dynamic index would have |
| Query iterators (`reverse_index/iterators`) | a position each | getMore in chunks, forward and backward | chunk boundaries, negation, lower bounds |
| Zgram cache (`zgram_cache.cc`) | at most 500 zgrams | look up or read from the log | eviction during a lookup |
| Metadata (`metadata/`, `plusplus_manager.cc`) | dictionaries in the frozen and in the dynamic index, plus-plus lists | add, look up in both, count after a zgram | what is in both must be merged one way; counts are differences of counts |
| Tries and automata (`trie/`, `util/automaton/`) | nodes | insert, freeze, find a word, find what a machine accepts | nodes that split; states merged in the order of a hash table |
| Text utilities (`queryparsing/util.cc`, `plusplus_scanner.cc`) | none | split a text into words, make a pattern, find plus-pluses | characters at the edges of words |
| Query parsing (`queryparsing/`) | the listener's four stacks | lex, parse, one handler per rule | handlers that speak to each other by stacks alone |
| Filters (`coordinator.cc`, `z2kstate.ts`) | a versioned list per user, one in every browser's storage | propose, update | two browsers and a backend that forgets, none of them in charge |
| Files (`files/`) | file keys and positions | comparison, paths | the current file changes at midnight UTC |
| Compactor, authorization, serialization, presentation | none | conversions | not modelled |

`PROJECT.json` has the hazards of this code one by one, each at its line, with
the properties that would catch it going wrong.

## What is modelled

### The session layer

| Module | Part | Its state in the code |
|---|---|---|
| `SessionNet` | messages and connections | `CRequest`, `CResponse`; a WebSocket of the page with the middleware's pair of connections behind it and the backend's Channel, as one FIFO per direction |
| `SessionClient` | the page's SessionManager | its fields, under their names; `submitted` and `delivered` are histories |
| `SessionBackend` | Processor thread, Session with Robustifier, Server thread's request loop | `pendingProfiles_`, `channelToSession_`, `guidToSession_`; `rb` and `channel` are the Session's; `todo` is the Server's message buffer; `processor` and `server` are the two threads' program counters with their locals; `executed` and `produced` are histories |
| `SessionProtocol` | the composition, fairness, properties | |
| `ReliableStream` | what a session promises | implemented by `SessionProtocol` |
| `SessionInvariant` | the three inductive invariants behind the safety properties | |
| `SessionProofs`, `SessionStreamProofs` | theorems: types and the Processor's survival; responses, requests and the refinement | |

*The path.* The middleware puts the Hello in front of what the page sends and
forwards the rest without looking at it, so page, middleware and TCP are one
FIFO in each direction. `Break(c)` is any of the network, the middleware or the
host dropping connection c. A broken connection may still deliver any prefix of
what is in flight, in both directions, until the page hears of its end
(`HandleClose`) and, for what travels up, for ever: the model never says that a
message of a broken connection was lost, it only takes away the obligation to
deliver. That covers requestShutdown of a former channel and the middleware
closing either half.

*The page.* One action per handler. The handlers of every WebSocket ever opened
stay installed and write to the one `this.ws`, as in the code. closeHelper's
five-second timer is pending exactly while the state is Disconnected: connect()
returns at once in every other state, so a timer that outlives it changes
nothing. SessionFailure makes handleStateChange reload the page; the new page's
SessionManager starts in the same step.

*The backend.* The Processor takes the next message of any connection: the
order between connections is not determined by the code (one reader thread
each), so the model has no common queue. The other handlers are one step, but
AttachToSession is four (swap, SessionSuccess, the range of the catch-up, one
message at a time) and so is a response (take the channel and number it, record
it, send it), because Session::trySendResponse runs on the Server thread with
no lock in common with the Processor. Each deque operation and each enqueue on
a channel is taken as atomic. In memory two threads use the Robustifier at
once, which is a data race: the model gives it the sequentially consistent
outcomes. A request causes 0 to `MaxAnswers` responses on its own session.

*Names.* A guid is the number of the connection whose CreateSession made it.
One user is modelled: the profile in the Hello always matches the session's.

*Bounds.* `MaxConns` connections, `MaxBreaks` breaks by the network,
`MaxRequests` requests, `MaxClicks` uses of the reconnect link, `MaxAnswers`
responses per request, `MaxRestarts` restarts of the backend.

*The reconnect link* is always there (`chat.html:141`), and the model lets it be
used at any time. A page that uses it before it has a session makes a second
one, and the responses of the first may count as its own: the history variable
`clickedEarly` notes it, and what is promised of responses holds until then.
What is promised of requests holds whatever the user does.

### Properties of the session layer

* `ExecutedInOrderOnce`, `DeliveredInOrderOnce`: what the server executes is a
  prefix of what the page submitted, whatever breaks, reconnects and is
  clicked; what the page accepts is a prefix of what the server produced,
  until `clickedEarly`.
* `ProcessorSurvives` (with `ControlMessageFirst`): while nobody uses the
  reconnect link no connection carries a second control message, so no handler
  fails and the Processor lives.
* `ImplementsStream`: the session layer refines `ReliableStream`.
* `DeliveryInvariant`, `RequestInvariant`: why. See "What is proved".
* `EventuallyAttached`, `RequestsExecuted`, `ResponsesArriveUnlessRaced`:
  liveness.

### Searching

| Module | Part | Its state in the code |
|---|---|---|
| `SearchIterators` | the iterators over word and zgram offsets, and what the query parser makes of a query | operators on an index (a sequence of zgrams, a sequence of words); an iterator is a tree, its `ZgramIteratorState` or `WordIteratorState` a record beside it, its streamers' buffers included |
| `Search` | one side of one subscription: `PerSideStatus` | `sub` (query, iterator state, residual, exhaust version), the index; `posted` and `delivered` are histories |
| `MCSearch` | the queries and texts of the runs | |

The iterators are kept with all their control: simplification when they are
made (`And`, `Or`, `Not`, `Anchored`, `PopOrNot`), `nextStart_`, streamers with
a buffer, monotonic advancing of `Near`, chunks that fill in the middle of a
zgram, backward searches by counting from the end of the number space. A word
is a model value and a pattern the set of words it matches, which is what the
tries and automata compute; a zgram has two fields instead of four. The
reference (`Matches...` in `Search`) is written from the definitions in the
comments and tests and never looks at an iterator.

*Bounds.* `RelSpace` = 100 stands for the 32-bit number space, `BufferCapacity`
for a streamer's 128 entries and `ChunkSize` for `iteratorChunkSize` (256):
with two entries and up to four zgrams every buffer fills, at every place.
`QueryMargin` and `Counts` are what a page asks for.

Left out: the iterators by ZgramId and by reaction, and the branch for a
capacity of zero, which no caller has.

### Paging

| Module | Part | Its state in the code |
|---|---|---|
| `PagingNet` | the requests and answers of a page with one subscription, in order, as the session layer delivers them | `drequest.h`, `dresponse.h` |
| `Subscription` | the Coordinator's side: subscribe, getMoreZgrams, a post by anybody, tryResetIndex | `displayed_`, `front`/`back` status with residual and iterator place, `lastEstimates`; `index` is the part of the index the query ranges over |
| `Page` | `Z2kState` and `StreamStatusViewModel` | zgrams shown, appetite and estimate of each side, the outstanding flag |
| `Paging` | the composition, fairness, properties | |
| `PagingProofs` | theorems | |

The index is a set of zgrams, which their identifiers order, and an iterator is
a place in it here: `Search` is where iterators are
compared with what a query means. A reindexing may drop the oldest zgrams that
are graffiti (`ResetIndex(oldest)`), a look-up in the zgram cache may fail.
The side `front` runs backward from the start, `back` forward.

*Bounds.* Up to `MaxStored` = 3 zgrams when the page comes and `MaxZgrams` = 4
in all, matching or not, `PageSize`, `QueryMargin` and `InitialQuerySize` 2,
buttons for 1 and 3, one reindexing, one failing look-up: one more of each
than a page holds, so that it reads in more than one step on either side.

### The log store

| Module | Part | Its state in the code |
|---|---|---|
| `LogStore` | file keys, positions, ranges and reading them (`keys.h`, `LogAnalyzer`, `LogParser`); ConsolidatedIndex over its logs, the Server's reindexing and its thread, start and crash | `files`: the plaintext directory; `published`, `scratch`: the two `z2k.index`; `frozen`, `dynamic`: the parts of the index; `state`: `loggedState_` and `unloggedState_`; `posting`, `reindexing`: the Server between two writes and the ReindexingState; `acknowledged`, `halfWritten`, `quietWeek`, `refused` are histories |
| `DurableStore` | what the backend promises about zgrams | implemented by `LogStore` |
| `MCLogStore` | the batches of the run | |
| `LogStoreProofs` | theorems | |

A day is the date of a file key; records have length one, so that an offset is
a place in the file; a lifespan of one day stands for the seven of
`unloggedLifespan`. Everything in the memory of the process is lost in `Crash`,
which can fall between any two steps of the Server or the reindexing thread;
STOP is the same. A single write is done or not done. `FailPost` is the failure
of the second of the two writes of a request.

`NewDay` assumes that a reindexing succeeds at least once per lifespan while the
backend runs, because one is due every ten minutes. That somebody writes
graffiti in every lifespan is not assumed: `quietWeek` notes when there were
some once and a lifespan passed without, and the properties, like those up to
`halfWritten`, are stated until then (see *Known divergences* for what happens
afterwards). One shard of the splitter is modelled: the build
refuses identifiers out of order, as each of the four shards does for its part
of the days. The Server thread ends (`serving = "stopped"`) when a rebuilt
index cannot be loaded, and gives up reindexing when a build fails, as the code
does.

Metadata are kept as a set of records here; how those of the frozen and the
dynamic index are merged is `IndexContents`. `AddMetadata` stands for zmojis as
well, which go where the first zgram is; when there is none the process dies
(`Crash`).

*Bounds.* Three days (`FirstDay` to `LastDay`), three records, one crash, one
failed write, batches of one or two. Three days are a lifespan and a day after
it; a crash and a reindexing at every point between three writes is what the
boundaries between file, frozen index and dynamic index need.

### The channel's threads

| Module | Part | Its state in the code |
|---|---|---|
| `ChannelThreads` | Listener, a Reader and a Writer per Channel, Processor, Server | `socketFd_`, `shutdownRequested_`, `outgoing_`, `numThreadsAlive_`; `buffer` is the MessageBuffer; `channels` is the Communicator's map; `pc` and `local` are the threads' program counters and locals; `fds`, `inbound`, `outbound` are the kernel's |
| `MCChannelThreads` | what the peers say | |
| `ChannelProofs` | theorems | |

A step is what a thread does under one lock, or one system call. `SessionNet`
takes a channel as a FIFO that may break; this module is about what is below
it: the buffer `outgoing_` with its condition variable and the notification
that is left out when it is not empty, chunks that end anywhere, the descriptor
that is closed under a thread, the start-up and the shut-down message. The
kernel gives the lowest free number, and `close` wakes nobody, as on Linux. A
garbled message makes the Reader fail.

`crossed` becomes true when a thread uses a number that has been closed and
given to another connection, `died` when a write to a connection whose peer is
gone raises SIGPIPE; a behaviour ends there. `late` are the channels whose
start-up message came after their shut-down message. All three happen: nothing
in the code prevents them, and the properties are stated up to them.

*Bounds.* Two connections, so that one can be replaced and its number given
out again; one message each way on each.

### The index's contents

| Module | Part | Its state in the code |
|---|---|---|
| `TupleIterators` | sorted rows, the tuple iterators over them, the builder's inflating of maps | operators; no state |
| `IndexBuilder` | splitter, shards, digester threads, trie entries, metadata maps, string pool | operators from log records to a frozen index, or a failure |
| `MetadataIndex` | frozen and dynamic metadata, their merged look-ups, PlusPlusManager, zgram cache | operators on `frozen`, `dynamic`, `cache` |
| `IndexState` | the log, the two parts of the index and the cache; posting, bootstrap, rebuild, restart | `frozen`, `dynamic`, `cache`; `log` is every record with its place; `disturbed` is a history |
| `IndexContents`, `MCIndexContents` | properties, against the log as the reference | |
| `ContentsProofs` | theorems about `IndexContents` | |

`LogStore` is about what is in the files and which part of the index it is in,
`IndexContents` about what the index then says. Texts are numbers: `WordsOf`
and `MentionsOf` are what the splitter and the plus-plus scanner make of each,
which `TextSearch` is about. A trie here is a function from words to places,
because `TextSearch` shows that both kinds of trie are one. Steps of the
builder's threads do not interfere (each has its own files), so a build is a
function of the log and of whichever of a day's two files comes first in the
directory.

`disturbed` are the zgrams whose plus-plus counts met one of two flaws of
PlusPlusManager: two revisions in one batch subtract the same body twice, and a
revision that is read back by a bootstrap is subtracted from itself, as the
records are in the dynamic index before the counts are computed.

*Bounds.* Two zgrams and two metadata records, one build, two days, two shards
with a flush after three words, a cache of one zgram: every record is dynamic,
then frozen or read back, in every order, a shard boundary falls between the
two zgrams, and the cache must evict. A batch may have two records, about one
zgram or about two.

### Texts and words

| Module | Part | |
|---|---|---|
| `WordText` | WordSplitter, `translateToPatternChar`, PlusPlusScanner | operators; no state |
| `Automaton` | patterns, the converter that determinizes them and squishes equal states, the machine | operators; no state |
| `TextReading` | a text is read into words and plus-pluses; a typed word becomes a pattern, a converter, a machine | `text`, `tokens`, `counts` are locals of the code that reads; `conv` and `dfa` are the converter's and the machine |
| `Tries` | the dynamic trie with its splitting nodes, the frozen trie and its builder, both searches | operators; no state |
| `TextSearch`, `MCTextSearch` | the composition with the index: words are entered, frozen and searched | `words`, `frozen`, `dynamic` |
| `TextProofs` | theorems about `TextReading` | |

`TextSearch` takes the steps of `TextReading` as they are, with its own
variables unchanged, and its own steps change none of `TextReading`'s: what
holds of `ReadingSpec` holds of it.

Characters are numbers here, as what is modelled looks at single characters.
The look-alike table is a constant. The converter's worklist is a hash table
keyed by addresses, so `SquishOne` takes any item of it.

*Bounds.* Every text of up to five characters of each of two alphabets of four
and of up to four of a third one (a letter, a digit, apostrophe, space, the
operators, `C`), every pattern of up to three characters of `a`, `*`, `?`, a
dozen others that have states to squish, five words of which two are entered,
probes of up to five letters. Texts, machines and tries do not meet but in
`MatchesAreFoundOnce`, so a behaviour reads one text or asks one pattern.

### Queries

| Module | Part | Its state in the code |
|---|---|---|
| `QueryLexer` | `ZarchiveLexer`: modes, longest match | operators |
| `QueryParser` | the grammar with its precedences and associativity, as the generated parser climbs them; the order in which rules are left | operators |
| `IteratorTrees` | the `create` functions of every iterator and what they simplify | operators; also used by `SearchIterators` |
| `Queries`, `MCQueries` | `parse` and the listener's handlers; what a query means | `zgramIterators`, `adjacencies`, `adjacencyGroups`, `ok`; `exits` are the rules the walk has yet to leave |

`Written` writes a query down with no more parentheses than the grammar needs,
`Matches` says what it means of a zgram, and `Denotes` what an iterator tree
means; neither looks at the parser. Error recovery of the generated parser is
left out: a text that needs it is refused.

*Bounds.* Ninety-two trees of up to two operators in every combination, with
`not` before leaves and before trees; every kind of leaf, `literally` of every string of up to three
characters of seven, and 5,214 texts that need not be queries. `NearMargin` 3
as in the code; `IdModulus` stands for 2^64.

### The page's knowledge of zgrams

| Module | Part | Its state in the code |
|---|---|---|
| `Coordinator`, `MCCoordinator` | subscribe, getMoreZgrams, getSpecificZgrams, posts with their sanitizing, what is sent to a subscriber; the page's handlers | `displayed_`; `view` is the page's Z2kState with its ZgramViewModels |
| `Filters` | proposals, versions, several browsers, restarts | `filters_`; `localFilters` is each browser's storage, `shown` its FiltersViewModel |
| `FiltersProofs` | theorems about `Filters` | |

`Coordinator` extends `IndexState`: it is the composition of the index with the
fan-out of changes. One page is watched; every user posts. What is sent arrives
once and in order (`SessionProtocol`) and the page does nothing else in
between, so that `view` is what it has when everything has arrived. Which
zgrams a page asks for is `Paging`'s part; here it asks for any number.

`stray` is what `gatherFrozenZgrams` and `gatherDynamicZgrams` read where
`find()` found nothing: undefined, so any set of zgrams. `recounted` becomes
true when a new index counts differently and nobody is told. `Filters` shares
no state with the rest, so that `topic` chooses what a behaviour is about; both
are checked in one run and neither multiplies the other.

*Bounds.* `MCCoordinator` has two users, one of whom the page belongs to and both
of whom its query finds, two zgrams and two metadata records in batches of one
and two, one build, one zgram looked up by itself or not readable; two
browsers, one filter, three seconds, three proposals, two pages closed or
restarts. Two versions in conflict need two browsers, and a third version to
show which one stays.

### Properties of searching, paging and the log store

* `ResultsAreTheAnswer`: whatever was pulled in chunks between posts is the
  reference's answer, in order, and a side only stops short when there is no
  more. `ResultsMatch` says less, and is for the queries of which that does not
  hold.
* `ShownInOrder`, `NothingMissing`: what the page shows has no repetition and
  no gap, over posts, chunks and a reindexing.
* `EstimatesAreTrue`: what the page decides by is true when it decides.
* `EventuallyServed`: the page gets what it wants or all there is.
* `PermanentIds`: an identifier names one zgram for ever.
* `AcknowledgedKept`: every zgram that was accepted is in the index whenever the
  backend serves, frozen before dynamic and in order.
* `LocationsHold`: the index points at the text, which no cleanup unlinked.
* `NeverRefused`: no start and no build is ever refused.
* `ImplementsDurableStore`: all of it refines `DurableStore`.
* `GraffitiVanish`: expired graffiti are removed in the end.

`halfWritten` weakens three of the last group: after a second write failed, the
logs hold zgrams the index does not have, their identifiers are given out
again, and the next build or start meets them twice and fails. The code has no
answer to it and promises none. All but the refinement are stated until
`quietWeek`; for the refinement it is damage.

### Properties of channels, index contents, texts, queries and pages

* `MessagesComeWhole`: what a Reader hands on is what the peer said and what a
  peer gets is what was sent, in order and whole, however TCP cuts it up and
  whichever threads send at once.
* `ShutdownIsLast`, `EndedChannelsAreForgotten`: the last thread out says
  goodbye, once, and after everything else; then the Communicator forgets the
  channel.
* `SendsAreWritten`, `ShutdownEnds`: no wake-up is lost, so that a response on
  an open channel is written; and both threads of a channel end once it is shut
  down and its peer has hung up.
* `MetadataMatchesLog`: reactions, revisions, references and zmojis are what
  the logs say, whatever part of them is frozen, dynamic or read back. A zgram
  with references in both parts is left out (see *Known divergences*). Zmojis go
  to the files of the first zgram, whichever they are; before there is one they
  end the process (`PostBeforeZgrams`).
* `PlusPlusCountsMatch`: every zgram adds to a key's count what its last body
  mentions, but for the `disturbed` ones.
* `WordsMatchZgrams`: after any builds the numbering of words, zgrams and fields
  and the tries are those of the posted texts, across shards and across frozen
  and dynamic; and no build is refused.
* `CacheIsTrue`: the cache holds what the files hold, within its limit.
* `AcceptsWhatThePatternMeans`: the machine accepts what the pattern means,
  in whichever order states were squished.
* `TriesHoldTheWords`, `MatchesAreFoundOnce`: every word is at its places and no
  other; a search calls back with each match once.
* `TokensAreTheWords`, `ScanFindsEveryMention`: splitter and scanner against
  definitions that do not scan from left to right.
* `QueryMeansWhatItSays`: a query written down is parsed into an iterator that
  finds what it means; and whatever text is taken, no handler finds its stack
  empty and none is left with something on it.
* `LiterallyFindsItself`: the link that looks for an instance finds it, quotes,
  backslashes and patterns in its name notwithstanding.
* `PageShowsTheMetadata`, `PageShowsTheCounts`: a page that has heard everything
  shows what the index has, over posts, answers, rebuilds and revisions of
  zgrams older than those it displays.
* `FiltersAgree`: the browsers of a user end up with the backend's list, in the
  storage and on the screen; and a version names one list, unless two were
  proposed within a second.

### Runs

| Run | Configuration | Bounds | Shows |
|---|---|---|---|
| `session_safety` | `SessionSafety.cfg` | 3 connections, 1 break, 2 requests, 1 click, 1 answer, 1 restart | the safety properties, the inductive invariants of the proofs and the refinement; about one million states |
| `session_liveness` | `SessionLiveness.cfg` | 4 connections, 2 breaks, 2 requests | liveness under `FairSpec` |
| `session_lost_response` | `SessionLostResponse.cfg` | 3 connections, 1 break, 1 request | violation: a response lost between two channels |
| `search` | `Search.cfg` | 4 zgrams, buffers and chunks of 2 | every query of `MCSearch` over every sequence of posts, in both directions; 52,860 states |
| `search_negated` | `SearchNegated.cfg` | buffers of 1 | violation: `And(a, Not(b))` |
| `paging` | `Paging.cfg` | 4 zgrams, 1 reindexing, 1 failed look-up | the paging properties; 260,604 states |
| `logstore` | `LogStore.cfg` | 3 days, 3 records, 1 crash, 1 failed write | the log store's properties, its refinement and liveness; 253,192 states |
| `index_contents` | `IndexContents.cfg` | 2 zgrams, 2 metadata records, 1 build, 2 shards | the index against the log; 47,725 states |
| `texts` | `Texts.cfg` | see *Texts and words* | words, plus-pluses, patterns, machines and tries |
| `queries` | `Queries.cfg` | see *Queries* | every query and text of `MCQueries` through lexer, parser and handlers |
| `channels` | `Channels.cfg` | 2 connections, 1 message each way | the threads' safety and liveness; 319,983 states |
| `coordinator` | `Coordinator.cfg` | see *The page's knowledge of zgrams* | what a page shows against the index, and filters; 345,792 states |

Three connections are the first, the one it is replaced by and one more, which
is what a late message of a former connection needs to meet a new session; two
requests are what order and repetition need. The session's liveness run has one
connection more than its faults can use up, so that running out of connections
is not what stops the page.

*Fairness.* Weak fairness of connect, onopen, onclose and message delivery: the
browser runs every handler that is due. Delivery is fair only on connections
that are not broken. Weak fairness of the Processor's and the Server's steps:
both threads loop for ever. No fairness for the user, for faults or for
restarts. That a shut-down channel is eventually noticed by the page rests on
the close of its descriptor reaching the peer (`channel.cc:91`), which is
assumed.

In `Paging`, weak fairness of the Server, which handles what is in its buffer,
and of the browser, which handles what arrives; none for the user or for posts.
In `LogStore`, weak fairness of the Server thread's own steps (the loop wakes
every 30 seconds and manages reindexing), of the reindexing thread, and of
starting a process that is down, which is the administrator's part; none for
requests, for the days or for faults.

In `ChannelThreads`, weak fairness of the whole next-state relation: as long as
some thread can take a step, one is taken. The work is finite, so that each has
its turn; a thread that waits for a condition or in a system call can take none.
The other specifications have no liveness properties and no fairness.

### Findings

* `session_lost_response`. The Server takes the session's channel, the
  Processor attaches the session to a new one and fixes the range of its
  catch-up, the Server records the response and sends it on the old channel.
  The page ignores every later response, because the next number never comes,
  until its connection breaks again. The protocol document promises a re-send
  upon reattaching.
* `search_negated`. `Not` keeps its child's last hit over calls. When a call
  ends because its buffer is full and the next lower bound lies beyond that
  hit, the iterator never meets it again and excludes nothing any more.

### Known divergences

Found while modelling, and excepted from the properties where it says so. The
name in parentheses is a definition that TLC refutes when it is put in the place
of the properties of the configuration named, with the changes given.

* Using the reconnect link while a connection opens lets both onopen handlers
  write to the new socket, as disconnect() forgets the old one but not its
  handlers; the second AttachToSession ends the Processor thread
  (`ControlMessageFirst`, SessionSafety).
* `Near` measures the distance to a left neighbour from where it was before it
  was moved (`near.cc:188`): with three words or more a zgram is found in which
  they are not near each other (`ResultsMatch`, Search with `MCPhraseTexts` and
  `MCPhraseQueries`).
* The next identifier follows the last zgram in the index. If the newest are
  graffiti and a lifespan passes without any, the rebuild leaves them out and
  their identifiers are given out again, old metadata included (`PermanentIds`
  without `~quietWeek`, LogStore, no crash and no failure). With the unlogged range
  empty the build also takes the end of the unlogged log for zero, so that the
  reset reads the expired files once more before the cleanup unlinks them.
* Zmojis are about no zgram, so `tryDetermineLogged` looks at the zgram at the
  default offset, the first one, instead of logging them as it set out to
  (`consolidated_index.cc:882-888`). If that is graffiti they are written to the
  unlogged log and are lost with it when it expires. When the first zgram goes,
  later zmojis may go to the other log, and the bootstrap reads the unlogged one
  last, so that the older list may win. On an empty index the assertion at line
  566 ends the process. `IndexState` models the placement and `PostBeforeZgrams`
  the end of the process; expiry is `LogStore`'s part and not in `IndexState`, so
  that the loss is not refuted by a run.
* After a bootstrap a revision is subtracted from itself, and a batch that
  revises a zgram twice subtracts the same body twice (`PlusPlusAlwaysMatch`,
  IndexContents with the batches `MCRevisions`).
* `getReactionCount` takes the dynamic running count, which starts at zero, as
  the whole count, so that the search for a reaction finds zgrams from which it
  was removed or misses some that have it (`HavingReactionMatches`,
  IndexContents). `getRefersToFor` takes the next frozen and the next dynamic
  item for the same one (excepted from `MetadataMatchesLog`).
* A field list with a blank in front of a name also searches the sender
  (`parser.cc:530`), though the lexer allows white space there
  (`FieldsAreTheOnesNamed`, Queries with `MCSpaced`).
* `literally` finds what only looks alike; the grammar's comment says that it
  does not (`LiterallyIsExact`, Queries with `MCAlike` and `MCAlikeZgrams`).
* Closing a descriptor does not wake the Reader that is blocked on it, as the
  comment at `channel.cc:91` expects; it ends when its peer hangs up
  (`ShutdownUnblocksReader`, Channels with `HangsUp = {}`).
* A thread may use a descriptor number that was closed and given to another
  connection, and a write to a connection whose peer is gone raises SIGPIPE
  (`channel.cc:211`): `crossed` and `died` of `ChannelThreads`.
* A start-up message that comes after the shut-down message leaves the channel
  in the Communicator's map for ever: `late`.
* tryResetIndex tells no page that zgrams were dropped or counts changed:
  `purged` of `Paging`, `recounted` of `Coordinator`. A failed look-up leaves the
  page's request outstanding for ever.
* Two lists of filters proposed within a second have the same version:
  `sameSecond`. A filter that is added before the first update has come replaces
  the stored list, because the page's list is empty until then
  (`z2kstate.ts:315`).
* A zgram looked up by itself comes without metadata, and the page ignores the
  value of a reference, so that one that was taken back stays on the screen; no
  part of the page takes one back.

## What is proved

With TLAPS, for every value of the constants that the assumptions in the modules
allow. These are the named `ASSUME`s and say little more than that bounds are
natural numbers.

| Theorem | Module | |
|---|---|---|
| `TypeCorrect` | `SessionProofs` | `Spec => []TypeOK` |
| `ProcessorStaysAlive` | `SessionProofs` | `Spec => []ProcessorSurvives` |
| `DeliveryInvariantHolds` | `SessionStreamProofs` | `Spec => []DeliveryInvariant` |
| `DeliveryInOrderOnce` | `SessionStreamProofs` | `Spec => []DeliveredInOrderOnce` |
| `RequestInvariantHolds` | `SessionStreamProofs` | `Spec => []RequestInvariant` |
| `ExecutionInOrderOnce` | `SessionStreamProofs` | `Spec => []ExecutedInOrderOnce` |
| `StreamImplemented` | `SessionStreamProofs` | `Spec => ImplementsStream` |
| `ShownAlwaysInOrder` | `PagingProofs` | `Spec => []ShownInOrder` |
| `NothingGoesMissing` | `PagingProofs` | `Spec => []NothingMissing` |
| `EstimatesStayTrue` | `PagingProofs` | `Spec => []EstimatesAreTrue` |
| `WholeAndInOrder` | `ChannelProofs` | `Spec => []MessagesComeWhole` |
| `GoodbyeIsLast` | `ChannelProofs` | `Spec => []ShutdownIsLast` |
| `EndedAreForgotten` | `ChannelProofs` | `Spec => []EndedChannelsAreForgotten` |
| `FiltersAgreement` | `FiltersProofs` | `FiltersSpec => []FiltersAgree` |
| `TheStoreHoldsTogether` | `LogStoreProofs` | `Spec => []LogStoreInvariant` |
| `IdsArePermanent` | `LogStoreProofs` | `Spec => []PermanentIds` |
| `NothingIsLost` | `LogStoreProofs` | `Spec => []AcknowledgedKept` |
| `LocationsAlwaysHold` | `LogStoreProofs` | `Spec => []LocationsHold` |
| `NoneIsRefused` | `LogStoreProofs` | `Spec => []NeverRefused` |
| `ImplementsTheStore` | `LogStoreProofs` | `Spec => ImplementsDurableStore` |
| `TokensTheorem` | `TextProofs` | `ReadingSpec => []TokensAreTheWords` |
| `MentionsTheorem` | `TextProofs` | `ReadingSpec => []ScanFindsEveryMention` |
| `MachineTheorem` | `TextProofs` | `ReadingSpec => []AcceptsWhatThePatternMeans` |
| `CacheTheorem` | `ContentsProofs` | `Spec => []CacheIsTrue` |
| `FoundTheorem` | `ContentsProofs` | `Spec => []EveryZgramIsFound` |

### The session layer

The theorems hold for all users, those who use the reconnect link at any moment
included. The ones about requests (`RequestInvariantHolds`,
`ExecutionInOrderOnce`) say so without an exception; the properties about
responses are stated until the page uses the link before it has a session
(`clickedEarly`), since afterwards they are false. In the refinement that click
is `Forfeit`.

*Types.* `TypeOK` is inductive: it says that `channelToSession` only names known
sessions and that each thread's program counter has the locals its steps read,
so that every step's reads are defined. `PopAckedProperties` carries the one
fact about sequences it needs, that flushing a queue leaves an end of it.

*The Processor.* `SurvivalInvariant`, while nobody has used the link: the page has
at most one live connection, the current one (`OneLive`); what a connection
carries begins with the Hello and the one message that asks for a session
(`Introduction`); and the Processor has or has not noted the connection's profile
as the next message wants it (`Expects`), also after a restart, which forgets both
the profiles and what was in flight.

*Responses.* That `delivered` is a prefix of `produced` is not inductive: it
needs to know what is still on its way. `DeliveryInvariant` says that a response
in a Robustifier, in the catch-up of the Processor, in the hands of the Server
or in flight is the one its session numbered so (`Numbered`, in `Counted` and
`AtHome`), and that a message in flight on a live connection is of the page's
own session. The second is the harder half, since connections outlive sessions
and a thread may hold a channel that was taken away: a live connection has one
`Home`, whoever holds it (the map, the Server's send, the Processor's attach)
holds it for that session (`Serves`), and a connection that has made no session
is nobody's (`PreSessionBlank`). A page without a session has at most one live
connection and hears of its session first (`Fresh`), which is where the early
click would break the argument: hence `DeliveryInvariant` is `DeliveryOK` until
`clickedEarly`, which stays once it is set. `QuietStep` is the frame of the steps that move
what is there; each other action has a lemma.

*Requests.* `RequestInvariant` is the other direction: the page numbers without
gaps and keeps what it numbered (`Written`); a request in flight to its session
is `Genuine` (`InFlight`); nothing reaches a session whose page has not heard of
it (`Unasked`); what the session accepted and the Server has not run is, in
order, what was submitted after what it ran (`Accepted`, `Waiting`); and what
the Server is answering is what it ran last (`Answering`). An early click gives
the page several live sessions; all of them are told the same requests, so that
all this is said of every session the page has or may yet have. After a reload,
messages of the page before may still be in flight: `RequestInvariant` says
that there is a set of `old` connections, all closed, which hold these, and
`Apart` that nothing relates an old connection to a session of this page. Frames
are `QuietBackend` and `QuietClient`.

*The refinement.* Each step maps to one of `ReliableStream` or to a stutter:
SendDRequest to Submit, HandleRequest on the page's session to Execute,
RecordResponse on it to Produce, VisitPackagedResponse to Deliver,
VisitSessionFailure to GiveUp; a page that first hears of its session finds it
untouched, so that VisitSessionSuccess is a stutter. Every fact needed is a
conjunct of the two invariants, before or after the step.

### Paging

`PagingInvariant` joins what the three properties need.

* For each side of the subscription, what the index has beyond what is displayed
  is the residual, nearest first, and what lies beyond the place the iterator
  reached; and a residual shorter than the margin means that nothing does
  (`SidesOK`). Posts and reindexing change both sides of that equation alike
  (`HeldAfterPost`, `CreateHolds`); an answer moves what it takes from beyond to
  displayed (`Taken`).
* What the page shows and what is on its way to it are in order (`Together`), lie
  between the ends of what the backend takes to be displayed
  (`WithinDisplayed`), and are all the query finds there (`AllThereIs`). The
  order holds because an answer is all beyond the displayed range, and because
  there is never more than one (`AnswersOK`): the page asks for one thing at a
  time and for no more than it wants (`RequestsOK`).
* The estimates last sent are the truth, they are the last the page has heard
  or will hear, and none that it may act on promises what is not there
  (`Informed`). This is where the margin is needed: an answer without zgrams
  would be dropped with its estimates, and none is ever sent, because the page
  only asks on a promise and the promise is kept until it is answered.

The operators are characterized first: `Nearest` (that `NearestFirst` lists a
finite set once, in order), `EndIs` and `BeyondIs` for the index, `FoundHolds` and
`TopUpHolds` for a look-up, `EstimatesRight` for counts against cardinalities.

### Channels

`ThreadsInvariant`: what a Reader has handed on, holds in its chunker and has
before it is what the peer said, and what reached the peer, what the Writer
holds and what waits in `outgoing_` is what was sent (`NothingMixedUp`, until a
descriptor is used again under a thread); `numThreadsAlive_` counts the threads
that have not announced their end (`ThreadsCounted`); the goodbye is behind all
of the channel but a late start (`ShutdownIsLast`); and a channel that ended and
is known, or will be, has its goodbye still in the buffer (`GoodbyeIsComing`).

### Filters

`FiltersInvariant`: a page sends its old list first and new ones later
(`RequestsInOrder`); the last update on its way to an answered page, or what it
has if there is none, is the backend's list (`AnsweredAgree`); and of all lists
anywhere, stored or on the way, none is newer than the newest accepted, and two
with one version are the same (`VersionsIdentify`).

### The log store

The theorems hold for any behaviour and what they promise holds until a lifespan
passes without graffiti; then identifiers may be given out twice (see *Known
divergences*). There is no bound on days, records, crashes or failed writes, and
a lifespan is any number of days.

`LogStoreInvariant` is `StoreOK` until `quietWeek`, which stays once it is set
(`QuietWeekStays`). `StoreOK` has a part for each place where zgrams are.

* *The logs* (`LogsOK`). A position cuts the logs of its kind in two; ends are a
  cut for each kind. `Known` are the zgrams that count: what was accepted and
  what else is in the logs, an unfinished post for instance. No two have the
  same identifier. An accepted zgram is in the logs unless it is old, and
  graffiti are in the order of their identifiers, in whichever file they are.
* *The published index* (`PublishedOK`). Its ends cut well (`CutsWell`): all that
  is known below them has smaller identifiers than what the logs hold behind
  them, and what was unlinked was below. The index has all that is known below
  its ends and is not old, and of old zgrams it may leave out only what
  something newer in it follows (`Covers`). Both are needed for the next
  identifier: it follows the last zgram in the index, so that the last must
  never be left out. The one in the scratch directory is the same when it is
  built (`ReindexingOK`).
* *The build* (`PartsOK`). The checkpoint cuts well when it is taken, and goes on
  to while the Server writes: new records are behind both cuts (`BehindCuts`).
  What the build will leave out is old and followed by graffiti in its range
  (`Reaches`), which is where a week without graffiti would break the argument
  (`NeverQuiet`). A build of logs out of order is bound to fail and never comes
  to be published (`Doomed`); a failed one stays failed (`GivenUpOK`).
* *The cleanup* (`CleansUp`): neither the published index nor its ends refer to a
  file that is older than the oldest to keep; nor does what was read again
  after the reset.
* *The memory* (`StateOK`, `MemoryOK`, `PostingOK`). The open files end where the
  Server thinks they do; all that is in memory is in the logs, all that was
  accepted is in memory or old, and smaller than the next identifier; between
  its two writes the Server holds cooked records with the next identifiers, the
  logged ones in the logs, the others at the place where they will be.

After a second write failed (`halfWritten`) the logs hold zgrams that nobody
accepted, in memory nowhere; then only the accepted ones are known, and the
order of the logged files, and with it the success of builds, is given up.

A write is one argument (`Growth`, `GoesOn`): the logs gain records behind all
cuts, and each part survives that (`GrowthKeepsIndices`, `GrowthKeepsParts`,
`GrowthKeepsReindexing`). A build is another (`BuildIsGood`), a bootstrap a third
(`BootstrapReads`, `StartsWhereLogsEnd`, `BootstrapServes`); each action has a
lemma. Underneath are facts about positions, about the files as sets of located
records, and about counting (`AheadCounts`): a record's offset is that of the
open file and the number of records of its kind ahead of it in the batch.

*The refinement.* FinishPost maps to Accept, Start and ResetIndex to Load, Crash
to Stop, NewDay to NewDay, everything else to a stutter, and every step of a
log store that is half written, or had a quiet week, to Damage, whose contract
is void.

### Texts and words

The assumptions are that texts, query words and probes are sequences of code
points (`TextsAssumption`), that the table has for each letter from `a` to `z`
characters outside ASCII (`LookAlikesAssumption`), as `getFuzzyEquivalents`
gives them, and that keys may have a character (`KeySizeAssumption`). The
library's induction theorems cannot be used, so an induction is an argument
about the smallest or the greatest place where something fails
(`SmallestElement`, `GreatestElement`), and that a recursive function is defined
is shown the same way, from the greatest part of its domain on which its
equation has a solution (`SplitFromSolves`, `ScanFromSolves`, `StartsSolves`,
`LookupOrCreateSolves`, `AdvanceSolves`).

*The splitter.* At each place it stands no word reaches over it (`Clear`), and
what it will give from there is the spans that begin there or later, in order
(`SplitFromIsTheRest`). A step takes a word, which is then one of the widest
(`AWordIsASpan`), or a character by itself (`ACharacterByItself`), or white
space; either way the first of the remaining spans is removed.

*The scanner.* It keeps what it has counted and looks for a key only where none
can have begun before (`Fresh`). From there it counts the mentions that begin
there or later (`ScanFromIsTheLater`): a key it reads is the mention that begins
there (`AKeyIsRead`), and where it reads none no mention begins
(`NoKeyBegins`), in particular behind a key that another operator character ends
(`OperatorsEndKeys`).

*The machine.* The language of a set of places is the union of what the pattern
means from each of them (`Lang`, over `Starts`).

* A key is closed under empty transitions (`KeyOfIsClosed`), closing changes no
  language (`AKeyMeansItsNodes`), the language of a closed key goes on in the
  key it leads to (`AKeyGoesOn`), and it has the empty word exactly if it has the
  end of the pattern (`AKeyAccepts`). The work list ends, with a node for every
  key that some node leads to (`EveryKeyIsCreated`).
* While squishing (`ConvOK`) every node means what the key it was made for does,
  wherever its edges lead by now (`NodesMean`); the nodes in use lead to nodes in
  use; the incoming edges of a node are known, all of those from others in use
  are, and each that is noted is there (`EdgesKnown`); and a node in use is the
  start, in meaning. Nodes that look alike mean the same (`TwinsMeanTheSame`), by
  the length of what is left of a word, as pointers to oneself count as equal.
  So a merge keeps all of it (`SquishKeepsTheMeaning`), for any choice of the
  node and of its twin, as long as the edges that are forwarded are all that led
  there; and the nodes that are left are the machine (`FinishKeepsTheMeaning`).

### The index's contents

The assumptions are that an offer has the tag of a metadata record and a batch is
a sequence of offers (`ContentsAssumption`), that a build has at least one shard
(`ShardsAssumption`), and that capacities and bounds are natural numbers. So the
log, the shards of a build and the cache may be of any size.

That the cache is right (`CacheIsTrue`) does not follow from itself: a look-up
reads the store at the location that some index gives, so that every index must
be right first. `IndexInv` is the conjunction, and a run on the constants of
`IndexContents` found it to hold before it was proved.

* *The log* (`IsLog`): the location of each zgram is its place in its file, and
  identifiers ascend. A revision is of a zgram of the log (`RevisionsKnown`).
* *The index* (`Indexes`), while it runs: the frozen part lists the zgrams of the
  first `frozenEnd` records and the dynamic part those behind, each in order, and
  each row tells the identifier and the location of its zgram. As the
  checkpoint is an entry of the log, this survives a build that is published
  after more was posted.
* *The cache* (`CacheHolds`): a zgram under each of its keys that the log has
  under this identifier, and no more of them than its capacity.

One lemma for each way an index comes to be. `BuildLists`: the splitter's ranges
are the files (`RangesAreTheFiles`) and shards cover a range without gaps
(`ShardsCover`); the merge of a shard's logged and unlogged rows has all of
both (`MergeHasAll`), each row appends what it tells (`DigestRowAppends`), and
the shards are gathered in order (`InfosGather`), so that a build that does not
fail lists the zgrams up to its checkpoint. `BootstrapLists`: the records that
are read back are sorted and entered one by one (`AddZgramAppends`).
`PostZgramHolds` and `PostMetadataHolds`: the next identifier is beyond all that
are listed (`ZgramEndIsNew`), and the offset is the length of the file.

A zgram is looked up by binary search across the two parts (`LowerBounds`,
`FoundIsIt`), which finds it because the parts ascend and the dynamic one is
behind the frozen (`ZgramIsFound`); what it reads there is the zgram (`FoundTells`).
This is `EveryZgramIsFound`, and with it the cache is right after a hit, a miss
and an eviction (`CachedHolds`, `LookUpHolds`, `FinishHolds`).

A fold over a set or a sequence is not unfolded: that it is a function which
solves its own recursion is shown from the greatest part of its domain that has
a solution (`SetFoldsSolve`, `DigestFolds`, `IndexFolds`, `DeltaFolds`,
`CacheFolds`), and what it yields by the smallest step at which it would not.

### What is only model-checked

Liveness: fairness and ENABLED are out of the prover's reach (`GraffitiVanish`,
`EventuallyServed`, `SendsAreWritten`, `ShutdownEnds` and what the session layer
delivers in the end). What the recursive operators of `Tries`,
`SearchIterators`, `QueryLexer` and `QueryParser` compute: they recurse over
trees and over several arguments at once, and the provers lose their arithmetic
in a module that reaches a recursive operator. Hence `Search` and `Queries` stay
with the runs, as do the tries of `Texts` (`TriesHoldTheWords`,
`MatchesAreFoundOnce`). Of `IndexContents`, what the index says of words, metadata
and plus-pluses (`WordsMatchZgrams`, `MetadataMatchesLog`,
`PlusPlusCountsMatch`) stays with the runs, and so do the properties of
`Coordinator` that rest on it: they are about nested maps that are inflated,
added up and subtracted by folds within folds, at every build and every batch,
and a proof needs what each computes as a whole, by induction over the data.
What a quiet week does to the log store is described under
*Known divergences*.

## What is not modelled, and the plan

* Error recovery of the generated parser, and its prediction tables: a text that
  needs the former is refused, and the grammar stands for the latter.
* The bytes of the index file, the buffered writers of the builder and the
  sorting program it runs: layout and input or output without a choice.
* The waiting with a time-out of the message buffer, which nobody but the Server
  uses, and the timers of the Server other than reindexing's (the purge does
  nothing).
* The iterators over one identifier and over a zgram's plus-pluses, and the
  branch for a capacity of zero, which no caller has.
* Composing, speech, the title and the ping timer of the page; presentation.
* The compactor (an offline tool), authorization (a library), JSON
  serialization (no state).
* A failing write of metadata: it leaves records in the log that appear at the
  next start, and repeats no identifier.
* Numbers that wrap: `conversions.cc` takes an identifier of more than 64 bits
  modulo 2^64, which `IdModulus` of `Queries` is for; nothing else comes near
  the width of its type.
* `isupper` on a negative `char` (`util.cc:96`) and the address of the first
  element of an empty vector (`parser.cc:407`) are undefined in the language and
  harmless with the library it is built with.

What would come next are the other contents of the index: `WordsMatchZgrams`
rests on the lemmas of `BuildLists` with the words next to the rows, and
`MetadataMatchesLog` and `PlusPlusCountsMatch` on one lemma for each fold of the
metadata builder (`InflateItems`) and on the merged look-ups.
