# FluxTap in TLA+

FluxTap (`src/`) reads packets from a capture file, from standard input, from
tcpdump or from an `AF_PACKET` socket, dissects them, keeps statistics,
conversations, sessions and security findings about them, and shows all of it on
a dashboard fed over WebSockets. It is one Go process with a handful of
goroutines. These modules model its moving parts: what is shared between
goroutines, what is bounded and drops, what can end and what can hang.

Line numbers in comments are those of the file named, at the commit in `src/`.

## Inventory

| Part | Source | State | Operations | Hard about it | Modules |
|---|---|---|---|---|---|
| Capture engine | `internal/engine/engine.go` | pause flag, stop channel, packet number, frame store, packet queue with its counters | `Run` (open, loop, `ingest`, final broadcasts, deferred calls), `Pause`, `Resume`, `Stop`, `queueWS`, `wsFlushLoop`/`flushWS`, `store` | Run, the flusher and any number of callers run at once; queue and store overflow | `FeedQueue`, `LossyFeed`, `Engine` |
| WebSocket hub | `internal/web/server.go` 102-130, 375-426 | the map of connections, one mutex per connection | `Broadcast`, `handleWS` and its reader goroutine | two broadcasters, joins, failures and departures; three kinds of lock | `Hub` |
| Conversation tracker | `internal/flow/tracker.go` | flows by key, their order | `Observe` | eviction of active flows, map and order in step | `Conversations` |
| Session player | `internal/session/player.go` | sessions by key, their order, events, frame numbers | `Observe`, `List`, `Get` | direction is guessed from the first frame; caps | `Conversations` |
| Security analyzer | `internal/security/analyzer.go` | counts per source, findings | `Observe`, `add`, `Findings` | counts are forgotten, thresholds are hit exactly once, the list is trimmed | `Analyzer`, `Ingestion` |
| Notifiers | `internal/notify/telegram.go`, `webhook.go`, `ssrf.go` | time of the last alert per key, `sent`, `last` | `NotifyFinding` | one goroutine per finding, sends fail or hang, the webhook forgets | `Notifier` |
| Kernel tap | `internal/pcap/afpacket.go` | socket, buffer, sequence number | `Next`, `Close` | every receive error is retried | `KernelTap`, `PacketSource` |
| Live capture | `internal/pcap/live.go` | the tcpdump process, its pipe, `closed` | `OpenLive` and three goroutines, `Next`, `Close` | `Wait` closes the pipe that `Next` reads; timer against header | `LiveCapture`, `PacketSource` |
| Reader, writer | `internal/pcap/reader.go`, `writer.go` | position, interface map; the recording's file | `NewReader`, `Next`, `CreateWriter`, `WritePacket` | truncation anywhere, block lengths added in 32 bits, a packet recorded in two writes | `CaptureFile`, `Sources` |
| Statistics | `internal/stats/engine.go` | atomic counters, maps, timeline | `Observe`, `Snapshot` (`Reset` has no caller) | counters and maps are read at different moments; the timeline is cut while seconds go back | `Statistics`, `Ingestion`, `Reports` |
| Reports | `ExportJSON`, `Story`, `Summary` in the engine, `internal/story/story.go`, the API's handlers | none | each reads several components, one lock after the other, and lists the largest flows and sessions | `Run` ingests meanwhile, and full lists leave something out | `Reports` |
| Display filter | `internal/filter/filter.go` | none: a function of a frame and a text | `Match` | the text is split again and again at its operators | `DisplayFilter` |
| Dissector | `internal/decode` | none between packets: a cursor within one | `Dissect` and the reader of each layer, `flowKey` | every length is a claim of the packet; pointers, records and options are loops over it | `Packet`, `TlsRecords`, `DnsMessage`, `Dissector`; `Conversations` (the flow key) |
| HTTP API, command line, page | `internal/web`, `cmd/fluxtap` | token | handlers, `runDashboard` | exit when Run fails | `Engine` (callers, exit), `Reports` |

How they interact: `Run` owns the source and calls, for each packet, the
dissector, the analyzer, the filter, the statistics, both tables, the store and
the queue, in this order. It broadcasts alerts and periodic events itself. The
flusher goroutine empties the queue into `Broadcast`. HTTP handlers and
WebSocket readers call `Pause`, `Resume` and `Stop`, which set a flag or close a
channel and broadcast the status. `Broadcast` writes to each connection in turn.
Each finding starts a goroutine per notifier.

What makes each part correct (the properties are in its module; `PROJECT.json`
lists the hazards they are for, at the lines where they bite, and those that no
property covers yet):

- Engine: Pause and Stop take effect but for the packet under way
  (`PauseAlmostFreezes`, `StopAlmostImmediate`), Stop ends a run that is paused
  (`StopEnds`), `stopCh` is closed once unless Stops overlap (`PanicNeedsOverlap`);
  the store has the newest frames (`StoreKeepsNewest`), a row in the queue can be
  opened (`RowsOpenable`), the last stats are final unless a connection's greeting
  was under way (`FinalStatsComplete`).
- Packet queue: every row is shown, dropped or waiting (`RowsAccounted`), the newest
  are shown in the end (`NewestRowsShown`, `LastFlushHappens`), in order
  (`ImplementsLossyFeed`).
- Hub: no event is missed by a connection that stays healthy (`NothingMissed`), the
  map is never written while it is read (`NoMapRace`), nobody waits for ever
  (`NobodyStuck`); a failed connection is evicted and a closed one unregistered
  (proved: `FailedAreEvicted`, `ClosedIsUnregistered`).
- Conversation tables: order and map in step, the oldest goes first, counters and
  timelines match the frames, and the two tables agree (`TablesAreFifo`,
  `FlowCountsItsFrames`, `TimelineIsPrefix`, `TablesAgree`).
- Analyzer: each offence once, as long as its count is remembered (`ReportedOnce`,
  `StreakIsReported`); the list keeps the newest (`FindingsAreNewest`).
- Statistics: the breakdown by severity agrees with what the analyzer raised for the
  frames counted, also when the list of findings has dropped it
  (proved: `SeverityFollowsFindings`); the timeline is the end of what was observed, cut
  where the second changes (`TimelineIsNewest`).
- Dissector: it reads out of bounds in one place only (`PanicOnlyAtLastOption`), the
  layers tile the packet (`LayersTile`), every ClientHello shown has its fingerprint
  (`Ja3PerHello`), the entries of a DNS message go forward whatever its names point
  at (`EntriesAdvance`), and it ends (`DissectionEnds`).
- Notifiers: an alert is not tried twice within its window (`SpacedOut`), and each
  notification ends (`NotifyEnds`).
- Sources: packets in order and once (`ImplementsPacketSource`), of tcpdump lost only
  when `Wait` closes the pipe, of standard input only behind a record that the reader
  refuses (`LostOnlyByWait`); nothing left behind (`NoLeftovers`), the end is noticed
  (`ExitEndsRun`, `StopTakesNextPacket`), an interface that goes down is none
  (`DownEndsNothing`).
- Capture files: what was recorded can be read again up to the first half-written
  record, if the file header is whole (`RecordingReadsBack`); no byte is taken from outside a packet's block
  (`ClaimsFit`).
- Reports: `ReportIsBacked`, `ChapterHasSession`, `NewTableIsCurrent`; the filter:
  `FilterAsGrammar`.

## Modules and how they correspond to the code

**`LossyFeed`** is the promise of the packet table: rows go in with increasing
numbers, old ones may be dropped, what comes out keeps its order.

**`FeedQueue`** is `queueWS` and the flusher. `wsPending`, `wsDropped`, `wsSent`
are the fields of the same names, `batch` is the local of `flushWS`, `fpc` is
where the flusher is. Its three critical sections are three actions
(`QueueWS`, `TakeBatch`, `CountSent`) and the delivery is a fourth. `offered`,
`mark` and `feed` are history. It implements `LossyFeed` under the mapping at the
end of the module.

**`Engine`** extends `FeedQueue` with `Run` (one action per step of its loop),
`Pause`, `Resume`, `Stop` as called by `Ctl`, the store, and what the dashboard
was last shown (`pill`, `shownStats`, `lastAlert`, `doneSent`). A dashboard may join
at any moment (`Joins`): `handleWS` registers it and then greets it with stats and a
status that were evaluated before they are written, while Run broadcasts its own. A packet is its
number; whether it passes the filter, raises a finding or can be recorded is
chosen. `Broadcast` is one action here: the hub has its own module.

**`Hub`** is `Broadcast` and `handleWS`. `readers` and `writer` are the state of
`s.mu`, a `sync.RWMutex` (a waiting writer holds back new readers), `connMu` is
the mutex of each connection, `hpc` says where each goroutine is. Every lock and
unlock is an action.

**`Conversations`** is `Tracker.Observe` followed by `Player.Observe`, as `ingest`
calls them, each with its own limit. `seen` is history. A host is a number, so
that the comparison in `flowKey` is one of numbers. The guard at `tracker.go:42`
(`"|:-:"`) compares against a key that `flowKey` never produces: every frame is
tracked, and the model has no such guard.

**`Analyzer`** is `Observe` and `add`; a frame is what `Observe` tells apart, with
the severity that the dissector has given it. `all`, `syns`, `longs` and `streak`
are history. **`Statistics`** is `stats.Engine.Observe`, with a bounded timeline and
unbounded maps as the code has them; a timestamp of 1970 counts as any second of
`Clock`. `counted` is history. **`Ingestion`** takes a frame through both as `ingest`
does: the analyzer sees every frame and may mark it, the display filter hides some,
the statistics count the rest by the mark. `shownNos` is history.

**`Notifier`** is `NotifyFinding` of both notifiers; which one it is is chosen at
the start (`isWebhook`). Time is kept as ages. `lastTry` and `tried` are history.

**`PacketSource`** is what `Run` relies on when it calls `Next`: order, no
duplicates, nothing after the end. **`KernelTap`** and **`LiveCapture`** implement
it. `KernelTap` has the socket's buffer and its pending error, the interface, and
the part of Run's loop around `Next`. `LiveCapture` has the writer process, the
pipe, the opener, the header goroutine, the waiting goroutine, `Next` in two
reads, `Close`, and Run's pause loop (`held`), in which `Next` is not called; whether
it reads tcpdump or standard input is chosen at the start (`stdin`). tcpdump writes a
classic file of plausible records. What comes from standard input may be none, or
pcapng: its header may be refused, a record's length may be implausible
(`ErrTruncated`), a block may be no packet or make the sums of lengths wrap.

**`CaptureFile`** is the third source, and the recording. What a file contains is
chosen as the reader comes to it: the magic and byte order, classic records, or
pcapng sections, interfaces, enhanced, simple and other blocks, each cut off
anywhere. The reader's 32-bit sums wrap at `Wrap`. The recording is kept as cells
on disk; `WritePacket` is two writes, either may fail (its error is ignored by
`ingest`) and the process may exit between them; afterwards a second process plays
the file back, which it cannot when the file header is missing. Link type 0 is
recorded as Ethernet (`RecordedLink`). **`Sources`** is `openSource`: which of the three kinds a run
reads, a kernel tap that cannot be opened being replaced by tcpdump. It composes
`KernelTap`, `LiveCapture` and `CaptureFile` as instances, of which one moves, and
states that each implements `PacketSource`.

**`Packet`**, **`TlsRecords`**, **`DnsMessage`** and **`Dissector`** are `Dissect`,
layer by layer in one module each for what is shared, for TLS, for DNS, and for
the rest. `at` names the function that reads, `cur` and `end` are its cursors. A
packet has a size, and each field is chosen when it is read: a length field claims
one of the boundary values (nothing, exactly what is left, one more) or one of
`Few`. `known` remembers what was read of bytes that are read again, as by
a DNS pointer that leads back or by the second walk of a ClientHello.

**`Reports`** has `Run` take filtered frames through the components lock by lock
(a component is the number of the last frame it has seen), while handlers make an
export, a story or the first messages of a WebSocket connection, also lock by
lock and in the order of the code; the summary is printed after `Run`. Every frame has
a flow key, only frames of an IP protocol a session. A list has the largest keys in
bytes, as many as its limit (100 in an export, 80 for a story, 40 in first messages),
and of equals any (`Largest`, `cuts`). What a component forgets at its own limit is
left to its own module. A chapter of a story looks for its session among the listed
as `story.Build` does. `table` is what a dashboard was last told of the packet count.

**`DisplayFilter`** is `Match`: how the text is split, and how a condition is
resolved and compared. It is given a second time as the syntax tree of the text
and what the tree means; `FilterAsGrammar` (in `MCReports`) compares the two for filters
in which an operand is in parentheses if it binds weaker, if it is a negation
negated once more, or if it has the same operator in the other spelling. It
is recursive, and therefore only TLC's. `Reports` takes the filter as a parameter.

The definitions marked `Bug:` in the modules belong to no specification: each is
the definition that follows it with a plausible mistake, and `PROJECT.json` says
which property notices it.

## Runs

| Run | What it shows | Bounds, and why they are enough |
|---|---|---|
| `engine_control` | at most one packet slips through a Pause; a double close of `stopCh` needs two overlapping Stops | 2 packets, an HTTP handler and a WebSocket reader, 3 calls: a caller overtakes another, and Run, at any step |
| `engine_live` | a stopped engine ends, also a paused one; the flusher flushes once more when Run is over | a file replay (a live source may keep Run in `Next`: see `sources`), 2 packets, 2 calls |
| `engine_store` | rows are accounted for and the newest shown last; store, rows and stats of a replay agree; the queue implements `LossyFeed` | 5 frames, store of 4, queue of 2, a dashboard that joins once: the store is trimmed, the queue overflows at every step of the flusher, the greeting overtakes or is overtaken by every broadcast |
| `hub` | no map race, nothing missed by a healthy connection, nobody stuck | 2 connections (symmetric), each of which may join, fail, command and leave; the engine broadcasts 2 events and connection readers broadcast too |
| `conversations` | both tables: order, counters, timeline, and their agreement | 8 kinds of frame, 5 conversations, tables of 2 and 1, 6 frames: entries are pushed out and come back |
| `ingestion` | who is reported and how often; what the list of findings and the timeline keep | 3 sources, one frame of each hidden; counts for 2, thresholds 2 and 1, list of 3, timeline of 2 (600 in the code), 6 frames: counts are forgotten, the list is trimmed, seconds go back |
| `notifier` | alerts are spaced out, every notification ends | telegram and webhook, dry or not; 3 alerts of 2 findings, a window of 2 ticks, a timeout of 1; the webhook remembers 1 key |
| `sources` | whichever source is opened: packets in order and once, nothing left behind, its end or a Stop noticed and an interface that goes down survived, a recording read back, no byte from outside a block | kernel: 4 packets, socket of 2, the interface goes down once. Live: 3 records, the writer hangs, exits or is killed anywhere, Run is paused and resumed, standard input holds what the reader refuses. File: 3 blocks, three link types of which one is 0, records of up to 3 bytes, one failing write; 2^32 is scaled to 6 and the 20 fixed bytes of a packet block to 2, so that a claim can wrap within a block |
| `dissector` | where a packet is read out of bounds, how layers tile it, fingerprints, DNS names, termination | one packet, of any of 9 sizes that end within or behind each header and 5 link types; the fixed 34 bytes of a hello are scaled to 2, the 240 of DHCP to 10, 64 visited lengths to 3, 12 TLS records to 2, 16 HTTP/2 frames to 3: each limit is reached and each reader meets its end |
| `reports` | what a report refers to is in it but for the frame under way and what a full list leaves out; a new dashboard is not stale; a filter in enough parentheses means what it says | 3 frames between 3 hosts, shown or hidden, with three keys of which two have a session; lists of 1, so that every list is cut; one handler, for handlers do not disturb each other; all filters of four conditions and two levels of operators |

Two runs show where the code does not do what a comment or a document says of it
(`findings` in `PROJECT.json`):

- `kernel_stop_claim`: on a quiet interface Stop never takes effect
  (`afpacket.go:60`).
- `live_end_claim`: when tcpdump exits, `Next` may return an error that is not
  `io.EOF`, and the process exits with it (`main.go:277`).

`CHECK_DEADLOCK FALSE` is in every configuration: every part may come to rest
(Run has returned, the packets or calls that the bounds allow are used up).
`SYMMETRY` is used in `hub` only, which checks no liveness: its state graph has
no cycles, since nothing happens twice, so that "nobody is stuck" can be said of
the states in which no goroutine can go on (`NobodyStuck`). `CanGo` says when one can,
with the very guards that the actions use (`MayLock`, `MayEnter`, `MayRead`,
`MayTake`, `MayGreet`) rather than with `ENABLED`, so that it can be proved about.
Not counted are steps that only a client or the engine can cause.

## What the models show besides

Each of these is in the behaviours of a module, as the code has it; none of them
has a run of its own.

- The dashboard's LIVE pill may stay wrong: `Status()` is evaluated before it is
  broadcast, and two callers, or a caller and Run's end, may deliver theirs in
  the other order (`engine.go:107`; `pill` and `st` in `Engine`).
- A session that was entered with the server's frame, as in a capture that starts
  with a SYN-ACK or after an eviction, has its directions exchanged
  (`player.go:16`; `BytesOnOneSide` is what remains).
- Telegram's key has the destination in it, though the comment speaks of rule and
  source: a source that scans several destinations alerts for each (`telegram.go:73`).
- `IPv4`'s total length and fragment offset, IPv6's payload length and UDP's length
  are shown but not used: Ethernet's padding is read as payload, and a later
  fragment as a transport header. A UDP payload of more than 12 bytes between
  unknown ports that is not QUIC is read as DNS (`Dissector`).
- A window scale option at the very end of a TCP header that claims no value is
  read behind the captured bytes, and the process panics (`tcpudp.go:112`,
  `PanicOnlyAtLastOption`).
- A pcapng file is always recorded as Ethernet, for the link type is asked for
  before a block is read (`engine.go:226`). A packet's original length is lost in a
  recording. A file cut right behind a record's header ends like a complete one.
  Later sections of a pcapng file do not reset the interface numbers.
- A length claimed by an enhanced packet block may wrap in the sum that checks it;
  the reader then panics (`reader.go:241`, `ClaimsFit`).
- A port scan raises an alert and leaves its frame's severity alone: the breakdown
  by severity does not show it (`analyzer.go:46-54`). A host that talks to itself
  counts twice among the talkers. The seconds of the timeline may repeat.
- An interface that goes down does not end a kernel capture: `Next` retries every
  error (`afpacket.go:101`, against `main.go:277`).
- `AvgPacketSize` divides counters that are read at different moments. A
  connection's first stats may hide Run's last for good, if they were taken before
  and are written after them (`server.go:396`, `lateHello` in `Engine`).
- `filter.go:11` names and, or and not without exception, but a filter in which
  operators side by side are spelled differently (`a or b || c`) or a negation is
  negated (`not not tcp`) is not understood without parentheses: what is left over
  is taken for the name of a protocol (`filter.go:27-62`, `Doubled`). Of a port
  compared by order only the source port counts.
- A story is built from the 80 largest sessions: a scan's, of one small frame each,
  are the first to be left out. Its chapters then name another session of one of the
  two hosts, or none (`engine.go:411`, `MatchSession`, `CutShort`).
- The display filter does more than `SECURITY.md:33` says ("only hide rows"): a
  frame that it hides is not counted and enters no table (`engine.go:337`,
  `IngestFrame`). A finding of such a frame has no packet to open; a flow
  without an IP protocol has no session.
- Telegram and the webhook mark a finding before they send it: one failed send
  silences it for 60 seconds (`telegram.go:80`, `Notifier`).
- A record of standard input that claims more than 16 MiB ends the capture with an
  error, and what follows it is not read (`reader.go:176`).

## Fairness

Weak fairness of a goroutine's steps says that the Go scheduler runs it
(`FairSpec`, `NotifierFairSpec`, `TapFairSpec`, `LiveFairSpec`, `SourcesSpec` for
the source that is in use, and `DissectorSpec`, for a dissection is a sequential
function). Strong fairness
is used once, for the flusher's `select` between its ticker and its stop channel,
which chooses at random among the ready ones. A write to a connection ends because
of its 2s deadline, a send because of the client's 8s timeout, a lookup because the
resolver gives up. Reading a file returns. Nothing is assumed of the network: no
packet has to arrive, no peer to answer, no interface to come back; and nobody
has to press a button: `ExitEndsRun` speaks of captures that are not paused for ever
or again and again, and `DownEndsNothing` of packets before a Pause. A process that was killed exits. The exit of the process
ends all obligations (`Alive`).

## Proofs

TLC checks the instances above; TLAPS proves the following for every value of the
constants that the named assumptions allow. Each module of proofs has an
inductive invariant, the lemmas that every action keeps it, and the theorems that
follow. Where a property needs facts that nothing else does, they form a second
invariant, proved inductive on top of the first.

- **`EngineProofs`**: first the feed queue. `FQInv` adds to the properties that the
  rows offered are increasing, that a batch ends at `mark`, that the feed lies below
  the batch and the batch below the queue, and that what the last flush took was the
  newest. Without these `FeedInOrder` and `NewestRowsShown` are not inductive: they
  speak of the feed only, and a step adds a batch taken earlier. Proved: typing,
  `RowsAccounted`, `KeepsNewest`, `FeedInOrder`, `NewestRowsShown`, and that the
  queue implements `LossyFeed`. Then the engine. `Inv` is the queue's invariant and
  the engine's own. Every step of the engine is a step of the queue or leaves it
  alone, so the queue's theorems hold of the engine (`EngineUsesFeedQueue`,
  `EngineFeedIsLossy`). The pause and stop bounds need to know where Run is: with the
  flag set, a packet was numbered only if Run had already passed its check. Proved
  too: at most one packet after Pause and after Stop, a double close only by
  overlapping Stops, and `StoreKeepsNewest`. `RowsInv` ties the queue to the store: whatever was offered
  was stored before, and whatever was shown was offered; with the store's being the
  end of what was stored, this gives `RowsOpenable`. `FinalInv` says that nothing is
  observed after Run's last stats, and that a greeting that has yet to write its stats
either took them after that or is counted late, which gives `FinalStatsComplete`.
- **`HubProofs`**: `HubInv` says which goroutine holds which lock at each of its
  program points and what it may therefore touch. Proved: typing, `NoMapRace`,
  `ClosedIsUnregistered`, `FailedAreEvicted`. `DeliveryInv` adds that a goroutine has
  connections left to visit only while it holds the read lock, that nothing is due
  on a connection before it is registered, and that its inbox is empty until then:
  what a broadcast delivers to one connection is then one event more, whoever else
  joins or fails meanwhile (`NothingMissed`). `WaitInv` says who may hold a lock: who
  is in a write or a greeting has its connection's, who ranges has `s.mu` for reading,
  who has announced a change of the map is on its way to it. Nobody therefore holds
  one lock and waits in a circle: if nobody can go on, no write is under way, so the
  connections' locks are free, so no range is under way, so `s.mu` has no reader, so
  whoever has announced a change could make it (`NobodyStuck`).
- **`NotifierProofs`**: `NotifierInv` says that the age remembered of a key is that
  of its last attempt, and that a key tried within the window is only forgotten by a
  webhook that has tried more keys than it remembers. Proved: typing, and
  `SpacedOut` for every window, number of findings and number of keys.
- **`IngestionProofs`**: `IngestionInv` says that the list is the end of what was
  raised, that what was raised names frames seen, and that the counters of severity
  agree with the numbers of the frames counted. The severity property alone is not
  inductive: it needs to know that a frame's number is fresh. Proved: typing (with
  the bounds of the maps), `FindingsAreNewest`, `SeverityFollowsFindings`. `OnceInv`
  is about counting: a source's count is what it has sent until there are more
  sources than are counted, and its reports are decided by that count; a streak is
  at most the count, and a count that has reached the threshold was reported. Proved
  from it: `ReportedOnce`, `StreakIsReported`. `TimelineInv` is `TimelineIsNewest`
  with the types it needs; an observation is two steps of the argument: the second's
  bucket is found or added, which may push out the oldest, and then the frame is
  counted in it. A bucket's bytes are the difference of two running totals, so that
  no sum over its frames is needed.
- **`ConversationProofs`**: `ConvInv` ties order, maps and history together: an
  entry was made by the frame it names as first, the order is sorted by these
  frames, and what was pushed out was entered earlier than all that is listed.
  Proved: typing, `TablesAreFifo`, `PushedOutAreOldest`, `BytesOnOneSide`. `CountInv`
  says what every entry has counted, of frames up to the one the tracker has
  observed and up to the one the player has, which may be one behind; bytes are
  given by their partial sums, of which the invariant says that they exist and all
  end in the same number; `BytesAreSince` shows that number to be the one the
  recursive function of `FlowCountsItsFrames` gives. Proved from it:
  `FlowCountsItsFrames`, `TimelineIsPrefix`, `TablesAgree`.
- **`ReportsProofs`**: `RepInv` says that every component has seen all frames the
  filter shows, but for the one under way as long as `ingest` has yet to take it
  there; that a handler still has to read only what its report reads after all it
  has read already; that what was read later has seen what was read earlier, but for
  one frame (`LaterInv`); that a list is one of the largest for the frames its
  component had seen when it was read, which frames that came later do not change
  (`CutInv`); and what the table of a connection that is being set up may show.
  A key that is missing from a list is then smaller than all in it. Proved:
  `ReportIsBacked`, `ChapterHasSession`, `NewTableIsCurrent`, for every filter and
  every limit of the lists.
- **`SourcesProofs`**: `SourcesInv` is an invariant for each source. `TapInv`: the
  socket holds packets in increasing order, later than the buffer's, which is later
  than what was returned. `LiveInv`: an open pipe holds exactly the records written
  and not yet read, perhaps half a record behind them, how many of them were read and
  how many of these were packets (`CountsOK`), and each goroutine's place bounds the
  others'; only `cmd.Wait` makes it smaller by anything but a read.
  `FileInv`: the recording begins with the records of the packets kept, at offsets
  that each determine the next (`Offsets`), and playback is at one of them until it
  is past the last (`PlayedTo`); `RecordingReadsBack` speaks of the end only and is not
  inductive. Proved: `LostOnlyByWait`, `RecordingReadsBack`, `ClaimsFit`, and, step by
  step from these invariants, that every source implements `PacketSource`.
- **`DissectorProofs`**: `DissectorInv` says that the layers read so far are headers
  that end at `pos`; which bytes each reader may index and where they end (a TCP
  header with options has an IP header below it and ends behind them); that a DNS
  name's reader is never in front of its entry and keeps numbers only; and what
  `parseClientHello` has found of a hello, field by field: header, session id, cipher
  suites, compression methods, and a set of extensions each of which leads to the
  next. `buildJA3` walks the same bytes a second time and relies on these findings:
  it cannot stop earlier, so that the hellos shown and the fingerprints printed
  differ by one exactly while that walk is under way. `Ja3PerHello` speaks of the end
  of a packet only and is not inductive. Proved: typing, `PanicOnlyAtLastOption`,
  `LayersTile`, `Ja3PerHello`, `EntriesAdvance`, for every packet size, link type,
  limit and claimed length.

The assumptions on constants are those named in the modules (`ASSUME`); TLC
evaluates each in a run. They say that limits are positive numbers where the code
has positive ones, that the lengths of frames and those a packet may claim are
natural numbers, and what a frame's fields are. Two say more. `FramesAssumption`: a
frame without an IP protocol is of no application that sessions are kept for, and
its application's name is no protocol's; so it is for what the dissector returns, and
without it the two tables would not name the same conversation alike.
`FileAssumption`: the empty name, which stands for a recording without a header, is no
link type, and link type 0 is another than Ethernet. `ReportsAssumption`: a flow key
names the hosts of its frame, as `flowKey` makes it.

`KeepsNewest`, `FeedInOrder`, `UsesFeedQueue`, `StopAlmostImmediate`,
`ClosedIsUnregistered`, `FailedAreEvicted`, `PushedOutAreOldest`, `BytesOnOneSide`,
`SeverityFollowsFindings` and the type invariants are proved and in no run's configuration.

Only model-checked:

- all liveness properties: TLAPS does not do fairness and `ENABLED`;
- `FilterAsGrammar`, which is about a recursive definition.

## What is not modelled

- Texts: what the dissectors print of a field, the hex dump, the formatting of rows,
  exports and messages. A frame is what the component at hand tells apart.
- The order of talkers and conversations in a snapshot and the cut of the talkers,
  its rates, and `stats.Engine.Reset`, which nothing calls.
- The goroutine that reads tcpdump's stderr for its messages (`live.go:75-94`): it
  shares nothing with the capture but the texts of errors.
- Real time, beyond the order of timeouts: how long a slow connection holds up
  Run, how old a time stamp is.
- Data races on plain fields that only reach a status line (`e.source`,
  `cfg.Iface`, the notifiers' `sent` and `last` in `Status`).
- Authentication, origin check, secret redaction and the webhook's address
  rules: input validation without state.
- Command line flags, printing, and the exit of the `parse` command while
  notifications are under way.
- The page's own JavaScript; scripts and sample data.

## Plan

What could follow: `Hub` composed under `Engine`'s broadcasts, for the order of events
at one connection; and the `parse` command, which exits without waiting for
notifications.
