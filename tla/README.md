# IoT-sniffer: TLA+ models and proofs

IoT-sniffer captures Modbus/TCP and MQTT traffic (over TCP or WebSocket), reassembles
and decodes it, measures request/response latency, stores what it sees in SQLite and
pushes it to a browser page, which lists the packets, inspects them, draws a graph of
the hosts and tabulates performance. This directory holds TLA+ modules that model the
program, TLC configurations that check them on small instances, and TLAPS proofs. Source
references are to files below `src/`.

## 1. Inventory

Three threads run in the Python process: scapy's capture thread (`_on_packet`, under
`CaptureEngine._lock`), the asyncio thread (the push server) and the store-writer thread.
The browser page is a fourth actor.

| Component | State | Operations | Interacts through | Hard behaviour |
|---|---|---|---|---|
| TCP reassembly (`sniffer/transport/tcp.py`) | `initial_seq`, `next_seq`, `last_seq`, `pending`, counters | `push` | called by `_on_packet`; returns bytes | loss, reordering, duplicates, re-cut retransmissions, sequence wrap |
| WebSocket unmasker (`sniffer/transport/websocket.py`) | `upgraded`, `handshake_buf`, `buf`, `fragments` | `feed` | between `push` and `parse_buf` | chunk boundaries, fragmentation, control frames, per-direction handshake |
| Parsers (`sniffer/protocols`, `_drain_*` of `capture.py`) | `parse_buf` | `_drain_modbus`, `_drain_mqtt` | packets to `_emit_*` | chunk boundaries, late join, malformed heads, offsets of the field maps |
| Latency tracker (`sniffer/metrics/latency.py`) | `pending`, `matched`, `expired` | `open`, `close`, `expire` | capture thread with the lock, ticker without it | sweep racing open/close by another clock, shared and reused ids, lost and mistaken packets |
| Other metrics (`throughput`, `derived`, `aggregator`, `perf`) | windows, counters | `record`/`add`, snapshots, exports | capture thread writes, asyncio thread reads | unlocked reads, eviction |
| Store (`sniffer/store.py`) | `ring`, `_q`, `_stop`, SQLite file | `record_*`, `recent`, writer loop, `start`, `stop` | capture and asyncio threads put, writer gets | shutdown, failed writes, ring limit |
| Push server (`sniffer/server.py`) | `clients`, tasks | `_publish_frame`, `_broadcast`, `_handler`, tickers, queries | `run_coroutine_threadsafe`, websockets | connect during broadcast, slow and dead clients |
| Browser connection (`frontend/live.jsx`) | `ws`, `state`, `_retry`, `_pending` | `_connect`, `query`, `disconnect` | WebSocket messages, callbacks of the page | reconnection, late and lost replies, timeouts |
| Page (`frontend/app.jsx`) | `packets`, `selectedId`, `capturing`, `activeTab`, banner, export panel | `appendPacket`, `onSelect`, `onClear`, `onExport`, effects | callbacks of the connection | capped list, repeated backfills and overtaking broadcasts, ids that two packets share, stale selections and awaits |
| Packet inspector (`frontend/app.jsx`) | none of its own | payload choice, dumps, field table, registers | field map and bytes of a packet | offsets, limits, signs |
| Connection graph (`frontend/graph.jsx`) | `overrides`, `showProtos`, remembered `devMap`, localStorage | `buildDeviceMap`, `updateField`, layouts | the packet list | stale map, totals by different keys, degenerate layouts |
| Performance tab (`frontend/perf.jsx`) | `sort`, `busy`, `format` | `synthFromPackets`, charts, `sortFlows`, CSV and spreadsheet | packet list, connection | quantiles of few samples, empty domains, quoting |
| Demo traffic (`frontend/sim.jsx`) | `_txid`, `_pktId` | `synthModbus`, `synthMqtt` | packets to the page | field maps that shift with choices, counters that never wrap |
| Page shell, deployment | – | markup, styles, Docker, nginx | – | not modelled |

What makes each correct, in one line. Reassembly: what is delivered is gap-free and in
order. Decoding: it does not depend on where chunks are cut. Latency: it belongs to its
own request, and pending requests do not leak. Store: nothing is lost, repeated or
reordered on the way to disk while the server runs. Push server: a connecting client
misses no frame. Connection and page: one connection, a list without unnoticed gaps, a
selection that stays where the user put it, exports that end and match what was asked,
a banner that hides no trouble. Inspector and demo: the same frame is shown in the same
way whoever described it. Graph and performance tab: all views tell of the same packets,
user edits win, drawings stay inside and apart. `PROJECT.json` lists the hazards, each at
its line, with the properties aimed at it.

## 2. Modules

| Module | Models | Role |
|---|---|---|
| `ByteStream` | what a parser may assume of a reassembled direction | abstract specification |
| `TCPReassembly` | `TCPStream.push`, retransmit surfacing | detailed specification |
| `MC_TCPReassembly` | TLC instance: the segments | model checking |
| `TCPReassembly_proof` | theorems about `TCPReassembly` | proofs |
| `Decoder` | `WebSocketUnmasker`, `_drain_*`, packet lengths | detailed specification |
| `MC_Decoder` | TLC instance: the packets | model checking |
| `Decoder_proof` | theorems about `Decoder` | proofs |
| `LatencyTracker`, `LatencyTracker_proof` | `open`, `close`, `expire` and the traffic they see | specification, proofs |
| `Store`, `Store_proof` | ring, queue, writer, start and stop | specification, proofs |
| `PushServer`, `PushServer_proof` | hand-over, broadcast, handlers | specification, proofs |
| `Metrics`, `Metrics_proof` | windows and per-flow tables, their unlocked readers | specification, proofs |
| `Feed` | what the push server promises its clients about frames | abstract specification, implemented by `PushServer`, used by `Page` |
| `LiveConnection` | browser connection and the server's answers: actions only | extended by `Page` |
| `Page`, `MC_Page`, `Page_proof` | packet list, selection, banner and exports over `LiveConnection` and `Feed` | composition, model checking, proofs |
| `Simulator` | the packets of `sim.jsx` | pure operators |
| `FieldMap` | field maps of `parse_modbus` and `parse_mqtt`, `frameToPacket` | pure operators, extends `Simulator` |
| `Inspector` | what the inspector shows of a packet | pure operators, extends `FieldMap` |
| `DemoFeed`, `MC_DemoFeed` | the demo mode beside the live path for the same frame | composition, model checking |
| `Lists` | JavaScript's `filter`, `sort` and the keys of a `Map` | pure operators |
| `HostMap` | `buildDeviceMap`, presets, labels and their edits | pure operators, extends `Lists` |
| `GraphViews` | sequence diagram, topology, matrix | pure operators, extends `HostMap` |
| `Analysis` | rail, statistics, charts, flow table, spreadsheet | pure operators, extends `GraphViews` |
| `Views`, `MC_Views`, `Views_proof` | graph, performance tab and rail over a changing list | composition, model checking, proofs |

`LatencyTracker`, `Store`, `PushServer` and `Metrics` are checked without an MC
module: their .cfg files only give values to constants.

Operators named `X_Something` directly above `X` are mutants: the same definition with a
plausible bug. `PROJECT.json` pairs each property with a mutant under which TLC finds it
violated, which is the evidence that the property says something about the code.
`TypeOK`, where a module has it, is what the proofs start from; it is in no run.

### How state and actions correspond to the code

**TCPReassembly.** Variables are the fields of `TCPStream` under their own names, plus
`reported` (`FlowState.last_retransmits`), the local bytearray `out`, a program counter,
and history: `delivered` (all bytes returned), `joinPos`, `captured`, `ordered`,
`pushes`. A byte is its position in the sender's stream; `SeqOf` gives its sequence
number, which is all `push` sees. `PushEmpty`, `PushDuplicate` and `PushBuffer` are the
three ways through `push` before the drain loop, `DrainChunk` is one iteration of the
loop, `Return` the return together with the retransmit bookkeeping of
`_on_packet`. Sequence numbers of segments wrap at `SeqMod`; `next_seq` and the keys of
`pending` do not, as in Python.

**Decoder.** The sender's bytes are fixed first (`SendFrame`, `SendPing` build the
WebSocket framing), `Join` lets the sniffer start late, then `Feed` hands over chunks of
any size. `FeedHandshake` and `FeedFrames` are `feed`, `UnmaskFrame` an iteration of
`_drain`, `SkipByte` and `EmitPacket` an iteration of `_drain_mqtt` or `_drain_modbus`.
Packets are miniatures: two field-bearing and two reserved MQTT types, a length field in
base `Radix`, a shortened MBAP header. Which fields a body has is abstracted to the
number of bytes it needs (`MinBody`). A WebSocket header is one token, so a cut inside a
header is represented by a cut before it: `_parse_frame` returns `None` and consumes
nothing in both. Masking is its own inverse and is not represented.

**LatencyTracker.** `Request`, `Response` and `Unanswered` are the traffic; the open or
close each causes is part of the action, as `_emit_*` does both in one call. Both ends may
send requests, and an id may be used again at any time, by the same end (a retransmission,
a new request before or after the answer) or by the other. The kind of an exchange is what
`_looks_like_response` makes of its packets: "ack" is taken as it is, "echo" is a response
taken for a request (writes), "misread" a request taken for a response (a Modbus read of
an address 0x03xx, whose first data byte is the count of the other three), which calls
`close` instead of `open`. There are two clocks: packets carry `stamp` (`pkt.time`), which
is anywhere between the last packet's time and `clock` (`time.time()`), by which `expire`
goes. `unmeasured` and `measured` are history. `expire` runs on
the other thread without the lock, so it is one action per dictionary step: `ExpireBegin`
(cutoff and iterator), `ExpireVisit`, `ExpireRaise` (the dictionary changed size, the
ticker's handler catches the error), `ExpireScanned`, `ExpirePop`, `ExpireEnd`.

**Store.** `RingAppend` and `FramePut` are the two statements of `record_frame`;
`EngineStop`, `StopSet`, `StopPut`, `Exit` the end of `serve` and `stop`; `Writer*` the
writer loop. SQLite is external: opening and every INSERT may fail. `Exit` may happen
with the writer unfinished (`join` has a timeout and the thread is a daemon).

**PushServer.** Asyncio switches tasks only at an `await`, so an action is the code of a
task between two awaits. A send to a client whose transport is full writes the message
and waits (`at`, or handler state "drain"). `HandlerAdd` covers `clients.add` and
`recent`, between which there is no await. Frames are numbers in capture order; `joined`
is history. The metrics and perf messages that follow the backfill count as one
(`Snapshots`); `HandlerRaises` is `metrics_snapshot` raising there because a window
changed under it.

**Metrics.** The capture thread's part of `_emit_*` after the latency tracker is one
action per deque, list or dictionary operation, in the order of the code, with a program
counter `cap`; the engine lock is held exactly while `cap` is not "idle". The asyncio
thread runs one job at a time (`loop`). `metrics_snapshot` is split into the reads it is
made of, each a job that may start at any time, since no local is carried from one to the
next; `PerfSnapshot` needs the lock and is one step. `IterBegin`, `IterEnd` and
`IterRaise` are Python's iteration of a deque: it ends normally only if the deque did not
change. `TableBegin` to `TableEnd` are the two loops of the per-flow export. A
packet's time (`PacketTimes`) lies up to `MaxLag` behind the clock the readers go by, and
does not run back. Windows hold frame numbers; the aggregator's sorted list and its shadow
deque hold the same samples, so one sequence stands for both, and the operations of
`sortedcontainers` are taken as atomic. `Evicted` is what the `popleft` loop of an eviction
leaves: the deque behind the
first run of stale events.

**LiveConnection and Page.** JavaScript runs one callback at a time: an action is one
callback or one user event, after which React has rendered. `ServerAnswer` is
`_handle_client_message`. A connection failure fires `onerror` and then `onclose` in one
task, so state "err" is never seen between actions. Whether `new WebSocket` throws
depends on the url only (`refused`). `Page` adds to each callback of the connection what
the page does in it (`PageOpen`, `PageClose`, `PageConnect`, `ExportReply`,
`ExportTimeout`). Frames are numbered as the server records them.

**Feed, between PushServer and Page.** The page's sockets are clients of the push server,
which for the page is `Feed`: `Record` and `Broadcast` are separate steps, as the capture
thread only schedules the broadcast; `Accept` adds the client and fixes its backfill;
`Deliver` brings the next frame of the backfill or any frame of a broadcast under way.
So a frame that is in the ring but not yet broadcast when a client is added comes twice,
also on a first connection, and broadcasts overtake the backfill and each other. What
`Feed` leaves out of the server is the waiting for slow clients and the order of sends;
that `PushServer` nevertheless does nothing else is the theorem `ServerIsFeed`. The server
may accept a socket before the page sees it open (`ServerAccept`, `PageOpen`). The page
lists frames as they come, so its list may be out of order and repeat rows: no property
denies that.

`Identity` is the part of a packet's id that frames may share: `frameToPacket` builds it
of timestamp, `correlation_id` and source port, and all packets of a segment have one
timestamp, so that a broker's PUBACK and PUBLISH with one packet id in one segment cannot
be told apart; 0 is a frame without `correlation_id`, whose id is drawn at random at each
delivery. Leaving a tab drops the panel's state while its export goes on. `joined`,
`dropped`, `chosen`, `dismissed`, `job` and `files` are history.

**Simulator, FieldMap, Inspector, DemoFeed.** What `sim.jsx` draws at random is a record
of choices; `Demo(c)` is the packet the synthesizer makes of it, `Live(c)` the one the
page makes of the same bytes after the server's parser. A field has name, group, offsets
and number; texts have the marker `NoNumber`. `DrawModbus` and `DrawMqtt` are a call
of `synthPacket`, each with its counter; the limits of previews and dumps are constants. A
slice that the end of a buffer cuts short is a number all the same (`CutInt16`, a CONNECT
without client id), which the demo's own packets do not meet.

**HostMap, GraphViews, Analysis, Views.** React draws a function of the state, so the
views are operators and `Views` has only the state: packets, tab, chips, labels, sort
order, and the device map that `useMemo` keeps from one rendering to the next (`Render`).
Leaving a tab unmounts its view. Writing to localStorage may fail, which the code
swallows. `Lists` defines filtering, grouping and sorting by the positions they keep and
the order they put them in, rather than by `SelectSeq` and `SortSeq`, of which nothing can
be proved. Coordinates and means are integers (whole SVG units, rounded down), a
probability is its numerator. The places of the topology, by which devices are ranked and
compared, are exact: they are multiples of 1/`Unit` of an SVG unit, and `Unit` divides
the shares of any number of devices. The cells of the spreadsheet are numbers, which
`coerceSheetCell` reads back as they are; its trimming and its reading of texts that look
like numbers are left out.

## 3. Runs

| Run | What it shows | Bounds |
|---|---|---|
| `tcp_any` | what is delivered is the stream from the join on (`ByteExact`), what is contiguous is drained (`DrainsUnlessRecut`), refinement of `ByteStream` | a stream of 6 bytes over the end of a sequence space of 8, all segmentations, 4 segments |
| `tcp_wrap` (violated) | an in-order capture stops at the wrap | as above |
| `decoder` | exact payload, exact packets, independence of segmentation, termination | 2 packets, 1 control frame, all framings and cuts, late join |
| `decoder_client` (violated) | the client side of MQTT/WS is never decoded | 2 packets |
| `latency` | a latency is that of a request with its id, once, and of the request answered if none disturbed it; no timely answer dropped by a racing sweep; sweeping | 2 ids, both ends, all kinds, 2 requests, 3 ticks, any lag, lossy |
| `store` | nothing lost, repeated or reordered before exit; ring covers disk; queue drains | ring of 2, 3 frames, 2 snapshots |
| `push_frames` | a connecting client misses nothing and gets twice only what its backfill repeats | 1 served and 1 refused client, 3 frames, backfill 2, 1 tick |
| `push_live` | closed clients are forgotten; frames arrive past a stalled client | 2 clients, 1 frame |
| `metrics` | unlocked reads never miss their element, completed reads are of their window, per-flow tables and export agree with the traffic | 2 flows, 3 frames, 3 ticks, a lag of up to 2, 2 samples |
| `page` | list, selection, banner and exports stay true; one connection; exports end and connections come back | 2 sockets, 2 queries, 3 frames of which 2 share an id, list of 2, backfill 1, 4 frames and clicks together |
| `demo_feed` | demo and live path describe a frame alike, fields tile it, payload, dumps and registers are those sent | 2 packets, limits of 2 to 16 bytes, counters that start at 65535 |
| `views` | graph, matrix, diagram, statistics, flow table and spreadsheet tell of the same packets; labels win; drawings stay inside and apart | 5 hosts, 5 kinds of packets, list of 3, 4 arrivals, 2 clicks, 4 steps together |

Why the bounds are enough. Four segments of up to six bytes give a hole, its filling, an
overlapping retransmission and a duplicate in one run, and the wrap lies two bytes after
the start, so that streams before, across and after it occur. Two packets make a
boundary inside a chunk, a packet over several chunks and a length field cut in two;
miniature types and lengths let body bytes look like headers, which late joins need. A
ring of two with three frames evicts; a backfill of two with three frames truncates. Two
clients suffice for one to stall or die while another waits behind it in the same
broadcast. Three frames fill and overflow an aggregator of two samples, let one frame go
stale while another is recorded and a third follows, and give a flow a first latency
during an export. Two requests
over two ids, two directions and three kinds are one id at both ends, one used again while
pending, and one mistaken; a third is covered by the proofs. In `page`, three frames go
through a list of two and outlast a backfill of one, a second socket repeats a frame into
the list, and four events let a query of one visit to the tab end during the export of the
next. The choices of `demo_feed` hold each function code and packet type with payloads
below, at and above each limit. In `views`, four arrivals into a list of three evict, the
hosts share a lane, one talks to itself, and `SlotLimit`, `MessageLimit`, `CdfPoints` and
`TalkerLimit` are small enough to be met; a `Unit` of 120 makes the places of lanes of up
to five devices, all there are, whole.

All bounds are CONSTANTS (`MaxPush`, `MaxPackets` of `Decoder`, `MaxPings`, `MaxTime`,
`MaxRequests`, `MaxFrames`, `MaxMetrics`, `MaxTicks`, `MaxSockets`, `MaxQueries`,
`MaxEvents`, `MaxClicks`, `MaxArrivals`, `MaxSteps`, `MaxSynthesized`) that guard the environment,
never the code's own steps, with one exception: `RetryConnect` needs a socket below
`MaxSockets`, and `Reconnects` says so. (`MaxPackets` of `Page` and `Views` is the
code's own `MAX_PACKETS`.) Deadlock checking is off because every model stops when its
bounds are used up.

### Fairness

Fairness is assumed only for code that runs once it has been called and for timers:
the drain loops of the decoder run to their end (one synchronous call); the ticker's sweep
and time go on (`_metrics_ticker` loops until stop); `serve` starts the store, whose
writer thread is scheduled; asyncio runs every ready task. In `PushServer` a stalled peer
is eventually read from or closed (the keepalive of websockets), and a task waiting for
a drain gets strong fairness, because its future is resolved the first time the transport
drains, even if the transport fills again. In `Page` (`PageFairSpec`) the retry timer and
the query timeouts fire and a closing socket closes; network and server owe nothing. No
packet, frame, client, query or click is ever assumed to come.

## 4. Findings

1. **Sequence wrap** (`tcp_wrap`, `sniffer/transport/tcp.py:42`): `next_seq` grows past
   2^32 while segments restart at 0, so all later segments count as already consumed.
2. **Client side of MQTT/WS** (`decoder_client`, `sniffer/transport/websocket.py:41`):
   only the server's head contains `HTTP/1.1 101`, and every direction has its own
   unmasker, so client frames are never unmasked.

Seen in the models, and left out of the properties or excused by them:

- Capture. `close` tries the response's own direction first (`sniffer/metrics/latency.py:48`),
  so when both ends use an id at the same time it matches the wrong request; so it does
  when a request is sent again, or another packet with the id is taken for a request or a
  response. `LatencyIsOwn` says what holds all the same, and of which request the latency
  then is. A Modbus read of an address 0x03xx is taken for a response
  (`sniffer/capture.py:278`) and never measured, although `README.md:303` says that a
  matching response yields the latency. A request opened under a key that the running
  sweep has just found stale may be dropped with it. After a late join a malformed packet
  stays at the head of `parse_buf` and the flow is silent (`sniffer/capture.py:185`,
  although `sniffer/protocols/mqtt.py:75` expects its caller to advance). Overlapping
  retransmissions leave segments in `pending`.
- Metrics. Two threads evicting the Modbus window may drop a fresh event from the error
  rate (`CapturePop` after `LoopPop` on the same head). A flow whose first latency
  arrives between the two loops of an unlocked export is left out of it. A metrics tick
  whose window changes under it reports nothing. A packet handled more than the Modbus
  window (60 s) after its capture would be evicted as it is recorded, and `PopFinds` and
  `ReadsAreWindowed` would fail; `LagAssumption` excludes it. A throughput read may
  count a lagging packet that came in after it had evicted.
- Server. A client that connects while a frame is on its way gets it twice. Queued
  items are lost at exit, always the newest ones.
- Connection. `disconnect()` is followed by a reconnection from `onclose`.
- Inspector. Under the registers of a live response the note of hidden bytes appears
  although none is hidden, because the reported length counts the byte-count byte
  (`frontend/app.jsx:474`). The counters of the demo mode are not reset at 65536 while
  the bytes are.
- Graph. The role inferred for a host may come from packets that were evicted, because
  the map is only made again for other endpoints (`frontend/graph.jsx:991`). Beyond 13
  edges between two lanes their shifts coincide. Labels that localStorage refuses are
  silently lost at the next visit, and two windows overwrite each other's.
- Page. A frame may be listed twice, and frames out of order, also on a first connection.
  Two packets of one segment with the same `correlation_id` and source port have the same
  id (`frontend/live.jsx:56`), and clicking one may inspect the other
  (`frontend/app.jsx:887`). The effect that scrolls to the newest packet depends on the
  length of the list, which stays the same once the cap is reached (`frontend/app.jsx:350`).

## 5. Proofs

Eight modules hold theorems, checked by TLAPS, for every value of the constants that satisfies the
assumptions of the module proved about.

`TCPReassembly_proof`, from `SeqSpaceAssumption` (a sequence space of any size, one
connection sends less than it) and `SegmentsAssumption` (segments lie in the stream):

- `TypeCorrect`: `Spec => []TypeOK`; `Reassembly`: `Spec => []ReassemblyInv`.
- `DeliveredIsContiguous`: `Spec => []ByteExact`.
- `RefinesByteStream`: `Spec => Stream!Spec`.

`ByteExact` is not inductive: that the next chunk continues the stream depends on what
is in `pending`. `ReassemblyInv` adds the two facts the argument needs. First,
`next_seq`, counted from `initial_seq`, is the position after the last byte returned or
drained. Second, every buffered payload carries the bytes its key announces
(`BufferedBytes`). The second is where the wrap enters: a segment from before a wrap
that the sniffer joined after has a key far beyond the stream's end, can never equal
`next_seq`, and is excused by the first disjunct. `AlreadyConsumed` then ensures that a
segment from after the wrap is dropped rather than misplaced: the wrap costs
completeness, never correctness. The step proof has one step per action; `TrimBytes` and
`ConcatBytes` carry the sequence arithmetic and `BufferKeyPos` the position of a new key.
The refinement proof maps the first data segment to `Join`, a return with bytes to
`Extend`, everything else to a stutter.

`DrainsAll`: `Spec => []DrainsUnlessRecut`. `InPlace`, which holds while no segment was
cut anew and none lies beyond a wraparound, says that every captured segment ends before
the next byte or waits in `pending` under its own position, that `pending` holds whole
captured segments only, and that the next byte begins where a segment ended. `Landing`
derives from it that an arriving segment is either consumed or has nothing to trim: the
cases that make re-cut retransmissions lose bytes are exactly the excluded ones.

`Decoder_proof`, for any packets, framing and chunks, from `DecoderAssumption` and
`PacketsAssumption` (what a sender sends are whole packets of its protocol: the parser,
given one, takes exactly its bytes; the first run checks it of its packets):

- `PayloadIsIntact`: `Spec => []PayloadIntact`, from `StreamInvariant`: `Spec => []StreamInv`.
  What the unmasker has not handed over is an untouched suffix of the frames sent, which
  continues a message exactly if fragments are held (`Opened`). Each iteration of
  `_drain` takes a whole frame off its head (`FrameAtHead`, `FrameCut`), a control frame
  in between leaves the fragments alone, and a cut inside a frame changes nothing. Flows
  without captured handshake are shown never to be upgraded (`ClosedInv`), which rests on the
  head with 101 being nowhere but at the start of what a server sends (`WireInv`).
- `PacketsAreExact`: `Spec => []PacketsExact`. `ParserInv`: the packets emitted and
  `parse_buf` are together what arrived, the packets are a prefix of those sent, and the
  loop stops only where nothing can be parsed or skipped. What makes it inductive is that a
  parser that has found a packet finds the same one however many bytes follow
  (`ParseStable`), and that the start of a stream of whole packets can neither be skipped
  nor be cut elsewhere.
- `SegmentationIsIrrelevant`: `Spec => []SegmentationIrrelevant`, also after a late join.
  `DecodeInv` quantifies over everything that may still arrive: decoding it behind what is
  left in `parse_buf` completes the packets emitted to those of one go over all bytes.

`Metrics_proof`, with `LagAssumption` (a packet is handled within the Modbus window of its
capture):

- `PercentileIsSafe`: `Spec => []PercentileFinds`, from `CapacityAssumption` (the capacity
  exceeds what the highest percentile needs: at least 100 samples for 99/100). The
  invariant is `OrderInv`: the sorted list never shrinks below what a reader saw of its
  capacity; `IndexBelowCapacity` is the arithmetic.
- `EvictionIsSafe`: `Spec => []PopFinds`. The invariant `EvictInv` says that the capture
  thread's own event is the youngest of the window while it evicts, and fresh however far it lags,
  so a head
  found stale is never the only event (`StaleHeadIsNotAlone`); when both threads are about
  to pop, two events are there.
- `TablesAgree`: `Spec => []FlowTablesAgree`. `TablesInv` says how far the step of `record`
  under way has brought the four tables into line, `LastInv` that the last time kept of a
  flow is at least that of its recent frames, from packet times that never run
  back (`ClockInv`, `SortedInv`).
- `ExportIsOnce`: `Spec => []ExportedOnce`. `RowsInv`: the export's first loop lists what it
  visits, its second loop what it visits except flows that have latencies.
- `WindowsAreRead`: `Spec => []ReadsAreWindowed`. Frames are in order of time
  (`SortedInv`), so an eviction that pops from the head pops all that is over
  (`EvictedIs`). The throughput window is a run of consecutive frames whose cut lies at
  the reader's cutoff while it sums, but for packets that lagged behind that cutoff and came in
  since (`RatesInv`); a Modbus window whose head was found fresh
  stays fresh whatever the capture thread appends and pops (`ErrorsInv`); and a measured
  frame is missing from the recent samples only if it is over (`RecentInv`).

`LatencyTracker_proof`, for any set of ids used and used again by both ends, any kinds of
exchange, any loss, any lag and any interleaving with the sweep; the only assumption is
`LatencyAssumption` (the constants are of their kinds):

- `LatencyBelongs`: `Spec => []LatencyIsOwn`. `FreshInv`: of what is pending no latency was
  made, so `close`, whichever key it finds, makes the first of a captured request with the
  packet's id.
- `NoTimelyAnswerDropped`: `Spec => []AnsweredIsMeasured`.

`OwnInv` carries the rest of both: while no captured packet with its id disturbs an
exchange, its own entry is the only one `close` can find, it is there unless it is stale,
and a sweep that holds its key saw it stale. The sweep keeps that true because its cutoff
lies no later than the clock's while it goes on (`SweepInv`), and because a request opened
under a key that the sweep holds is the one case the property leaves out.

`Store_proof`, for any ring size and any number of frames and snapshots:

- `RingCovers`: `Spec => []RingCoversDisk`. `RingInv`: the ring is the last frames in
  order; `PathInv`: what is queued, in hand or on disk was recorded, thus put into the
  ring, before.
- `NothingLost`: `Spec => []NothingLostOnTheWay`. `WayInv`: rows, hand and queue, without the
  stop marks, are together what was submitted except what SQLite refused, and no item is
  there twice. The second part is what an INSERT that fails needs: it takes its item out
  of both sides, and only an item that is there once leaves exactly one place. That no
  item is twice follows from frames and snapshots being numbered by the two threads that
  put them (`WasPut`), a frame only after its ring entry.

`PushServer_proof`: `SentExactly`: `Spec => []FramesSentExactly`, for any number of
clients, frames and backfilled frames. The invariant counts: what was sent to a client of a
frame, what its backlog still holds and what a broadcast will still bring add up to at
most one, or two for a frame older than the client (`CountInv`), and at least one if the
frame is owed (`OwedInv`). It rests on `KnownInv` (an open client being served is in
`clients`, and one found dead is closed) and on the snapshot a broadcast takes.

`ServerIsFeed`: `Spec => Promise!FeedSpec`, where `Promise` is `Feed` under the mapping that
forgets how the server waits: a frame is unsent from its ring entry until its task starts
(`Waiting`), a client is served while it is in `clients` and open, its backlog is what the
handler has yet to send without the final snapshots (`FramesOf`), and due to it are the
broadcasts that have yet to reach it (`DueTo`). A write is a delivery, a disconnection a
`Leave`, and everything between is a stutter; `GoneInv` adds what the mapping needs of
handlers that are over.

`Page_proof`:

- `OneSocket`: `PageSpec => []OneConnection`. `ConnInv`: a socket that is alive is the
  current one, and then no retry is scheduled.
- `BannerIsHonest`: `PageSpec => []BannerTellsTroubles`. `BannerInv`: the timer that
  collapses the banner runs only while the state is "ok".
- `ButtonsFollowExport`: `PageSpec => []BusyIsTrue`. `ExportInv`: a new query is new, no
  export belongs to a later visit than the present one, and of the present one at most
  one is pending.
- `NoGap`: `PageSpec => []ListHasNoGap`, on `Feed`, without any assumption about order.
  `ListInv`, for every socket the server serves: each frame of its backfill or recorded
  since is shown, was dropped, or is still to come in one of three ways (unsent, due, in
  the backlog); and one recorded since comes in just one of them, once, and not while it
  is shown.
- `ChosenIsShown`: `PageSpec => []InspectedIsChosen`, for any assignment of ids to frames.
  `ChosenInv`: an id that was drawn belongs to one frame, in the list and of the choice,
  also after its row is gone; one that was built is the frame's `Identity`.
- `ExportsEndOnce`: `PageSpec => []ExportsAreFaithful`. `FilesInv`: a query settles at most
  once and not before it is sent, whether a reply or its timeout comes first, and files and
  queries answered with writable data correspond one to one, in the format asked for.

`Views_proof`, for any traffic, presets, limits and edits, from `LabelsAssumption` (an
earlier visit saved no entry without a field and only for known addresses),
`TrafficAssumption` (what a packet is), `HostAssumption` (the addresses in their order, none
twice), `PresetAssumption` (the presets lie in known lanes), `MessageAssumption` and
`AnalysisAssumption` (limits are numbers, and a CDF has a point) and `ViewAssumption` (a view
is at least 400 by 300, as the `ResizeObserver` of `graph.jsx` makes it; `Unit` makes the
places of the topology whole):

- `MapIsComplete`: `Spec => []GraphIsComplete`. The remembered map need not be the one of
  the present list, only of a list with the same endpoints; `MapInv` says so, and
  `MapsDifferInRoles` that such maps have the same hosts and differ in inferred roles only.
- `UserWins`: `Spec => []OverridesWin`. `LabelsInv`: no edit leaves an entry without a field,
  and what is stored is what is shown unless saving failed.
- `AllViewsAgree`: `Spec => []ViewsAgree`. `MapInv` gives that the filter on known hosts,
  which the graph applies and the diagram does not, drops nothing: the map has every host
  of the list although it is remembered. `ListsInv` keeps what packets and labels are.
  Edges, nodes, cells of the matrix and lanes are then sums of ones or of sizes over the
  same packets, grouped by different keys.
- `Quantiles`: `Spec => []StatsAreQuantiles`. `Sorted` puts a list in order without losing an
  element, so the rank of a percentile bounds how many lie below it and up to it; what a
  thinned CDF keeps are ranks that rise to the last.
- `LedgerAddsUp`: `Spec => []FlowsAddUp`. Flows refine the pairs of the matrix, and every
  total is the same sum over other groups; a level of the topic tree is its own packets
  and those of the levels right below it (`PathAddsUp`).
- `SheetIsTheTable`: `Spec => []SheetKeepsTable`. At the end of every line the state of the
  loop of `csvToRows` is the rows so far with nothing begun (`ReadLine`), whatever text
  follows, so a text of lines is read row by row (`ReadLines`, by induction over the rows,
  `SeqInduction`); the two styles differ in what one token is written as (`Written`). A cell
  is a number in the model, so a value that itself holds a quote or a comma is not covered.
- `NothingOverlaps`: `Spec => []DrawnApartInside`. Each pass over a lane places all its devices
  once more (`PlacedKeeps`), because ranking them by busy state and neighbours is a weak order
  of fractions (`FractionsOrder`, `RankedOnce`), which a stable sort turns into a permutation;
  the recursive passes then keep all devices placed, inside and apart (`AllPlaced`). Slots of
  the curves of a lane are their ranks in a strict order, so they differ until the limit of
  the shift is met (`SlotsRise`, `SlotsFit`). In the charts every domain is at least 1 or has
  an end that is met (`ScalesInside`), percentiles are below the maximum that scales them
  (`SummaryDrawable`), and the gaps between packets are never negative because the list is
  in order of time (`TimesInv`), also after the oldest packets gave way.

The lemmas between the theorems are about any list. On order: a finite set placed in a total
order is a bijection that rises (`InOrder`, `Sublist`, `Distinct`, `Sorted`). On sums: the
library's sum over a set is a `CHOOSE` of a recursive function, whose existence is proved by
size of the set, and which then adds up over disjoint sets. On groups: a sum over a list is
the sum over its classes of the sums within them (`SumOfClasses`, `SumOfGroups`).

The library's induction theorems take an operator and cannot be instantiated here.
Where a proof needs induction over data (`FlattenSeq`, `Kept`, `Decoded`, sums, the length
of an eviction), it takes the least counterexample of a set (`WFMin`) instead and unfolds
the recursive function, which is a `CHOOSE` whose existence is proved first.

Model-checked only:

- liveness: `DrainReturns`, `StaleIsSwept`, `QueueDrains`, `ClosedAreForgotten`,
  `FramesArrive`, `ExportEnds` and `Reconnects`, since fairness and ENABLED are outside the
  prover;
- the four properties of `demo_feed`, which are about field maps and dumps byte by byte,
  made with nested folds over concrete layouts: TLC evaluates them for each kind of
  packet, and their only state is two counters.

## 6. Not modelled

- Capture: scapy; the reuse of a flow's state by a later connection on the same ports
  (`sniffer/capture.py:116`); summaries and texts of frames.
- Metrics: jitter (floating point), the reconnect and retransmit counters (single
  additions), per-protocol statistics, and the per-flow and per-topic throughput windows,
  which nothing reads or evicts.
- Server: `request_stop` and signals, the perf ticker (it broadcasts as the metrics ticker
  does), token comparison (`_check_auth` is the set `Authorized`). SQL text and the
  export queries, each a single SELECT.
- Page: top bar, key figures, sparkline, rail filter and automatic scrolling, hover and
  tooltips, the switch between the views of the graph, theme, number and time formats,
  text decodings of a payload, file names, the cleaning of loaded labels.
- Markup, styles, images and deployment.

The reasons are the same throughout: formatting without a state that a property could
be about, a single addition or assignment, or pure I/O.

## 7. Plan

Done: the modules and proofs above. Left, most important first:

1. `CaptureEngine`: composition of `TCPReassembly` and `Decoder` for the flows of one
   connection, with flow reuse; the decoder's assumption that it is fed a contiguous
   stream discharged by `ByteStream`.
2. The server's lifecycle: `request_stop`, the cancelled tickers and `Store.stop` as one
   behaviour, with the delay of the latency sweep by a stalled client.
3. Per-protocol statistics and the test-then-store race on them
   (`sniffer/metrics/perf.py:144`).
4. Proofs: of `demo_feed` that the counters and their two bytes agree.
